------------------------------ MODULE MCUpgrade ------------------------------
(* Upgrade for two releases, numbered by their versions: 1 is installed and  *)
(* 2 is newer. Three operations are the fewest with which a switch finds an  *)
(* environment already retained (an upgrade, a rollback, the upgrade again), *)
(* and two faults the fewest that leave its removal half done.               *)
EXTENDS Upgrade

SameNumber(r) == r
KnownFields == AllowedFields
=============================================================================
