------------------------------- MODULE Releases -------------------------------
(***************************************************************************)
(* The registry of agent releases: server/app/releases. An operator stages *)
(* a bundle; register validates and copies it into a content-addressed     *)
(* store, verify checks the stored bytes again, activate approves it and   *)
(* makes it the one release that upgrades install. Every use validates the *)
(* stored bytes first.                                                     *)
(*                                                                         *)
(* A release is named by the digest of its archive, which fixes the digest *)
(* of its wheel; Version is the version in its manifest.                   *)
(***************************************************************************)
EXTENDS Naturals

CONSTANTS
  Release,        \* the bundles an operator may stage
  Version(_),     \* the version each carries
  Bootstrap,      \* the release that is active in the beginning
  Registered,     \* the others that are registered by then
  None

ASSUME RegistryMakesSense == Bootstrap \in Release /\ Registered \subseteq Release \ {Bootstrap}

VARIABLES
  status,      \* RegisteredAgentRelease.status, "ABSENT" without a row
  selection,   \* AgentReleaseSelection.archive_sha256
  stored       \* the objects of the store that validate

registryVars == <<status, selection, stored>>

RegistryInit ==
  /\ status = [r \in Release |-> IF r = Bootstrap THEN "APPROVED"
                                ELSE IF r \in Registered THEN "VERIFIED" ELSE "ABSENT"]
  /\ selection = Bootstrap
  /\ stored = Registered \union {Bootstrap}

\* validate and _checked: the bytes in the store are still those registered.
Checked(r) == r \in stored

\* import_candidate: the object is in place before the row is looked for.
Imported(r) == stored \union {r}

\* Registering again is idempotent; the version of other bytes is refused.
VersionIsTaken(r) == \E other \in Release \ {r} : status[other] # "ABSENT" /\ Version(other) = Version(r)
Register(r) ==
  /\ stored' = Imported(r)
  /\ status' = IF status[r] = "ABSENT" /\ ~VersionIsTaken(r)
               THEN [status EXCEPT ![r] = "VERIFIED"] ELSE status
  /\ UNCHANGED selection

Activate(r) ==
  /\ status[r] \in {"VERIFIED", "APPROVED"} /\ Checked(r)
  /\ status' = [status EXCEPT ![r] = "APPROVED"]
  /\ selection' = r
  /\ UNCHANGED stored

\* The store loses an object, or a byte of it.
LoseObject(r) ==
  /\ r \in stored
  /\ stored' = stored \ {r}
  /\ UNCHANGED <<status, selection>>

\* active_artifact and archive_for; None is ReleaseUnavailable.
ActiveArtifact ==
  IF selection # None /\ status[selection] = "APPROVED" /\ Checked(selection) THEN selection ELSE None
ArchiveFor(r) == IF status[r] = "APPROVED" /\ Checked(r) THEN r ELSE None
=============================================================================
