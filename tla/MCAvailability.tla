--------------------------- MODULE MCAvailability ---------------------------
(* Availability on a fleet of two: the agent of d1 sends enough heartbeats   *)
(* for repeated outages, the agent of d2 enough for one recovery.            *)
EXTENDS Availability

CONSTANTS d1, d2

Fleet == {d1, d2}

HeartbeatBounds == [d \in Fleet |-> IF d = d1 THEN 2 ELSE 1]
=============================================================================
