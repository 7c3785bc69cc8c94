--------------------------- MODULE OutageContract ---------------------------
(***************************************************************************)
(* What the availability component promises the operators who read its     *)
(* alerts (docs/ALERTING.md sections 8, 9, 10 and 14), with no clock, no   *)
(* sweep and no heartbeat in it.                                           *)
(*                                                                         *)
(* A device is up or down. Its outages are numbered 1, 2, ... in the order *)
(* they are raised, each by one DEVICE_OFFLINE alert; an outage is cleared, *)
(* by one DEVICE_RECOVERED alert, at most once and only after it was       *)
(* raised. No outage is raised while another one is not cleared. An outage *)
(* noticed only when the device is heard again is raised and cleared in    *)
(* the same step.                                                          *)
(***************************************************************************)
EXTENDS Naturals

CONSTANT Device

VARIABLES
  down,     \* down[d]: the device is reported OFFLINE
  raised,   \* raised[d]: how many outages of d have been raised
  cleared   \* cleared[d]: the outages of d that have been cleared

vars == <<down, raised, cleared>>

Init ==
  /\ down    = [d \in Device |-> FALSE]
  /\ raised  = [d \in Device |-> 0]
  /\ cleared = [d \in Device |-> {}]

(* The device falls silent: a new outage begins. *)
Raise(d) ==
  /\ ~ down[d]
  /\ raised' = [raised EXCEPT ![d] = @ + 1]
  /\ down' = [down EXCEPT ![d] = TRUE]
  /\ UNCHANGED cleared

(* The device is heard again: its latest outage, still open, ends. *)
Clear(d) ==
  /\ down[d]
  /\ raised[d] \notin cleared[d]
  /\ cleared' = [cleared EXCEPT ![d] = @ \union {raised[d]}]
  /\ down' = [down EXCEPT ![d] = FALSE]
  /\ UNCHANGED raised

(* The device is heard again before anybody noticed that it was silent. *)
RaiseAndClear(d) ==
  /\ ~ down[d]
  /\ raised' = [raised EXCEPT ![d] = @ + 1]
  /\ cleared' = [cleared EXCEPT ![d] = @ \union {raised[d] + 1}]
  /\ UNCHANGED down

Next == \E d \in Device : Raise(d) \/ Clear(d) \/ RaiseAndClear(d)

Spec == Init /\ [][Next]_vars

=============================================================================
