---------------------------- MODULE Installation ----------------------------
(***************************************************************************)
(* What a monitored host promises the operator who upgrades its agent or   *)
(* takes it back (docs/DEPLOYMENT.md "Stage 12J agent lifecycle bootstrap  *)
(* and recovery"), with no disk, no timer and no message in it.            *)
(*                                                                         *)
(* The host keeps one release, a good one. Operations are attempted one at *)
(* a time, each once, in the order in which they are asked for. An attempt *)
(* moves the host to its target at most once, and never back: until the    *)
(* host is committed to the target it keeps the old release, from then on  *)
(* the new one, and it commits only while the new release runs on it. An   *)
(* attempt ends with one result, which says which release the host keeps,  *)
(* and the host stays there until the next attempt. Only ROLLBACK_FAILED   *)
(* may leave a switch open, to be committed or given up later on.          *)
(***************************************************************************)
EXTENDS Naturals

CONSTANTS
  Bootstrap,   \* the release installed by hand first
  Broken,      \* releases whose service never becomes healthy
  None

VARIABLES
  installed,   \* the release the host keeps, through every interruption
  running,     \* the release whose service runs, None when it is stopped
  switch,      \* the switch under way, None when there is none
  attempt,     \* the operation attempted, where it starts and its result
  turn         \* how many operations have been attempted

vars == <<installed, running, switch, attempt, turn>>

Init ==
  /\ installed = Bootstrap /\ running = Bootstrap
  /\ switch = None /\ attempt = None /\ turn = 0

Unfinished == attempt # None /\ attempt.final = None

Begin ==
  /\ attempt = None /\ switch = None
  /\ attempt' # None /\ attempt'.final = None /\ attempt'.previous = installed
  /\ attempt'.op.id = turn + 1 /\ turn' = turn + 1
  /\ UNCHANGED <<installed, running, switch>>

(* The service stops, and the old release gives way to the target. *)
Depart ==
  /\ Unfinished /\ switch = None
  /\ switch' = [from |-> installed, to |-> attempt.op.target]
  /\ running' = None
  /\ UNCHANGED <<installed, attempt, turn>>

Commit ==
  /\ switch # None /\ installed = switch.from
  /\ running = switch.to /\ running \notin Broken
  /\ installed' = switch.to /\ switch' \in {switch, None}
  /\ UNCHANGED <<running, attempt, turn>>

(* A switch is over: committed, or given up. *)
Close ==
  /\ switch # None
  /\ switch' = None
  /\ UNCHANGED <<installed, running, attempt, turn>>

(* The service stops, dies or starts: outside a switch only from the release  *)
(* kept. (A release that is given up may go on running until the next stop.)  *)
Run ==
  /\ running' # running
  /\ switch = None => running' \in {None, installed}
  /\ UNCHANGED <<installed, switch, attempt, turn>>

(* What a result says of the host. A rollback that FAILED may have moved it: *)
(* its own recovery failed, or power did after it had succeeded.             *)
Truthful(op, start, final) ==
  /\ final.state = "SUCCEEDED" => installed = op.target
  /\ final.state = "ROLLED_BACK" /\ op.action = "UPGRADE" => installed = start
  /\ final.state = "ROLLED_BACK" /\ op.action = "ROLLBACK" => installed = op.target
  /\ final.state = "FAILED" /\ op.action = "UPGRADE" => installed = start
  /\ final.state = "FAILED" /\ op.action = "ROLLBACK" => installed \in {start, op.target}
  /\ final.state # "ROLLBACK_FAILED" => switch = None

Finish ==
  /\ Unfinished /\ attempt' # None /\ attempt'.final # None
  /\ attempt' = [attempt EXCEPT !.final = attempt'.final]
  /\ Truthful(attempt.op, attempt.previous, attempt'.final)
  /\ UNCHANGED <<installed, running, switch, turn>>

(* The server has the result, or has gone on to another operation. *)
Forget ==
  /\ attempt # None /\ attempt.final # None
  /\ attempt' = None
  /\ UNCHANGED <<installed, running, switch, turn>>

Next == Begin \/ Depart \/ Commit \/ Close \/ Run \/ Finish \/ Forget

Spec == Init /\ [][Next]_vars

-----------------------------------------------------------------------------

(* The host keeps a release whose service can run, and while an operation is  *)
(* attempted it is the one it started from or the operation's target.         *)
KeepsGoodRelease ==
  /\ installed \notin Broken
  /\ attempt # None => installed \in {attempt.previous, attempt.op.target}

=============================================================================
