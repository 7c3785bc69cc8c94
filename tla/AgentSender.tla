----------------------------- MODULE AgentSender -----------------------------
(***************************************************************************)
(* The agent's loop on each host: agent/src/skybeat_agent/runtime.py and   *)
(* transport.py. A cycle builds one snapshot and sends it; the attempts at *)
(* it carry the same heartbeat_id, and a snapshot that was not sent is     *)
(* given up for the next one. There is one attempt at a time. Between      *)
(* cycles the agent is idle: for its interval, for the 300 seconds after a *)
(* refusal, for the server's Retry-After or for the outage delay. How long *)
(* is not modelled.                                                        *)
(*                                                                         *)
(* A heartbeat is named by its host and a number that neither a request    *)
(* nor the agent still holds, for the server need not tell it from earlier *)
(* ones.                                                                   *)
(***************************************************************************)
EXTENDS Naturals

CONSTANTS
  Host,
  Beat,          \* bound: the heartbeats of a host that are about at once
  MaxAttempts,   \* max_attempts
  None

VARIABLES
  config,   \* agent.env: the credential a host is configured with, None without
  sender    \* the agent process: its credential, and where it is in its cycle

senderVars == <<config, sender>>

Off == [phase |-> "off", credential |-> None, beat |-> None, attempt |-> 0]
SenderInit(configured) ==
  /\ config = configured
  /\ sender = [h \in Host |-> IF config[h] = None THEN Off
                             ELSE [Off EXCEPT !.phase = "idle", !.credential = config[h]]]

\* The agent is started, or restarted, with the environment the file has by then.
AgentStarts(h) ==
  /\ sender' = [sender EXCEPT ![h] = [Off EXCEPT !.phase = "idle", !.credential = config[h]]]
  /\ UNCHANGED config

\* A new snapshot, or the next attempt at the same.
Attempt(h, beat) ==
  /\ \/ sender[h].phase = "idle"
     \/ sender[h].phase = "retrying" /\ beat = sender[h].beat
  /\ sender' = [sender EXCEPT ![h].phase = "waiting", ![h].beat = beat, ![h].attempt = @ + 1]
  /\ UNCHANGED config

CycleEnds(h) == sender' = [sender EXCEPT ![h].phase = "idle", ![h].beat = None, ![h].attempt = 0]

\* No answer, or one of a failing server: another attempt, or the outage delay.
TryAgain(h) ==
  IF sender[h].attempt < MaxAttempts THEN sender' = [sender EXCEPT ![h].phase = "retrying"]
  ELSE CycleEnds(h)

\* What send makes of a status: an acknowledgement, a refusal and a limit end the
\* cycle, with pauses of different lengths.
Receive(h, status) ==
  /\ IF status = 503 THEN TryAgain(h) ELSE CycleEnds(h)
  /\ UNCHANGED config

ConnectionFails(h) == sender[h].phase = "waiting" /\ TryAgain(h) /\ UNCHANGED config

\* The deadline of all attempts, or a crash: the request may still be with the server.
DeadlinePasses(h) ==
  sender[h].phase \in {"waiting", "retrying"} /\ CycleEnds(h) /\ UNCHANGED config
=============================================================================
