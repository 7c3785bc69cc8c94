------------------------------ MODULE LogWatch ------------------------------
(***************************************************************************)
(* The agent's log cycle: agent/src/skybeat_agent/log_watch.py,            *)
(* collectors/logs.py, collectors/process.py, and the log task of          *)
(* runtime.py. A cycle goes through the sources in their order; for each   *)
(* it runs journalctl, which may fail, take too long or not even end when  *)
(* it is killed, and sends what it printed with at most two attempts.      *)
(* Nothing is queued: what is not sent is collected again in the next      *)
(* cycle, as long as it is in the last five minutes of the journal.        *)
(*                                                                         *)
(* Entries are numbered in the order of the journal and all of one size.   *)
(***************************************************************************)
EXTENDS Integers, Sequences, Functions, Ordered

CONSTANTS
  None,
  Sources,        \* SOURCES, in their order
  Kind,           \* what writes to the journal: the unit's own source, or another
  Everything,     \* the source that shows every entry: system_journal
  Since,          \* --since
  MaxLines,       \* --lines
  MaxFitting,     \* entries within MAX_MESSAGE_BYTES_TOTAL
  MaxUpload,      \* MAX_UPLOAD_ENTRIES, and what fits in MAX_BODY_BYTES
  MaxEntries      \* bound: entries of the journal

VARIABLES
  journal,    \* the host's journal
  cycle,      \* the log task: where it is, with which source, what it sends
  process,    \* the journalctl that BoundedProcess has started
  paused      \* _next_send_at is in the future

watchVars == <<journal, cycle, process, paused>>

Idle == [phase |-> "idle", at |-> 0, upload |-> None, attempt |-> 0]

WatchInit ==
  /\ journal = <<>> /\ cycle = Idle
  /\ process = "none" /\ paused = FALSE

\* A process of the host writes a line, with the host's clock.
Written(kind, clock) ==
  /\ Len(journal) < MaxEntries
  /\ journal' = Append(journal, [hash |-> Len(journal) + 1, kind |-> kind, occurred |-> clock])
  /\ UNCHANGED <<cycle, process, paused>>

(***************************************************************************)
(* collect.                                                                *)
(***************************************************************************)
Earlier(a, b) == a.hash < b.hash
Later(a, b) == a.hash > b.hash

\* What journalctl prints for a source.
Printed(source, clock) ==
  LET lines == {entry \in Range(journal) :
                  (source = Everything \/ entry.kind = source) /\ entry.occurred >= clock - Since}
  IN First(MaxLines, lines, Later)

\* parse_journal reads from the oldest line and stops where the next does not fit.
Parsed(lines) == First(MaxUpload, First(MaxFitting, lines, Earlier), Later)

Upload(status, lines) ==
  [source |-> Sources[cycle.at], status |-> status, attempt |-> 0,
   entries |-> {[hash |-> entry.hash, occurred |-> entry.occurred] : entry \in Parsed(lines)}]

\* The runtime starts a cycle when the last one is done and the interval has passed.
CycleStarts ==
  /\ cycle = Idle
  /\ cycle' = [Idle EXCEPT !.phase = "collecting", !.at = 1]
  /\ UNCHANGED <<journal, process, paused>>

NextSource ==
  cycle' = IF cycle.at = Len(Sources) THEN Idle
           ELSE [Idle EXCEPT !.phase = "collecting", !.at = cycle.at + 1]

\* send begins, or gives up at once while the server's pause lasts.
Collected(status, lines) ==
  IF paused THEN NextSource
  ELSE cycle' = [cycle EXCEPT !.phase = "ready", !.upload = Upload(status, lines)]

JournalRead(clock) ==
  /\ cycle.phase = "collecting" /\ process = "none"
  /\ Collected("available", Printed(Sources[cycle.at], clock))
  /\ UNCHANGED <<journal, process, paused>>

\* An earlier journalctl that could not be stopped is still there.
JournalBusy ==
  /\ cycle.phase = "collecting" /\ process = "stuck"
  /\ Collected("collection_error", {})
  /\ UNCHANGED <<journal, process, paused>>

\* Not permitted, or it cannot be started, fails, prints too much or takes too long and is stopped, or
\* cannot be stopped.
JournalFails ==
  /\ cycle.phase = "collecting" /\ process = "none"
  /\ \/ Collected("permission_unavailable", {}) /\ UNCHANGED process
     \/ Collected("collection_error", {}) /\ process' \in {"none", "stuck"}
  /\ UNCHANGED <<journal, paused>>

StuckEnds == process = "stuck" /\ process' = "none" /\ UNCHANGED <<journal, cycle, paused>>

(***************************************************************************)
(* send.                                                                   *)
(***************************************************************************)
Attempt ==
  /\ cycle.phase = "ready"
  /\ cycle' = [cycle EXCEPT !.phase = "waiting", !.attempt = @ + 1]
  /\ UNCHANGED <<journal, process, paused>>

\* No answer, or one of a failing server.
TryAgain == IF cycle.attempt < 2 THEN cycle' = [cycle EXCEPT !.phase = "ready"] ELSE NextSource

\* A refusal and a limit pause every source.
Receive(status) ==
  /\ IF status = 503 THEN TryAgain ELSE NextSource
  /\ paused' = (paused \/ status \in {401, 429})
  /\ UNCHANGED <<journal, process>>

ConnectionFails ==
  /\ cycle.phase = "waiting" /\ TryAgain
  /\ UNCHANGED <<journal, process, paused>>

PauseEnds == paused /\ paused' = FALSE /\ UNCHANGED <<journal, cycle, process>>

\* The agent is stopped, which cancels the task and closes the collector, and started again.
AgentRestarts ==
  /\ cycle' = Idle /\ process' = "none" /\ paused' = FALSE
  /\ UNCHANGED journal
=============================================================================
