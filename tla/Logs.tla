--------------------------------- MODULE Logs ---------------------------------
(***************************************************************************)
(* From the journal of a host to a page of the dashboard: the agent's log  *)
(* cycle (LogWatch), the upload endpoint of server/app/api/logs.py with    *)
(* the log store behind it (LogStore), and a reader of the device's logs   *)
(* and of an incident's diagnostics. The worker's retention runs beside    *)
(* them (worker.py).                                                       *)
(*                                                                         *)
(* An attempt at an upload or its answer may be lost, and the server may   *)
(* act on an attempt after the agent has given it up: attempts of several  *)
(* cycles may reach the store together and in any order.                   *)
(***************************************************************************)
EXTENDS LogStore, Sequences

CONSTANTS
  Sources, Kind, Everything, Since, MaxLines, MaxFitting, MaxUpload, MaxEntries,  \* see LogWatch
  Skew,         \* by how much the host's clock may be ahead
  Query,        \* what the reader asks for
  Incidents,    \* what the reader looks for the cause of: when each was opened and closed
  MaxCycles,    \* bound: log cycles
  MaxFaults     \* bound: what fails

ASSUME ClocksTellTime ==
  /\ Skew \subseteq Int
  /\ \A incident \in Incidents : incident.opened \in Int /\ incident.closed \in Int \union {None}
ASSUME SourcesAreKnown == Sources \in Seq(Source) \ {<<>>}
\* What recent lets pass.
ASSUME QueriesAreValid ==
  \A query \in Query : query.limit \in Nat \ {0} /\ query.direction \in {"newest", "oldest"}
ASSUME NoneIsNoCursor == None \notin [query : Query, id : Nat]

VARIABLES
  journal, cycle, process, paused,   \* see LogWatch
  skew,         \* of the host's clock
  requests,     \* uploads the server has yet to take
  authorised,   \* the agent's credential is live and the device enabled
  reading,      \* the pages a reader has by now, and the rows there were when it began
  cycles, faults

Agent == INSTANCE LogWatch

agentVars == <<journal, cycle, process, paused>>
boundVars == <<cycles, faults>>
vars == <<now, storeVars, agentVars, skew, requests, authorised, reading, boundVars>>

Init ==
  /\ now = 0 /\ StoreInit /\ Agent!WatchInit
  /\ skew \in Skew /\ requests = {} /\ authorised = TRUE
  /\ reading = None
  /\ cycles = 0 /\ faults = 0

Clock == now + skew
Fault == faults < MaxFaults /\ faults' = faults + 1

ServerUnchanged == UNCHANGED <<now, storeVars, skew, authorised, reading>>

(***************************************************************************)
(* The host.                                                               *)
(***************************************************************************)
LogCycleStarts ==
  /\ cycles < MaxCycles /\ cycles' = cycles + 1 /\ UNCHANGED faults
  /\ Agent!CycleStarts /\ UNCHANGED requests /\ ServerUnchanged

Host ==
  /\ \/ \E kind \in Kind : Agent!Written(kind, Clock)
     \/ Agent!JournalRead(Clock) \/ Agent!JournalBusy \/ Agent!StuckEnds \/ Agent!PauseEnds
  /\ UNCHANGED <<requests, boundVars>> /\ ServerUnchanged

HostFails ==
  /\ Fault /\ UNCHANGED cycles
  /\ Agent!JournalFails \/ Agent!AgentRestarts
  /\ UNCHANGED requests /\ ServerUnchanged

UploadSent ==
  /\ Agent!Attempt
  /\ requests' = requests \union {[cycle.upload EXCEPT !.attempt = cycle'.attempt]}
  /\ UNCHANGED boundVars /\ ServerUnchanged

Awaited(request) ==
  cycle.phase = "waiting" /\ request = [cycle.upload EXCEPT !.attempt = cycle.attempt]

\* The attempt is lost, or the agent waits no longer.
AttemptFails ==
  /\ Fault /\ UNCHANGED cycles
  /\ Agent!ConnectionFails
  /\ requests' \in {requests, {r \in requests : ~Awaited(r)}}
  /\ ServerUnchanged

(***************************************************************************)
(* upload_logs.                                                            *)
(***************************************************************************)
\* The agent is told, unless it does not wait or the answer is lost.
Answer(request, status) ==
  IF ~Awaited(request) THEN UNCHANGED <<agentVars, faults>>
  ELSE \/ Agent!Receive(status) /\ UNCHANGED faults
       \/ Fault /\ Agent!ConnectionFails

\* Authentication takes the lock of the device.
UploadTaken(request) ==
  /\ authorised /\ AcceptReads(request)
  /\ requests' = requests \ {request}
  /\ UNCHANGED <<now, agentVars, skew, authorised, reading, boundVars>>

\* 401; or 429, when the device has used up its uploads of the minute.
UploadRefused(request, status) ==
  /\ accepting = None
  /\ \/ status = 401 /\ ~authorised /\ Answer(request, status)
     \/ /\ status = 429 /\ authorised /\ Fault
        /\ IF Awaited(request) THEN Agent!Receive(status) ELSE UNCHANGED agentVars
  /\ requests' = requests \ {request}
  /\ UNCHANGED cycles /\ ServerUnchanged

UploadAccepted ==
  /\ AcceptCommits /\ Answer(accepting.upload, 200)
  /\ UNCHANGED <<now, skew, requests, authorised, reading, cycles>>

UploadRejected ==
  /\ AcceptRejects /\ Answer(accepting.upload, 422)
  /\ UNCHANGED <<now, skew, requests, authorised, reading, cycles>>

UploadFails ==
  /\ AcceptFails /\ Fault
  /\ IF Awaited(accepting.upload) THEN Agent!Receive(503) ELSE UNCHANGED agentVars
  /\ UNCHANGED <<now, skew, requests, authorised, reading, cycles>>

Authorisation ==
  /\ Fault /\ authorised' = ~authorised
  /\ UNCHANGED <<now, storeVars, agentVars, skew, requests, reading, cycles>>

Server ==
  \/ \E request \in requests :
       UploadTaken(request) \/ \E status \in {401, 429} : UploadRefused(request, status)
  \/ UploadAccepted \/ UploadRejected \/ UploadFails

\* The worker's retention and the clock.
Background ==
  /\ \/ Tick /\ UNCHANGED storeVars
     \/ (PruneSelects \/ PruneDeletes) /\ UNCHANGED now
  /\ UNCHANGED <<agentVars, skew, requests, authorised, reading, boundVars>>

(***************************************************************************)
(* The reader: recent_logs.                                                *)
(***************************************************************************)
ReadingStarts(query) ==
  /\ reading = None
  /\ reading' = [query |-> query, cursor |-> None, pages |-> <<>>, done |-> FALSE,
                 steady |-> Ids({row \in stored : Matches(row, query)})]

PageRead(query) ==
  /\ reading # None /\ ~reading.done /\ CursorFits(reading.cursor, query)
  /\ reading.cursor = None => query = reading.query
  /\ LET page == Page(query, reading.cursor)
     IN reading' = [reading EXCEPT !.pages = Append(@, page.items), !.cursor = page.next,
                                   !.done = page.next = None]

\* The cursor of another query, or the reader has finished.
ReadingEnds(query) ==
  /\ reading # None
  /\ reading.done \/ ~CursorFits(reading.cursor, query)
  /\ reading' = None

Reader ==
  /\ \E query \in Query : ReadingStarts(query) \/ PageRead(query) \/ ReadingEnds(query)
  /\ UNCHANGED <<now, storeVars, agentVars, skew, requests, authorised, boundVars>>

Next ==
  \/ LogCycleStarts \/ Host \/ HostFails \/ UploadSent \/ AttemptFails
  \/ Server \/ Authorisation \/ Background \/ Reader

Spec == Init /\ [][Next]_vars

(***************************************************************************)
(* Properties                                                              *)
(***************************************************************************)
\* However often an entry is uploaded, by attempts whose answer was lost, by
\* overlapping snapshots or under another source, the device has it once; and a
\* source never has more rows than it may.
EntriesAreStoredOnce ==
  /\ \A a, b \in stored : a.hash = b.hash => a = b
  /\ \A source \in Source : Cardinality(OfSource(stored, source)) <= MaxStored

\* A row goes only when it has expired, or when its source has MaxStored newer
\* ones; and it does not go and come back under the same number.
OnlyOldRowsGo ==
  [][/\ \A row \in stored \ stored' :
          \/ row.received < now - Retention
          \/ Cardinality({newer \in OfSource(stored', row.source) : newer.id > row.id}) >= MaxStored
     /\ \A row \in stored' \ stored : row.id >= nextId]_vars

\* A reader that has gone through the pages has seen, in order and once, every row
\* that its query matches and that was there from the first page to the last,
\* whatever uploads and the retention did in between.
PagesAreExact ==
  reading # None /\ reading.done =>
    LET pages == reading.pages
        read == UNION {pages[i] : i \in DOMAIN pages}
    IN /\ \A i, j \in DOMAIN pages : i < j =>
            \A a \in pages[i], b \in pages[j] : InOrder(reading.query, a, b)
       /\ \A row \in read : Matches(row, reading.query)
       /\ \A row \in stored : row.id \in reading.steady => row \in read

\* The diagnostics of an incident are rows of its window, and no row of the window
\* that is left out is closer to the incident than one that is shown.
DiagnosticsAreNearest ==
  \A incident \in Incidents, point \in {"opened", "recovered"} :
    LET anchor == AnchorOf(incident, point)
        shown == Near(anchor).items
        left == Window(anchor) \ shown
    IN anchor # None =>
       /\ shown \subseteq Window(anchor)
       /\ Near(anchor).truncated <=> left # {}
       /\ left # {} => Cardinality(shown) = NearLimit
       /\ \A l \in left, s \in shown : Distance(s, anchor) <= Distance(l, anchor)

ReadsAreExact == PagesAreExact /\ DiagnosticsAreNearest
=============================================================================
