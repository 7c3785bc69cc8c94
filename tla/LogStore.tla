------------------------------ MODULE LogStore ------------------------------
(***************************************************************************)
(* The log store of one device, server/app/logs/service.py: uploads are    *)
(* accepted under the lock of the device's row, each source keeps its      *)
(* newest MaxStored rows, the worker's retention deletes old rows in       *)
(* batches, and the dashboard reads pages of rows or the rows around an    *)
(* incident. An entry is the position of a journal line; its hash is that  *)
(* of the journal cursor, so it is the same in every source that shows it, *)
(* and the entries of an upload come in the order of the journal.          *)
(***************************************************************************)
EXTENDS Integers, Ordered

CONSTANTS
  None,
  Source,       \* LOG_SOURCES
  MaxStored,    \* MAX_STORED_PER_SOURCE
  Retention,    \* diagnostics_retention_days
  BatchSize,    \* RETENTION_BATCH_SIZE
  MaxPast,      \* how far an entry may lie in the past (a day) and
  MaxFuture,    \* in the future (five minutes)
  NearLimit,    \* CORRELATED_LOG_LIMIT
  Before, After,  \* BEFORE_INCIDENT, AFTER_INCIDENT
  MaxTime       \* bound: last instant of the clock

ASSUME LimitsAreNumbers == MaxStored \in Nat /\ NearLimit \in Nat /\ Retention \in Nat

VARIABLES
  now,
  stored,       \* DeviceLogEntry rows of the device
  nextId,       \* AUTO_INCREMENT
  checked,      \* DeviceLogSource rows: status and instant of the last upload
  accepting,    \* the upload that holds the device's row lock
  pruning       \* what a retention transaction has selected

storeVars == <<stored, nextId, checked, accepting, pruning>>

StoreInit ==
  /\ stored = {} /\ nextId = 1
  /\ checked = [s \in Source |-> None]
  /\ accepting = None /\ pruning = None

Tick == now < MaxTime /\ now' = now + 1

Ids(rows) == {row.id : row \in rows}
OfSource(rows, source) == {row \in rows : row.source = source}

(***************************************************************************)
(* accept.                                                                 *)
(***************************************************************************)
\* Mutant: an entry is looked up among the rows of the upload's source only.
KnownToSource(upload) ==
  {row.hash : row \in OfSource(stored, upload.source)} \intersect {entry.hash : entry \in upload.entries}

\* The entries of the upload that any source has brought.
Known(upload) ==
  {row.hash : row \in stored} \intersect {entry.hash : entry \in upload.entries}

\* The device's row is locked, the clock read, and the entries are looked up.
AcceptReads(upload) ==
  /\ accepting = None
  /\ accepting' = [upload |-> upload, at |-> now, existing |-> Known(upload)]
  /\ UNCHANGED <<stored, nextId, checked, pruning>>

New(acceptance) == {entry \in acceptance.upload.entries : entry.hash \notin acceptance.existing}

\* An entry without a date is not checked.
InTime(entry, at) ==
  entry.occurred # None => entry.occurred >= at - MaxPast /\ entry.occurred <= at + MaxFuture

\* One entry out of time rejects the whole upload.
TimestampsValid(acceptance) == \A entry \in New(acceptance) : InTime(entry, acceptance.at)

Position(entry, entries) == Cardinality({other \in entries : other.hash < entry.hash})

\* The new entries are numbered in their order.
Inserted(acceptance) ==
  {[id |-> nextId + Position(entry, New(acceptance)), source |-> acceptance.upload.source,
    hash |-> entry.hash, occurred |-> entry.occurred, received |-> acceptance.at] : entry \in New(acceptance)}

Newer(a, b) == a.id > b.id

\* Mutant: the newest rows are those of every source.
CappedAcrossSources(rows, source) ==
  (rows \ OfSource(rows, source)) \union (OfSource(rows, source) \intersect First(MaxStored, rows, Newer))

\* Rows of the source older than its MaxStored-th newest go.
Capped(rows, source) ==
  (rows \ OfSource(rows, source)) \union First(MaxStored, OfSource(rows, source), Newer)

AcceptCommits ==
  /\ accepting # None /\ TimestampsValid(accepting)
  /\ stored' = Capped(stored \union Inserted(accepting), accepting.upload.source)
  /\ nextId' = nextId + Cardinality(New(accepting))
  /\ checked' = [checked EXCEPT ![accepting.upload.source] =
                   [status |-> accepting.upload.status, at |-> accepting.at]]
  /\ accepting' = None /\ UNCHANGED pruning

AcceptRejects ==
  /\ accepting # None /\ ~TimestampsValid(accepting)
  /\ accepting' = None /\ UNCHANGED <<stored, nextId, checked, pruning>>

\* The database fails, or finds a deadlock with the retention: nothing is stored.
AcceptFails ==
  /\ accepting # None /\ accepting' = None
  /\ UNCHANGED <<stored, nextId, checked, pruning>>

(***************************************************************************)
(* prune_expired: rows are selected and then deleted, without the lock of  *)
(* the device. A source that is checked again in between is kept.          *)
(***************************************************************************)
Older(a, b) == a.received < b.received \/ (a.received = b.received /\ a.id < b.id)

OldestOf(rows) == First(BatchSize, rows, Older)

PruneSelects ==
  LET cutoff == now - Retention
      old == {row \in stored : row.received < cutoff}
  IN /\ pruning = None /\ pruning' = [cutoff |-> cutoff, ids |-> Ids(OldestOf(old))]
     /\ old # {} \/ \E s \in Source : checked[s] # None /\ checked[s].at < cutoff
     /\ UNCHANGED <<stored, nextId, checked, accepting>>

PruneDeletes ==
  /\ pruning # None /\ pruning' = None
  /\ stored' = {row \in stored : row.id \notin pruning.ids}
  /\ checked' = [s \in Source |-> IF checked[s] # None /\ checked[s].at < pruning.cutoff
                                  THEN None ELSE checked[s]]
  /\ UNCHANGED <<nextId, accepting>>

(***************************************************************************)
(* recent: a page of rows by id, and the cursor of the next page, bound to *)
(* the query it continues.                                                 *)
(***************************************************************************)
Matches(row, query) ==
  LET time == IF query.basis = "occurred" THEN row.occurred ELSE row.received
  IN /\ time # None
     /\ query.source # None => row.source = query.source
     /\ query.from # None => time >= query.from
     /\ query.until # None => time <= query.until
     /\ query.search # None => row.hash \in query.search

Past(row, query, last) ==
  IF query.direction = "newest" THEN row.id < last ELSE row.id > last

InOrder(query, a, b) == IF query.direction = "newest" THEN a.id > b.id ELSE a.id < b.id

\* encode_log_cursor, decode_log_cursor.
Cursor(query, id) == [query |-> query, id |-> id]
CursorFits(cursor, query) == cursor # None => cursor.query = query

Behind(query, cursor) ==
  {row \in stored : Matches(row, query) /\ (cursor # None => Past(row, query, cursor.id))}

\* Mutant: the cursor names the row that was read to see whether there is more.
PageOverstepping(query, cursor) ==
  LET rows == Behind(query, cursor)
      before(a, b) == InOrder(query, a, b)
  IN [items |-> First(query.limit, rows, before),
      next |-> IF Cardinality(rows) > query.limit
               THEN Cursor(query, LastOf(First(query.limit + 1, rows, before), before).id) ELSE None]

\* One row more than a page says whether there is another page.
Page(query, cursor) ==
  LET rows == Behind(query, cursor)
      before(a, b) == InOrder(query, a, b)
      entries == First(query.limit, rows, before)
  IN [items |-> entries,
      next |-> IF Cardinality(rows) > query.limit THEN Cursor(query, LastOf(entries, before).id) ELSE None]

(***************************************************************************)
(* IncidentDiagnosticService.get and near: the rows closest to an incident *)
(* by their original time.                                                 *)
(***************************************************************************)
\* An incident that is active has not recovered.
AnchorOf(incident, point) == IF point = "recovered" THEN incident.closed ELSE incident.opened

Distance(row, anchor) == IF row.occurred < anchor THEN anchor - row.occurred ELSE row.occurred - anchor

Closer(anchor, a, b) ==
  \/ Distance(a, anchor) < Distance(b, anchor)
  \/ /\ Distance(a, anchor) = Distance(b, anchor)
     /\ \/ a.occurred < b.occurred
        \/ a.occurred = b.occurred /\ a.id < b.id

Window(anchor) == {row \in stored : row.occurred \in (anchor - Before)..(anchor + After)}

Near(anchor) ==
  LET closer(a, b) == Closer(anchor, a, b)
  IN [items |-> First(NearLimit, Window(anchor), closer),
      truncated |-> Cardinality(Window(anchor)) > NearLimit]
=============================================================================
