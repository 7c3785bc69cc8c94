---------------------------- MODULE DashboardRead ----------------------------
(***************************************************************************)
(* What the console shows: server/app/dashboard/read.py. A list comes in   *)
(* pages, each a request of its own: the cursor is the key of the last row *)
(* of a page, and the next one has the rows behind it, as they are by      *)
(* then. A history comes from one request. The overview is not modelled:   *)
(* each of its counts is a statement of its own, which sees the commits of *)
(* its own moment.                                                         *)
(*                                                                         *)
(* A name in Wide takes six bytes of a cursor for each of its characters:  *)
(* the cursor of a row with two such names is longer than a request may    *)
(* give, and the page behind that row cannot be asked for.                 *)
(***************************************************************************)
EXTENDS Fleet, Integers, Ordered, SequencesExt

CONSTANTS
  DeviceQuery,         \* filters of list_devices: project, state, gpu, disabled, names
  Limit,               \* rows of a page
  Wide,                \* names that are wide in a cursor
  RawCap, PointCap, SeriesCap   \* HISTORY_RAW_CAP, _POINT_CAP and _GPU_SERIES_CAP

\* The limits of the module and of the endpoints (api/dashboard.py).
ASSUME CapsArePositive == {Limit, RawCap, PointCap, SeriesCap} \subseteq Nat \ {0}

VARIABLE reading   \* a list that is being read page by page: see ReadingStarts

(***************************************************************************)
(* Order and cursors.                                                      *)
(***************************************************************************)
\* Mutant: rows of one project and one name are not told apart.
BeforeByName(a, b) == a[1] < b[1] \/ (a[1] = b[1] /\ a[2] < b[2])

\* Keys are triples, compared in turn.
Key == Int \X Int \X Int
Before(a, b) ==
  \/ a[1] < b[1]
  \/ a[1] = b[1] /\ a[2] < b[2]
  \/ a[1] = b[1] /\ a[2] = b[2] /\ a[3] < b[3]

DeviceKey(d) == <<projects[fleet[d].project].name, fleet[d].name, d>>

\* Newest first.
IncidentKey(i) == <<-incidents[i].opened, -i, 0>>

\* encode_device_cursor, and the bound _decode_cursor and api/dashboard.py set.
CursorFits(list, key) == list = "devices" => ~({key[1], key[2]} \subseteq Wide)

(***************************************************************************)
(* list_devices and list_incidents                                         *)
(***************************************************************************)
StateMatches(d, state) ==
  CASE state = None -> TRUE
    [] state = "AWAITING_FIRST_HEARTBEAT" -> fleet[d].seen = None
    [] OTHER -> fleet[d].seen # None /\ fleet[d].state = state
GPUMatches(d, gpu) ==
  CASE gpu = None -> TRUE
    [] gpu = "NOT_MONITORED" -> ~fleet[d].gpuMonitored
    [] OTHER -> fleet[d].gpuMonitored /\ fleet[d].gpu = gpu
DeviceMatches(d, query) ==
  /\ query.project \in {None, fleet[d].project}
  /\ query.disabled \/ fleet[d].enabled
  /\ StateMatches(d, query.state) /\ GPUMatches(d, query.gpu)
  /\ fleet[d].name \in query.names
Listed(query) == {d \in Devices : DeviceMatches(d, query)}

IncidentsOf(device) == {i \in DOMAIN incidents : device \in {None, incidents[i].device}}

\* The rows of a list, with their keys.
Rows(list, query) ==
  IF list = "devices" THEN {[id |-> d, key |-> DeviceKey(d)] : d \in Listed(query)}
  ELSE {[id |-> i, key |-> IncidentKey(i)] : i \in IncidentsOf(query)}

\* Mutant: the cursor stands for its project and name, without the identifier.
BehindName(list, query, cursor) ==
  {r \in Rows(list, query) : cursor # None => BeforeByName(cursor, r.key)}

Behind(list, query, cursor) == {r \in Rows(list, query) : cursor # None => Before(cursor, r.key)}

\* One row more than a page says whether there is another page.
Page(list, query, cursor) ==
  LET rows == Behind(list, query, cursor)
      earlier(r, s) == Before(r.key, s.key)
      page == First(Limit, rows, earlier)
  IN [items |-> page, next |-> IF Cardinality(rows) > Limit THEN LastOf(page, earlier).key ELSE None]

(***************************************************************************)
(* Reading a list.                                                         *)
(***************************************************************************)
NothingRead == [list |-> None, pages |-> <<>>, steady |-> {}, done |-> TRUE]

\* steady is history: the rows that were there from the beginning and have kept
\* their keys since.
ReadingStarts(list, query, session) ==
  /\ reading.done
  /\ reading' = [list |-> list, query |-> query, session |-> session, cursor |-> None,
                 pages |-> <<>>, done |-> FALSE, steady |-> Rows(list, query)]

PageRead ==
  LET page == Page(reading.list, reading.query, reading.cursor)
  IN /\ reading.cursor # None => CursorFits(reading.list, reading.cursor)
     /\ reading' = [reading EXCEPT !.pages = Append(@, page.items), !.cursor = page.next,
                                   !.done = page.next = None]

\* The session has ended, or the cursor is refused.
ReadingEnds == reading' = NothingRead

\* What a change of rows does to the history.
StillSteady ==
  IF reading.done THEN reading
  ELSE [reading EXCEPT !.steady = @ \intersect UNION {Rows(r.list, r.query)' : r \in {reading}}]

(***************************************************************************)
(* device_history: the newest samples, oldest first, thinned to a number   *)
(* of points; and of the GPUs in them those that were seen last. A sample  *)
(* is the sequence of GPUs it reports.                                     *)
(***************************************************************************)
Retained(samples) ==
  SubSeq(samples, IF Len(samples) > RawCap THEN Len(samples) - RawCap + 1 ELSE 1, Len(samples))

CeilDiv(a, b) == (a + b - 1) \div b
HistorySamplePoints(n) ==
  IF n <= PointCap THEN [i \in 1..n |-> i]
  ELSE [bucket \in 1..PointCap |-> CeilDiv(bucket * n, PointCap)]

\* Where GPUs were observed: at which point, at which place of its sample.
Observations(samples) == UNION {{p} \X (DOMAIN samples[p]) \X {0} : p \in DOMAIN samples}
SeriesOf(samples, gpu) == {o \in Observations(samples) : samples[o[1]][o[2]] = gpu}

LastSeenAt(samples, gpu) == LastOf(SeriesOf(samples, gpu), Before)
NewestSeries(samples) ==
  LET later(g, h) == Before(LastSeenAt(samples, h), LastSeenAt(samples, g))
  IN First(SeriesCap, {samples[o[1]][o[2]] : o \in Observations(samples)}, later)

DownsampleHistory(samples) ==
  LET points == HistorySamplePoints(Len(samples))
      selected == [p \in DOMAIN points |-> samples[points[p]]]
  IN [points |-> points, series |-> [gpu \in NewestSeries(selected) |-> SeriesOf(selected, gpu)]]
=============================================================================
