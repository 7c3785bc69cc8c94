------------------------------ MODULE LogsProofs ------------------------------
(***************************************************************************)
(* From the journal to the reader's pages, for every number of sources,    *)
(* entries, uploads, faults and queries. The agent sends entries of the    *)
(* journal, of which one has one hash (AgentInv); the store knows no hash  *)
(* twice, numbers its rows upwards and keeps what an upload or a retention *)
(* has read true while it works (StoreInv); and a reader has, up to its    *)
(* cursor, every row that is still there (ReadingInv).                     *)
(***************************************************************************)
EXTENDS Logs, OrderedProofs

Entries == [hash : Nat, occurred : Int]
OneHashEach(entries) == \A a, b \in entries : a.hash = b.hash => a = b
Uploads ==
  {upload \in [source : Source, status : {"available", "collection_error", "permission_unavailable"},
               attempt : Nat, entries : SUBSET Entries] :
     IsFiniteSet(upload.entries) /\ OneHashEach(upload.entries)}

(***************************************************************************)
(* The agent, and what is on its way.                                      *)
(***************************************************************************)
Lines == [hash : Nat, kind : Kind, occurred : Int]
JournalInv ==
  /\ journal \in Seq(Lines)
  /\ \A i \in DOMAIN journal : journal[i].hash = i

CycleInv ==
  /\ cycle \in [phase : {"idle", "collecting", "ready", "waiting"}, at : Nat,
                upload : Uploads \union {None}, attempt : Nat]
  /\ cycle.phase # "idle" => cycle.at \in DOMAIN Sources
  /\ cycle.phase \in {"ready", "waiting"} => cycle.upload \in Uploads

AgentInv ==
  /\ now \in Nat /\ skew \in Int
  /\ JournalInv /\ CycleInv /\ requests \subseteq Uploads

(***************************************************************************)
(* The store.                                                              *)
(***************************************************************************)
Rows == [id : Nat, source : Source, hash : Nat, occurred : Int, received : Int]

RowsInv ==
  /\ nextId \in Nat /\ stored \subseteq Rows /\ IsFiniteSet(stored)
  /\ \A row \in stored : row.id < nextId
  /\ \A a, b \in stored : a.id = b.id => a = b
  /\ \A a, b \in stored : a.hash = b.hash => a = b

CapInv == \A source \in Source : Cardinality(OfSource(stored, source)) <= MaxStored

\* Since an upload looked its entries up, rows have only gone.
AcceptingInv ==
  accepting # None =>
    /\ accepting.upload \in Uploads /\ accepting.at \in Int
    /\ \A entry \in accepting.upload.entries, row \in stored :
         row.hash = entry.hash => entry.hash \in accepting.existing

\* Rows never change and never return, so what was expired is.
PruningInv ==
  pruning # None =>
    /\ pruning.cutoff \in Int /\ pruning.cutoff <= now - Retention
    /\ \A id \in pruning.ids : id \in Nat /\ id < nextId
    /\ \A row \in stored : row.id \in pruning.ids => row.received < pruning.cutoff

StoreInv == RowsInv /\ CapInv /\ AcceptingInv /\ PruningInv

(***************************************************************************)
(* The reader.                                                             *)
(***************************************************************************)
Cursors == [query : Query, id : Nat]
Seen == UNION {reading.pages[i] : i \in DOMAIN reading.pages}
PagesInOrder(pages, query) ==
  \A i, j \in DOMAIN pages : i < j => \A a \in pages[i], b \in pages[j] : InOrder(query, a, b)

ReadingTyped ==
  reading # None =>
    /\ reading \in [query : Query, cursor : Cursors \union {None}, pages : Seq(SUBSET Rows),
                    done : BOOLEAN, steady : SUBSET Nat]
    /\ reading.cursor # None => reading.cursor.query = reading.query /\ ~ reading.done
    /\ reading.cursor = None /\ ~ reading.done => reading.pages = <<>>

\* Steady rows match the query as long as they are there: no other takes their number.
SteadyInv ==
  reading # None =>
    /\ \A id \in reading.steady : id < nextId
    /\ \A row \in stored : row.id \in reading.steady => Matches(row, reading.query)

\* Up to the cursor, or to the end, everything steady has been seen.
SeenInv ==
  reading # None =>
    /\ PagesInOrder(reading.pages, reading.query)
    /\ \A row \in Seen : Matches(row, reading.query)
    /\ reading.cursor # None => \A row \in Seen : ~ Past(row, reading.query, reading.cursor.id)
    /\ \A row \in stored : row.id \in reading.steady =>
         \/ row \in Seen
         \/ ~ reading.done /\ (reading.cursor # None => Past(row, reading.query, reading.cursor.id))

ReadingInv == ReadingTyped /\ SteadyInv /\ SeenInv

LogsInv == AgentInv /\ StoreInv /\ ReadingInv

(***************************************************************************)
(* What the agent sends.                                                   *)
(***************************************************************************)
\* The values of a function on a finite set are finitely many.
LEMMA FiniteImage ==
  ASSUME NEW S, IsFiniteSet(S), NEW f, DOMAIN f = S
  PROVE  IsFiniteSet({f[x] : x \in S})
<1> DEFINE T == {f[x] : x \in S}
<1> DEFINE g == [x \in S |-> f[x]]
<1>1. g \in Surjection(S, T)
  BY DEF Surjection
<1> QED BY <1>1, FS_Surjection

\* journalctl and parse_journal choose among the lines of the journal.
LEMMA PrintedLines ==
  ASSUME JournalInv, NEW source, NEW clock
  PROVE  LET lines == Agent!Parsed(Agent!Printed(source, clock))
         IN /\ IsFiniteSet(lines) /\ OneHashEach(lines)
            /\ \A line \in lines : line.hash \in Nat /\ line.occurred \in Int
<1> DEFINE lines == Agent!Parsed(Agent!Printed(source, clock))
<1> DEFINE all == {journal[i] : i \in DOMAIN journal}
<1>1. lines \in SUBSET all
  BY DEF Agent!Parsed, Agent!Printed, Agent!First, Range, Agent!Range
<1>2. IsFiniteSet(DOMAIN journal)
  BY FS_Interval, DOMAIN journal = 1 .. Len(journal), Len(journal) \in Nat DEF JournalInv
<1>3. IsFiniteSet(all)
  BY <1>2, FiniteImage
<1>a. ASSUME NEW i \in DOMAIN journal
      PROVE  journal[i].hash = i /\ journal[i].hash \in Nat /\ journal[i].occurred \in Int
  <2>1. i \in 1 .. Len(journal)
    BY DEF JournalInv
  <2>2. journal[i] \in Lines
    BY <2>1 DEF JournalInv
  <2> QED BY <2>2 DEF JournalInv, Lines
<1>4. \A a \in all : \E i \in DOMAIN journal : a = journal[i] /\ a.hash = i /\ a.hash \in Nat /\ a.occurred \in Int
  BY <1>a
<1>5. OneHashEach(all)
  BY <1>4 DEF OneHashEach
<1> QED
  <2> HIDE DEF all, lines
  <2>1. IsFiniteSet(lines)
    BY <1>1, <1>3, FS_Subset
  <2>2. OneHashEach(lines)
    BY <1>1, <1>5 DEF OneHashEach
  <2>3. \A line \in lines : line.hash \in Nat /\ line.occurred \in Int
    BY <1>1, <1>4
  <2> QED BY <2>1, <2>2, <2>3 DEF lines

\* An upload keeps of each line its hash and its time.
LEMMA EntriesOfLines ==
  ASSUME NEW lines, IsFiniteSet(lines), OneHashEach(lines),
         \A line \in lines : line.hash \in Nat /\ line.occurred \in Int
  PROVE  LET entries == {[hash |-> line.hash, occurred |-> line.occurred] : line \in lines}
         IN entries \in SUBSET Entries /\ IsFiniteSet(entries) /\ OneHashEach(entries)
<1> DEFINE f == [line \in lines |-> [hash |-> line.hash, occurred |-> line.occurred]]
<1> DEFINE entries == {[hash |-> line.hash, occurred |-> line.occurred] : line \in lines}
<1>1. entries = {f[line] : line \in lines} /\ DOMAIN f = lines
  OBVIOUS
<1>2. IsFiniteSet(entries)
  <2> HIDE DEF f, entries
  <2> QED BY <1>1, FiniteImage
<1>3. OneHashEach(entries) /\ entries \in SUBSET Entries
  BY DEF OneHashEach, Entries
<1> QED BY <1>2, <1>3

\* collect: what a source is read for is an upload.
LEMMA CollectedUploads ==
  ASSUME JournalInv, CycleInv, cycle.phase = "collecting"
  PROVE  /\ \A clock : Agent!Upload("available", Agent!Printed(Sources[cycle.at], clock)) \in Uploads
         /\ \A status \in {"collection_error", "permission_unavailable"} : Agent!Upload(status, {}) \in Uploads
<1>1. Sources[cycle.at] \in Source
  BY SourcesAreKnown DEF CycleInv
<1>2. ASSUME NEW lines, IsFiniteSet(Agent!Parsed(lines)), OneHashEach(Agent!Parsed(lines)),
             \A line \in Agent!Parsed(lines) : line.hash \in Nat /\ line.occurred \in Int,
             NEW status \in {"available", "collection_error", "permission_unavailable"}
      PROVE  Agent!Upload(status, lines) \in Uploads
  BY <1>1, <1>2, EntriesOfLines DEF Agent!Upload, Uploads
<1>3. Agent!Parsed({}) = {}
  BY DEF Agent!Parsed, Agent!First
<1>4. IsFiniteSet({}) /\ OneHashEach({})
  BY FS_EmptySet DEF OneHashEach
<1>5. \A status \in {"collection_error", "permission_unavailable"} : Agent!Upload(status, {}) \in Uploads
  BY <1>2, <1>3, <1>4
<1>6. ASSUME NEW clock
      PROVE  Agent!Upload("available", Agent!Printed(Sources[cycle.at], clock)) \in Uploads
  BY <1>2, PrintedLines
<1> QED BY <1>5, <1>6

\* The log task goes on to its next source, or is done.
LEMMA NextSourceStep ==
  ASSUME CycleInv, cycle.phase # "idle", Agent!NextSource
  PROVE  CycleInv'
<1>1. Len(Sources) \in Nat /\ DOMAIN Sources = 1 .. Len(Sources) /\ cycle.at \in 1 .. Len(Sources)
  BY SourcesAreKnown DEF CycleInv
<1>2. CASE cycle.at = Len(Sources)
  BY <1>2 DEF Agent!NextSource, Agent!Idle, CycleInv
<1>3. CASE cycle.at # Len(Sources)
  <2>1. cycle' = [phase |-> "collecting", at |-> cycle.at + 1, upload |-> None, attempt |-> 0]
    BY <1>3 DEF Agent!NextSource, Agent!Idle
  <2>2. cycle.at + 1 \in Nat /\ cycle.at + 1 \in DOMAIN Sources
    BY <1>1, <1>3
  <2> QED BY <2>1, <2>2 DEF CycleInv
<1> QED BY <1>2, <1>3

\* A source that was read is sent, or left out.
LEMMA CollectedStep ==
  ASSUME CycleInv, cycle.phase = "collecting", NEW status, NEW lines,
         Agent!Upload(status, lines) \in Uploads, Agent!Collected(status, lines)
  PROVE  CycleInv'
<1>1. CASE paused
  BY <1>1, NextSourceStep DEF Agent!Collected
<1>2. CASE ~ paused
  <2>1. cycle' = [cycle EXCEPT !.phase = "ready", !.upload = Agent!Upload(status, lines)]
    BY <1>2 DEF Agent!Collected
  <2> QED BY <2>1 DEF CycleInv
<1> QED BY <1>1, <1>2

\* An attempt that brought no answer.
LEMMA TryAgainStep ==
  ASSUME CycleInv, cycle.phase = "waiting", Agent!TryAgain
  PROVE  CycleInv'
<1>1. CASE cycle' = [cycle EXCEPT !.phase = "ready"]
  BY <1>1 DEF CycleInv
<1>2. CASE Agent!NextSource
  BY <1>2, NextSourceStep
<1> QED BY <1>1, <1>2 DEF Agent!TryAgain

\* A line is written to the journal.
LEMMA WrittenStep ==
  ASSUME JournalInv, NEW kind \in Kind, NEW clock \in Int, Agent!Written(kind, clock)
  PROVE  JournalInv'
<1> DEFINE line == [hash |-> Len(journal) + 1, kind |-> kind, occurred |-> clock]
<1>1. Len(journal) \in Nat /\ journal \in Seq(Lines)
  BY DEF JournalInv
<1>2. line \in Lines
  BY <1>1 DEF Lines
<1>3. line.hash = Len(journal) + 1 /\ journal' = Append(journal, line)
  BY DEF Agent!Written
<1>4. journal' \in Seq(Lines) /\ DOMAIN journal' = 1 .. Len(journal) + 1
  <2> HIDE DEF line
  <2> QED BY <1>1, <1>2, <1>3
<1>5. ASSUME NEW i \in DOMAIN journal' PROVE journal'[i].hash = i
  <2>1. CASE i = Len(journal) + 1
    <3> HIDE DEF line
    <3> QED BY <1>1, <1>2, <1>3, <2>1
  <2>2. CASE i \in 1 .. Len(journal)
    <3>1. journal'[i] = journal[i]
      <4> HIDE DEF line
      <4> QED BY <1>1, <1>2, <1>3, <2>2
    <3> QED BY <1>1, <2>2, <3>1 DEF JournalInv
  <2> QED BY <1>1, <1>4, <2>1, <2>2
<1> QED BY <1>4, <1>5 DEF JournalInv

\* The steps of the agent on its own.
LEMMA AgentSteps ==
  ASSUME JournalInv, CycleInv, NEW clock \in Int
  PROVE  /\ \A kind \in Kind : Agent!Written(kind, clock) => JournalInv' /\ CycleInv'
         /\ Agent!CycleStarts \/ Agent!JournalRead(clock) \/ Agent!JournalBusy \/ Agent!JournalFails
              \/ Agent!StuckEnds \/ Agent!PauseEnds \/ Agent!Attempt \/ Agent!ConnectionFails
              \/ Agent!AgentRestarts \/ UNCHANGED agentVars => JournalInv' /\ CycleInv'
         /\ \A status \in Nat : cycle.phase = "waiting" /\ Agent!Receive(status) => JournalInv' /\ CycleInv'
<1>1. ASSUME UNCHANGED journal PROVE JournalInv'
  BY <1>1 DEF JournalInv
<1>2. ASSUME UNCHANGED cycle PROVE CycleInv'
  BY <1>2 DEF CycleInv
<1>3. ASSUME NEW kind \in Kind, Agent!Written(kind, clock) PROVE JournalInv' /\ CycleInv'
  BY <1>2, <1>3, WrittenStep DEF Agent!Written
<1>4. ASSUME Agent!CycleStarts PROVE JournalInv' /\ CycleInv'
  <2>1. Len(Sources) \in Nat /\ DOMAIN Sources = 1 .. Len(Sources) /\ Len(Sources) # 0
    BY SourcesAreKnown
  <2>2. cycle' = [phase |-> "collecting", at |-> 1, upload |-> None, attempt |-> 0] /\ journal' = journal
    BY <1>4 DEF Agent!CycleStarts, Agent!Idle
  <2> QED BY <1>1, <2>1, <2>2 DEF CycleInv
<1>5. ASSUME Agent!JournalRead(clock) PROVE JournalInv' /\ CycleInv'
  BY <1>1, <1>5, CollectedUploads, CollectedStep DEF Agent!JournalRead
<1>6. ASSUME Agent!JournalBusy PROVE JournalInv' /\ CycleInv'
  BY <1>1, <1>6, CollectedUploads, CollectedStep DEF Agent!JournalBusy
<1>7. ASSUME Agent!JournalFails PROVE JournalInv' /\ CycleInv'
  BY <1>1, <1>7, CollectedUploads, CollectedStep DEF Agent!JournalFails
<1>8. ASSUME Agent!StuckEnds \/ Agent!PauseEnds \/ UNCHANGED agentVars PROVE JournalInv' /\ CycleInv'
  BY <1>1, <1>2, <1>8 DEF Agent!StuckEnds, Agent!PauseEnds, agentVars
<1>9. ASSUME Agent!Attempt PROVE JournalInv' /\ CycleInv'
  <2>1. cycle.attempt + 1 \in Nat
    BY DEF CycleInv
  <2>2. /\ cycle'.phase = "waiting" /\ cycle'.at = cycle.at /\ cycle'.upload = cycle.upload
        /\ cycle' \in [phase : {"idle", "collecting", "ready", "waiting"}, at : Nat,
                       upload : Uploads \union {None}, attempt : Nat]
    BY <1>9, <2>1 DEF Agent!Attempt, CycleInv
  <2> QED BY <1>1, <1>9, <2>2 DEF Agent!Attempt, CycleInv
<1>10. ASSUME Agent!ConnectionFails PROVE JournalInv' /\ CycleInv'
  BY <1>1, <1>10, TryAgainStep DEF Agent!ConnectionFails
<1>11. ASSUME Agent!AgentRestarts PROVE JournalInv' /\ CycleInv'
  BY <1>1, <1>11 DEF Agent!AgentRestarts, Agent!Idle, CycleInv
<1>12. ASSUME NEW status \in Nat, cycle.phase = "waiting", Agent!Receive(status)
       PROVE JournalInv' /\ CycleInv'
  BY <1>1, <1>12, TryAgainStep, NextSourceStep DEF Agent!Receive
<1> QED
  BY <1>3, <1>4, <1>5, <1>6, <1>7, <1>8, <1>9, <1>10, <1>11, <1>12

\* Wherever attempts end up, what is on its way are uploads.
LEMMA AgentInvariance == AgentInv /\ [Next]_vars => AgentInv'
<1> SUFFICES ASSUME AgentInv, [Next]_vars PROVE AgentInv'
  OBVIOUS
<1> USE DEF AgentInv
<1>1. Clock \in Int
  BY DEF Clock
<1>2. ASSUME NEW request, NEW status \in Nat, Answer(request, status) PROVE JournalInv' /\ CycleInv'
  BY <1>1, <1>2, AgentSteps DEF Answer, Awaited, agentVars
<1>3. CASE LogCycleStarts
  BY <1>1, <1>3, AgentSteps DEF LogCycleStarts, ServerUnchanged
<1>4. CASE Host
  BY <1>1, <1>4, AgentSteps DEF Host, ServerUnchanged
<1>5. CASE HostFails
  BY <1>1, <1>5, AgentSteps DEF HostFails, ServerUnchanged
<1>6. CASE UploadSent
  <2>1. cycle.upload \in Uploads /\ cycle'.attempt \in Nat
    BY <1>6 DEF UploadSent, Agent!Attempt, CycleInv
  <2>2. [cycle.upload EXCEPT !.attempt = cycle'.attempt] \in Uploads
    BY <2>1 DEF Uploads
  <2>3. JournalInv' /\ CycleInv'
    BY <1>1, <1>6, AgentSteps DEF UploadSent
  <2> QED BY <1>6, <2>2, <2>3 DEF UploadSent, ServerUnchanged
<1>7. CASE AttemptFails
  BY <1>1, <1>7, AgentSteps DEF AttemptFails, ServerUnchanged
<1>8. CASE Server
  <2>1. ASSUME NEW request \in requests, UploadTaken(request) PROVE AgentInv'
    BY <1>1, <2>1, AgentSteps DEF UploadTaken
  <2>2. ASSUME NEW request \in requests, NEW status \in {401, 429}, UploadRefused(request, status)
        PROVE  AgentInv'
    <3>1. JournalInv' /\ CycleInv'
      BY <1>1, <1>2, <2>2, AgentSteps DEF UploadRefused, Awaited
    <3> QED BY <2>2, <3>1 DEF UploadRefused, ServerUnchanged
  <2>3. CASE UploadAccepted
    BY <1>2, <2>3 DEF UploadAccepted
  <2>4. CASE UploadRejected
    BY <1>2, <2>4 DEF UploadRejected
  <2>5. CASE UploadFails
    <3>1. JournalInv' /\ CycleInv'
      BY <1>1, <2>5, AgentSteps DEF UploadFails, Awaited
    <3> QED BY <2>5, <3>1 DEF UploadFails
  <2> QED BY <1>8, <2>1, <2>2, <2>3, <2>4, <2>5 DEF Server
<1>9. CASE Authorisation
  BY <1>1, <1>9, AgentSteps DEF Authorisation
<1>10. CASE Background
  <2>1. now' \in Nat
    BY <1>10 DEF Background, Tick
  <2> QED BY <1>1, <1>10, <2>1, AgentSteps DEF Background
<1>11. CASE Reader
  BY <1>1, <1>11, AgentSteps DEF Reader
<1>12. CASE UNCHANGED vars
  BY <1>1, <1>12, AgentSteps DEF vars
<1> QED
  BY <1>3, <1>4, <1>5, <1>6, <1>7, <1>8, <1>9, <1>10, <1>11, <1>12 DEF Next

(***************************************************************************)
(* An upload is stored.                                                    *)
(***************************************************************************)
\* Numbered rows are ordered by their numbers.
Numbered(rows) ==
  IsFiniteSet(rows) /\ (\A row \in rows : row.id \in Nat) /\ \A a, b \in rows : a.id = b.id => a = b
NewerPairs(rows) == {p \in rows \X rows : p[1].id > p[2].id}

\* The newest rows are the first ones of an order.
LEMMA NewestRows ==
  ASSUME NEW rows, Numbered(rows)
  PROVE  /\ Orders(NewerPairs(rows), rows)
         /\ \A n : First(n, rows, Newer) = Top(n, NewerPairs(rows), rows)
<1>1. \A a, b \in rows : <<a, b>> \in NewerPairs(rows) <=> a.id > b.id
  BY DEF NewerPairs
<1>2. Orders(NewerPairs(rows), rows)
  BY <1>1 DEF Orders, Numbered
<1>3. \A x \in rows : {other \in rows : Newer(other, x)} = Preceding(NewerPairs(rows), rows, x)
  BY <1>1 DEF Newer, Preceding
<1>4. \A n : First(n, rows, Newer) = Top(n, NewerPairs(rows), rows)
  BY <1>3 DEF First, Top, Rank
<1> QED BY <1>2, <1>4

\* Positions are numbers below the number of entries, and tell entries apart.
LEMMA Positions ==
  ASSUME NEW entries \in SUBSET Entries, IsFiniteSet(entries), OneHashEach(entries)
  PROVE  /\ Cardinality(entries) \in Nat
         /\ \A entry \in entries :
              Position(entry, entries) \in Nat /\ Position(entry, entries) < Cardinality(entries)
         /\ \A a, b \in entries : Position(a, entries) = Position(b, entries) => a = b
<1> DEFINE R == {p \in entries \X entries : p[1].hash < p[2].hash}
<1>1. \A a, b \in entries : <<a, b>> \in R <=> a.hash < b.hash
  OBVIOUS
<1>2. Orders(R, entries)
  <2> HIDE DEF R
  <2>1. \A a \in entries : a.hash \in Nat
    BY DEF Entries
  <2> QED BY <1>1, <2>1 DEF Orders, OneHashEach
<1>3. \A a \in entries : Position(a, entries) = Rank(R, entries, a)
  <2> HIDE DEF R
  <2>1. \A a \in entries : {other \in entries : other.hash < a.hash} = Preceding(R, entries, a)
    BY <1>1 DEF Preceding
  <2> QED BY <2>1 DEF Position, Rank
<1> HIDE DEF R
<1>4. \A a \in entries : Position(a, entries) \in Nat
  BY <1>3, RankType
<1>5. \A a, b \in entries : Position(a, entries) = Position(b, entries) => a = b
  <2>1. ASSUME NEW a \in entries, NEW b \in entries, a # b PROVE Position(a, entries) # Position(b, entries)
    <3>1. <<a, b>> \in R \/ <<b, a>> \in R
      BY <1>2, <2>1 DEF Orders
    <3>2. Rank(R, entries, a) < Rank(R, entries, b) \/ Rank(R, entries, b) < Rank(R, entries, a)
      BY <1>2, <3>1, RankGrows
    <3> QED BY <1>3, <1>4, <3>2
  <2> QED BY <2>1
<1>6. Cardinality(entries) \in Nat
  BY FS_CardinalityType
<1>7. ASSUME NEW a \in entries PROVE Position(a, entries) < Cardinality(entries)
  <2>1. Preceding(R, entries, a) \in SUBSET (entries \ {a})
    BY <1>2 DEF Preceding, Orders
  <2>2. IsFiniteSet(entries \ {a}) /\ Cardinality(entries \ {a}) = Cardinality(entries) - 1
    BY FS_RemoveElement
  <2>3. Rank(R, entries, a) <= Cardinality(entries) - 1
    BY <2>1, <2>2, FS_Subset DEF Rank
  <2> QED BY <1>3, <1>4, <1>6, <2>3
<1> QED BY <1>4, <1>5, <1>6, <1>7

\* The rows an upload adds: numbered from nextId on, of hashes the store did not
\* have when the upload looked, nor has by now.
LEMMA InsertedRows ==
  ASSUME RowsInv, AcceptingInv, accepting # None
  PROVE  LET new == Inserted(accepting)
             next == nextId + Cardinality(New(accepting))
         IN /\ IsFiniteSet(new) /\ new \subseteq Rows /\ next \in Nat /\ nextId <= next
            /\ \A row \in new : nextId <= row.id /\ row.id < next
            /\ \A row \in new : row.source = accepting.upload.source
            /\ \A a, b \in new : a.id = b.id \/ a.hash = b.hash => a = b
            /\ \A a \in new, b \in stored : a.hash # b.hash
<1> DEFINE entries == New(accepting)
<1> DEFINE row(e) ==
      [id |-> nextId + Position(e, entries), source |-> accepting.upload.source,
       hash |-> e.hash, occurred |-> e.occurred, received |-> accepting.at]
<1> DEFINE f == [e \in entries |-> row(e)]
<1>1. accepting.upload \in Uploads /\ accepting.at \in Int /\ nextId \in Nat
  BY DEF AcceptingInv, RowsInv
<1>2. entries \in SUBSET Entries /\ IsFiniteSet(entries) /\ OneHashEach(entries)
  <2>1. entries \in SUBSET accepting.upload.entries
    BY DEF New
  <2>2. /\ accepting.upload.entries \in SUBSET Entries /\ IsFiniteSet(accepting.upload.entries)
        /\ OneHashEach(accepting.upload.entries)
    BY <1>1 DEF Uploads
  <2> QED BY <2>1, <2>2, FS_Subset DEF OneHashEach
<1>3. Inserted(accepting) = {f[e] : e \in entries}
  BY DEF Inserted
<1>4. /\ Cardinality(entries) \in Nat
      /\ \A e \in entries : Position(e, entries) \in Nat /\ Position(e, entries) < Cardinality(entries)
      /\ \A a, b \in entries : Position(a, entries) = Position(b, entries) => a = b
  <2> HIDE DEF entries
  <2> QED BY <1>2, Positions
<1>5. IsFiniteSet(Inserted(accepting))
  <2>1. DOMAIN f = entries
    OBVIOUS
  <2> HIDE DEF f, entries
  <2> QED BY <1>2, <1>3, <2>1, FiniteImage
<1>6. \A e \in entries, b \in stored : e.hash # b.hash
  BY DEF New, AcceptingInv
<1>7. accepting.upload.source \in Source
  BY <1>1 DEF Uploads
<1>8. \A e \in entries : f[e] = row(e)
  OBVIOUS
<1>9. \A e \in entries : e.hash \in Nat /\ e.occurred \in Int
  BY <1>2 DEF Entries
<1>10. ASSUME NEW e \in entries
       PROVE  /\ f[e] \in Rows /\ nextId <= f[e].id /\ f[e].id < nextId + Cardinality(entries)
              /\ f[e].source = accepting.upload.source /\ f[e].hash = e.hash
              /\ f[e].id = nextId + Position(e, entries)
  <2>1. f[e] = row(e)
    OBVIOUS
  <2>2. nextId + Position(e, entries) \in Nat
    BY <1>1, <1>4
  <2> HIDE DEF f, entries
  <2>3. f[e] \in Rows
    BY <1>1, <1>7, <1>9, <2>1, <2>2 DEF Rows
  <2> QED BY <1>1, <1>4, <2>1, <2>3
<1> QED
  <2> HIDE DEF f, entries, row
  <2>1. /\ Inserted(accepting) \subseteq Rows
        /\ \A r \in Inserted(accepting) : nextId <= r.id /\ r.id < nextId + Cardinality(entries)
        /\ \A r \in Inserted(accepting) : r.source = accepting.upload.source
    BY <1>3, <1>10
  <2>2. \A a, b \in Inserted(accepting) : a.id = b.id \/ a.hash = b.hash => a = b
    <3>1. ASSUME NEW a \in entries, NEW b \in entries, f[a].id = f[b].id PROVE a = b
      BY <1>1, <1>4, <1>10, <3>1
    <3>2. ASSUME NEW a \in entries, NEW b \in entries, f[a].hash = f[b].hash PROVE a = b
      BY <1>2, <1>10, <3>2 DEF OneHashEach
    <3> QED BY <1>3, <3>1, <3>2
  <2>3. \A a \in Inserted(accepting), b \in stored : a.hash # b.hash
    BY <1>3, <1>6, <1>10
  <2>4. nextId + Cardinality(entries) \in Nat /\ nextId <= nextId + Cardinality(entries)
    BY <1>1, <1>4
  <2> QED BY <1>5, <2>1, <2>2, <2>3, <2>4 DEF entries

\* The newest MaxStored rows of the source stay, and every row of the others.
LEMMA CappedRows ==
  ASSUME NEW rows, Numbered(rows), NEW source
  PROVE  LET kept == Capped(rows, source)
         IN /\ kept \subseteq rows
            /\ Cardinality(OfSource(kept, source)) <= MaxStored
            /\ \A other : other # source => OfSource(kept, other) = OfSource(rows, other)
            /\ \A row \in rows \ kept :
                 /\ row.source = source
                 /\ Cardinality({newer \in OfSource(kept, row.source) : newer.id > row.id}) = MaxStored
<1> DEFINE own == OfSource(rows, source)
<1> DEFINE top == First(MaxStored, own, Newer)
<1> DEFINE kept == Capped(rows, source)
<1>1. MaxStored \in Nat
  BY LimitsAreNumbers
<1>2. own \in SUBSET rows /\ Numbered(own)
  <2>1. own \in SUBSET rows
    BY DEF OfSource
  <2>2. IsFiniteSet(own)
    BY <2>1, FS_Subset DEF Numbered
  <2> QED BY <2>1, <2>2 DEF Numbered
<1> DEFINE R == NewerPairs(own)
<1>3. IsFiniteSet(own) /\ Orders(R, own) /\ top = Top(MaxStored, R, own)
  <2> HIDE DEF own
  <2> QED BY <1>2, NewestRows DEF Numbered
<1>4. top \in SUBSET own
  BY DEF First
<1>5. OfSource(kept, source) = top
  BY <1>4 DEF Capped, OfSource
<1>6. kept \subseteq rows /\ rows \ kept = own \ top
  BY <1>2, <1>4 DEF Capped
<1>7. \A other : other # source => OfSource(kept, other) = OfSource(rows, other)
  BY <1>4 DEF Capped, OfSource
<1>8. ASSUME NEW row \in own \ top
      PROVE  row.source = source /\ Cardinality({newer \in top : newer.id > row.id}) = MaxStored
  <2>1. row.source = source
    BY DEF OfSource
  <2> HIDE DEF own, top
  <2>2. \A newer \in top : <<newer, row>> \in R
    <3> HIDE DEF R
    <3> QED BY <1>1, <1>3, TopSeparates
  <2>3. {newer \in top : newer.id > row.id} = top
    BY <2>2 DEF NewerPairs
  <2>4. Cardinality(top) = MaxStored
    <3> HIDE DEF R
    <3> QED BY <1>1, <1>3, TopIsFull
  <2> QED BY <2>1, <2>3, <2>4
<1>9. Cardinality(top) <= MaxStored
  <2> HIDE DEF own, top, R
  <2> QED BY <1>1, <1>3, TopIsBounded
<1> QED BY <1>5, <1>6, <1>7, <1>8, <1>9

(***************************************************************************)
(* Steps of the store.                                                     *)
(***************************************************************************)
\* Rows that are there, or that an upload adds: what accept caps.
LEMMA RowsBeforeCap ==
  ASSUME RowsInv, AcceptingInv, accepting # None
  PROVE  LET all == stored \union Inserted(accepting)
             next == nextId + Cardinality(New(accepting))
         IN /\ Numbered(all) /\ all \subseteq Rows /\ IsFiniteSet(all) /\ next \in Nat /\ nextId <= next
            /\ \A row \in all : row.id < next
            /\ \A row \in all \ stored : row.id >= nextId /\ row.source = accepting.upload.source
            /\ \A a, b \in all : a.id = b.id => a = b
            /\ \A a, b \in all : a.hash = b.hash => a = b
<1> DEFINE new == Inserted(accepting)
<1> DEFINE next == nextId + Cardinality(New(accepting))
<1>1. /\ IsFiniteSet(new) /\ new \subseteq Rows /\ next \in Nat /\ nextId <= next
      /\ \A row \in new : nextId <= row.id /\ row.id < next
      /\ \A row \in new : row.source = accepting.upload.source
      /\ \A a, b \in new : a.id = b.id \/ a.hash = b.hash => a = b
      /\ \A a \in new, b \in stored : a.hash # b.hash
  BY InsertedRows
<1> HIDE DEF new, next
<1>2. /\ IsFiniteSet(stored) /\ stored \subseteq Rows /\ nextId \in Nat
      /\ \A row \in stored : row.id < nextId
      /\ \A a, b \in stored : a.id = b.id => a = b
      /\ \A a, b \in stored : a.hash = b.hash => a = b
  BY DEF RowsInv
<1> DEFINE all == stored \union new
<1>3. IsFiniteSet(all)
  BY <1>1, <1>2, FS_Union
<1>4. all \subseteq Rows /\ \A row \in all : row.id \in Nat
  BY <1>1, <1>2 DEF Rows
<1>5. \A row \in all : row.id < next
  BY <1>1, <1>2, <1>4
<1>6. \A a, b \in all : a.id = b.id => a = b
  BY <1>1, <1>2, <1>4
<1>7. \A a, b \in all : a.hash = b.hash => a = b
  BY <1>1, <1>2
<1>8. Numbered(all)
  BY <1>3, <1>4, <1>6 DEF Numbered
<1> QED BY <1>1, <1>3, <1>4, <1>5, <1>6, <1>7, <1>8 DEF new, next

\* What a step of the store leaves of the rows: those that were there before
\* keep their numbers, and new ones take numbers from nextId on.
OnlyHigherNumbers ==
  /\ nextId' \in Nat /\ nextId <= nextId'
  /\ \A row \in stored' \ stored : row.id >= nextId
RowsOfStep ==
  \A row \in stored \ stored' :
    \/ row.received < now - Retention
    \/ Cardinality({newer \in OfSource(stored', row.source) : newer.id > row.id}) >= MaxStored

\* accept: what is stored stays unique and within the cap, and only rows that have
\* enough newer ones in their source go.
LEMMA AcceptCommitsStep ==
  ASSUME now \in Nat, StoreInv, AcceptCommits
  PROVE  RowsInv' /\ CapInv' /\ OnlyHigherNumbers /\ RowsOfStep
<1> DEFINE all == stored \union Inserted(accepting)
<1> DEFINE next == nextId + Cardinality(New(accepting))
<1> DEFINE source == accepting.upload.source
<1>1. /\ Numbered(all) /\ all \subseteq Rows /\ IsFiniteSet(all) /\ next \in Nat /\ nextId <= next
      /\ \A row \in all : row.id < next
      /\ \A row \in all \ stored : row.id >= nextId /\ row.source = source
      /\ \A a, b \in all : a.id = b.id => a = b
      /\ \A a, b \in all : a.hash = b.hash => a = b
  BY RowsBeforeCap DEF StoreInv, AcceptCommits
<1>2. stored' = Capped(all, source) /\ nextId' = next
  BY DEF AcceptCommits
<1>3. stored \in SUBSET all
  OBVIOUS
<1>4. \A other : other # source => OfSource(all, other) = OfSource(stored, other)
  <2> HIDE DEF all, source
  <2> QED BY <1>1, <1>3 DEF OfSource
<1> HIDE DEF all, next, source
<1>5. /\ stored' \subseteq all
      /\ Cardinality(OfSource(stored', source)) <= MaxStored
      /\ \A other : other # source => OfSource(stored', other) = OfSource(all, other)
      /\ \A row \in all \ stored' :
           /\ row.source = source
           /\ Cardinality({newer \in OfSource(stored', row.source) : newer.id > row.id}) = MaxStored
  <2> DEFINE kept == Capped(all, source)
  <2>1. /\ kept \subseteq all
        /\ Cardinality(OfSource(kept, source)) <= MaxStored
        /\ \A other : other # source => OfSource(kept, other) = OfSource(all, other)
        /\ \A row \in all \ kept :
             /\ row.source = source
             /\ Cardinality({newer \in OfSource(kept, row.source) : newer.id > row.id}) = MaxStored
    BY <1>1, CappedRows
  <2>2. stored' = kept
    BY <1>2
  <2> HIDE DEF kept
  <2> QED BY <2>1, <2>2
<1>6. IsFiniteSet(stored')
  BY <1>1, <1>5, FS_Subset
<1>7. RowsInv'
  BY <1>1, <1>2, <1>5, <1>6 DEF RowsInv
<1>8. CapInv'
  <2>1. ASSUME NEW other \in Source, other # source
        PROVE  Cardinality(OfSource(stored', other)) <= MaxStored
    BY <1>4, <1>5, <2>1 DEF StoreInv, CapInv
  <2> QED BY <1>5, <2>1 DEF CapInv
<1>9. OnlyHigherNumbers
  BY <1>1, <1>2, <1>5 DEF OnlyHigherNumbers
<1>10. RowsOfStep
  <2>1. ASSUME NEW row \in stored \ stored'
        PROVE  Cardinality({newer \in OfSource(stored', row.source) : newer.id > row.id}) >= MaxStored
    BY <1>3, <1>5, LimitsAreNumbers
  <2> QED BY <2>1 DEF RowsOfStep
<1> QED BY <1>7, <1>8, <1>9, <1>10

\* Deleting leaves fewer rows of each source.
LEMMA FewerRows ==
  ASSUME RowsInv, CapInv, stored' \subseteq stored, UNCHANGED nextId
  PROVE  RowsInv' /\ CapInv' /\ OnlyHigherNumbers
<1>1. IsFiniteSet(stored) /\ IsFiniteSet(stored')
  BY FS_Subset DEF RowsInv
<1>2. RowsInv' /\ OnlyHigherNumbers
  BY <1>1 DEF RowsInv, OnlyHigherNumbers
<1>3. ASSUME NEW source \in Source PROVE Cardinality(OfSource(stored', source)) <= MaxStored
  <2>1. OfSource(stored', source) \in SUBSET OfSource(stored, source) /\ OfSource(stored, source) \in SUBSET stored
    BY DEF OfSource
  <2>2. IsFiniteSet(OfSource(stored, source))
    BY <1>1, <2>1, FS_Subset
  <2>3. /\ Cardinality(OfSource(stored', source)) <= Cardinality(OfSource(stored, source))
        /\ Cardinality(OfSource(stored', source)) \in Nat /\ Cardinality(OfSource(stored, source)) \in Nat
    BY <2>1, <2>2, FS_Subset, FS_CardinalityType
  <2> QED BY <2>3, LimitsAreNumbers DEF CapInv
<1> QED BY <1>2, <1>3 DEF CapInv

\* prune_expired: what it deletes was expired when it was selected, and still is.
LEMMA PruneDeletesStep ==
  ASSUME now \in Nat, StoreInv, PruneDeletes
  PROVE  RowsInv' /\ CapInv' /\ OnlyHigherNumbers /\ RowsOfStep
<1>1. stored' \subseteq stored /\ UNCHANGED nextId
  BY DEF PruneDeletes
<1>2. RowsInv' /\ CapInv' /\ OnlyHigherNumbers
  BY <1>1, FewerRows DEF StoreInv
<1>3. ASSUME NEW row \in stored \ stored' PROVE row.received < now - Retention
  <2>1. row.id \in pruning.ids /\ pruning # None
    BY <1>3 DEF PruneDeletes
  <2>2. row.received < pruning.cutoff /\ pruning.cutoff <= now - Retention /\ pruning.cutoff \in Int
    BY <2>1 DEF StoreInv, PruningInv
  <2>3. row.received \in Int
    BY DEF StoreInv, RowsInv, Rows
  <2> QED BY <2>2, <2>3, LimitsAreNumbers
<1> QED BY <1>2, <1>3 DEF RowsOfStep

\* A row that is selected by the retention has expired.
LEMMA PruneSelectsStep ==
  ASSUME now \in Nat, now' = now, StoreInv, PruneSelects
  PROVE  PruningInv'
<1> DEFINE cutoff == now - Retention
<1> DEFINE old == {row \in stored : row.received < cutoff}
<1> DEFINE chosen == OldestOf(old)
<1>1. pruning' = [cutoff |-> cutoff, ids |-> Ids(chosen)] /\ UNCHANGED <<stored, nextId>>
  BY DEF PruneSelects
<1>2. chosen \in SUBSET old
  BY DEF OldestOf, First
<1>3. cutoff \in Int
  BY LimitsAreNumbers
<1>4. \A id \in Ids(chosen) : \E row \in chosen : id = row.id
  BY DEF Ids
<1> HIDE DEF chosen
<1>5. \A id \in Ids(chosen) : id \in Nat /\ id < nextId
  BY <1>2, <1>4 DEF StoreInv, RowsInv, Rows
<1>6. \A row \in stored : row.id \in Ids(chosen) => row.received < cutoff
  BY <1>2, <1>4 DEF StoreInv, RowsInv
<1> HIDE DEF cutoff
<1>7. /\ pruning'.cutoff \in Int /\ pruning'.cutoff <= cutoff
      /\ \A id \in pruning'.ids : id \in Nat /\ id < nextId'
      /\ \A row \in stored' : row.id \in pruning'.ids => row.received < pruning'.cutoff
  BY <1>1, <1>3, <1>5, <1>6
<1> QED BY <1>7 DEF PruningInv, cutoff

\* An upload and a retention that are under way have seen what they go by: rows
\* that are added meanwhile were looked up, and have numbers of their own.
LEMMA AcceptingKept ==
  ASSUME AcceptingInv, UNCHANGED accepting, stored' \subseteq stored
  PROVE  AcceptingInv'
BY DEF AcceptingInv

\* What the retention has selected is unchanged by an upload: its rows have other numbers.
LEMMA PruningKept ==
  ASSUME now \in Nat, now' \in Nat, now <= now', RowsInv, PruningInv, UNCHANGED pruning, OnlyHigherNumbers
  PROVE  PruningInv'
<1>1. CASE pruning = None
  BY <1>1 DEF PruningInv
<1>2. CASE pruning # None
  <2>1. nextId \in Nat /\ nextId' \in Nat /\ nextId <= nextId'
    BY DEF RowsInv, OnlyHigherNumbers
  <2>2. pruning.cutoff <= now' - Retention
    BY <1>2, LimitsAreNumbers DEF PruningInv
  <2>3. pruning.cutoff \in Int /\ \A id \in pruning.ids : id \in Nat /\ id < nextId
    BY <1>2 DEF PruningInv
  <2>4. \A id \in pruning.ids : id < nextId'
    BY <2>1, <2>3
  <2>5. ASSUME NEW row \in stored', row.id \in pruning.ids PROVE row.received < pruning.cutoff
    <3>1. row.id \in Nat /\ row.id < nextId
      BY <2>3, <2>5
    <3>2. row \in stored
      BY <2>1, <3>1 DEF OnlyHigherNumbers
    <3> QED BY <1>2, <2>5, <3>2 DEF PruningInv
  <2> QED BY <2>2, <2>3, <2>4, <2>5 DEF PruningInv
<1> QED BY <1>1, <1>2

\* What a step of the system is to the store.
StoreStep ==
  \/ \E upload \in Uploads : AcceptReads(upload)
  \/ AcceptCommits \/ AcceptRejects \/ AcceptFails
  \/ (PruneSelects /\ UNCHANGED now) \/ PruneDeletes \/ UNCHANGED storeVars

\* A step of the system is one of the store's, or leaves it alone.
LEMMA StoreSteps ==
  ASSUME AgentInv, [Next]_vars
  PROVE  StoreStep /\ now' \in Nat /\ now <= now'
<1> USE DEF StoreStep
<1>0. now \in Nat /\ requests \subseteq Uploads
  BY DEF AgentInv
<1>1. CASE LogCycleStarts \/ Host \/ HostFails \/ UploadSent \/ AttemptFails
  BY <1>0, <1>1 DEF LogCycleStarts, Host, HostFails, UploadSent, AttemptFails, ServerUnchanged
<1>2. CASE Server
  BY <1>0, <1>2 DEF Server, UploadTaken, UploadRefused, UploadAccepted, UploadRejected, UploadFails, ServerUnchanged
<1>3. CASE Authorisation
  BY <1>0, <1>3 DEF Authorisation
<1>4. CASE Background
  BY <1>0, <1>4 DEF Background, Tick
<1>5. CASE Reader
  BY <1>0, <1>5 DEF Reader
<1>6. CASE UNCHANGED vars
  BY <1>0, <1>6 DEF vars
<1> QED BY <1>1, <1>2, <1>3, <1>4, <1>5, <1>6 DEF Next

\* Every step keeps what holds of the store; rows come with higher numbers and go when they are old.
LEMMA StoreInvariance ==
  ASSUME AgentInv, StoreInv, [Next]_vars
  PROVE  StoreInv' /\ OnlyHigherNumbers /\ RowsOfStep
<1>0. StoreStep /\ now \in Nat /\ now' \in Nat /\ now <= now'
  BY StoreSteps DEF AgentInv
<1>1. RowsInv /\ CapInv /\ AcceptingInv /\ PruningInv
  BY DEF StoreInv
<1>2. ASSUME UNCHANGED <<stored, nextId>>
      PROVE  RowsInv' /\ CapInv' /\ OnlyHigherNumbers /\ RowsOfStep
  BY <1>1, <1>2, FewerRows DEF RowsOfStep
<1>3. ASSUME NEW upload \in Uploads, AcceptReads(upload)
      PROVE  StoreInv' /\ OnlyHigherNumbers /\ RowsOfStep
  <2>1. UNCHANGED <<stored, nextId, pruning>> /\ accepting' = [upload |-> upload, at |-> now, existing |-> Known(upload)]
    BY <1>3 DEF AcceptReads
  <2>2. \A entry \in upload.entries, row \in stored : row.hash = entry.hash => entry.hash \in Known(upload)
    BY DEF Known
  <2>3. AcceptingInv'
    BY <1>0, <2>1, <2>2 DEF AcceptingInv
  <2> QED BY <1>0, <1>1, <1>2, <2>1, <2>3, PruningKept DEF StoreInv
<1>4. CASE AcceptCommits
  <2>1. RowsInv' /\ CapInv' /\ OnlyHigherNumbers /\ RowsOfStep
    BY <1>0, <1>4, AcceptCommitsStep
  <2>2. AcceptingInv' /\ UNCHANGED pruning
    BY <1>4 DEF AcceptCommits, AcceptingInv
  <2> QED BY <1>0, <1>1, <2>1, <2>2, PruningKept DEF StoreInv
<1>5. CASE AcceptRejects \/ AcceptFails
  <2>1. UNCHANGED <<stored, nextId, pruning>> /\ accepting' = None
    BY <1>5 DEF AcceptRejects, AcceptFails
  <2>2. AcceptingInv'
    BY <2>1 DEF AcceptingInv
  <2> QED BY <1>0, <1>1, <1>2, <2>1, <2>2, PruningKept DEF StoreInv
<1>6. CASE PruneSelects /\ UNCHANGED now
  <2>1. UNCHANGED <<stored, nextId, accepting>>
    BY <1>6 DEF PruneSelects
  <2> QED BY <1>0, <1>1, <1>2, <1>6, <2>1, PruneSelectsStep, AcceptingKept DEF StoreInv
<1>7. CASE PruneDeletes
  <2>1. stored' \subseteq stored /\ pruning' = None /\ UNCHANGED <<nextId, accepting>>
    BY <1>7 DEF PruneDeletes
  <2>2. PruningInv'
    BY <2>1 DEF PruningInv
  <2> QED BY <1>0, <1>1, <1>7, <2>1, <2>2, PruneDeletesStep, AcceptingKept DEF StoreInv
<1>8. CASE UNCHANGED storeVars
  <2>1. UNCHANGED <<stored, nextId, accepting, pruning>>
    BY <1>8 DEF storeVars
  <2> QED BY <1>0, <1>1, <1>2, <2>1, AcceptingKept, PruningKept DEF StoreInv
<1> QED BY <1>0, <1>3, <1>4, <1>5, <1>6, <1>7, <1>8 DEF StoreStep

(***************************************************************************)
(* The reader.                                                             *)
(***************************************************************************)
\* What the store does meanwhile takes rows away, or adds rows of other numbers.
LEMMA ReadingKept ==
  ASSUME RowsInv, ReadingInv, OnlyHigherNumbers, UNCHANGED reading
  PROVE  ReadingInv'
<1>1. CASE reading = None
  BY <1>1 DEF ReadingInv, ReadingTyped, SteadyInv, SeenInv
<1>2. CASE reading # None
  <2>1. nextId \in Nat /\ nextId' \in Nat /\ nextId <= nextId'
    BY DEF RowsInv, OnlyHigherNumbers
  <2>2. \A id \in reading.steady : id \in Nat /\ id < nextId
    BY <1>2 DEF ReadingInv, ReadingTyped, SteadyInv
  <2>3. \A row \in stored' : row.id \in reading.steady => row \in stored
    <3>1. SUFFICES ASSUME NEW row \in stored', row.id \in reading.steady PROVE row \in stored
      OBVIOUS
    <3>2. row.id \in Nat /\ row.id < nextId
      BY <2>2, <3>1
    <3> QED BY <2>1, <3>2 DEF OnlyHigherNumbers
  <2>4. \A id \in reading.steady : id < nextId'
    BY <2>1, <2>2
  <2>5. SteadyInv'
    BY <2>3, <2>4 DEF ReadingInv, SteadyInv
  <2>6. Seen' = Seen
    BY DEF Seen
  <2>7. SeenInv'
    BY <2>3, <2>6 DEF ReadingInv, SeenInv
  <2> QED BY <2>5, <2>7 DEF ReadingInv, ReadingTyped
<1> QED BY <1>1, <1>2

\* recent: a page ends where the next begins, and rows behind it come later.
LEMMA PageRows ==
  ASSUME RowsInv, NEW query \in Query, NEW cursor
  PROVE  LET rows == Behind(query, cursor)
             page == Page(query, cursor)
         IN /\ page.items \subseteq rows
            /\ \/ page.next = None /\ page.items = rows
               \/ \E last \in page.items :
                    /\ page.next = Cursor(query, last.id) /\ page.next # None
                    /\ \A row \in page.items : ~ Past(row, query, last.id)
                    /\ \A row \in rows \ page.items : Past(row, query, last.id)
<1> DEFINE rows == Behind(query, cursor)
<1> DEFINE page == Page(query, cursor)
<1> DEFINE R == {p \in rows \X rows : InOrder(query, p[1], p[2])}
<1> DEFINE items == {row \in rows : Cardinality({other \in rows : InOrder(query, other, row)}) < query.limit}
<1> DEFINE last == CHOOSE row \in items : \A other \in items \ {row} : InOrder(query, other, row)
<1>1. page = [items |-> items,
              next |-> IF Cardinality(rows) > query.limit THEN Cursor(query, last.id) ELSE None]
  BY DEF Page, First, LastOf
<1>2. rows \in SUBSET stored /\ IsFiniteSet(rows) /\ \A row \in rows : row.id \in Nat
  <2>1. rows \in SUBSET stored
    BY DEF Behind
  <2> HIDE DEF rows
  <2> QED BY <2>1, FS_Subset DEF RowsInv, Rows
<1> HIDE DEF rows
<1>3. \A a, b \in rows : <<a, b>> \in R <=> InOrder(query, a, b)
  OBVIOUS
<1>4. Orders(R, rows)
  <2> HIDE DEF R
  <2>1. \A a, b \in rows : a.id = b.id => a = b
    BY <1>2 DEF RowsInv
  <2> QED BY <1>2, <1>3, <2>1 DEF Orders, InOrder
<1>5. items = Top(query.limit, R, rows)
  <2> HIDE DEF R
  <2>1. \A row \in rows : {other \in rows : InOrder(query, other, row)} = Preceding(R, rows, row)
    BY <1>3 DEF Preceding
  <2> QED BY <2>1 DEF Top, Rank
<1>6. query.limit \in Nat /\ query.limit # 0 /\ Cardinality(rows) \in Nat
  BY <1>2, FS_CardinalityType, QueriesAreValid
<1>7. CASE Cardinality(rows) <= query.limit
  <2>1. items = rows
    <3> HIDE DEF R, items
    <3> QED BY <1>2, <1>4, <1>5, <1>6, <1>7, TopIsAll
  <2> HIDE DEF items, last
  <2> QED BY <1>1, <1>6, <1>7, <2>1 DEF rows
<1>8. CASE Cardinality(rows) > query.limit
  <2>1. items \in SUBSET rows
    OBVIOUS
  <2> HIDE DEF R, items
  <2>2. Cardinality(items) <= query.limit /\ items # rows
    BY <1>2, <1>4, <1>5, <1>6, <1>8, TopIsBounded
  <2>3. Cardinality(items) = query.limit
    BY <1>2, <1>4, <1>5, <1>6, <2>2, TopIsFull
  <2>4. items # {}
    BY <1>6, <2>3, FS_EmptySet
  <2>5. \E row \in items : \A other \in items \ {row} : <<other, row>> \in R
    BY <1>2, <1>4, <2>1, <2>4, Highest
  <2>6. \E row \in items : \A other \in items \ {row} : InOrder(query, other, row)
    BY <1>3, <2>1, <2>5
  <2>7. last \in items /\ \A other \in items \ {last} : InOrder(query, other, last)
    BY <2>6
  <2> HIDE DEF last
  <2>8. \A row \in rows \ items : InOrder(query, last, row)
    <3>1. \A row \in rows \ items : <<last, row>> \in R
      BY <1>2, <1>4, <1>5, <1>6, <2>7, TopSeparates
    <3> QED BY <1>3, <2>1, <2>7, <3>1
  <2>9. \A row \in items : ~ Past(row, query, last.id)
    BY <1>2, <2>1, <2>7 DEF InOrder, Past
  <2>10. \A row \in rows \ items : Past(row, query, last.id)
    BY <1>2, <2>1, <2>7, <2>8 DEF InOrder, Past
  <2>11. page.next = Cursor(query, last.id) /\ page.items = items
    BY <1>1, <1>8
  <2>12. page.next # None
    BY <1>2, <2>1, <2>7, <2>11, NoneIsNoCursor DEF Cursor
  <2> HIDE DEF page
  <2> QED BY <2>1, <2>7, <2>9, <2>10, <2>11, <2>12 DEF rows, page
<1> QED BY <1>6, <1>7, <1>8

\* A reader begins: nothing is seen yet, and every row of the query is steady.
LEMMA ReadingStartsStep ==
  ASSUME RowsInv, NEW query \in Query, ReadingStarts(query), UNCHANGED <<stored, nextId>>
  PROVE  ReadingInv'
<1> DEFINE steady == Ids({row \in stored : Matches(row, query)})
<1>1. reading' = [query |-> query, cursor |-> None, pages |-> <<>>, done |-> FALSE, steady |-> steady]
  BY DEF ReadingStarts
<1>2. \A id \in steady : id \in Nat /\ id < nextId
  BY DEF Ids, RowsInv, Rows
<1>3. \A row \in stored : row.id \in steady => Matches(row, query)
  BY DEF Ids, RowsInv
<1> HIDE DEF steady
<1>4. ReadingTyped'
  BY <1>1, <1>2 DEF ReadingTyped
<1>5. SteadyInv'
  BY <1>1, <1>2, <1>3 DEF SteadyInv
<1>6. Seen' = {}
  BY <1>1 DEF Seen
<1>7. SeenInv'
  BY <1>1, <1>6 DEF SeenInv, PagesInOrder
<1> QED BY <1>4, <1>5, <1>7 DEF ReadingInv

\* The next page: it is behind all that was seen, and what it leaves is behind it.
LEMMA PageReadStep ==
  ASSUME RowsInv, ReadingInv, NEW query \in Query, PageRead(query), UNCHANGED <<stored, nextId>>
  PROVE  ReadingInv'
<1> DEFINE cursor == reading.cursor
<1> DEFINE rows == Behind(query, cursor)
<1> DEFINE page == Page(query, cursor)
<1> DEFINE pages == reading.pages
<1>1. /\ reading # None /\ ~ reading.done
      /\ reading' = [reading EXCEPT !.pages = Append(@, page.items), !.cursor = page.next,
                                    !.done = page.next = None]
  BY DEF PageRead
<1>2. /\ reading \in [query : Query, cursor : Cursors \union {None}, pages : Seq(SUBSET Rows),
                      done : BOOLEAN, steady : SUBSET Nat]
      /\ cursor # None => cursor.query = reading.query
      /\ cursor = None => pages = <<>>
  BY <1>1 DEF ReadingInv, ReadingTyped
<1>3. reading.query = query
  BY <1>2 DEF PageRead, CursorFits
<1>4. /\ page.items \subseteq rows
      /\ \/ page.next = None /\ page.items = rows
         \/ \E last \in page.items :
              /\ page.next = Cursor(query, last.id) /\ page.next # None
              /\ \A row \in page.items : ~ Past(row, query, last.id)
              /\ \A row \in rows \ page.items : Past(row, query, last.id)
  BY PageRows
<1>5. /\ rows \in SUBSET stored
      /\ \A row \in rows : Matches(row, query) /\ (cursor # None => Past(row, query, cursor.id))
      /\ \A row \in stored : Matches(row, query) /\ (cursor # None => Past(row, query, cursor.id)) => row \in rows
  BY DEF Behind
<1>6. stored \subseteq Rows /\ \A row \in Rows : row.id \in Nat
  BY DEF RowsInv, Rows
<1> HIDE DEF rows, page, cursor, pages
<1>7. /\ pages \in Seq(SUBSET Rows) /\ page.items \in SUBSET Rows
      /\ reading'.query = query /\ reading'.cursor = page.next /\ reading'.pages = Append(pages, page.items)
      /\ reading'.done = (page.next = None) /\ reading'.steady = reading.steady
      /\ cursor # None => cursor.id \in Nat
  BY <1>1, <1>2, <1>3, <1>4, <1>5, <1>6 DEF pages, cursor, Cursors
<1>8. /\ Len(pages) \in Nat /\ DOMAIN pages = 1 .. Len(pages)
      /\ DOMAIN Append(pages, page.items) = 1 .. Len(pages) + 1
      /\ \A i \in 1 .. Len(pages) : Append(pages, page.items)[i] = pages[i] /\ pages[i] \in SUBSET Rows
      /\ Append(pages, page.items)[Len(pages) + 1] = page.items
      /\ Append(pages, page.items) \in Seq(SUBSET Rows)
  BY <1>7
<1>9. Seen' = Seen \union page.items
  <2>1. Seen = UNION {pages[i] : i \in DOMAIN pages}
    BY DEF Seen, pages
  <2>2. Seen' = UNION {Append(pages, page.items)[i] : i \in 1 .. Len(pages) + 1}
    BY <1>7, <1>8 DEF Seen
  <2>3. 1 .. Len(pages) + 1 = (1 .. Len(pages)) \union {Len(pages) + 1}
    BY <1>8
  <2> QED BY <1>8, <2>1, <2>2, <2>3
<1>10. Seen \subseteq Rows /\ \A i \in 1 .. Len(pages) : pages[i] \subseteq Seen
  BY <1>8 DEF Seen, pages
<1>11. /\ PagesInOrder(pages, query)
       /\ \A row \in Seen : Matches(row, query)
       /\ cursor # None => \A row \in Seen : ~ Past(row, query, cursor.id)
       /\ \A row \in stored : row.id \in reading.steady =>
            row \in Seen \/ (cursor # None => Past(row, query, cursor.id))
  BY <1>1, <1>3 DEF ReadingInv, SeenInv, pages, cursor
<1>12. cursor = None => Seen = {}
  BY <1>2, <1>8, <1>10 DEF Seen, pages
<1>13. \A a \in Seen, b \in page.items : InOrder(query, a, b)
  BY <1>4, <1>5, <1>6, <1>7, <1>10, <1>11, <1>12 DEF InOrder, Past
<1>14. PagesInOrder(Append(pages, page.items), query)
  <2>1. SUFFICES ASSUME NEW i \in 1 .. Len(pages) + 1, NEW j \in 1 .. Len(pages) + 1, i < j,
                        NEW a \in Append(pages, page.items)[i], NEW b \in Append(pages, page.items)[j]
                 PROVE  InOrder(query, a, b)
    BY <1>8 DEF PagesInOrder
  <2>2. i \in 1 .. Len(pages) /\ a \in pages[i] /\ a \in Seen
    BY <1>8, <1>10, <2>1
  <2>3. CASE j = Len(pages) + 1
    BY <1>8, <1>13, <2>1, <2>2, <2>3
  <2>4. CASE j \in 1 .. Len(pages)
    BY <1>8, <1>11, <2>1, <2>2, <2>4 DEF PagesInOrder
  <2> QED BY <1>8, <2>3, <2>4
<1>15. \A row \in Seen' : Matches(row, query)
  BY <1>4, <1>5, <1>9, <1>11
<1>16. \A row \in stored : row.id \in reading.steady => Matches(row, query)
  BY <1>1, <1>3 DEF ReadingInv, SteadyInv
<1>17. \A row \in stored : row.id \in reading.steady => row \in Seen \/ row \in rows
  BY <1>5, <1>11, <1>16
<1>18. CASE page.next = None /\ page.items = rows
  <2>1. ReadingTyped'
    BY <1>1, <1>2, <1>7, <1>8, <1>18 DEF ReadingTyped
  <2>2. SteadyInv'
    BY <1>1, <1>3, <1>7 DEF ReadingInv, SteadyInv
  <2>3. SeenInv'
    BY <1>7, <1>9, <1>14, <1>15, <1>17, <1>18 DEF SeenInv
  <2> QED BY <2>1, <2>2, <2>3 DEF ReadingInv
<1>19. CASE \E last \in page.items :
              /\ page.next = Cursor(query, last.id) /\ page.next # None
              /\ \A row \in page.items : ~ Past(row, query, last.id)
              /\ \A row \in rows \ page.items : Past(row, query, last.id)
  <2>1. PICK last \in page.items :
          /\ page.next = Cursor(query, last.id) /\ page.next # None
          /\ \A row \in page.items : ~ Past(row, query, last.id)
          /\ \A row \in rows \ page.items : Past(row, query, last.id)
    BY <1>19
  <2>2. last.id \in Nat /\ page.next \in Cursors /\ page.next.query = query /\ page.next.id = last.id
    BY <1>4, <1>5, <1>6, <2>1 DEF Cursor, Cursors
  <2>3. ReadingTyped'
    BY <1>1, <1>2, <1>3, <1>7, <1>8, <2>1, <2>2 DEF ReadingTyped
  <2>4. SteadyInv'
    BY <1>1, <1>3, <1>7 DEF ReadingInv, SteadyInv
  <2>5. \A row \in Seen' : ~ Past(row, query, last.id)
    BY <1>6, <1>9, <1>10, <1>13, <2>1, <2>2 DEF InOrder, Past
  <2>6. \A row \in stored : row.id \in reading.steady => row \in Seen' \/ Past(row, query, last.id)
    BY <1>9, <1>17, <2>1
  <2>7. SeenInv'
    BY <1>7, <1>14, <1>15, <2>1, <2>2, <2>5, <2>6 DEF SeenInv
  <2> QED BY <2>3, <2>4, <2>7 DEF ReadingInv
<1> QED BY <1>4, <1>18, <1>19

\* Every step keeps what a reader has.
LEMMA ReadingInvariance ==
  ASSUME AgentInv, StoreInv, ReadingInv, [Next]_vars
  PROVE  ReadingInv'
<1>0. OnlyHigherNumbers /\ RowsInv
  BY StoreInvariance DEF StoreInv
<1>1. ASSUME UNCHANGED reading PROVE ReadingInv'
  BY <1>0, <1>1, ReadingKept
<1>2. CASE LogCycleStarts \/ Host \/ HostFails \/ UploadSent \/ AttemptFails
  BY <1>1, <1>2 DEF LogCycleStarts, Host, HostFails, UploadSent, AttemptFails, ServerUnchanged
<1>3. CASE Server
  BY <1>1, <1>3 DEF Server, UploadTaken, UploadRefused, UploadAccepted, UploadRejected, UploadFails, ServerUnchanged
<1>4. CASE Authorisation \/ Background \/ UNCHANGED vars
  BY <1>1, <1>4 DEF Authorisation, Background, vars
<1>5. CASE Reader
  <2>1. PICK query \in Query : ReadingStarts(query) \/ PageRead(query) \/ ReadingEnds(query)
    BY <1>5 DEF Reader
  <2>2. UNCHANGED <<stored, nextId>>
    BY <1>5 DEF Reader, storeVars
  <2>3. CASE ReadingEnds(query)
    BY <2>3 DEF ReadingEnds, ReadingInv, ReadingTyped, SteadyInv, SeenInv
  <2> QED BY <1>0, <2>1, <2>2, <2>3, ReadingStartsStep, PageReadStep
<1> QED BY <1>2, <1>3, <1>4, <1>5 DEF Next

(***************************************************************************)
(* The invariant, and the properties.                                      *)
(***************************************************************************)
\* The agent is idle, the store is empty and nobody reads.
LEMMA InitLogs == Init => LogsInv
<1> SUFFICES ASSUME Init PROVE LogsInv
  OBVIOUS
<1>1. JournalInv /\ CycleInv
  <2>1. journal = <<>> /\ cycle = Agent!Idle
    BY DEF Init, Agent!WatchInit
  <2> QED BY <2>1 DEF JournalInv, CycleInv, Agent!Idle
<1>2. AgentInv
  BY <1>1, ClocksTellTime DEF Init, AgentInv
<1>3. stored = {} /\ nextId = 1 /\ accepting = None /\ pruning = None
  BY DEF Init, StoreInit
<1>4. \A source : OfSource(stored, source) = {}
  BY <1>3 DEF OfSource
<1>5. StoreInv
  BY <1>3, <1>4, FS_EmptySet, LimitsAreNumbers DEF StoreInv, RowsInv, CapInv, AcceptingInv, PruningInv
<1>6. ReadingInv
  BY DEF Init, ReadingInv, ReadingTyped, SteadyInv, SeenInv
<1> QED BY <1>2, <1>5, <1>6 DEF LogsInv

\* Together they are inductive.
LEMMA LogsInvariance == LogsInv /\ [Next]_vars => LogsInv'
BY AgentInvariance, StoreInvariance, ReadingInvariance DEF LogsInv

\* Whatever attempts, uploads, retention and readers do, and in any order, the
\* agent, the store and the reader are as described above.
LEMMA LogsInvariant == Spec => []LogsInv
<1>1. Init => LogsInv
  BY InitLogs
<1>2. LogsInv /\ [Next]_vars => LogsInv'
  BY LogsInvariance
<1> QED BY <1>1, <1>2, PTL DEF Spec

\* A device has an entry once, however often and under whatever sources it is
\* uploaded, and no source has more rows than it may.
THEOREM StoredOnce == Spec => []EntriesAreStoredOnce
<1>1. LogsInv => EntriesAreStoredOnce
  BY DEF LogsInv, StoreInv, RowsInv, CapInv, EntriesAreStoredOnce
<1> QED BY <1>1, LogsInvariant, PTL

\* A row goes because it has expired or because its source has enough newer ones,
\* though the retention deletes what it selected earlier, and numbers do not return.
THEOREM RowsGoWhenOld == Spec => OnlyOldRowsGo
<1>1. LogsInv /\ [Next]_vars =>
        [/\ \A row \in stored \ stored' :
              \/ row.received < now - Retention
              \/ Cardinality({newer \in OfSource(stored', row.source) : newer.id > row.id}) >= MaxStored
         /\ \A row \in stored' \ stored : row.id >= nextId]_vars
  <2>1. LogsInv /\ [Next]_vars => RowsOfStep /\ \A row \in stored' \ stored : row.id >= nextId
    BY StoreInvariance DEF LogsInv, OnlyHigherNumbers
  <2> QED BY <2>1 DEF RowsOfStep
<1> QED BY <1>1, LogsInvariant, PTL DEF Spec, OnlyOldRowsGo

\* A reader that has come to the end has seen every row that stayed, once and in order.
LEMMA FinishedReading ==
  ASSUME ReadingInv
  PROVE  PagesAreExact
<1> SUFFICES ASSUME reading # None, reading.done PROVE PagesAreExact
  BY DEF PagesAreExact
<1>1. /\ PagesInOrder(reading.pages, reading.query)
      /\ \A row \in Seen : Matches(row, reading.query)
      /\ \A row \in stored : row.id \in reading.steady => row \in Seen
  BY DEF ReadingInv, SeenInv
<1> QED BY <1>1 DEF PagesAreExact, PagesInOrder, Seen

\* near: the rows shown are the closest of the window, at most NearLimit of them.
LEMMA NearRows ==
  ASSUME RowsInv, NEW anchor \in Int
  PROVE  LET shown == Near(anchor).items
             left == Window(anchor) \ shown
         IN /\ shown \subseteq Window(anchor)
            /\ Near(anchor).truncated <=> left # {}
            /\ left # {} => Cardinality(shown) = NearLimit
            /\ \A l \in left, s \in shown : Distance(s, anchor) <= Distance(l, anchor)
<1> DEFINE rows == Window(anchor)
<1> DEFINE R == {p \in rows \X rows : Closer(anchor, p[1], p[2])}
<1> DEFINE shown == {row \in rows : Cardinality({other \in rows : Closer(anchor, other, row)}) < NearLimit}
<1>1. Near(anchor) = [items |-> shown, truncated |-> Cardinality(rows) > NearLimit]
  BY DEF Near, First
<1>2. rows \in SUBSET stored /\ IsFiniteSet(rows)
  <2>1. rows \in SUBSET stored
    BY DEF Window
  <2> HIDE DEF rows
  <2> QED BY <2>1, FS_Subset DEF RowsInv
<1>3. \A row \in rows : row.id \in Nat /\ row.occurred \in Int /\ Distance(row, anchor) \in Int
  <2>1. \A row \in stored : row.id \in Nat /\ row.occurred \in Int
    BY DEF RowsInv, Rows
  <2> HIDE DEF rows
  <2> QED BY <1>2, <2>1 DEF Distance
<1> HIDE DEF rows
<1>4. \A a, b \in rows : <<a, b>> \in R <=> Closer(anchor, a, b)
  OBVIOUS
<1>5. Orders(R, rows)
  <2> HIDE DEF R
  <2>1. \A a, b \in rows : a.id = b.id => a = b
    BY <1>2 DEF RowsInv
  <2>2. \A a \in rows : ~ Closer(anchor, a, a)
    BY <1>3 DEF Closer
  <2>3. \A a, b, c \in rows : Closer(anchor, a, b) /\ Closer(anchor, b, c) => Closer(anchor, a, c)
    BY <1>3 DEF Closer
  <2>4. \A a, b \in rows : a = b \/ Closer(anchor, a, b) \/ Closer(anchor, b, a)
    BY <1>3, <2>1 DEF Closer
  <2> QED BY <1>4, <2>2, <2>3, <2>4 DEF Orders
<1>6. shown = Top(NearLimit, R, rows)
  <2> HIDE DEF R
  <2>1. \A row \in rows : {other \in rows : Closer(anchor, other, row)} = Preceding(R, rows, row)
    BY <1>4 DEF Preceding
  <2> QED BY <2>1 DEF Top, Rank
<1>7. shown \in SUBSET rows
  OBVIOUS
<1>8. NearLimit \in Nat /\ Cardinality(rows) \in Nat
  BY <1>2, FS_CardinalityType, LimitsAreNumbers
<1> HIDE DEF R, shown
<1>9. Cardinality(rows) <= NearLimit => shown = rows
  BY <1>2, <1>5, <1>6, <1>8, TopIsAll
<1>10. Cardinality(shown) <= NearLimit
  BY <1>2, <1>5, <1>6, <1>8, TopIsBounded
<1>11. shown # rows => Cardinality(shown) = NearLimit
  BY <1>2, <1>5, <1>6, <1>8, TopIsFull
<1>12. \A l \in rows \ shown, s \in shown : <<s, l>> \in R
  BY <1>2, <1>5, <1>6, <1>8, TopSeparates
<1>13. ASSUME NEW l \in rows \ shown, NEW s \in shown PROVE Distance(s, anchor) <= Distance(l, anchor)
  <2>1. Closer(anchor, s, l) /\ s \in rows
    BY <1>4, <1>7, <1>12
  <2> QED BY <1>3, <2>1 DEF Closer
<1>14. Cardinality(rows) > NearLimit <=> rows \ shown # {}
  BY <1>7, <1>8, <1>9, <1>10
<1>15. rows \ shown # {} => Cardinality(shown) = NearLimit
  BY <1>7, <1>11
<1>16. Near(anchor).items = shown /\ (Near(anchor).truncated <=> Cardinality(rows) > NearLimit)
  <2>1. Near(anchor).items = shown
    BY <1>1
  <2>2. Near(anchor).truncated = (Cardinality(rows) > NearLimit)
    BY <1>1
  <2> QED BY <2>1, <2>2
<1>17. Near(anchor).truncated <=> rows \ shown # {}
  BY <1>14, <1>16
<1>18. rows = Window(anchor)
  BY DEF rows
<1> QED BY <1>7, <1>13, <1>15, <1>16, <1>17, <1>18

\* What readers are shown is exact: the pages of a query, and an incident's diagnostics.
THEOREM ExactReads == Spec => []ReadsAreExact
<1>1. ASSUME RowsInv PROVE DiagnosticsAreNearest
  <2>1. ASSUME NEW incident \in Incidents, NEW point \in {"opened", "recovered"},
               AnchorOf(incident, point) # None
        PROVE  AnchorOf(incident, point) \in Int
    BY <2>1, ClocksTellTime DEF AnchorOf
  <2> QED BY <1>1, <2>1, NearRows DEF DiagnosticsAreNearest
<1>2. LogsInv => ReadsAreExact
  BY <1>1, FinishedReading DEF LogsInv, StoreInv, ReadsAreExact
<1> QED BY <1>2, LogsInvariant, PTL
=============================================================================
