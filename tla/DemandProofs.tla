---------------------------- MODULE DemandProofs ----------------------------
(***************************************************************************)
(* Theorems about page_demand for any number of pages, requests, days and  *)
(* failures: no request is lost, no view is lost, and no day is added      *)
(* twice without a failure or an order to do so.                           *)
(***************************************************************************)
EXTENDS Demand, FiniteSetTheorems, WellFoundedInduction, TLAPS

-----------------------------------------------------------------------------
(* Lemmas about rows, runs and chunks *)

LEMMA MovablePages == \A p \in Movable : p \in Pages
BY DemandConstants

\* Every row a transaction writes is a row.
LEMMA RowsWritten ==
  ASSUME NEW row \in Row, NEW known \in Row
  PROVE  /\ NoRow \in Row /\ NewRow(1, 0) \in Row /\ NewRow(0, 1) \in Row
         /\ Requested(row) \in Row /\ Viewed(row, known) \in Row
         /\ [row EXCEPT !.touched = "long ago"] \in Row
         /\ \A q \in {"no", "recent", "stale"} : [row EXCEPT !.queued = q] \in Row
<1>1. NoRow \in Row /\ NewRow(1, 0) \in Row /\ NewRow(0, 1) \in Row
  BY DEF Row, NoRow, NewRow
<1>2. Requested(row) \in Row
  <2> DEFINE more == [row EXCEPT !.requests = row.requests + 1]
  <2>1. ASSUME NEW n \in Nat PROVE [row EXCEPT !.requests = n] \in Row
    BY DEF Row
  <2>2. row.requests + 1 \in Nat
    <3>1. row.requests \in Nat
      BY DEF Row
    <3> QED BY <3>1
  <2>3. more \in Row
    BY <2>1, <2>2
  <2>4. Requested(row) = [more EXCEPT !.touched = "lately"]
    BY DEF Requested
  <2> HIDE DEF more
  <2> QED BY <2>3, <2>4 DEF Row
<1>3. Viewed(row, known) \in Row
  <2> DEFINE added == [row EXCEPT !.views = known.views + 1]
  <2>1. ASSUME NEW n \in Nat PROVE [row EXCEPT !.views = n] \in Row
    BY DEF Row
  <2>2. known.views + 1 \in Nat
    <3>1. known.views \in Nat
      BY DEF Row
    <3> QED BY <3>1
  <2>3. added \in Row
    BY <2>1, <2>2
  <2>4. Viewed(row, known) = [added EXCEPT !.touched = "lately"]
    BY DEF Viewed
  <2> HIDE DEF added
  <2> QED BY <2>3, <2>4 DEF Row
<1>4. [row EXCEPT !.touched = "long ago"] \in Row
  BY DEF Row
<1>5. \A q \in {"no", "recent", "stale"} : [row EXCEPT !.queued = q] \in Row
  BY DEF Row
<1> QED BY <1>1, <1>2, <1>3, <1>4, <1>5

\* A request and the daily job write no columns but theirs.
LEMMA RequestedFields ==
  ASSUME NEW row \in Row
  PROVE /\ Requested(row).exists = row.exists
        /\ Requested(row).requests = row.requests + 1
        /\ Requested(row).views = row.views
        /\ Requested(row).touched = "lately"
        /\ Requested(row).queued = row.queued
<1> QED BY DEF Requested, Row

LEMMA ViewedFields ==
  ASSUME NEW row \in Row, NEW known
  PROVE /\ Viewed(row, known).exists = row.exists
        /\ Viewed(row, known).requests = row.requests
        /\ Viewed(row, known).views = known.views + 1
        /\ Viewed(row, known).touched = "lately"
<1> QED BY DEF Viewed, Row

\* A set of numbers has a smallest one.
LEMMA SmallestOf ==
  ASSUME NEW S, S \subseteq Nat, S # {}
  PROVE  \E x \in S : \A y \in S : x <= y
<1>1. PICK x \in S : \A y \in S : ~(<<y, x>> \in OpToRel(<, Nat))
  BY NatLessThanWellFounded, WFMin
<1>2. ASSUME NEW y \in S PROVE x <= y
  <2>1. CASE y < x
    <3>1. <<y, x>> \in Nat \X Nat /\ <<y, x>>[1] < <<y, x>>[2]
      BY <2>1
    <3>2. <<y, x>> \in OpToRel(<, Nat)
      BY <3>1 DEF OpToRel
    <3> QED BY <1>1, <3>2
  <2> QED BY <2>1
<1> QED BY <1>2

\* The chunks go by page id: the next one is among those to do.
LEMMA MinIsIn ==
  ASSUME NEW S, S \subseteq Nat, S # {}
  PROVE  Min(S) \in S
BY SmallestOf DEF Min

LEMMA QueuedFields ==
  ASSUME NEW row \in Row, NEW q
  PROVE  LET new == [row EXCEPT !.queued = q]
         IN /\ new.exists = row.exists /\ new.requests = row.requests
            /\ new.views = row.views /\ new.touched = row.touched
BY DEF Row

LEMMA AgedFields ==
  ASSUME NEW row \in Row
  PROVE  LET new == [row EXCEPT !.touched = "long ago"]
         IN new.exists = row.exists /\ new.requests = row.requests /\ new.views = row.views
BY DEF Row

\* The steps of a run of the daily job.
LEMMA RunsWritten ==
  ASSUME NEW run \in Runs, NEW label \in {"idle", "read", "write", "requeued"},
         NEW S \in SUBSET Pages, NEW known \in Row \cup {NotSelected}
  PROVE  /\ [run EXCEPT !.at = label] \in Runs
         /\ [run EXCEPT !.at = label, !.known = known] \in Runs
         /\ [run EXCEPT !.at = label, !.todo = S, !.known = known] \in Runs
<1>1. \A r \in Runs : [r EXCEPT !.at = label] \in Runs
  BY DEF Runs
<1>2. \A r \in Runs : [r EXCEPT !.known = known] \in Runs
  BY DEF Runs
<1>3. \A r \in Runs : [r EXCEPT !.todo = S] \in Runs
  BY DEF Runs
<1> DEFINE first == [run EXCEPT !.at = label]
<1> DEFINE second == [first EXCEPT !.todo = S]
<1>4. [run EXCEPT !.at = label, !.known = known] = [first EXCEPT !.known = known]
  OBVIOUS
<1>5. [run EXCEPT !.at = label, !.todo = S, !.known = known] = [second EXCEPT !.known = known]
  OBVIOUS
<1>6. first \in Runs /\ second \in Runs
  BY <1>1, <1>3
<1> HIDE DEF first, second
<1> QED BY <1>1, <1>2, <1>4, <1>5, <1>6

LEMMA RunFields ==
  ASSUME NEW run \in Runs, NEW label, NEW S, NEW known
  PROVE  /\ LET new == [run EXCEPT !.at = label]
            IN /\ new.at = label /\ new.day = run.day /\ new.todo = run.todo
               /\ new.known = run.known
         /\ LET new == [run EXCEPT !.at = label, !.known = known]
            IN new.at = label /\ new.day = run.day /\ new.todo = run.todo /\ new.known = known
         /\ LET new == [run EXCEPT !.at = label, !.todo = S, !.known = known]
            IN new.at = label /\ new.day = run.day /\ new.todo = S /\ new.known = known
BY DEF Runs

LEMMA BatchesWritten ==
  ASSUME NEW b \in Batches, NEW S \in SUBSET Pages
  PROVE  /\ [b EXCEPT !.found = S] \in Batches /\ [b EXCEPT !.at = "enqueue", !.found = S] \in Batches
         /\ [b EXCEPT !.found = S].at = b.at /\ [b EXCEPT !.found = S].batch = b.batch
         /\ [b EXCEPT !.found = S].found = S
         /\ LET new == [b EXCEPT !.at = "enqueue", !.found = S]
            IN new.at = "enqueue" /\ new.batch = b.batch /\ new.found = S
<1>1. \A r \in Batches : [r EXCEPT !.found = S] \in Batches
  BY DEF Batches
<1> DEFINE first == [b EXCEPT !.at = "enqueue"]
<1>2. first \in Batches
  BY DEF Batches
<1>3. [b EXCEPT !.at = "enqueue", !.found = S] = [first EXCEPT !.found = S]
  OBVIOUS
<1>4. [first EXCEPT !.found = S] \in Batches
  BY <1>1, <1>2
<1>5. /\ [b EXCEPT !.found = S].at = b.at /\ [b EXCEPT !.found = S].batch = b.batch
      /\ [b EXCEPT !.found = S].found = S
      /\ LET new == [b EXCEPT !.at = "enqueue", !.found = S]
         IN new.at = "enqueue" /\ new.batch = b.batch /\ new.found = S
  BY DEF Batches
<1> QED BY <1>1, <1>3, <1>4, <1>5

\* Every published day up to n: the newest one is n.
LEMMA NewestDay ==
  ASSUME NEW n \in Nat \ {0}
  PROVE  Max(1..n) = n
<1>1. n \in 1..n /\ \A y \in 1..n : n >= y
  OBVIOUS
<1>2. \A x \in 1..n : (\A y \in 1..n : x >= y) => x = n
  OBVIOUS
<1> QED BY <1>1, <1>2 DEF Max

-----------------------------------------------------------------------------
(* Types *)

\* The run of the daily job: the days published are the first ones, and a run is
\* of one of them, after the day recorded last.
RunSound ==
  /\ \E n \in 0..MaxDay : published = 1..n
  /\ collector.at # "idle" => collector.day \in published /\ last < collector.day
  /\ collector.at = "write" => collector.todo # {}

TypeInv == TypeOK /\ RunSound

RowsTyped ==
  /\ demand \in [Pages -> Row]
  /\ \A p \in Pages : ~demand[p].exists => demand[p] = NoRow

LEMMA OneRowTyped ==
  ASSUME RowsTyped, NEW p \in Pages, NEW new \in Row, ~new.exists => new = NoRow,
         demand' = [demand EXCEPT ![p] = new]
  PROVE  RowsTyped'
BY DEF RowsTyped

\* A step that touches the rows alone.
LEMMA RowsOnly ==
  ASSUME TypeInv, RowsTyped', UNCHANGED <<articles, forgotten, readers, daily, hourly, reruns>>
  PROVE  TypeInv'
BY DEF TypeInv, TypeOK, RunSound, RowsTyped, readers, daily, hourly

LEMMA WorldTypes ==
  ASSUME TypeInv, NEW p \in Pages, ToggleArticle(p) \/ Age(p) \/ GoStale(p)
  PROVE  TypeInv'
<1>1. RowsTyped /\ demand[p] \in Row
  BY DEF TypeInv, TypeOK, RowsTyped
<1>2. CASE ToggleArticle(p)
  BY <1>2 DEF ToggleArticle, TypeInv, TypeOK, RunSound, table, readers, daily, hourly
<1>3. CASE Age(p)
  <2> DEFINE new == [demand[p] EXCEPT !.touched = "long ago"]
  <2>1. new \in Row /\ new.exists
    BY <1>1, <1>3, RowsWritten, AgedFields DEF Age
  <2>2. demand' = [demand EXCEPT ![p] = new]
    BY <1>3 DEF Age
  <2> HIDE DEF new
  <2>3. RowsTyped'
    BY <1>1, <2>1, <2>2, OneRowTyped
  <2> QED BY <1>3, <2>3, RowsOnly DEF Age
<1>4. CASE GoStale(p)
  <2> DEFINE new == [demand[p] EXCEPT !.queued = "stale"]
  <2>1. demand[p].exists
    BY <1>1, <1>4 DEF GoStale, RowsTyped, NoRow
  <2>2. new \in Row /\ new.exists
    BY <1>1, <2>1, RowsWritten, QueuedFields
  <2>3. demand' = [demand EXCEPT ![p] = new]
    BY <1>4 DEF GoStale
  <2> HIDE DEF new
  <2>4. RowsTyped'
    BY <1>1, <2>2, <2>3, OneRowTyped
  <2> QED BY <1>4, <2>4, RowsOnly DEF GoStale
<1> QED BY <1>2, <1>3, <1>4

LEMMA PublishTypes ==
  ASSUME TypeInv, NEW d \in Days, Publish(d)
  PROVE  TypeInv'
<1>1. PICK n \in 0..MaxDay : published = 1..n
  BY DEF TypeInv, RunSound
<1>2. MaxDay \in Nat /\ d \in 1..MaxDay
  BY DemandConstants DEF Days
<1>3. \A e \in 1..MaxDay : e \in 1..n <=> e < d
  BY <1>1 DEF Publish, Days
<1>4. n = d - 1
  <2>1. CASE n < d - 1
    BY <1>2, <1>3, <2>1
  <2>2. CASE n > d - 1
    BY <1>2, <1>3, <2>2
  <2> QED BY <1>2, <2>1, <2>2
<1>5. published' = 1..d /\ d \in 0..MaxDay /\ published \subseteq published'
  BY <1>1, <1>2, <1>4 DEF Publish
<1>6. RunSound'
  BY <1>5 DEF Publish, TypeInv, RunSound, hourly
<1>7. TypeOK'
  BY <1>2, <1>5 DEF Publish, TypeInv, TypeOK, table, readers, hourly, Days
<1> QED BY <1>6, <1>7 DEF TypeInv

LEMMA RequestTypes ==
  ASSUME TypeInv, NEW c \in Callers, Request(c)
  PROVE  TypeInv'
<1> DEFINE p == asked[c]
<1>1. RowsTyped /\ p \in Pages /\ demand[p] \in Row
  BY DEF TypeInv, TypeOK, RowsTyped
<1>2. Requested(demand[p]) \in Row /\ Requested(demand[p]).exists = demand[p].exists
  BY <1>1, RowsWritten, RequestedFields
<1>3. ASSUME Increment(p) PROVE RowsTyped'
  <2>1. CASE demand[p].exists
    <3>1. demand' = [demand EXCEPT ![p] = Requested(demand[p])]
      BY <1>3, <2>1 DEF Increment
    <3> QED BY <1>1, <1>2, <2>1, <3>1, OneRowTyped
  <2>2. CASE ~demand[p].exists
    BY <1>1, <1>3, <2>2 DEF Increment, RowsTyped
  <2> QED BY <2>1, <2>2
<1>4. ASSUME InsertRequest(c) PROVE RowsTyped'
  <2>1. NewRow(1, 0) \in Row /\ NewRow(1, 0).exists
    BY <1>1, RowsWritten DEF NewRow
  <2>2. CASE demand[p].exists
    BY <1>1, <1>4, <2>2 DEF InsertRequest, RowsTyped
  <2>3. CASE ~demand[p].exists
    BY <1>1, <1>4, <2>1, <2>3, OneRowTyped DEF InsertRequest
  <2> QED BY <2>2, <2>3
<1>5. RowsTyped'
  BY <1>3, <1>4 DEF Request, UpdateRequest, RetryRequest
<1>6. /\ at' \in [Callers -> {"start", "missed", "collided", "done"}]
      /\ UNCHANGED <<articles, forgotten, asked, daily, hourly, reruns>>
  BY DEF Request, UpdateRequest, InsertRequest, RetryRequest, TypeInv, TypeOK
<1> QED BY <1>5, <1>6 DEF TypeInv, TypeOK, RunSound, RowsTyped, daily, hourly

LEMMA StartRunTypes ==
  ASSUME TypeInv, StartRun
  PROVE  TypeInv'
<1>1. PICK n \in 0..MaxDay : published = 1..n
  BY DEF TypeInv, RunSound
<1>2. n \in Nat \ {0} /\ published # {}
  BY <1>1, DemandConstants DEF StartRun, FindDump
<1>3. Max(published) = n /\ n \in published
  BY <1>1, <1>2, NewestDay
<1>4. collector' = [at |-> "read", day |-> n, todo |-> Pages, known |-> NotSelected]
  BY <1>3 DEF StartRun
<1>5. /\ last < n /\ n \in Days
      /\ UNCHANGED <<articles, table, readers, published, last, counted, hourly, reruns>>
  BY <1>3 DEF StartRun, FindDump, TypeInv, TypeOK
<1>6. collector' \in Runs /\ collector'.at = "read" /\ collector'.day = n
      /\ collector'.known = NotSelected
  BY <1>4, <1>5 DEF Runs
<1>7. TypeOK'
  BY <1>5, <1>6 DEF TypeInv, TypeOK, table, readers, hourly
<1>8. RunSound'
  BY <1>3, <1>5, <1>6 DEF TypeInv, RunSound
<1> QED BY <1>7, <1>8 DEF TypeInv

LEMMA ForgetDayTypes ==
  ASSUME TypeInv, ForgetDay
  PROVE  TypeInv'
<1>1. reruns' \in 0..MaxReruns
  BY DemandConstants DEF ForgetDay, TypeInv, TypeOK
<1> QED BY <1>1 DEF ForgetDay, TypeInv, TypeOK, RunSound, table, readers, hourly

LEMMA SelectChunkTypes ==
  ASSUME TypeInv, SelectChunk
  PROVE  TypeInv'
<1> DEFINE p == Min(collector.todo)
<1>1. p \in Pages
  BY DemandConstants, MinIsIn DEF SelectChunk, TypeInv, TypeOK, Runs
<1> HIDE DEF p
<1>2. demand[p] \in Row /\ demand[p] # NotSelected
  <2>1. demand[p] \in Row
    BY <1>1 DEF TypeInv, TypeOK
  <2> QED BY <2>1, DemandConstants
<1>3. /\ collector' \in Runs /\ collector'.at = "write" /\ collector'.day = collector.day
      /\ collector'.todo = collector.todo /\ collector'.known = demand[p]
  BY <1>2, RunsWritten, RunFields DEF SelectChunk, TypeInv, TypeOK, Runs, p
<1>4. TypeOK'
  BY <1>2, <1>3 DEF SelectChunk, TypeInv, TypeOK, table, readers, hourly
<1>5. RunSound'
  BY <1>3 DEF SelectChunk, TypeInv, RunSound
<1> QED BY <1>4, <1>5 DEF TypeInv

\* What the write of a chunk does, if it does not fail.
ChunkRow(row, known) == IF known.exists THEN Viewed(row, known) ELSE NewRow(0, 1)

LEMMA ChunkRowIs ==
  ASSUME NEW row \in Row, NEW known \in Row, known.exists = row.exists,
         ~row.exists => row = NoRow
  PROVE  LET new == ChunkRow(row, known)
         IN /\ new \in Row /\ new.exists /\ new.requests = row.requests /\ new.touched = "lately"
            /\ new.views = IF known.exists THEN known.views + 1 ELSE 1
<1>1. CASE known.exists
  <2>1. ChunkRow(row, known) = Viewed(row, known)
    BY <1>1 DEF ChunkRow
  <2>2. /\ Viewed(row, known) \in Row /\ Viewed(row, known).exists = row.exists
        /\ Viewed(row, known).requests = row.requests
        /\ Viewed(row, known).views = known.views + 1
        /\ Viewed(row, known).touched = "lately"
    BY RowsWritten, ViewedFields
  <2> QED BY <1>1, <2>1, <2>2
<1>2. CASE ~known.exists
  <2>1. ChunkRow(row, known) = NewRow(0, 1) /\ row.requests = 0
    BY <1>2 DEF ChunkRow, NoRow
  <2>2. /\ NewRow(0, 1).exists /\ NewRow(0, 1).requests = 0 /\ NewRow(0, 1).views = 1
        /\ NewRow(0, 1).touched = "lately" /\ NewRow(0, 1) \in Row
    BY RowsWritten DEF NewRow
  <2> QED BY <1>2, <2>1, <2>2
<1> QED BY <1>1, <1>2

LEMMA ChunkSelected ==
  ASSUME TypeInv, WriteChunk, NEW p, p = Min(collector.todo)
  PROVE  /\ p \in collector.todo /\ p \in Pages /\ collector \in Runs
         /\ collector.at = "write" /\ collector.day \in Days
         /\ demand[p] \in Row /\ collector.known \in Row
         /\ ~demand[p].exists => demand[p] = NoRow
<1>1. collector.at = "write" /\ collector.todo # {} /\ collector \in Runs
      /\ collector.known # NotSelected
  BY DEF WriteChunk, TypeInv, TypeOK, RunSound
<1>2. p \in collector.todo /\ p \in Pages /\ collector.known \in Row
  BY <1>1, DemandConstants, MinIsIn DEF Runs
<1>3. collector.day \in Days
  BY <1>1 DEF TypeInv, TypeOK, RunSound
<1> QED BY <1>1, <1>2, <1>3 DEF TypeInv, TypeOK

\* What the write of a chunk makes of the row of its page.
Written(p, new) ==
  /\ new.exists /\ new.requests = demand[p].requests /\ new.touched = "lately"
  /\ new.views = IF collector.known.exists THEN collector.known.views + 1 ELSE 1
  /\ demand' = [demand EXCEPT ![p] = new]

LEMMA ChunkWritten ==
  ASSUME TypeInv, WriteChunk, NEW p, p = Min(collector.todo),
         collector.known.exists = demand[p].exists
  PROVE  /\ \E new \in Row : Written(p, new)
         /\ counted' = [counted EXCEPT ![collector.day][p] = counted[collector.day][p] + 1]
         /\ reruns' = reruns
<1> DEFINE new == ChunkRow(demand[p], collector.known)
<1>1. /\ demand' = [demand EXCEPT ![p] = new]
      /\ counted' = [counted EXCEPT ![collector.day][p] = counted[collector.day][p] + 1]
      /\ reruns' = reruns
  BY DEF WriteChunk, ChunkRow
<1>2. /\ new \in Row /\ new.exists /\ new.requests = demand[p].requests
      /\ new.touched = "lately"
      /\ new.views = IF collector.known.exists THEN collector.known.views + 1 ELSE 1
  BY ChunkSelected, ChunkRowIs
<1> HIDE DEF new
<1> QED BY <1>1, <1>2 DEF Written

LEMMA ChunkDone ==
  ASSUME TypeInv, WriteChunk, NEW p, p = Min(collector.todo),
         collector.known.exists = demand[p].exists
  PROVE  /\ collector' \in Runs /\ collector'.at = "read" /\ collector'.day = collector.day
         /\ collector'.todo = collector.todo \ {p} /\ collector'.known = NotSelected
<1> DEFINE S == collector.todo \ {p}
           run == [collector EXCEPT !.at = "read", !.todo = S, !.known = NotSelected]
<1>1. collector \in Runs /\ S \in SUBSET Pages
  BY ChunkSelected DEF Runs
<1>2. collector' = run
  BY DEF WriteChunk
<1> HIDE DEF S
<1>3. run \in Runs
  BY <1>1, RunsWritten
<1>4. /\ run.at = "read" /\ run.day = collector.day /\ run.todo = S
      /\ run.known = NotSelected
  BY <1>1, RunFields
<1> HIDE DEF run
<1> QED BY <1>2, <1>3, <1>4 DEF S

LEMMA NoRunIsARun == NoRun \in Runs /\ NoRun.at = "idle" /\ NoRun.known = NotSelected
BY DEF NoRun, Runs

LEMMA WriteChunkTypes ==
  ASSUME TypeInv, WriteChunk
  PROVE  TypeInv'
<1>1. UNCHANGED <<articles, forgotten, readers, published, last, hourly>>
      /\ reruns' <= MaxReruns /\ collector.at = "write"
  BY DEF WriteChunk
<1>2. CASE collector.known.exists # demand[Min(collector.todo)].exists
  <2>1. collector' = NoRun /\ UNCHANGED <<demand, counted>> /\ reruns' = reruns + 1
    BY <1>2 DEF WriteChunk
  <2>2. reruns' \in 0..MaxReruns
    BY <1>1, <2>1, DemandConstants DEF TypeInv, TypeOK
  <2>3. TypeOK'
    BY <1>1, <2>1, <2>2, NoRunIsARun DEF TypeInv, TypeOK, readers, hourly
  <2> QED BY <1>1, <2>1, <2>3, NoRunIsARun DEF TypeInv, RunSound
<1>3. CASE collector.known.exists = demand[Min(collector.todo)].exists
  <2>1. PICK p \in Pages, new \in Row :
          /\ new.exists /\ demand' = [demand EXCEPT ![p] = new]
          /\ counted' = [counted EXCEPT ![collector.day][p] = counted[collector.day][p] + 1]
    BY <1>3, ChunkSelected, ChunkWritten DEF Written
  <2>2. /\ collector' \in Runs /\ collector'.at = "read" /\ collector'.day = collector.day
        /\ collector'.known = NotSelected /\ reruns' = reruns
    BY <1>3, ChunkDone, ChunkWritten
  <2>3. RowsTyped'
    BY <2>1, OneRowTyped DEF TypeInv, TypeOK, RowsTyped
  <2>4. counted' \in [Days -> [Pages -> Nat]]
    <3>1. counted \in [Days -> [Pages -> Nat]] /\ collector.day \in Days
      BY <2>1, ChunkSelected DEF TypeInv, TypeOK
    <3>2. counted[collector.day][p] + 1 \in Nat
      BY <3>1
    <3> QED BY <2>1, <3>1, <3>2
  <2>5. TypeOK'
    BY <1>1, <2>2, <2>3, <2>4 DEF TypeInv, TypeOK, RowsTyped, readers, hourly
  <2> QED BY <1>1, <2>2, <2>5 DEF TypeInv, RunSound
<1> QED BY <1>2, <1>3

\* Rows put back in line, or marked: the other columns stay.
QueuedOnly(S, q) ==
  demand' = [p \in Pages |-> IF p \in S THEN [demand[p] EXCEPT !.queued = q] ELSE demand[p]]

LEMMA QueuedRows ==
  ASSUME TypeInv, NEW S \in SUBSET Pages, NEW q \in {"no", "recent", "stale"},
         \A p \in S : demand[p].exists, QueuedOnly(S, q)
  PROVE  /\ RowsTyped'
         /\ \A p \in Pages : /\ demand'[p].exists = demand[p].exists
                             /\ demand'[p].requests = demand[p].requests
                             /\ demand'[p].views = demand[p].views
                             /\ demand'[p].touched = demand[p].touched
<1> DEFINE cell(p) == IF p \in S THEN [demand[p] EXCEPT !.queued = q] ELSE demand[p]
<1>1. demand' = [p \in Pages |-> cell(p)]
  BY DEF QueuedOnly
<1>2. ASSUME NEW p \in Pages
      PROVE  /\ cell(p) \in Row /\ cell(p).exists = demand[p].exists
             /\ cell(p).requests = demand[p].requests /\ cell(p).touched = demand[p].touched
             /\ cell(p).views = demand[p].views
             /\ ~cell(p).exists => cell(p) = NoRow
  <2>1. demand[p] \in Row /\ (~demand[p].exists => demand[p] = NoRow)
    BY DEF TypeInv, TypeOK
  <2>2. CASE p \in S
    <3> DEFINE new == [demand[p] EXCEPT !.queued = q]
    <3>1. new \in Row
      BY <2>1, RowsWritten
    <3>2. /\ new.exists = demand[p].exists /\ new.requests = demand[p].requests
          /\ new.touched = demand[p].touched /\ new.views = demand[p].views
      BY <2>1, QueuedFields
    <3>3. cell(p) = new /\ demand[p].exists
      BY <2>2
    <3> HIDE DEF new, cell
    <3> QED BY <3>1, <3>2, <3>3
  <2>3. CASE p \notin S
    BY <2>1, <2>3
  <2> QED BY <2>2, <2>3
<1> HIDE DEF cell
<1> QED BY <1>1, <1>2 DEF RowsTyped

LEMMA RequeuedRows ==
  ASSUME TypeInv, Requeue
  PROVE  \E S \in SUBSET Pages : (\A p \in S : demand[p].exists) /\ QueuedOnly(S, "no")
<1> DEFINE S == {p \in Pages : demand[p].queued = "stale"}
<1>1. \A p \in S : demand[p].exists
  BY DEF TypeInv, TypeOK, NoRow
<1>2. QueuedOnly(S, "no")
  BY DEF Requeue, QueuedOnly
<1> QED BY <1>1, <1>2

LEMMA MarkedRows ==
  ASSUME TypeInv, MarkBatch
  PROVE  \E S \in SUBSET Pages : (\A p \in S : demand[p].exists) /\ QueuedOnly(S, "recent")
<1>1. Marked \in SUBSET Pages /\ \A p \in Marked : demand[p].exists
  BY DEF Marked, TypeInv, TypeOK, Batches
<1>2. QueuedOnly(Marked, "recent")
  BY DEF MarkBatch, QueuedOnly
<1> QED BY <1>1, <1>2

LEMMA RequeueTypes ==
  ASSUME TypeInv, Requeue
  PROVE  TypeInv'
<1>1. RowsTyped'
  BY RequeuedRows, QueuedRows
<1>2. collector \in Runs /\ collector.at = "read" /\ collector.known = NotSelected
  BY DEF Requeue, TypeInv, TypeOK
<1>3. /\ collector' \in Runs /\ collector'.at = "requeued" /\ collector'.day = collector.day
      /\ collector'.known = collector.known
  <2> DEFINE run == [collector EXCEPT !.at = "requeued"]
  <2>1. run \in Runs
    BY <1>2, RunsWritten
  <2>2. run.at = "requeued" /\ run.day = collector.day /\ run.known = collector.known
    BY <1>2, RunFields
  <2>3. collector' = run
    BY DEF Requeue
  <2> HIDE DEF run
  <2> QED BY <2>1, <2>2, <2>3
<1>4. offered' \subseteq Pages
  BY DEF Requeue, TypeInv, TypeOK
<1>5. TypeOK'
  BY <1>1, <1>2, <1>3, <1>4 DEF Requeue, TypeInv, TypeOK, RowsTyped, readers
<1>6. RunSound'
  BY <1>2, <1>3 DEF Requeue, TypeInv, RunSound
<1> QED BY <1>5, <1>6 DEF TypeInv

LEMMA RecordDayTypes ==
  ASSUME TypeInv, RecordDay
  PROVE  TypeInv'
<1>1. last' \in published /\ collector' = NoRun
  BY DEF RecordDay, TypeInv, RunSound
<1>2. TypeOK'
  BY <1>1, NoRunIsARun DEF RecordDay, TypeInv, TypeOK, table, readers, hourly
<1>3. RunSound'
  BY <1>1, NoRunIsARun DEF RecordDay, TypeInv, RunSound
<1> QED BY <1>2, <1>3 DEF TypeInv

LEMMA NoBatchIsABatch == NoBatch \in Batches /\ NoBatch.found \subseteq NoBatch.batch
BY DEF NoBatch, Batches

\* A step that touches no more than the run of the hourly job and what it offered.
LEMMA HourlyOnly ==
  ASSUME TypeInv, UNCHANGED <<articles, table, readers, daily, reruns>>,
         backfill' \in Batches, backfill'.found \subseteq backfill'.batch,
         offered' \subseteq Pages
  PROVE  TypeInv'
BY DEF TypeInv, TypeOK, RunSound, table, readers, daily

LEMMA BackfillTypes ==
  ASSUME TypeInv, Backfill
  PROVE  TypeInv'
<1>1. backfill \in Batches /\ backfill.found \subseteq backfill.batch /\ offered \subseteq Pages
  BY DEF TypeInv, TypeOK
<1>2. CASE SelectBatch
  <2>1. PICK batch \in SUBSET Pages : backfill' = [at |-> "ask", batch |-> batch, found |-> {}]
    BY <1>2 DEF SelectBatch
  <2>2. backfill' \in Batches /\ backfill'.found \subseteq backfill'.batch
    BY <2>1 DEF Batches
  <2> QED BY <1>1, <1>2, <2>2, HourlyOnly DEF SelectBatch
<1>3. CASE AskReplica
  <2> DEFINE S == backfill.batch \cap articles
  <2>1. S \in SUBSET Pages
    BY DEF TypeInv, TypeOK
  <2>2. S \subseteq backfill.batch /\ backfill' = [backfill EXCEPT !.at = "enqueue", !.found = S]
    BY <1>3 DEF AskReplica
  <2> HIDE DEF S
  <2>3. backfill' \in Batches /\ backfill'.found \subseteq backfill'.batch
    BY <1>1, <2>1, <2>2, BatchesWritten
  <2> QED BY <1>1, <1>3, <2>3, HourlyOnly DEF AskReplica
<1>4. CASE EnqueuePage
  <2>1. PICK p \in backfill.found : /\ offered' = offered \cup {p}
                                    /\ backfill' = [backfill EXCEPT !.found = @ \ {p}]
    BY <1>4 DEF EnqueuePage
  <2> DEFINE S == backfill.found \ {p}
  <2>2. S \in SUBSET Pages /\ S \subseteq backfill.batch /\ offered' \subseteq Pages
    BY <1>1, <2>1 DEF Batches
  <2>3. backfill' = [backfill EXCEPT !.found = S]
    BY <2>1
  <2> HIDE DEF S
  <2>4. backfill' \in Batches /\ backfill'.found \subseteq backfill'.batch
    BY <1>1, <2>2, <2>3, BatchesWritten
  <2> QED BY <1>4, <2>2, <2>4, HourlyOnly DEF EnqueuePage
<1>5. CASE MarkBatch
  <2>1. RowsTyped'
    BY <1>5, MarkedRows, QueuedRows
  <2> QED BY <1>5, <2>1, NoBatchIsABatch
          DEF MarkBatch, TypeInv, TypeOK, RunSound, RowsTyped, readers, daily
<1> QED BY <1>2, <1>3, <1>4, <1>5 DEF Backfill

LEMMA FailRunTypes ==
  ASSUME TypeInv, FailRun
  PROVE  TypeInv'
<1>1. reruns' \in 0..MaxReruns
  BY DemandConstants DEF FailRun, TypeInv, TypeOK
<1>2. /\ collector' \in {collector, NoRun} /\ backfill' \in {backfill, NoBatch}
      /\ UNCHANGED <<articles, table, readers, published, last, counted, offered>>
  BY DEF FailRun
<1>3. TypeOK'
  BY <1>1, <1>2, NoRunIsARun, NoBatchIsABatch DEF TypeInv, TypeOK, table, readers
<1>4. RunSound'
  BY <1>2, NoRunIsARun DEF TypeInv, RunSound
<1> QED BY <1>3, <1>4 DEF TypeInv

LEMMA CleanupTypes ==
  ASSUME TypeInv, Cleanup
  PROVE  TypeInv'
<1>1. RowsTyped'
  <2>1. NoRow \in Row /\ ~NoRow.exists
    BY DEF NoRow, Row
  <2> QED BY <2>1 DEF Cleanup, TypeInv, TypeOK, RowsTyped
<1>2. forgotten' \in [Pages -> Counts]
  <2>1. ASSUME NEW p \in Pages
        PROVE  /\ forgotten[p] \in Counts
               /\ [requests |-> forgotten[p].requests + demand[p].requests,
                   views |-> forgotten[p].views + demand[p].views] \in Counts
    <3>1. forgotten[p] \in Counts /\ demand[p] \in Row
      BY DEF TypeInv, TypeOK
    <3>2. /\ forgotten[p].requests \in Nat /\ forgotten[p].views \in Nat
          /\ demand[p].requests \in Nat /\ demand[p].views \in Nat
      BY <3>1 DEF Counts, Row
    <3>3. /\ forgotten[p].requests + demand[p].requests \in Nat
          /\ forgotten[p].views + demand[p].views \in Nat
      BY <3>2
    <3> QED BY <3>1, <3>3 DEF Counts
  <2> QED BY <2>1 DEF Cleanup
<1>3. offered' \subseteq Pages
  BY DEF Cleanup, TypeInv, TypeOK
<1> QED BY <1>1, <1>2, <1>3
        DEF Cleanup, TypeInv, TypeOK, RunSound, RowsTyped, readers, daily

LEMMA InitTypes == Init => TypeInv
<1> SUFFICES ASSUME Init PROVE TypeInv
  OBVIOUS
<1>1. NoRow \in Row /\ NoRow.queued = "no"
  BY DEF NoRow, Row
<1>2. TypeOK
  <2>1. forgotten \in [Pages -> Counts]
    BY DEF Init, Counts
  <2>2. reruns \in 0..MaxReruns
    BY DemandConstants DEF Init
  <2>3. demand \in [Pages -> Row] /\ \A p \in Pages : ~demand[p].exists => demand[p] = NoRow
    BY <1>1 DEF Init
  <2>4. counted \in [Days -> [Pages -> Nat]]
    BY DEF Init
  <2>5. /\ collector \in Runs /\ (collector.at = "write" <=> collector.known # NotSelected)
        /\ backfill \in Batches /\ backfill.found \subseteq backfill.batch
    BY NoRunIsARun, NoBatchIsABatch DEF Init
  <2>6. /\ articles \subseteq Pages /\ offered \subseteq Pages /\ published \subseteq Days
        /\ last \in {0} \cup published /\ asked \in [Callers -> Pages]
        /\ at \in [Callers -> {"start", "missed", "collided", "done"}]
    BY DemandConstants DEF Init
  <2> QED BY <2>1, <2>2, <2>3, <2>4, <2>5, <2>6 DEF TypeOK
<1>3. published = 1..0 /\ 0 \in 0..MaxDay
  BY DemandConstants DEF Init
<1>4. RunSound
  BY <1>3, NoRunIsARun DEF Init, RunSound
<1> QED BY <1>2, <1>4 DEF TypeInv

LEMMA StepTypes == TypeInv /\ [Next]_vars => TypeInv'
<1> SUFFICES ASSUME TypeInv, [Next]_vars PROVE TypeInv'
  OBVIOUS
<1>1. CASE UNCHANGED vars
  BY <1>1 DEF vars, table, readers, daily, hourly, TypeInv, TypeOK, RunSound
<1>2. CASE Collect
  BY <1>2, StartRunTypes, SelectChunkTypes, WriteChunkTypes, RequeueTypes, RecordDayTypes
     DEF Collect
<1> QED BY <1>1, <1>2, RequestTypes, ForgetDayTypes, BackfillTypes, FailRunTypes,
           CleanupTypes, WorldTypes, PublishTypes, MovablePages DEF Next

\* Every variable of page_demand and its jobs keeps its type.
THEOREM DemandTypes == Spec => []TypeOK
<1>1. TypeInv => TypeOK
  BY DEF TypeInv
<1> QED BY <1>1, InitTypes, StepTypes, PTL DEF Spec

-----------------------------------------------------------------------------
(* Requests *)

\* A call that found no row, or lost the race to insert one, is about a row nobody
\* has let rest since; and who lost the race lost it to a row that stays.
CallsSeeRows ==
  \A c \in Callers :
    /\ at[c] \in {"missed", "collided"} => demand[asked[c]].touched = "lately"
    /\ at[c] = "collided" => demand[asked[c]].exists

CountInv == CallsSeeRows /\ RequestsAreCounted

Returned(p) == {c \in Callers : asked[c] = p /\ at[c] = "done"}

LEMMA ReturnedIsFinite ==
  ASSUME NEW p PROVE IsFiniteSet(Returned(p)) /\ Cardinality(Returned(p)) \in Nat
<1>1. Returned(p) \subseteq Callers
  BY DEF Returned
<1> QED BY <1>1, DemandConstants, FS_Subset, FS_CardinalityType

\* The counts of a page, in its row and in those cleanup dropped.
Recorded(p) == demand[p].requests + forgotten[p].requests

\* A step of no call that keeps the counts, and every row somebody's call is about.
LEMMA QuietKeeps ==
  ASSUME TypeInv, CountInv, UNCHANGED readers,
         \A p \in Pages : Recorded(p)' = Recorded(p),
         \A c \in Callers : at[c] \in {"missed", "collided"} =>
           /\ demand'[asked[c]].touched = "lately"
           /\ demand[asked[c]].exists => demand'[asked[c]].exists
  PROVE  CountInv'
<1>1. CallsSeeRows'
  BY DEF CountInv, CallsSeeRows, readers
<1>2. RequestsAreCounted'
  BY DEF CountInv, RequestsAreCounted, Recorded, readers
<1> QED BY <1>1, <1>2 DEF CountInv

LEMMA WorldKeepsCounts ==
  ASSUME TypeInv, CountInv, NEW p \in Pages, ToggleArticle(p) \/ Age(p) \/ GoStale(p)
  PROVE  CountInv'
<1>1. demand \in [Pages -> Row] /\ demand[p] \in Row
  BY DEF TypeInv, TypeOK
<1>2. CASE ToggleArticle(p)
  BY <1>2, QuietKeeps DEF ToggleArticle, table, Recorded, CountInv, CallsSeeRows
<1>3. CASE Age(p)
  <2> DEFINE new == [demand[p] EXCEPT !.touched = "long ago"]
  <2>1. new.requests = demand[p].requests
    BY <1>1, AgedFields
  <2>2. demand' = [demand EXCEPT ![p] = new]
    BY <1>3 DEF Age
  <2> HIDE DEF new
  <2>3. \A q \in Pages : Recorded(q)' = Recorded(q)
    BY <1>1, <1>3, <2>1, <2>2 DEF Age, Recorded
  <2>4. \A c \in Callers : at[c] \in {"missed", "collided"} =>
          asked[c] # p /\ asked[c] \in Pages
    BY <1>3 DEF Age, TypeInv, TypeOK
  <2> QED BY <1>1, <1>3, <2>2, <2>3, <2>4, QuietKeeps DEF Age, CountInv, CallsSeeRows
<1>4. CASE GoStale(p)
  <2> DEFINE new == [demand[p] EXCEPT !.queued = "stale"]
  <2>1. new.requests = demand[p].requests /\ new.exists = demand[p].exists
        /\ new.touched = demand[p].touched
    BY <1>1, QueuedFields
  <2>2. demand' = [demand EXCEPT ![p] = new]
    BY <1>4 DEF GoStale
  <2> HIDE DEF new
  <2>3. \A q \in Pages : Recorded(q)' = Recorded(q)
    BY <1>1, <1>4, <2>1, <2>2 DEF GoStale, Recorded
  <2>4. \A q \in Pages : demand'[q].exists = demand[q].exists /\ demand'[q].touched = demand[q].touched
    BY <1>1, <2>1, <2>2
  <2> QED BY <1>4, <2>3, <2>4, QuietKeeps
          DEF GoStale, CountInv, CallsSeeRows, TypeInv, TypeOK
<1> QED BY <1>2, <1>3, <1>4

\* A call that goes on without having returned.
LEMMA PendingKeeps ==
  ASSUME TypeInv, CountInv, NEW c \in Callers, at[c] # "done", UNCHANGED <<table, asked>>,
         NEW label \in {"missed", "collided"}, at' = [at EXCEPT ![c] = label],
         demand[asked[c]].touched = "lately",
         label = "collided" => demand[asked[c]].exists
  PROVE  CountInv'
<1>1. CallsSeeRows'
  BY DEF CountInv, CallsSeeRows, TypeInv, TypeOK, table
<1>2. \A p \in Pages : Returned(p)' = Returned(p)
  BY DEF Returned, TypeInv, TypeOK
<1>3. RequestsAreCounted'
  BY <1>2 DEF CountInv, RequestsAreCounted, Returned, table
<1> QED BY <1>1, <1>3 DEF CountInv

\* A call that returns, having counted one in the row of its page.
LEMMA ReturnKeeps ==
  ASSUME TypeInv, CountInv, NEW c \in Callers, at[c] # "done", UNCHANGED <<forgotten, asked>>,
         at' = [at EXCEPT ![c] = "done"], NEW new \in Row,
         demand' = [demand EXCEPT ![asked[c]] = new],
         new.requests = demand[asked[c]].requests + 1, new.exists, new.touched = "lately"
  PROVE  CountInv'
<1> DEFINE p == asked[c]
<1>1. p \in Pages /\ demand \in [Pages -> Row]
  BY DEF TypeInv, TypeOK
<1>2. CallsSeeRows'
  BY <1>1 DEF CountInv, CallsSeeRows, TypeInv, TypeOK
<1>3. ASSUME NEW q \in Pages, q # p PROVE demand'[q].requests + forgotten'[q].requests
                                           = Cardinality(Returned(q)')
  <2>1. Returned(q)' = Returned(q) /\ demand'[q] = demand[q]
    BY <1>1, <1>3 DEF Returned, TypeInv, TypeOK
  <2> QED BY <2>1 DEF CountInv, RequestsAreCounted, Returned
<1>4. demand'[p].requests + forgotten'[p].requests = Cardinality(Returned(p)')
  <2>1. Returned(p)' = Returned(p) \cup {c} /\ c \notin Returned(p)
    BY DEF Returned, TypeInv, TypeOK
  <2>2. Cardinality(Returned(p)') = Cardinality(Returned(p)) + 1
    BY <2>1, ReturnedIsFinite, FS_AddElement
  <2>3. demand[p].requests + forgotten[p].requests = Cardinality(Returned(p))
    BY <1>1 DEF CountInv, RequestsAreCounted, Returned
  <2>4. demand[p].requests \in Nat /\ forgotten[p].requests \in Nat
    <3>1. demand[p] \in Row /\ forgotten[p] \in Counts
      BY <1>1 DEF TypeInv, TypeOK
    <3> QED BY <3>1 DEF Row, Counts
  <2>5. demand'[p].requests = demand[p].requests + 1 /\ forgotten'[p] = forgotten[p]
    BY <1>1
  <2> QED BY <2>2, <2>3, <2>4, <2>5
<1>5. RequestsAreCounted'
  BY <1>3, <1>4 DEF RequestsAreCounted, Returned
<1> QED BY <1>2, <1>5 DEF CountInv

LEMMA RequestKeepsCounts ==
  ASSUME TypeInv, CountInv, NEW c \in Callers, Request(c)
  PROVE  CountInv'
<1> DEFINE p == asked[c]
<1>1. p \in Pages /\ demand[p] \in Row /\ (~demand[p].exists => demand[p] = NoRow)
  BY DEF TypeInv, TypeOK
<1>2. /\ at[c] # "done" /\ UNCHANGED <<forgotten, asked>>
      /\ at[c] \in {"missed", "collided"} => demand[p].touched = "lately"
      /\ at[c] = "collided" => demand[p].exists
  BY DEF Request, UpdateRequest, InsertRequest, RetryRequest, CountInv, CallsSeeRows
<1>3. ASSUME Increment(p), demand[p].exists, at' = [at EXCEPT ![c] = "done"]
      PROVE  CountInv'
  <2> DEFINE new == Requested(demand[p])
  <2>1. demand' = [demand EXCEPT ![p] = new]
    BY <1>3 DEF Increment
  <2>2. /\ new \in Row /\ new.requests = demand[p].requests + 1 /\ new.exists
        /\ new.touched = "lately"
    BY <1>1, <1>3, RowsWritten, RequestedFields
  <2> HIDE DEF new
  <2> QED BY <1>2, <1>3, <2>1, <2>2, ReturnKeeps
<1>4. CASE UpdateRequest(c)
  <2>1. CASE demand[p].exists
    BY <1>3, <1>4, <2>1 DEF UpdateRequest
  <2>2. CASE ~demand[p].exists
    <3>1. demand' = demand /\ at' = [at EXCEPT ![c] = "missed"]
      BY <1>4, <2>2 DEF UpdateRequest, Increment
    <3>2. demand[p].touched = "lately"
      BY <1>1, <2>2 DEF NoRow
    <3> QED BY <1>2, <3>1, <3>2, PendingKeeps DEF table
  <2> QED BY <2>1, <2>2
<1>5. CASE InsertRequest(c)
  <2>1. CASE demand[p].exists
    <3>1. demand' = demand /\ at' = [at EXCEPT ![c] = "collided"]
      BY <1>5, <2>1 DEF InsertRequest
    <3>2. demand[p].touched = "lately"
      BY <1>2, <1>5 DEF InsertRequest
    <3> QED BY <1>2, <2>1, <3>1, <3>2, PendingKeeps DEF table
  <2>2. CASE ~demand[p].exists
    <3> DEFINE new == NewRow(1, 0)
    <3>1. demand' = [demand EXCEPT ![p] = new] /\ at' = [at EXCEPT ![c] = "done"]
      BY <1>5, <2>2 DEF InsertRequest
    <3>2. new \in Row /\ new.requests = 1 /\ new.exists /\ new.touched = "lately"
      BY <1>1, RowsWritten DEF NewRow
    <3>3. demand[p].requests + 1 = 1
      BY <1>1, <2>2 DEF NoRow
    <3> HIDE DEF new
    <3> QED BY <1>2, <3>1, <3>2, <3>3, ReturnKeeps
  <2> QED BY <2>1, <2>2
<1>6. CASE RetryRequest(c)
  <2>1. demand[p].exists
    BY <1>2, <1>6 DEF RetryRequest
  <2> QED BY <1>3, <1>6, <2>1 DEF RetryRequest
<1> QED BY <1>4, <1>5, <1>6 DEF Request

LEMMA QueuedKeepsCounts ==
  ASSUME TypeInv, CountInv, UNCHANGED <<forgotten, readers>>,
         \A p \in Pages : /\ demand'[p].exists = demand[p].exists
                          /\ demand'[p].requests = demand[p].requests
                          /\ demand'[p].touched = demand[p].touched
  PROVE  CountInv'
<1>1. \A c \in Callers : asked[c] \in Pages
  BY DEF TypeInv, TypeOK
<1>2. \A p \in Pages : Recorded(p)' = Recorded(p)
  BY DEF Recorded
<1> QED BY <1>1, <1>2, QuietKeeps DEF CountInv, CallsSeeRows

LEMMA WriteChunkKeepsCounts ==
  ASSUME TypeInv, CountInv, WriteChunk
  PROVE  CountInv'
<1>1. UNCHANGED <<forgotten, readers>>
  BY DEF WriteChunk
<1>2. CASE collector.known.exists # demand[Min(collector.todo)].exists
  <2>1. demand' = demand
    BY <1>2 DEF WriteChunk
  <2> QED BY <1>1, <2>1, QueuedKeepsCounts
<1>3. CASE collector.known.exists = demand[Min(collector.todo)].exists
  <2>1. PICK p \in Pages, new \in Row :
          /\ new.exists /\ new.requests = demand[p].requests /\ new.touched = "lately"
          /\ demand' = [demand EXCEPT ![p] = new]
    <3> DEFINE p == Min(collector.todo)
    <3>1. \E new \in Row :
            /\ new.exists /\ new.requests = demand[p].requests /\ new.touched = "lately"
            /\ demand' = [demand EXCEPT ![p] = new]
      BY <1>3, ChunkWritten DEF Written
    <3>2. p \in Pages
      BY ChunkSelected
    <3> QED BY <3>1, <3>2
  <2>2. demand \in [Pages -> Row] /\ \A c \in Callers : asked[c] \in Pages
    BY DEF TypeInv, TypeOK
  <2>3. \A q \in Pages : Recorded(q)' = Recorded(q)
    BY <1>1, <2>1, <2>2 DEF Recorded
  <2>4. \A c \in Callers : at[c] \in {"missed", "collided"} =>
          /\ demand'[asked[c]].touched = "lately"
          /\ demand[asked[c]].exists => demand'[asked[c]].exists
    BY <2>1, <2>2 DEF CountInv, CallsSeeRows
  <2> QED BY <1>1, <2>3, <2>4, QuietKeeps
<1> QED BY <1>2, <1>3

LEMMA CleanupKeepsCounts ==
  ASSUME TypeInv, CountInv, Cleanup
  PROVE  CountInv'
<1> DEFINE idle == {p \in Pages : demand[p].touched = "long ago"}
<1>1. \A p \in Pages \ idle : demand'[p] = demand[p] /\ forgotten'[p] = forgotten[p]
  BY DEF Cleanup
<1>2. ASSUME NEW p \in idle
      PROVE  demand'[p].requests = 0
             /\ forgotten'[p].requests = forgotten[p].requests + demand[p].requests
  BY DEF Cleanup, NoRow
<1>3. ASSUME NEW p \in Pages PROVE Recorded(p)' = Recorded(p)
  <2>1. demand[p].requests \in Nat /\ forgotten[p].requests \in Nat
    <3>1. demand[p] \in Row /\ forgotten[p] \in Counts
      BY DEF TypeInv, TypeOK
    <3> QED BY <3>1 DEF Row, Counts
  <2>2. CASE p \in idle
    <3> HIDE DEF idle
    <3> QED BY <1>2, <2>1, <2>2 DEF Recorded
  <2>3. CASE p \notin idle
    BY <1>1, <2>3 DEF Recorded
  <2> QED BY <2>2, <2>3
<1>4. \A c \in Callers : at[c] \in {"missed", "collided"} => asked[c] \in Pages \ idle
  BY DEF CountInv, CallsSeeRows, TypeInv, TypeOK
<1> HIDE DEF idle
<1>5. UNCHANGED readers
  BY DEF Cleanup
<1> QED BY <1>1, <1>3, <1>4, <1>5, QuietKeeps DEF CountInv, CallsSeeRows

LEMMA InitCounts == Init => CountInv
<1> SUFFICES ASSUME Init PROVE CountInv
  OBVIOUS
<1>1. CallsSeeRows
  BY DEF Init, CallsSeeRows
<1>2. ASSUME NEW p \in Pages
      PROVE  demand[p].requests + forgotten[p].requests = Cardinality(Returned(p))
  <2>1. Returned(p) = {}
    BY DEF Init, Returned
  <2>2. demand[p].requests = 0 /\ forgotten[p].requests = 0
    BY DEF Init, NoRow
  <2> QED BY <2>1, <2>2, FS_EmptySet
<1> QED BY <1>1, <1>2 DEF CountInv, RequestsAreCounted, Returned

LEMMA StepCounts == TypeInv /\ CountInv /\ [Next]_vars => CountInv'
<1> SUFFICES ASSUME TypeInv, CountInv, [Next]_vars PROVE CountInv'
  OBVIOUS
<1>1. ASSUME UNCHANGED <<table, readers>> PROVE CountInv'
  BY <1>1, QueuedKeepsCounts DEF table
<1>2. CASE UNCHANGED vars
  BY <1>1, <1>2 DEF vars
<1>3. CASE StartRun \/ SelectChunk \/ RecordDay \/ ForgetDay \/ FailRun
  BY <1>1, <1>3 DEF StartRun, SelectChunk, RecordDay, ForgetDay, FailRun
<1>4. CASE Requeue
  <2>1. UNCHANGED <<forgotten, readers>>
    BY <1>4 DEF Requeue
  <2> QED BY <1>4, <2>1, RequeuedRows, QueuedRows, QueuedKeepsCounts
<1>5. CASE SelectBatch \/ AskReplica \/ EnqueuePage
  BY <1>1, <1>5 DEF SelectBatch, AskReplica, EnqueuePage
<1>6. CASE MarkBatch
  <2>1. UNCHANGED <<forgotten, readers>>
    BY <1>6 DEF MarkBatch
  <2> QED BY <1>6, <2>1, MarkedRows, QueuedRows, QueuedKeepsCounts
<1>7. ASSUME NEW d \in Days, Publish(d) PROVE CountInv'
  BY <1>1, <1>7 DEF Publish
<1> QED BY <1>2, <1>3, <1>4, <1>5, <1>6, <1>7, RequestKeepsCounts, WriteChunkKeepsCounts,
           CleanupKeepsCounts, WorldKeepsCounts, MovablePages DEF Next, Collect, Backfill

\* record_page_request loses no count: the UPDATE, the INSERT and the UPDATE again
\* of any number of calls, the daily job and the cleanup in between them.
THEOREM RequestCounts == Spec => []RequestsAreCounted
<1>1. CountInv => RequestsAreCounted
  BY DEF CountInv
<1> QED BY <1>1, InitTypes, StepTypes, InitCounts, StepCounts, PTL DEF Spec

-----------------------------------------------------------------------------
(* Days *)

\* Day d may still be added to page p once more without another failure: by the
\* run that reads it, or by one that is to come.
Owed(d, p) ==
  IF collector.at # "idle" /\ collector.day = d THEN p \in collector.todo ELSE last < d

DayBudget ==
  \A d \in Days, p \in Pages :
    counted[d][p] + (IF Owed(d, p) THEN 1 ELSE 0) <= 1 + reruns

LEMMA Numbers ==
  ASSUME TypeInv
  PROVE  /\ reruns \in Nat /\ last \in Nat
         /\ \A d \in Days : d \in Nat /\ \A p \in Pages : counted[d][p] \in Nat
BY DemandConstants DEF TypeInv, TypeOK, Days

\* A step that adds no day to a page leaves no more to add.
LEMMA NothingAdded ==
  ASSUME TypeInv, DayBudget, UNCHANGED <<counted, reruns>>,
         \A d \in Days, p \in Pages : Owed(d, p)' => Owed(d, p)
  PROVE  DayBudget'
<1> SUFFICES ASSUME NEW d \in Days, NEW p \in Pages
             PROVE  counted'[d][p] + (IF Owed(d, p)' THEN 1 ELSE 0) <= 1 + reruns'
  BY DEF DayBudget
<1>1. counted[d][p] + (IF Owed(d, p) THEN 1 ELSE 0) <= 1 + reruns
  BY DEF DayBudget
<1> QED BY <1>1, Numbers

\* A failure, or a run told to count again, pays for what it makes possible.
LEMMA FailurePays ==
  ASSUME TypeInv, DayBudget, counted' = counted, reruns' = reruns + 1
  PROVE  DayBudget'
<1> SUFFICES ASSUME NEW d \in Days, NEW p \in Pages
             PROVE  counted'[d][p] + (IF Owed(d, p)' THEN 1 ELSE 0) <= 1 + reruns'
  BY DEF DayBudget
<1>1. counted[d][p] + (IF Owed(d, p) THEN 1 ELSE 0) <= 1 + reruns
  BY DEF DayBudget
<1> QED BY <1>1, Numbers

LEMMA StartRunBudget ==
  ASSUME TypeInv, DayBudget, StartRun
  PROVE  DayBudget'
<1>1. UNCHANGED <<counted, reruns, last>> /\ last < Max(published) /\ collector.at = "idle"
      /\ collector'.at = "read" /\ collector'.day = Max(published)
  BY DEF StartRun, FindDump
<1>2. ASSUME NEW d \in Days, NEW p \in Pages, Owed(d, p)' PROVE Owed(d, p)
  BY <1>1, <1>2 DEF Owed
<1> QED BY <1>1, <1>2, NothingAdded

LEMMA WriteChunkBudget ==
  ASSUME TypeInv, DayBudget, WriteChunk
  PROVE  DayBudget'
<1>1. CASE collector.known.exists # demand[Min(collector.todo)].exists
  BY <1>1, FailurePays DEF WriteChunk
<1>2. CASE collector.known.exists = demand[Min(collector.todo)].exists
  <2>1. PICK p \in Pages :
          /\ p \in collector.todo /\ collector.at = "write" /\ collector.day \in Days
          /\ counted' = [counted EXCEPT ![collector.day][p] = counted[collector.day][p] + 1]
          /\ reruns' = reruns /\ collector'.at = "read" /\ collector'.day = collector.day
          /\ collector'.todo = collector.todo \ {p}
    BY <1>2, ChunkSelected, ChunkWritten, ChunkDone
  <2>2. last' = last /\ counted \in [Days -> [Pages -> Nat]]
    BY DEF WriteChunk, TypeInv, TypeOK
  <2>3. ASSUME NEW d \in Days, NEW q \in Pages
        PROVE  counted'[d][q] + (IF Owed(d, q)' THEN 1 ELSE 0) <= 1 + reruns'
    <3>1. counted[d][q] + (IF Owed(d, q) THEN 1 ELSE 0) <= 1 + reruns
      BY DEF DayBudget
    <3>2. CASE d = collector.day /\ q = p
      <4>1. Owed(d, q) /\ ~Owed(d, q)'
        BY <2>1, <3>2 DEF Owed
      <4>2. counted'[d][q] = counted[d][q] + 1
        BY <2>1, <2>2, <3>2
      <4> QED BY <2>1, <3>1, <4>1, <4>2, Numbers
    <3>3. CASE ~(d = collector.day /\ q = p)
      <4>1. counted'[d][q] = counted[d][q]
        BY <2>1, <2>2, <3>3
      <4>2. Owed(d, q)' <=> Owed(d, q)
        BY <2>1, <2>2, <3>3 DEF Owed
      <4> QED BY <2>1, <3>1, <4>1, <4>2
    <3> QED BY <3>2, <3>3
  <2> QED BY <2>3 DEF DayBudget
<1> QED BY <1>1, <1>2

\* A run that goes on keeps its day and its pages.
LEMMA RunGoesOn ==
  ASSUME TypeInv, DayBudget, UNCHANGED <<last, counted, reruns>>, collector.at # "idle",
         collector'.at # "idle", collector'.day = collector.day, collector'.todo = collector.todo
  PROVE  DayBudget'
BY NothingAdded DEF Owed

LEMMA RecordDayBudget ==
  ASSUME TypeInv, DayBudget, RecordDay
  PROVE  DayBudget'
<1>1. /\ collector.at = "requeued" /\ last' = collector.day /\ collector'.at = "idle"
      /\ UNCHANGED <<counted, reruns>> /\ last < collector.day
      /\ collector.day \in Nat
  BY NoRunIsARun, DemandConstants DEF RecordDay, TypeInv, RunSound, TypeOK, Days
<1>2. ASSUME NEW d \in Days, NEW p \in Pages, Owed(d, p)' PROVE Owed(d, p)
  <2>1. collector.day < d
    BY <1>1, <1>2 DEF Owed
  <2>2. last < d /\ collector.day # d
    BY <1>1, <2>1, Numbers
  <2> QED BY <2>2 DEF Owed
<1> QED BY <1>1, <1>2, NothingAdded

LEMMA InitBudget == Init => DayBudget
BY DEF Init, DayBudget

LEMMA StepBudget == TypeInv /\ DayBudget /\ [Next]_vars => DayBudget'
<1> SUFFICES ASSUME TypeInv, DayBudget, [Next]_vars PROVE DayBudget'
  OBVIOUS
<1>1. ASSUME UNCHANGED <<last, counted, reruns, collector>> PROVE DayBudget'
  BY <1>1 DEF DayBudget, Owed
<1>2. CASE UNCHANGED vars
  BY <1>1, <1>2 DEF vars, daily
<1>3. ASSUME NEW c \in Callers, Request(c) PROVE DayBudget'
  BY <1>1, <1>3 DEF Request, UpdateRequest, InsertRequest, RetryRequest, daily
<1>4. CASE Backfill \/ Cleanup
  BY <1>1, <1>4 DEF Backfill, SelectBatch, AskReplica, EnqueuePage, MarkBatch, Cleanup, daily
<1>5. ASSUME NEW p \in Pages, ToggleArticle(p) \/ Age(p) \/ GoStale(p) PROVE DayBudget'
  BY <1>1, <1>5 DEF ToggleArticle, Age, GoStale, daily
<1>6. ASSUME NEW d \in Days, Publish(d) PROVE DayBudget'
  BY <1>1, <1>6 DEF Publish
<1>7. CASE SelectChunk
  <2>1. collector \in Runs
    BY DEF TypeInv, TypeOK
  <2>2. /\ collector.at = "read" /\ UNCHANGED <<last, counted, reruns>>
        /\ collector' = [collector EXCEPT !.at = "write", !.known = demand[Min(collector.todo)]]
    BY <1>7 DEF SelectChunk
  <2>3. collector'.at = "write" /\ collector'.day = collector.day /\ collector'.todo = collector.todo
    BY <2>1, <2>2, RunFields
  <2> QED BY <2>2, <2>3, RunGoesOn
<1>8. CASE Requeue
  <2>1. collector \in Runs
    BY DEF TypeInv, TypeOK
  <2>2. /\ collector.at = "read" /\ UNCHANGED <<last, counted, reruns>>
        /\ collector' = [collector EXCEPT !.at = "requeued"]
    BY <1>8 DEF Requeue
  <2>3. collector'.at = "requeued" /\ collector'.day = collector.day /\ collector'.todo = collector.todo
    BY <2>1, <2>2, RunFields
  <2> QED BY <2>2, <2>3, RunGoesOn
<1>9. CASE FailRun \/ ForgetDay
  BY <1>9, FailurePays DEF FailRun, ForgetDay
<1> QED BY <1>2, <1>3, <1>4, <1>5, <1>6, <1>7, <1>8, <1>9, StartRunBudget, WriteChunkBudget,
           RecordDayBudget, MovablePages DEF Next, Collect

\* record_page_views adds a day to a page once, and once more for each run that
\* died or was told to count it again, however many days and pages there are.
THEOREM DaysCountOnce == Spec => []DayCountedPerFailure
<1>1. TypeInv /\ DayBudget => DayCountedPerFailure
  <2> SUFFICES ASSUME TypeInv, DayBudget, NEW d \in Days, NEW p \in Pages
               PROVE  counted[d][p] <= 1 + reruns
    BY DEF DayCountedPerFailure
  <2>1. counted[d][p] + (IF Owed(d, p) THEN 1 ELSE 0) <= 1 + reruns
    BY DEF DayBudget
  <2> QED BY <2>1, Numbers
<1> QED BY <1>1, InitTypes, StepTypes, InitBudget, StepBudget, PTL DEF Spec
-----------------------------------------------------------------------------
(* Sums over the days *)

\* Induction over the subsets of a finite set, for a property given as the set of
\* those that have it.
LEMMA SubsetInduction ==
  ASSUME NEW S, IsFiniteSet(S), NEW Q, Q \subseteq SUBSET S, {} \in Q,
         \A s \in SUBSET S : s # {} /\ (\A x \in s : s \ {x} \in Q) => s \in Q
  PROVE  Q = SUBSET S
<1> DEFINE sizes == {n \in Nat : \E s \in SUBSET S : s \notin Q /\ Cardinality(s) = n}
<1>1. ASSUME NEW s \in SUBSET S
      PROVE  /\ IsFiniteSet(s) /\ Cardinality(s) \in Nat
             /\ \A x \in s : Cardinality(s \ {x}) = Cardinality(s) - 1
  BY FS_Subset, FS_CardinalityType, FS_RemoveElement
<1>2. ASSUME NEW n \in sizes, \A k \in sizes : n <= k PROVE FALSE
  <2>1. PICK s \in SUBSET S : s \notin Q /\ Cardinality(s) = n
    OBVIOUS
  <2>2. PICK x \in s : s \ {x} \notin Q
    BY <2>1
  <2>3. s \ {x} \in SUBSET S /\ Cardinality(s \ {x}) = n - 1 /\ Cardinality(s \ {x}) \in Nat
    BY <1>1, <2>1
  <2>4. n - 1 \in sizes
    BY <2>2, <2>3
  <2>5. n <= n - 1 /\ n \in Nat
    BY <1>2, <2>4
  <2> QED BY <2>5
<1>3. sizes = {}
  <2>1. sizes \subseteq Nat
    OBVIOUS
  <2> HIDE DEF sizes
  <2> QED BY <1>2, <2>1, SmallestOf
<1> QED BY <1>1, <1>3

\* g takes the elements of a subset of S away one at a time.
TakesAway(g, S, base, pick, step) ==
  \A s \in SUBSET S :
    g[s] = IF s = {} THEN base ELSE step[<<pick[s], g[s \ {pick[s]}]>>]

Foldable(S, T, base, pick, step) ==
  \E g \in [SUBSET S -> T] : TakesAway(g, S, base, pick, step)

\* Such a recursion has a solution.
LEMMA FoldExists ==
  ASSUME NEW S, IsFiniteSet(S), NEW T, NEW base \in T, NEW pick, NEW step \in [S \X T -> T],
         \A s \in SUBSET S : s # {} => pick[s] \in s
  PROVE  Foldable(S, T, base, pick, step)
<1> DEFINE Upto(n) == {s \in SUBSET S : Cardinality(s) <= n}
           Solves(g, n) == \A s \in Upto(n) :
             g[s] = IF s = {} THEN base ELSE step[<<pick[s], g[s \ {pick[s]}]>>]
           Good(n) == \E g \in [Upto(n) -> T] : Solves(g, n)
           bad == {n \in Nat : ~Good(n)}
<1>1. \A s \in SUBSET S :
        /\ IsFiniteSet(s) /\ Cardinality(s) \in Nat /\ Cardinality(s) <= Cardinality(S)
        /\ Cardinality(s) = 0 <=> s = {}
        /\ s # {} => s \ {pick[s]} \in SUBSET S
                     /\ Cardinality(s \ {pick[s]}) = Cardinality(s) - 1
  BY FS_Subset, FS_CardinalityType, FS_EmptySet, FS_RemoveElement
<1>2. ASSUME NEW n \in bad, \A k \in bad : n <= k PROVE FALSE
  <2>1. CASE n = 0
    <3> DEFINE g == [s \in Upto(0) |-> base]
    <3>1. \A s \in Upto(0) : s = {}
      <4>1. ASSUME NEW s \in Upto(0) PROVE s = {}
        <5>1. Cardinality(s) \in Nat /\ Cardinality(s) <= 0
          BY <1>1
        <5>2. Cardinality(s) = 0
          BY <5>1
        <5> QED BY <1>1, <5>2
      <4> QED BY <4>1
    <3>2. g \in [Upto(0) -> T] /\ Solves(g, 0)
      BY <3>1
    <3> QED BY <2>1, <3>2
  <2>2. CASE n # 0
    <3>1. n \in Nat /\ n - 1 \in Nat /\ ~(n <= n - 1)
      BY <2>2
    <3>2. PICK g \in [Upto(n - 1) -> T] : Solves(g, n - 1)
      <4>1. n - 1 \notin bad
        BY <1>2, <3>1
      <4> QED BY <3>1, <4>1
    <3> DEFINE h == [s \in Upto(n) |->
                      IF s = {} THEN base ELSE step[<<pick[s], g[s \ {pick[s]}]>>]]
    <3>3. \A s \in Upto(n) : s # {} => pick[s] \in S /\ s \ {pick[s]} \in Upto(n - 1)
      <4>1. ASSUME NEW s \in Upto(n), s # {} PROVE s \ {pick[s]} \in Upto(n - 1)
        <5>1. /\ Cardinality(s) \in Nat /\ Cardinality(s) <= n
              /\ Cardinality(s \ {pick[s]}) = Cardinality(s) - 1
          BY <1>1, <4>1
        <5>2. Cardinality(s \ {pick[s]}) <= n - 1
          BY <3>1, <5>1
        <5> QED BY <1>1, <4>1, <5>2
      <4> QED BY <4>1
    <3>4. h \in [Upto(n) -> T]
      BY <3>3
    <3>5. ASSUME NEW s \in Upto(n - 1) PROVE s \in Upto(n) /\ h[s] = g[s]
      <4>1. s \in Upto(n)
        <5>1. Cardinality(s) \in Nat /\ Cardinality(s) <= n - 1
          BY <1>1
        <5>2. Cardinality(s) <= n
          BY <3>1, <5>1
        <5> QED BY <5>2
      <4>2. h[s] = IF s = {} THEN base ELSE step[<<pick[s], g[s \ {pick[s]}]>>]
        BY <4>1
      <4> QED BY <3>2, <4>1, <4>2
    <3>6. \A s \in Upto(n) :
            h[s] = IF s = {} THEN base ELSE step[<<pick[s], g[s \ {pick[s]}]>>]
      OBVIOUS
    <3> HIDE DEF h, Upto
    <3>7. Solves(h, n)
      BY <3>3, <3>5, <3>6
    <3> QED BY <3>1, <3>4, <3>7
  <2> QED BY <2>1, <2>2
<1>3. bad = {}
  <2> HIDE DEF bad
  <2>1. bad \subseteq Nat
    BY DEF bad
  <2> QED BY <1>2, <2>1, SmallestOf
<1>4. Cardinality(S) \in Nat
  BY FS_CardinalityType
<1>5. Good(Cardinality(S))
  <2> HIDE DEF Good
  <2> QED BY <1>3, <1>4
<1>6. Upto(Cardinality(S)) = SUBSET S
  BY <1>1
<1> QED BY <1>5, <1>6 DEF Foldable, TakesAway

\* The views of page p that c has, of all days.
SumOf(c, p) == FoldSet(LAMBDA d, sum : c[d][p] + sum, 0, Days)

\* The recursion the fold of the community modules is a solution of.
Sums(fold, c, p) ==
  fold = [s \in SUBSET Days |->
            IF s = {} THEN 0
            ELSE LET x == CHOOSE x \in s : TRUE IN c[x][p] + fold[s \ {x}]]

LEMMA SumUnfolds ==
  ASSUME NEW c \in [Days -> [Pages -> Nat]], NEW p \in Pages
  PROVE  \E fold : SumOf(c, p) = fold[Days] /\ Sums(fold, c, p)
<1> DEFINE pick == [s \in SUBSET Days |-> CHOOSE x \in s : TRUE]
           step == [q \in Days \X Nat |-> c[q[1]][p] + q[2]]
           none == 0
           fold == CHOOSE g : g = [s \in SUBSET Days |->
              IF s = {} THEN 0
              ELSE LET x == CHOOSE x \in s : TRUE IN c[x][p] + g[s \ {x}]]
<1>1. SumOf(c, p) = fold[Days]
  BY DEF SumOf, FoldSet, MapThenFoldSet
<1>2. fold = CHOOSE g : Sums(g, c, p)
  BY DEF Sums
<1> HIDE DEF fold
<1>3. PICK g \in [SUBSET Days -> Nat] : TakesAway(g, Days, none, pick, step)
  <2>1. step \in [Days \X Nat -> Nat]
    OBVIOUS
  <2>2. \A s \in SUBSET Days : s # {} => pick[s] \in s
    OBVIOUS
  <2>3. IsFiniteSet(Days) /\ none \in Nat
    BY DemandConstants, FS_Interval DEF Days
  <2> HIDE DEF step, pick, none
  <2>4. Foldable(Days, Nat, none, pick, step)
    BY <2>1, <2>2, <2>3, FoldExists
  <2> QED BY <2>4 DEF Foldable
<1>4. Sums(g, c, p)
  <2>1. ASSUME NEW s \in SUBSET Days
        PROVE  g[s] = IF s = {} THEN 0
                      ELSE LET x == CHOOSE x \in s : TRUE IN c[x][p] + g[s \ {x}]
    <3>1. CASE s = {}
      BY <1>3, <3>1 DEF TakesAway
    <3>2. CASE s # {}
      <4> DEFINE x == CHOOSE x \in s : TRUE
                 rest == g[s \ {x}]
      <4>1. x \in s /\ pick[s] = x
        BY <3>2
      <4>2. x \in Days /\ rest \in Nat
        BY <4>1
      <4>3. g[s] = step[<<x, rest>>]
        BY <1>3, <3>2, <4>1 DEF TakesAway
      <4>4. step[<<x, rest>>] = c[x][p] + rest
        <5> HIDE DEF x, rest
        <5> QED BY <4>2
      <4>5. g[s] = c[x][p] + rest
        BY <4>3, <4>4
      <4> QED BY <3>2, <4>5
    <3> QED BY <3>1, <3>2
  <2> QED BY <2>1 DEF Sums
<1>5. Sums(fold, c, p)
  BY <1>2, <1>4
<1> QED BY <1>1, <1>5

\* One view more on one day is one more in the sum of its page.
LEMMA SumGrows ==
  ASSUME NEW c \in [Days -> [Pages -> Nat]], NEW e \in [Days -> [Pages -> Nat]],
         NEW p \in Pages, NEW n \in Nat, NEW d \in Days, e[d][p] = c[d][p] + n,
         \A x \in Days \ {d} : e[x][p] = c[x][p]
  PROVE  SumOf(c, p) \in Nat /\ SumOf(e, p) = SumOf(c, p) + n
<1>1. PICK f : SumOf(c, p) = f[Days] /\ Sums(f, c, p)
  BY SumUnfolds
<1>2. PICK g : SumOf(e, p) = g[Days] /\ Sums(g, e, p)
  BY SumUnfolds
<1> DEFINE Q == {s \in SUBSET Days :
                   f[s] \in Nat /\ g[s] = f[s] + (IF d \in s THEN n ELSE 0)}
<1>3. {} \in Q
  <2>1. f[{}] = 0 /\ g[{}] = 0
    BY <1>1, <1>2 DEF Sums
  <2> QED BY <2>1
<1>4. ASSUME NEW s \in SUBSET Days, s # {}, \A x \in s : s \ {x} \in Q
      PROVE  s \in Q
  <2> DEFINE x == CHOOSE x \in s : TRUE
  <2>1. x \in s
    BY <1>4
  <2>2. f[s] = c[x][p] + f[s \ {x}] /\ g[s] = e[x][p] + g[s \ {x}]
    BY <1>1, <1>2, <1>4 DEF Sums
  <2> HIDE DEF x
  <2>3. /\ f[s \ {x}] \in Nat
        /\ g[s \ {x}] = f[s \ {x}] + (IF d \in s \ {x} THEN n ELSE 0)
    BY <1>4, <2>1
  <2>4. c[x][p] \in Nat /\ e[x][p] \in Nat
    BY <2>1
  <2>5. CASE x = d
    BY <2>1, <2>2, <2>3, <2>4, <2>5
  <2>6. CASE x # d
    <3>1. e[x][p] = c[x][p] /\ (d \in s \ {x} <=> d \in s)
      BY <2>1, <2>6
    <3> QED BY <2>2, <2>3, <2>4, <3>1
  <2> QED BY <2>5, <2>6
<1>5. Q = SUBSET Days
  <2>1. Q \subseteq SUBSET Days
    OBVIOUS
  <2>2. IsFiniteSet(Days)
    BY DemandConstants, FS_Interval DEF Days
  <2> HIDE DEF Q
  <2> QED BY <1>3, <1>4, <2>1, <2>2, SubsetInduction
<1>6. Days \in Q
  BY <1>5
<1> QED BY <1>1, <1>2, <1>6

LEMMA SumGrowsByOne ==
  ASSUME NEW c \in [Days -> [Pages -> Nat]], NEW e \in [Days -> [Pages -> Nat]],
         NEW p \in Pages, NEW d \in Days, e[d][p] = c[d][p] + 1,
         \A x \in Days \ {d} : e[x][p] = c[x][p]
  PROVE  SumOf(e, p) = SumOf(c, p) + 1
<1>1. 1 \in Nat
  OBVIOUS
<1> QED BY <1>1, SumGrows

LEMMA SumStays ==
  ASSUME NEW c \in [Days -> [Pages -> Nat]], NEW e \in [Days -> [Pages -> Nat]],
         NEW p \in Pages, \A x \in Days : e[x][p] = c[x][p]
  PROVE  SumOf(c, p) \in Nat /\ SumOf(e, p) = SumOf(c, p)
<1>1. \A x \in Days : e[x][p] = c[x][p] + 0 /\ c[x][p] \in Nat
  OBVIOUS
<1>2. 1 \in Days /\ 0 \in Nat
  BY DemandConstants DEF Days
<1>3. SumOf(c, p) \in Nat /\ SumOf(e, p) = SumOf(c, p) + 0
  BY <1>1, <1>2, SumGrows
<1> QED BY <1>3

-----------------------------------------------------------------------------
(* Views *)

Added(p) == SumOf(counted, p)

\* What a page's rows have of the views added to it, in the table and dropped.
Kept(p) == demand[p].views + forgotten[p].views

\* No view is missing, and none would be if the row the daily job read went back:
\* a row dropped since is among the forgotten ones, and nobody else adds views.
ViewsInv ==
  \A p \in Pages :
    /\ Kept(p) >= Added(p)
    /\ collector.at = "write" /\ p = Min(collector.todo) =>
         collector.known.views + forgotten[p].views >= Added(p)
LEMMA ViewNumbers ==
  ASSUME TypeInv, NEW p \in Pages
  PROVE  /\ demand[p] \in Row /\ demand[p].views \in Nat /\ forgotten[p].views \in Nat
         /\ Added(p) \in Nat
<1>1. demand[p] \in Row /\ forgotten[p] \in Counts /\ counted \in [Days -> [Pages -> Nat]]
  BY DEF TypeInv, TypeOK
<1>2. Added(p) \in Nat
  BY <1>1, SumStays DEF Added
<1> QED BY <1>1, <1>2 DEF Row, Counts

\* A step that adds no view and drops none.
LEMMA NoViewAdded ==
  ASSUME TypeInv, ViewsInv, UNCHANGED <<forgotten, counted>>,
         \A p \in Pages : demand'[p].views = demand[p].views,
         collector'.at = "write" => UNCHANGED collector
  PROVE  ViewsInv'
<1>1. \A p \in Pages : Added(p)' = Added(p) /\ Kept(p)' = Kept(p)
  BY DEF Added, Kept
<1> QED BY <1>1 DEF ViewsInv

LEMMA OneRowKeepsViews ==
  ASSUME TypeInv, ViewsInv, UNCHANGED <<forgotten, counted, collector>>,
         NEW p \in Pages, NEW new \in Row, new.views = demand[p].views,
         demand' = [demand EXCEPT ![p] = new]
  PROVE  ViewsInv'
<1>1. \A q \in Pages : demand'[q].views = demand[q].views
  BY DEF TypeInv, TypeOK
<1> QED BY <1>1, NoViewAdded

LEMMA RequestKeepsViews ==
  ASSUME TypeInv, ViewsInv, NEW c \in Callers, Request(c)
  PROVE  ViewsInv'
<1> DEFINE p == asked[c]
<1>1. p \in Pages /\ demand[p] \in Row /\ (~demand[p].exists => demand[p] = NoRow)
  BY DEF TypeInv, TypeOK
<1>2. UNCHANGED <<forgotten, counted, collector>>
  BY DEF Request, UpdateRequest, InsertRequest, RetryRequest, daily
<1>3. ASSUME demand' = demand PROVE ViewsInv'
  BY <1>2, <1>3, NoViewAdded
<1>4. ASSUME Increment(p) PROVE ViewsInv'
  <2>1. CASE demand[p].exists
    <3> DEFINE new == Requested(demand[p])
    <3>1. demand' = [demand EXCEPT ![p] = new]
      BY <1>4, <2>1 DEF Increment
    <3>2. new \in Row /\ new.views = demand[p].views
      BY <1>1, RowsWritten, RequestedFields
    <3> HIDE DEF new
    <3> QED BY <1>1, <1>2, <3>1, <3>2, OneRowKeepsViews
  <2>2. CASE ~demand[p].exists
    BY <1>3, <1>4, <2>2 DEF Increment
  <2> QED BY <2>1, <2>2
<1>5. ASSUME InsertRequest(c) PROVE ViewsInv'
  <2>1. CASE demand[p].exists
    BY <1>3, <1>5, <2>1 DEF InsertRequest
  <2>2. CASE ~demand[p].exists
    <3> DEFINE new == NewRow(1, 0)
    <3>1. demand' = [demand EXCEPT ![p] = new]
      BY <1>5, <2>2 DEF InsertRequest
    <3>2. new \in Row /\ new.views = 0 /\ demand[p].views = 0
      <4>1. NewRow(1, 0).views = 0 /\ NoRow.views = 0
        BY DEF NewRow, NoRow
      <4> QED BY <1>1, <2>2, <4>1, RowsWritten
    <3> HIDE DEF new
    <3> QED BY <1>1, <1>2, <3>1, <3>2, OneRowKeepsViews
  <2> QED BY <2>1, <2>2
<1> QED BY <1>4, <1>5 DEF Request, UpdateRequest, RetryRequest

LEMMA WorldKeepsViews ==
  ASSUME TypeInv, ViewsInv, NEW p \in Pages, ToggleArticle(p) \/ Age(p) \/ GoStale(p)
  PROVE  ViewsInv'
<1>1. demand[p] \in Row
  BY DEF TypeInv, TypeOK
<1>2. UNCHANGED <<forgotten, counted, collector>>
  BY DEF ToggleArticle, Age, GoStale, table, daily
<1>3. CASE ToggleArticle(p)
  BY <1>2, <1>3, NoViewAdded DEF ToggleArticle, table
<1>4. CASE Age(p)
  <2> DEFINE new == [demand[p] EXCEPT !.touched = "long ago"]
  <2>1. new \in Row /\ new.views = demand[p].views
    BY <1>1, RowsWritten, AgedFields
  <2>2. demand' = [demand EXCEPT ![p] = new]
    BY <1>4 DEF Age
  <2> HIDE DEF new
  <2> QED BY <1>2, <2>1, <2>2, OneRowKeepsViews
<1>5. CASE GoStale(p)
  <2> DEFINE new == [demand[p] EXCEPT !.queued = "stale"]
  <2>1. new \in Row /\ new.views = demand[p].views
    BY <1>1, RowsWritten, QueuedFields
  <2>2. demand' = [demand EXCEPT ![p] = new]
    BY <1>5 DEF GoStale
  <2> HIDE DEF new
  <2> QED BY <1>2, <2>1, <2>2, OneRowKeepsViews
<1> QED BY <1>3, <1>4, <1>5

LEMMA SelectChunkKeepsViews ==
  ASSUME TypeInv, ViewsInv, SelectChunk
  PROVE  ViewsInv'
<1>1. UNCHANGED <<demand, forgotten, counted>>
  BY DEF SelectChunk, table
<1>2. collector'.todo = collector.todo /\ collector'.known = demand[Min(collector.todo)]
  BY RunFields DEF SelectChunk, TypeInv, TypeOK
<1>3. \A p \in Pages : Added(p)' = Added(p) /\ Kept(p)' = Kept(p)
  BY <1>1 DEF Added, Kept
<1> QED BY <1>1, <1>2, <1>3 DEF ViewsInv, Kept

\* The write sets the views to one more than those it read, or inserts a row with
\* one view where there was none.
LEMMA WriteChunkKeepsViews ==
  ASSUME TypeInv, ViewsInv, WriteChunk
  PROVE  ViewsInv'
<1>1. UNCHANGED forgotten
  BY DEF WriteChunk
<1>2. CASE collector.known.exists # demand[Min(collector.todo)].exists
  BY <1>1, <1>2, NoRunIsARun, NoViewAdded DEF WriteChunk
<1>3. CASE collector.known.exists = demand[Min(collector.todo)].exists
  <2>1. PICK p : p = Min(collector.todo)
    OBVIOUS
  <2>2. PICK new \in Row : Written(p, new)
    BY <1>3, <2>1, ChunkWritten
  <2>3. /\ p \in Pages /\ collector.at = "write" /\ collector.day \in Days
        /\ collector.known \in Row /\ (~demand[p].exists => demand[p] = NoRow)
    BY <2>1, ChunkSelected
  <2>4. /\ counted' = [counted EXCEPT ![collector.day][p] = counted[collector.day][p] + 1]
        /\ collector'.at = "read"
    BY <1>3, <2>1, ChunkWritten, ChunkDone
  <2>5. Kept(p) >= Added(p) /\ collector.known.views + forgotten[p].views >= Added(p)
    BY <2>1, <2>3 DEF ViewsInv
  <2>6. demand \in [Pages -> Row] /\ counted \in [Days -> [Pages -> Nat]]
        /\ counted' \in [Days -> [Pages -> Nat]]
    BY WriteChunkTypes DEF TypeInv, TypeOK
  <2>7. Added(p)' = Added(p) + 1
    <3>1. /\ counted'[collector.day][p] = counted[collector.day][p] + 1
          /\ \A x \in Days \ {collector.day} : counted'[x][p] = counted[x][p]
      BY <2>3, <2>4, <2>6
    <3>2. SumOf(counted', p) = SumOf(counted, p) + 1
      BY <2>3, <2>6, <3>1, SumGrowsByOne
    <3> QED BY <3>2 DEF Added
  <2>8. ASSUME NEW q \in Pages \ {p} PROVE Added(q)' = Added(q)
    <3>1. \A x \in Days : counted'[x][q] = counted[x][q]
      BY <2>4, <2>6
    <3>2. SumOf(counted', q) = SumOf(counted, q)
      BY <2>6, <3>1, SumStays
    <3> QED BY <3>2 DEF Added
  <2>9. Kept(p)' >= Added(p)'
    <3>1. demand'[p] = new /\ forgotten'[p] = forgotten[p]
      BY <1>1, <2>2, <2>3, <2>6 DEF Written
    <3>2. /\ demand[p].views \in Nat /\ forgotten[p].views \in Nat /\ Added(p) \in Nat
          /\ collector.known.views \in Nat
      BY <2>3, ViewNumbers DEF Row
    <3>3. CASE collector.known.exists
      BY <2>2, <2>5, <2>7, <3>1, <3>2, <3>3 DEF Kept, Written
    <3>4. CASE ~collector.known.exists
      <4>1. demand[p].views = 0
        BY <1>3, <2>1, <2>3, <3>4 DEF NoRow
      <4> QED BY <2>2, <2>5, <2>7, <3>1, <3>2, <3>4, <4>1 DEF Kept, Written
    <3> QED BY <3>3, <3>4
  <2>10. ASSUME NEW q \in Pages \ {p} PROVE Kept(q)' = Kept(q)
    BY <1>1, <2>2, <2>6 DEF Kept, Written
  <2> QED BY <2>4, <2>8, <2>9, <2>10 DEF ViewsInv
<1> QED BY <1>2, <1>3

LEMMA CleanupKeepsViews ==
  ASSUME TypeInv, ViewsInv, Cleanup
  PROVE  ViewsInv'
<1> DEFINE idle == {p \in Pages : demand[p].touched = "long ago"}
<1>1. \A p \in Pages \ idle : demand'[p] = demand[p] /\ forgotten'[p] = forgotten[p]
  BY DEF Cleanup
<1>2. ASSUME NEW p \in idle
      PROVE  demand'[p].views = 0
             /\ forgotten'[p].views = forgotten[p].views + demand[p].views
  BY DEF Cleanup, NoRow
<1> HIDE DEF idle
<1>3. ASSUME NEW p \in Pages
      PROVE  Kept(p)' = Kept(p) /\ forgotten'[p].views >= forgotten[p].views
             /\ forgotten'[p].views \in Nat
  <2>1. demand[p].views \in Nat /\ forgotten[p].views \in Nat
    BY ViewNumbers
  <2>2. CASE p \in idle
    BY <1>2, <2>1, <2>2 DEF Kept
  <2>3. CASE p \notin idle
    BY <1>1, <2>1, <2>3 DEF Kept
  <2> QED BY <2>2, <2>3
<1>4. UNCHANGED <<counted, collector>>
  BY DEF Cleanup, daily
<1>5. \A p \in Pages : Added(p)' = Added(p)
  BY <1>4 DEF Added
<1>6. ASSUME NEW p \in Pages, collector.at = "write", p = Min(collector.todo)
      PROVE  collector.known.views + forgotten'[p].views >= Added(p)
  <2>1. collector.known.views \in Nat
    BY <1>6, DemandConstants DEF TypeInv, TypeOK, Runs, Row
  <2>2. collector.known.views + forgotten[p].views >= Added(p)
    BY <1>6 DEF ViewsInv
  <2> QED BY <1>3, <2>1, <2>2, ViewNumbers
<1> QED BY <1>3, <1>4, <1>5, <1>6 DEF ViewsInv

LEMMA InitViews == Init => ViewsInv
<1> SUFFICES ASSUME Init, NEW p \in Pages PROVE Kept(p) >= Added(p)
  BY NoRunIsARun DEF Init, ViewsInv
<1>1. PICK f : Added(p) = f[Days] /\ Sums(f, counted, p)
  BY SumUnfolds DEF Init, Added
<1> DEFINE Q == {s \in SUBSET Days : f[s] = 0}
<1>2. \A d \in Days : counted[d][p] = 0
  BY DEF Init
<1>3. {} \in Q
  BY <1>1 DEF Sums
<1>4. ASSUME NEW s \in SUBSET Days, s # {}, \A x \in s : s \ {x} \in Q PROVE s \in Q
  <2> DEFINE x == CHOOSE x \in s : TRUE
  <2>1. x \in s /\ f[s] = counted[x][p] + f[s \ {x}]
    BY <1>1, <1>4 DEF Sums
  <2> HIDE DEF x
  <2> QED BY <1>2, <1>4, <2>1
<1>5. Q = SUBSET Days
  <2>1. Q \subseteq SUBSET Days /\ IsFiniteSet(Days)
    BY DemandConstants, FS_Interval DEF Days
  <2> HIDE DEF Q
  <2> QED BY <1>3, <1>4, <2>1, SubsetInduction
<1>6. Added(p) = 0
  BY <1>1, <1>5
<1>7. demand[p].views = 0 /\ forgotten[p].views = 0
  BY DEF Init, NoRow
<1> QED BY <1>6, <1>7 DEF Kept

LEMMA StepViews == TypeInv /\ ViewsInv /\ [Next]_vars => ViewsInv'
<1> SUFFICES ASSUME TypeInv, ViewsInv, [Next]_vars PROVE ViewsInv'
  OBVIOUS
<1>1. ASSUME UNCHANGED <<table, counted>>, collector'.at = "write" => UNCHANGED collector
      PROVE  ViewsInv'
  BY <1>1, NoViewAdded DEF table
<1>2. CASE UNCHANGED vars
  BY <1>1, <1>2 DEF vars, daily
<1>3. CASE StartRun \/ RecordDay \/ ForgetDay \/ FailRun
  BY <1>1, <1>3, NoRunIsARun DEF StartRun, RecordDay, ForgetDay, FailRun
<1>4. CASE Requeue
  <2>1. collector' = [collector EXCEPT !.at = "requeued"] /\ UNCHANGED <<forgotten, counted>>
    BY <1>4 DEF Requeue
  <2>2. collector'.at = "requeued"
    BY <2>1, RunFields DEF TypeInv, TypeOK
  <2> QED BY <1>4, <2>1, <2>2, RequeuedRows, QueuedRows, NoViewAdded
<1>5. CASE SelectBatch \/ AskReplica \/ EnqueuePage
  BY <1>1, <1>5 DEF SelectBatch, AskReplica, EnqueuePage, daily
<1>6. CASE MarkBatch
  <2>1. UNCHANGED <<forgotten, counted, collector>>
    BY <1>6 DEF MarkBatch, daily
  <2> QED BY <1>6, <2>1, MarkedRows, QueuedRows, NoViewAdded
<1>7. ASSUME NEW d \in Days, Publish(d) PROVE ViewsInv'
  BY <1>1, <1>7 DEF Publish
<1> QED BY <1>2, <1>3, <1>4, <1>5, <1>6, <1>7, RequestKeepsViews, WorldKeepsViews,
           SelectChunkKeepsViews, WriteChunkKeepsViews, CleanupKeepsViews, MovablePages
        DEF Next, Collect, Backfill

\* record_page_views accumulates: no day added to a page is lost to a reader's
\* request, to the next run, to cleanup or to the snapshot it was computed from.
THEOREM ViewsAddUp == Spec => []ViewsAccumulate
<1>1. ViewsInv => ViewsAccumulate
  BY DEF ViewsInv, ViewsAccumulate, Kept, Added, SumOf
<1> QED BY <1>1, InitTypes, StepTypes, InitViews, StepViews, PTL DEF Spec
=============================================================================
