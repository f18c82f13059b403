------------------------------- MODULE Demand -------------------------------
(***************************************************************************)
(* page_demand of one wiki: readers' requests count into it, the daily job *)
(* adds the views of the newest published dump, the hourly backfill hands  *)
(* its ranking to the queue, and cleanup drops what nobody asks about.     *)
(*                                                                         *)
(* A transaction is one step, except that of record_page_views, whose      *)
(* SELECT reads a snapshot the writes come after.  A dump has one view of  *)
(* every page, and a chunk is one page.                                    *)
(***************************************************************************)
EXTENDS Naturals, FiniteSets, FiniteSetsExt

CONSTANTS
  Pages,        \* page ids, numbers: the ranking breaks ties by them
  Callers,      \* requests of readers, one each
  AskedPages,   \* BOUND: pages they ask for
  Movable,      \* BOUND: pages that are deleted, redirected or restored
  MaxDay,       \* BOUND: dumps published
  BatchSize,    \* BACKFILL_BATCH_SIZE
  MaxReruns,    \* BOUND: runs that die half-way, and runs with --again
  NotSelected   \* what the daily job knows of a page before its SELECT

Days == 1..MaxDay

\* A row of page_demand.  touched: "long ago" once the 180 days of cleanup are
\* over.  queued: "no" while queued_at is null, "stale" once it is older than the
\* freshness window.
Row == [exists : BOOLEAN, requests : Nat, views : Nat,
        queued : {"no", "recent", "stale"}, touched : {"lately", "long ago"}]

ASSUME DemandConstants ==
  /\ Pages \subseteq Nat
  /\ IsFiniteSet(Callers)
  /\ AskedPages \subseteq Pages /\ Movable \subseteq Pages
  /\ MaxDay \in Nat \ {0}
  /\ BatchSize \in Nat \ {0}
  /\ MaxReruns \in Nat
  /\ NotSelected \notin Row

VARIABLES
  articles,   \* pages the wiki replica returns
  demand,     \* demand[p]: the row of p
  asked,      \* asked[c]: the page call c is about
  at,         \* at[c]: where call c stands
  published,  \* days with a dump
  last,       \* app_state "demand:pageviews:last-day", 0 when there is none
  collector,  \* the daily job
  backfill,   \* the hourly job
  offered,    \* pages handed to the queue since they last got in line
  counted,    \* history: times the views of day d were added to page p
  forgotten,  \* history: counts in the rows cleanup dropped
  reruns      \* runs that died or were told to count a day again

table == <<demand, forgotten>>
readers == <<asked, at>>
daily == <<published, last, collector, counted>>
hourly == <<backfill, offered>>
vars == <<articles, table, readers, daily, hourly, reruns>>

NoRow == [exists |-> FALSE, requests |-> 0, views |-> 0, queued |-> "no", touched |-> "lately"]
NewRow(requests, views) ==
  [exists |-> TRUE, requests |-> requests, views |-> views, queued |-> "no", touched |-> "lately"]
Waiting(p) == demand[p].exists /\ demand[p].queued = "no"

NoRun == [at |-> "idle", day |-> 0, todo |-> {}, known |-> NotSelected]
NoBatch == [at |-> "idle", batch |-> {}, found |-> {}]

Init ==
  /\ articles = Pages
  /\ demand = [p \in Pages |-> NoRow]
  /\ asked \in [Callers -> AskedPages]
  /\ at = [c \in Callers |-> "start"]
  /\ published = {}
  /\ last = 0
  /\ collector = NoRun
  /\ backfill = NoBatch
  /\ offered = {}
  /\ counted = [d \in Days |-> [p \in Pages |-> 0]]
  /\ forgotten = [p \in Pages |-> [requests |-> 0, views |-> 0]]
  /\ reruns = 0

-----------------------------------------------------------------------------
(* The wiki, the dumps and time *)

\* A page is deleted, turned into a redirect, or becomes an article again.
ToggleArticle(p) ==
  /\ articles' = IF p \in articles THEN articles \ {p} ELSE articles \cup {p}
  /\ UNCHANGED <<table, readers, daily, hourly, reruns>>

\* Dumps are published in order.
Publish(d) ==
  /\ \A e \in Days : e \in published <=> e < d
  /\ published' = published \cup {d}
  /\ UNCHANGED <<articles, table, readers, last, collector, counted, hourly, reruns>>

\* Half a year passes without a touch.  A call that found no row is over by then.
Age(p) ==
  /\ demand[p].exists /\ demand[p].touched = "lately"
  /\ \A c \in Callers : asked[c] = p => at[c] \in {"start", "done"}
  /\ demand' = [demand EXCEPT ![p].touched = "long ago"]
  /\ UNCHANGED <<articles, forgotten, readers, daily, hourly, reruns>>

GoStale(p) ==
  /\ demand[p].queued = "recent"
  /\ demand' = [demand EXCEPT ![p].queued = "stale"]
  /\ UNCHANGED <<articles, forgotten, readers, daily, hourly, reruns>>

-----------------------------------------------------------------------------
(* record_page_request: an UPDATE, an INSERT if it matched nothing, and after *)
(* an IntegrityError the UPDATE again.                                        *)

Requested(row) == [row EXCEPT !.requests = @ + 1, !.touched = "lately"]

Increment(p) ==
  demand' = IF demand[p].exists THEN [demand EXCEPT ![p] = Requested(@)] ELSE demand

UpdateRequest(c) ==
  LET p == asked[c]
  IN /\ at[c] = "start"
     /\ Increment(p)
     /\ at' = [at EXCEPT ![c] = IF demand[p].exists THEN "done" ELSE "missed"]
     /\ UNCHANGED <<articles, forgotten, asked, daily, hourly, reruns>>

InsertRequest(c) ==
  LET p == asked[c]
  IN /\ at[c] = "missed"
     /\ demand' = IF demand[p].exists THEN demand ELSE [demand EXCEPT ![p] = NewRow(1, 0)]
     /\ at' = [at EXCEPT ![c] = IF demand[p].exists THEN "collided" ELSE "done"]
     /\ UNCHANGED <<articles, forgotten, asked, daily, hourly, reruns>>

\* Mutant: the loser of the insert writes what it meant to insert.
RetryAsFirst(c) ==
  /\ at[c] = "collided"
  /\ demand' = [demand EXCEPT ![asked[c]].requests = 1, ![asked[c]].touched = "lately"]
  /\ at' = [at EXCEPT ![c] = "done"]
  /\ UNCHANGED <<articles, forgotten, asked, daily, hourly, reruns>>

RetryRequest(c) ==
  /\ at[c] = "collided"
  /\ Increment(asked[c])
  /\ at' = [at EXCEPT ![c] = "done"]
  /\ UNCHANGED <<articles, forgotten, asked, daily, hourly, reruns>>

-----------------------------------------------------------------------------
(* The daily job *)

\* Mutant: the day already recorded is read once more.
FindDumpAgain ==
  /\ published # {} /\ collector.at = "idle"
  /\ last <= Max(published)

\* find_dump and the test against the day recorded last.
FindDump ==
  /\ published # {} /\ collector.at = "idle"
  /\ last < Max(published)

StartRun ==
  /\ FindDump
  /\ collector' = [at |-> "read", day |-> Max(published), todo |-> Pages, known |-> NotSelected]
  /\ UNCHANGED <<articles, table, readers, published, last, counted, hourly, reruns>>

\* main --again forgets the day before the run.
ForgetDay ==
  /\ collector.at = "idle" /\ last # 0
  /\ reruns < MaxReruns
  /\ reruns' = reruns + 1
  /\ last' = 0
  /\ UNCHANGED <<articles, table, readers, published, collector, counted, hourly>>

\* The chunks go by page id.
SelectChunk ==
  /\ collector.at = "read" /\ collector.todo # {}
  /\ collector' = [collector EXCEPT !.at = "write", !.known = demand[Min(collector.todo)]]
  /\ UNCHANGED <<articles, table, readers, published, last, counted, hourly, reruns>>

\* Mutant: the whole row goes back as it was read.
ViewedWhole(row, known) == [known EXCEPT !.views = @ + 1, !.touched = "lately"]

\* Mutant: the views of the day replace those of the days before.
ViewedNewest(row, known) == [row EXCEPT !.views = 1, !.touched = "lately"]

\* Only the columns of the daily job are written.
Viewed(row, known) == [row EXCEPT !.views = known.views + 1, !.touched = "lately"]

\* The chunk's UPDATE or INSERT.  A row that came or went since the SELECT fails
\* it (IntegrityError, StaleDataError), and with it the run.
WriteChunk ==
  LET p == Min(collector.todo)
      known == collector.known
  IN /\ collector.at = "write"
     /\ IF known.exists # demand[p].exists
        THEN collector' = NoRun /\ UNCHANGED <<demand, counted>>
        ELSE /\ demand' = [demand EXCEPT ![p] =
                  IF known.exists THEN Viewed(@, known) ELSE NewRow(0, 1)]
             /\ counted' = [counted EXCEPT ![collector.day][p] = @ + 1]
             /\ collector' = [collector EXCEPT !.at = "read", !.todo = @ \ {p},
                                               !.known = NotSelected]
     /\ reruns' = IF known.exists # demand[p].exists THEN reruns + 1 ELSE reruns
     /\ reruns' <= MaxReruns
     /\ UNCHANGED <<articles, forgotten, readers, published, last, hourly>>

\* requeue_stale_demand puts pages back in line; the next transaction records
\* the day.
Requeue ==
  LET stale == {p \in Pages : demand[p].queued = "stale"}
  IN /\ collector.at = "read" /\ collector.todo = {}
     /\ demand' = [p \in Pages |->
          IF p \in stale THEN [demand[p] EXCEPT !.queued = "no"] ELSE demand[p]]
     /\ offered' = offered \ stale
     /\ collector' = [collector EXCEPT !.at = "requeued"]
     /\ UNCHANGED <<articles, forgotten, readers, published, last, counted, backfill,
                    reruns>>

RecordDay ==
  /\ collector.at = "requeued"
  /\ last' = collector.day
  /\ collector' = NoRun
  /\ UNCHANGED <<articles, table, readers, published, counted, hourly, reruns>>

-----------------------------------------------------------------------------
(* The hourly job *)

\* pending_demand: requests first, then views, then the page id.
Outranks(p, q) ==
  LET x == demand[p]
      y == demand[q]
  IN \/ x.requests > y.requests
     \/ x.requests = y.requests /\ x.views > y.views
     \/ x.requests = y.requests /\ x.views = y.views /\ p > q

SelectBatch ==
  LET waiting == {p \in Pages : Waiting(p)}
      batch == {p \in waiting : Cardinality({q \in waiting : Outranks(q, p)}) < BatchSize}
  IN /\ backfill.at = "idle" /\ waiting # {}
     /\ backfill' = [at |-> "ask", batch |-> batch, found |-> {}]
     /\ UNCHANGED <<articles, table, readers, daily, offered, reruns>>

\* latest_revisions leaves out what is no article.
AskReplica ==
  /\ backfill.at = "ask"
  /\ backfill' = [backfill EXCEPT !.at = "enqueue", !.found = backfill.batch \cap articles]
  /\ UNCHANGED <<articles, table, readers, daily, offered, reruns>>

\* One enqueue_if_stale of enqueue_pages.
EnqueuePage ==
  /\ backfill.at = "enqueue"
  /\ \E p \in backfill.found :
       /\ offered' = offered \cup {p}
       /\ backfill' = [backfill EXCEPT !.found = @ \ {p}]
  /\ UNCHANGED <<articles, table, readers, daily, reruns>>

\* Mutant: only the pages the replica knows are marked.
MarkedArticles == {p \in backfill.batch : demand[p].exists /\ p \in articles}

\* Mutant: a row that is gone is written again.
MarkedGone == backfill.batch

Marked == {p \in backfill.batch : demand[p].exists}

\* Mutant: the batch is marked before it is handed over.
MarkBatchFirst ==
  /\ backfill.at = "enqueue"
  /\ demand' = [p \in Pages |->
       IF p \in Marked THEN [demand[p] EXCEPT !.queued = "recent"] ELSE demand[p]]
  /\ backfill' = IF backfill.found = {} THEN NoBatch ELSE backfill
  /\ UNCHANGED <<articles, forgotten, readers, daily, offered, reruns>>

\* mark_demand_queued: the whole batch, found or not.
MarkBatch ==
  /\ backfill.at = "enqueue" /\ backfill.found = {}
  /\ demand' = [p \in Pages |->
       IF p \in Marked THEN [demand[p] EXCEPT !.queued = "recent"] ELSE demand[p]]
  /\ backfill' = NoBatch
  /\ UNCHANGED <<articles, forgotten, readers, daily, offered, reruns>>

-----------------------------------------------------------------------------
(* A run that dies, and cleanup *)

FailRun ==
  /\ reruns < MaxReruns
  /\ reruns' = reruns + 1
  /\ \/ collector.at # "idle" /\ collector' = NoRun /\ UNCHANGED backfill
     \/ backfill.at # "idle" /\ backfill' = NoBatch /\ UNCHANGED collector
  /\ UNCHANGED <<articles, table, readers, published, last, counted, offered>>

\* The rows nothing viewed or requested in 180 days.
Cleanup ==
  LET idle == {p \in Pages : demand[p].touched = "long ago"}
  IN /\ idle # {}
     /\ demand' = [p \in Pages |-> IF p \in idle THEN NoRow ELSE demand[p]]
     /\ forgotten' = [p \in Pages |->
          IF p \in idle
          THEN [requests |-> forgotten[p].requests + demand[p].requests,
                views |-> forgotten[p].views + demand[p].views]
          ELSE forgotten[p]]
     /\ offered' = offered \ idle
     /\ UNCHANGED <<articles, readers, daily, backfill, reruns>>

-----------------------------------------------------------------------------
Request(c) == UpdateRequest(c) \/ InsertRequest(c) \/ RetryRequest(c)
Collect == StartRun \/ SelectChunk \/ WriteChunk \/ Requeue \/ RecordDay
Backfill == SelectBatch \/ AskReplica \/ EnqueuePage \/ MarkBatch

Next ==
  \/ \E c \in Callers : Request(c)
  \/ Collect \/ ForgetDay
  \/ Backfill
  \/ FailRun \/ Cleanup
  \/ \E p \in Movable : ToggleArticle(p)
  \/ \E p \in Pages : Age(p) \/ GoStale(p)
  \/ \E d \in Days : Publish(d)

Spec == Init /\ [][Next]_vars

\* The backfill runs every hour.
FairSpec == Spec /\ WF_vars(Backfill)

-----------------------------------------------------------------------------
(* Properties *)

Counts == [requests : Nat, views : Nat]
Runs == [at : {"idle", "read", "write", "requeued"}, day : {0} \cup Days,
         todo : SUBSET Pages, known : Row \cup {NotSelected}]
Batches == [at : {"idle", "ask", "enqueue"}, batch : SUBSET Pages, found : SUBSET Pages]
TypeOK ==
  /\ articles \subseteq Pages
  /\ demand \in [Pages -> Row]
  /\ \A p \in Pages : ~demand[p].exists => demand[p] = NoRow
  /\ asked \in [Callers -> Pages]
  /\ at \in [Callers -> {"start", "missed", "collided", "done"}]
  /\ published \subseteq Days
  /\ last \in {0} \cup published
  /\ collector \in Runs
  /\ collector.at = "write" <=> collector.known # NotSelected
  /\ backfill \in Batches
  /\ backfill.found \subseteq backfill.batch
  /\ offered \subseteq Pages
  /\ counted \in [Days -> [Pages -> Nat]]
  /\ forgotten \in [Pages -> Counts]
  /\ reruns \in 0..MaxReruns

\* Two web workers do not lose each other's count, nor does the daily job lose
\* one: every call that returned is in the row of its page, or was when cleanup
\* dropped the row.
RequestsAreCounted ==
  \A p \in Pages :
    demand[p].requests + forgotten[p].requests
      = Cardinality({c \in Callers : asked[c] = p /\ at[c] = "done"})

\* Views accumulate: no day added is lost to a reader's request, to the next run
\* or to the snapshot it was computed from.  It may be more: a row dropped and
\* asked for again between the SELECT and the write gets its old views back.
ViewsAccumulate ==
  \A p \in Pages :
    demand[p].views + forgotten[p].views >= FoldSet(LAMBDA d, sum : counted[d][p] + sum, 0, Days)

\* A day is added to a page once, and once more for each run that died or was told
\* to count it again.
DayCountedPerFailure ==
  \A d \in Days, p \in Pages : counted[d][p] <= 1 + reruns

\* A batch the replica has answered for is marked as it was answered, even if one
\* of its pages has become an article since.
InLine(p) == Waiting(p) /\ (backfill.at # "enqueue" \/ p \notin backfill.batch)

\* An article in line is handed to the queue, unless it stops being an article or
\* its row is dropped: a run that dies against the replica leaves its pages in
\* line, and pages the replica no longer returns do not keep the head of it.
WaitingIsOffered ==
  \A p \in Pages :
    InLine(p) /\ p \notin offered ~> p \in offered \/ p \notin articles \/ ~demand[p].exists
=============================================================================
