------------------------------ MODULE WorkQueue ------------------------------
(***************************************************************************)
(* The durable work queue of WikiPeople (work_queue), the results it fills *)
(* (attribution_results), the worker replicas that move a job from one to  *)
(* the other, and everyone who enqueues: the two read endpoints and the    *)
(* scheduled jobs.  One wiki, one algorithm version.                       *)
(*                                                                         *)
(* A repository method that runs one transaction is one step, but for the  *)
(* cleanup, which selects ids and deletes by id afterwards.  A worker      *)
(* calls several of them with HTTP requests in between, so a worker is a   *)
(* sequence of steps other processes interleave with.                      *)
(*                                                                         *)
(* There is no clock.  A deadline (available_at, lease_until, the dead     *)
(* retry, the two retention cutoffs, the freshness window) is a flag of    *)
(* the row it belongs to that an action of its own raises.                 *)
(***************************************************************************)
EXTENDS Naturals

CONSTANTS
  Pages,        \* articles of the wiki
  MaxRevision,  \* BOUND: an article is edited at most MaxRevision - 1 times
  Workers,      \* worker replicas (jobs.yaml runs two)
  MaxAttempts,  \* WORKER_MAX_ATTEMPTS
  Jobs,         \* the scheduled jobs deployed in this instance
  WikiEvents,   \* what befalls an article besides plain edits
  MaxCrashes,   \* BOUND: worker processes killed
  MaxRevives,   \* BOUND: dead rows revived by readers
  NoLease       \* what an idle worker holds

Revisions == 1..MaxRevision
Keys == Pages \X Revisions

\* The priorities the enqueuers pass; 0 stands in the fields of no row.
ReaderPriority == 100
PrewarmPriority == 50
BackfillPriority == 10
RecomputePriority == 5
Priorities == {0, RecomputePriority, BackfillPriority, PrewarmPriority, ReaderPriority}

\* Phases of Worker.process: where the next call is made from.
Phases == {"idle", "claimed", "gone", "rejecting", "outdated", "requeue",
           "attribute", "saved", "completed"}

\* holds: the id in the lease still names a row.  Ids are never reused, so once
\* the row is deleted the id matches nothing.  seen: the revision get_page
\* answered with, kept while the lease turns out to be for another one.
Lease == [key : Keys, attempts : 0..MaxAttempts, priority : Priorities,
          holds : BOOLEAN, seen : 0..MaxRevision]

ASSUME ConstantsOK ==
  /\ MaxRevision \in Nat \ {0}
  /\ MaxAttempts \in Nat \ {0}
  /\ MaxCrashes \in Nat
  /\ MaxRevives \in Nat
  /\ Jobs \subseteq {"prewarm", "requested", "backfill", "recompute"}
  /\ WikiEvents \subseteq {"redirect", "elsewhere", "delete"}
  /\ NoLease \notin Lease

VARIABLES
  current,  \* current[p]: revision the wiki shows for p
  kind,     \* kind[p]: "article", "redirect" or "elsewhere" (another namespace)
  deleted,  \* deleted[p]: the wiki answers "missing"
  work,     \* work[k]: the row of work_queue, state "none" when there is none
  older,    \* <<j, k>>: row j was created before row k
  result,   \* result[k]: age of the row of attribution_results, 0 when none
  newer,    \* <<j, k>>: result j was computed after result k of the same page
  selected, \* results a cleanup has selected and not yet deleted
  active,   \* the wiki has a row in active_wikis
  pc,       \* pc[w]: phase of worker w
  lease,    \* lease[w]: the WorkLease worker w is processing
  crashes, revives

wiki == <<current, kind, deleted>>
queue == <<work, older>>
answers == <<result, newer, selected>>
worker == <<pc, lease>>
bounds == <<crashes, revives>>
vars == <<wiki, queue, answers, active, worker, bounds>>

-----------------------------------------------------------------------------
(* work_queue *)

\* age counts the deadlines a row has passed.  pending: 1 once available_at is
\* past; leased: 1 once lease_until is past; dead: 1 once it may be retried,
\* 2 past the queue retention; superseded: 2 past the queue retention.
Row == [state : {"none", "pending", "leased", "dead", "superseded"},
        priority : Priorities, attempts : 0..MaxAttempts,
        age : 0..2, permanent : BOOLEAN]

NoRow == [state |-> "none", priority |-> 0, attempts |-> 0, age |-> 0, permanent |-> FALSE]
NewRow(priority) ==
  [state |-> "pending", priority |-> priority, attempts |-> 0, age |-> 1, permanent |-> FALSE]

Exists(row) == row.state # "none"
Live(row) == row.state \in {"pending", "leased"}

\* Mutant: claim forgets the rows whose lease ran out.
ClaimablePendingOnly(row) == row.state = "pending" /\ row.age = 1

Claimable(row) == Live(row) /\ row.age = 1

\* What claim, supersede, revive, a second enqueue and fail write into a row.
Leased(row) ==
  [state |-> "leased", priority |-> row.priority, age |-> 0, permanent |-> row.permanent,
   attempts |-> IF row.attempts < MaxAttempts THEN row.attempts + 1 ELSE MaxAttempts]
Superseded(row) ==
  [state |-> "superseded", priority |-> row.priority, attempts |-> row.attempts,
   age |-> 0, permanent |-> row.permanent]
Revived(row) ==
  [state |-> "pending", priority |-> ReaderPriority, attempts |-> 0,
   age |-> 1, permanent |-> row.permanent]
Boosted(row, priority) ==
  [row EXCEPT !.priority = IF row.priority < priority THEN priority ELSE row.priority]
Failed(row, dead, permanent) ==
  [state |-> IF dead THEN "dead" ELSE "pending", priority |-> row.priority,
   attempts |-> row.attempts, age |-> 0, permanent |-> permanent]

\* A dead row the endpoints put back: transient, and past its retry time.
Retryable(row) == row.state = "dead" /\ ~row.permanent /\ row.age >= 1

\* Mutant: enqueue supersedes every other revision.
PredecessorOrNot(j, k) == j[1] = k[1] /\ j # k

\* Older revisions of the same page.
Predecessor(j, k) == j[1] = k[1] /\ j[2] < k[2]

\* The transaction of Repository.enqueue.
Enqueued(table, k, priority) ==
  LET newerWork == \E j \in Keys : Predecessor(k, j) /\ Live(table[j])
  IN IF ~Exists(table[k]) /\ newerWork THEN table
     ELSE [j \in Keys |->
            CASE j = k /\ ~Exists(table[j]) -> NewRow(priority)
              [] j = k /\ Live(table[j]) -> Boosted(table[j], priority)
              [] Predecessor(j, k) /\ table[j].state = "pending" -> Superseded(table[j])
              [] OTHER -> table[j]]

\* created_at: a row inserted now is younger than every row already there.
CreationOrder(table) ==
  {pair \in Keys \X Keys :
     /\ Exists(table[pair[1]]) /\ Exists(table[pair[2]])
     /\ pair \in older \/ (Exists(work[pair[1]]) /\ ~Exists(work[pair[2]]))}

Store(table) ==
  /\ work' = table
  /\ older' = CreationOrder(table)

-----------------------------------------------------------------------------
(* attribution_results *)

NoResult == 0
Recent == 1   \* computed within the retention of superseded results
Aged == 2     \* past it, still within the freshness window
Stale == 3    \* past the freshness window

\* get_latest_result: the row of p computed last, 0 when there is none.
IsLatest(p, r) ==
  /\ result[<<p, r>>] # NoResult
  /\ \A s \in Revisions : <<<<p, s>>, <<p, r>>>> \notin newer
Latest(p) ==
  IF \E r \in Revisions : IsLatest(p, r)
  THEN CHOOSE r \in Revisions : IsLatest(p, r) ELSE 0
Fresh(p) == Latest(p) # 0 /\ result[<<p, Latest(p)>>] < Stale

\* Mutant: cleanup goes by age alone.
ObsoleteByAge(k) == result[k] >= Aged

\* The select of Repository.cleanup: old, and something newer answers the page.
Obsolete(k) ==
  /\ result[k] >= Aged
  /\ \E j \in Keys : <<j, k>> \in newer

-----------------------------------------------------------------------------
Init ==
  /\ current = [p \in Pages |-> 1]
  /\ kind = [p \in Pages |-> "article"]
  /\ deleted = [p \in Pages |-> FALSE]
  /\ work = [k \in Keys |-> NoRow]
  /\ older = {}
  /\ result = [k \in Keys |-> NoResult]
  /\ newer = {}
  /\ selected = {}
  /\ active = FALSE
  /\ pc = [w \in Workers |-> "idle"]
  /\ lease = [w \in Workers |-> NoLease]
  /\ crashes = 0
  /\ revives = 0

(* The wiki (external): every move, redirect or edit makes a new revision. *)

Edit(p, newKind) ==
  /\ current[p] < MaxRevision
  /\ newKind \in {"article"} \cup (WikiEvents \cap {"redirect", "elsewhere"})
  /\ ~deleted[p]
  /\ current' = [current EXCEPT ![p] = @ + 1]
  /\ kind' = [kind EXCEPT ![p] = newKind]
  /\ UNCHANGED <<deleted, queue, answers, active, worker, bounds>>

\* Deletion of a page, or its complete restoration.
ToggleDeleted(p) ==
  /\ "delete" \in WikiEvents
  /\ deleted' = [deleted EXCEPT ![p] = ~@]
  /\ UNCHANGED <<current, kind, queue, answers, active, worker, bounds>>

-----------------------------------------------------------------------------
(* Time *)

\* available_at, lease_until or the dead retry of a row passes.
Elapse(k) ==
  /\ work[k].state \in {"pending", "leased", "dead"} /\ work[k].age = 0
  /\ work' = [work EXCEPT ![k].age = 1]
  /\ UNCHANGED <<wiki, older, answers, active, worker, bounds>>

\* A row nobody touched reaches the queue retention.
Outlive(k) ==
  /\ \/ work[k].state = "dead" /\ work[k].age = 1
     \/ work[k].state = "superseded" /\ work[k].age = 0
  /\ work' = [work EXCEPT ![k].age = 2]
  /\ UNCHANGED <<wiki, older, answers, active, worker, bounds>>

\* A result passes its next window; an older one of the page did so before.
AgeResult(k) ==
  /\ result[k] \in {Recent, Aged}
  /\ \A j \in Keys : <<k, j>> \in newer => result[j] > result[k]
  /\ result' = [result EXCEPT ![k] = @ + 1]
  /\ UNCHANGED <<wiki, queue, newer, selected, active, worker, bounds>>

-----------------------------------------------------------------------------
(* Enqueuers *)

\* What both endpoints do once they have no usable answer: revive the row of the
\* requested revision if it may be retried, then enqueue at the reader priority.
ReaderEnqueue(k) ==
  LET retry == Retryable(work[k])
      table == IF retry THEN [work EXCEPT ![k] = Revived(@)] ELSE work
  IN /\ revives' = IF retry THEN revives + 1 ELSE revives
     /\ revives' <= MaxRevives
     /\ Store(Enqueued(table, k, ReaderPriority))
     /\ UNCHANGED <<wiki, answers, active, worker, crashes>>

\* GET /v2: the newest answer of the page serves while it is fresh; without any
\* answer a dead row that may not be retried is a 503, which enqueues nothing.
RequestPage(p, r) ==
  /\ r <= current[p]
  /\ ~Fresh(p)
  /\ Latest(p) = 0 /\ work[<<p, r>>].state = "dead" => Retryable(work[<<p, r>>])
  /\ ReaderEnqueue(<<p, r>>)

\* GET /v1: the answer of exactly that revision, or the same two ways out.
RequestRevision(p, r) ==
  /\ r <= current[p]
  /\ result[<<p, r>>] = NoResult
  /\ work[<<p, r>>].state = "dead" => Retryable(work[<<p, r>>])
  /\ ReaderEnqueue(<<p, r>>)

\* enqueue_if_stale from prewarm and backfill.  The revision was read from the
\* wiki or its replica before, so it may be behind.
EnqueueIfStale(p, r) ==
  /\ r <= current[p]
  /\ ~Fresh(p)
  /\ \/ "prewarm" \in Jobs /\ Store(Enqueued(work, <<p, r>>, PrewarmPriority))
     \/ "backfill" \in Jobs /\ Store(Enqueued(work, <<p, r>>, BackfillPriority))
  /\ UNCHANGED <<wiki, answers, active, worker, bounds>>

\* enqueue_if_revision_changed: the answer describes another revision.  Its
\* minimum age lies inside Recent, so whether it has passed is left open.
EnqueueIfRevisionChanged(p, r) ==
  /\ "requested" \in Jobs
  /\ r <= current[p]
  /\ Latest(p) # r
  /\ Store(Enqueued(work, <<p, r>>, PrewarmPriority))
  /\ UNCHANGED <<wiki, answers, active, worker, bounds>>

\* The weekly sweep retries the exact revision of a weak answer (its two week
\* window lies inside Recent as well).
Recompute(k) ==
  /\ "recompute" \in Jobs
  /\ result[k] # NoResult
  /\ Store(Enqueued(work, k, RecomputePriority))
  /\ UNCHANGED <<wiki, answers, active, worker, bounds>>

\* Once rows are gone, the leases on them name nothing.
Released(gone) ==
  [w \in Workers |->
     IF pc[w] # "idle" /\ lease[w].key \in gone
     THEN [lease[w] EXCEPT !.holds = FALSE] ELSE lease[w]]

(* Repository.cleanup, the part of its transaction that concerns these tables.  *)

\* The SELECT of the obsolete results.
SelectObsolete ==
  /\ selected = {}
  /\ selected' = {k \in Keys : Obsolete(k)}
  /\ selected' # {}
  /\ UNCHANGED <<wiki, queue, result, newer, active, worker, bounds>>

\* The DELETE by id, which takes a row a worker has refreshed since as well, and
\* the commit, which lets go of the rows of work_queue that were deleted first.
DeleteSelected ==
  LET finished == {k \in Keys : work[k].state \in {"dead", "superseded"} /\ work[k].age = 2}
  IN /\ finished \cup selected # {}
     /\ Store([k \in Keys |-> IF k \in finished THEN NoRow ELSE work[k]])
     /\ lease' = Released(finished)
     /\ result' = [k \in Keys |-> IF k \in selected THEN NoResult ELSE result[k]]
     /\ newer' = {pair \in newer : pair[1] \notin selected /\ pair[2] \notin selected}
     /\ selected' = {}
     /\ UNCHANGED <<wiki, active, pc, bounds>>

-----------------------------------------------------------------------------
(* The worker *)

\* Mutant: claim orders by priority alone.
AheadByPriority(j, k) == work[j].priority > work[k].priority

\* Repository.claim: highest priority first, then the oldest row.
Ahead(j, k) ==
  \/ work[j].priority > work[k].priority
  \/ work[j].priority = work[k].priority /\ <<j, k>> \in older
NextInLine(k) == Claimable(work[k]) /\ \A j \in Keys : Claimable(work[j]) => ~Ahead(j, k)

Claim(w) ==
  /\ pc[w] = "idle"
  /\ \E k \in Keys :
       /\ NextInLine(k)
       /\ work' = [work EXCEPT ![k] = Leased(@)]
       /\ lease' = [lease EXCEPT ![w] =
            [key |-> k, attempts |-> Leased(work[k]).attempts,
             priority |-> work[k].priority, holds |-> TRUE, seen |-> 0]]
  /\ pc' = [pc EXCEPT ![w] = "claimed"]
  /\ UNCHANGED <<wiki, older, answers, active, bounds>>

\* Mutant: a missing page is treated like a redirect.
VerdictMissingRejected(k) ==
  IF deleted[k[1]] \/ kind[k[1]] # "article" THEN "rejecting"
  ELSE IF current[k[1]] # k[2] THEN "outdated" ELSE "attribute"

\* Mutant: the revision of the lease is not compared with the current one.
VerdictAnyRevision(k) ==
  IF deleted[k[1]] THEN "gone"
  ELSE IF kind[k[1]] # "article" THEN "rejecting" ELSE "attribute"

\* get_page and the three tests on what it returns.
Verdict(k) ==
  IF deleted[k[1]] THEN "gone"
  ELSE IF kind[k[1]] # "article" THEN "rejecting"
  ELSE IF current[k[1]] # k[2] THEN "outdated" ELSE "attribute"

FetchPage(w) ==
  /\ pc[w] = "claimed"
  /\ LET verdict == Verdict(lease[w].key)
     IN /\ pc' = [pc EXCEPT ![w] = verdict]
        /\ lease' = IF verdict = "outdated"
                    THEN [lease EXCEPT ![w].seen = current[lease[w].key[1]]] ELSE lease
  /\ UNCHANGED <<wiki, queue, answers, active, bounds>>

\* Writes of a worker go by row id: they change the row only while it exists.
WriteRow(w, row) ==
  work' = IF lease[w].holds THEN [work EXCEPT ![lease[w].key] = row] ELSE work

\* Mutant: the lease outlives the job.
GoIdleHolding(w) ==
  /\ pc' = [pc EXCEPT ![w] = "idle"]
  /\ UNCHANGED lease

GoIdle(w) ==
  /\ pc' = [pc EXCEPT ![w] = "idle"]
  /\ lease' = [lease EXCEPT ![w] = NoLease]

SupersedeRejected(w) ==
  /\ pc[w] = "rejecting"
  /\ WriteRow(w, Superseded(work[lease[w].key]))
  /\ GoIdle(w)
  /\ UNCHANGED <<wiki, older, answers, active, bounds>>

SupersedeOutdated(w) ==
  /\ pc[w] = "outdated"
  /\ WriteRow(w, Superseded(work[lease[w].key]))
  /\ pc' = [pc EXCEPT ![w] = "requeue"]
  /\ UNCHANGED <<wiki, older, answers, active, lease, bounds>>

\* enqueue of the revision seen, at the priority of the lease: a stored result
\* of that revision, however old, makes it return at once.
EnqueueCurrent(w) ==
  /\ pc[w] = "requeue"
  /\ LET k == <<lease[w].key[1], lease[w].seen>>
     IN IF result[k] # NoResult THEN UNCHANGED queue
        ELSE Store(Enqueued(work, k, lease[w].priority))
  /\ GoIdle(w)
  /\ UNCHANGED <<wiki, answers, active, bounds>>

\* The upstream calls of attribute, then save_result.
SaveResult(w) ==
  /\ pc[w] = "attribute"
  /\ LET k == lease[w].key
     IN /\ result' = [result EXCEPT ![k] = Recent]
        /\ newer' = {pair \in newer : pair[1] # k /\ pair[2] # k}
                    \cup {<<k, j>> : j \in {i \in Keys :
                            i[1] = k[1] /\ i # k /\ result[i] # NoResult}}
  /\ pc' = [pc EXCEPT ![w] = "saved"]
  /\ UNCHANGED <<wiki, queue, selected, active, lease, bounds>>

\* Mutant: the job is completed before its result is saved.
CompleteUnsaved(w) ==
  /\ pc[w] = "attribute"
  /\ Store([work EXCEPT ![lease[w].key] = NoRow])
  /\ lease' = Released({lease[w].key})
  /\ pc' = [pc EXCEPT ![w] = "completed"]
  /\ UNCHANGED <<wiki, answers, active, bounds>>

Complete(w) ==
  /\ pc[w] = "saved"
  /\ LET k == lease[w].key
     IN IF lease[w].holds
        THEN /\ Store([work EXCEPT ![k] = NoRow])
             /\ lease' = Released({k})
        ELSE UNCHANGED <<queue, lease>>
  /\ pc' = [pc EXCEPT ![w] = "completed"]
  /\ UNCHANGED <<wiki, answers, active, bounds>>

RegisterActiveWiki(w) ==
  /\ pc[w] = "completed"
  /\ active' = TRUE
  /\ GoIdle(w)
  /\ UNCHANGED <<wiki, queue, answers, bounds>>

\* get_page raised PermanentDataError; Repository.fail(permanent=True).
FailPermanent(w) ==
  /\ pc[w] = "gone"
  /\ WriteRow(w, Failed(work[lease[w].key], TRUE, TRUE))
  /\ GoIdle(w)
  /\ UNCHANGED <<wiki, older, answers, active, bounds>>

\* Any other exception, from an upstream call or from the database.
FailTransient(w) ==
  /\ pc[w] \notin {"idle", "gone"}
  /\ WriteRow(w, Failed(work[lease[w].key], lease[w].attempts >= MaxAttempts, FALSE))
  /\ GoIdle(w)
  /\ UNCHANGED <<wiki, older, answers, active, bounds>>

\* The process dies; its row stays leased.
Crash(w) ==
  /\ pc[w] # "idle"
  /\ crashes < MaxCrashes
  /\ crashes' = crashes + 1
  /\ GoIdle(w)
  /\ UNCHANGED <<wiki, queue, answers, active, revives>>

-----------------------------------------------------------------------------
Process(w) ==
  \/ FetchPage(w)
  \/ SupersedeRejected(w)
  \/ SupersedeOutdated(w)
  \/ EnqueueCurrent(w)
  \/ SaveResult(w)
  \/ Complete(w)
  \/ RegisterActiveWiki(w)
  \/ FailPermanent(w)
  \/ FailTransient(w)

Next ==
  \/ \E w \in Workers : Claim(w) \/ Process(w) \/ Crash(w)
  \/ \E p \in Pages, r \in Revisions :
       \/ RequestPage(p, r)
       \/ RequestRevision(p, r)
       \/ EnqueueIfStale(p, r)
       \/ EnqueueIfRevisionChanged(p, r)
  \/ \E k \in Keys : Recompute(k) \/ Elapse(k) \/ Outlive(k) \/ AgeResult(k)
  \/ SelectObsolete \/ DeleteSelected
  \/ \E p \in Pages :
       \/ \E newKind \in {"article", "redirect", "elsewhere"} : Edit(p, newKind)
       \/ ToggleDeleted(p)

Spec == Init /\ [][Next]_vars

\* run_forever keeps each replica polling and working, and time passes.  Readers,
\* scheduled jobs and editors owe nothing.
Fairness ==
  /\ \A w \in Workers : WF_vars(Claim(w) \/ Process(w))
  /\ \A k \in Keys : WF_vars(Elapse(k))

FairSpec == Spec /\ Fairness

-----------------------------------------------------------------------------
(* Properties *)

\* Every variable has its type, and a worker holds a lease exactly while it works.
TypeOK ==
  /\ current \in [Pages -> Revisions]
  /\ kind \in [Pages -> {"article", "redirect", "elsewhere"}]
  /\ deleted \in [Pages -> BOOLEAN]
  /\ work \in [Keys -> Row]
  /\ older \subseteq Keys \X Keys
  /\ result \in [Keys -> 0..3]
  /\ newer \subseteq Keys \X Keys
  /\ selected \subseteq Keys
  /\ active \in BOOLEAN
  /\ pc \in [Workers -> Phases]
  /\ lease \in [Workers -> Lease \cup {NoLease}]
  /\ \A w \in Workers : pc[w] = "idle" <=> lease[w] = NoLease
  /\ crashes \in 0..MaxCrashes
  /\ revives \in 0..MaxRevives

\* A superseded row answers no request again before it is cleaned up, so the
\* revision an article shows is never superseded: enqueue supersedes only below
\* a revision that exists, and a worker only what it saw was not the article's
\* text, however much the wiki moved on before it wrote that down.
SupersededNeverCurrent ==
  \A k \in Keys :
    work[k].state = "superseded" => current[k[1]] # k[2] \/ kind[k[1]] # "article"

\* A job leaves the queue without a tombstone only once its page has an answer
\* to serve: save_result comes before complete, cleanup deletes no live row, and
\* what was saved is not cleaned up in between.
LiveJobLeavesAnAnswer ==
  [][\A k \in Keys : Live(work[k]) /\ ~Exists(work'[k]) => Latest(k[1])' # 0]_vars

\* Cleanup deletes by ids it selected before, and a late worker may have refreshed
\* one of them since: then the answer that goes is the newest one of its page.
\* Even so it is never the last one, and nothing else removes an answer.
NeverUnanswered ==
  [][\A p \in Pages : Latest(p) # 0 => Latest(p)' # 0]_vars

\* A job a reader asked for does not stay live for ever: leases of crashed
\* workers are taken over, failures use up the attempts, and other readers'
\* jobs, whatever their number, do not keep overtaking it.
ReaderJobSettles ==
  \A k \in Keys :
    Live(work[k]) /\ work[k].priority = ReaderPriority ~> ~Live(work[k])
=============================================================================
