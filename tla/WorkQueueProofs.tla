-------------------------- MODULE WorkQueueProofs --------------------------
(***************************************************************************)
(* Theorems about the queue, the answers it stores and the requests that   *)
(* read them, for every set of pages, revisions, workers and requests and  *)
(* every bound.  In order: the lease protocol of WorkQueue; that a job     *)
(* leaves the queue only once its page has an answer, that no cleanup      *)
(* withdraws the last answer of a page, and that the queue implements      *)
(* ServedAnswer; that nothing a request has read and acts on later breaks  *)
(* the word given with a 202 or takes a job from the worker that holds it. *)
(***************************************************************************)
EXTENDS ReadPath, WorkQueueRefinement, FiniteSetTheorems, WellFoundedInduction, TLAPS

(***************************************************************************)
(* Part 1: rows, types and leases                                          *)
(***************************************************************************)
-----------------------------------------------------------------------------
(* Lemmas about rows and tables *)

\* A key is a page and a revision.
LEMMA KeyParts ==
  /\ \A k \in Keys : k[1] \in Pages /\ k[2] \in Revisions /\ k = <<k[1], k[2]>>
  /\ \A p \in Pages, r \in Revisions : <<p, r>> \in Keys
BY DEF Keys

LEMMA NoRowIsARow == NoRow \in Row
BY ConstantsOK DEF NoRow, Row, Priorities

\* Every row a method writes is a row.
LEMMA RowsWritten ==
  ASSUME NEW row \in Row, NEW priority \in Priorities
  PROVE  /\ NoRow \in Row /\ NewRow(priority) \in Row
         /\ Leased(row) \in Row /\ Superseded(row) \in Row /\ Revived(row) \in Row
         /\ Boosted(row, priority) \in Row
         /\ \A dead, permanent \in BOOLEAN : Failed(row, dead, permanent) \in Row
<1>1. MaxAttempts \in Nat \ {0}
  BY ConstantsOK
<1>2. ReaderPriority \in Priorities
  BY DEF Priorities
<1>3. NoRow \in Row
  BY NoRowIsARow
<1>4. NewRow(priority) \in Row
  BY <1>1 DEF Row, NoRow, NewRow
<1>5. Leased(row) \in Row
  BY <1>1 DEF Row, Leased
<1>6. Superseded(row) \in Row
  BY DEF Row, Superseded
<1>7. Revived(row) \in Row
  BY <1>1, <1>2 DEF Row, Revived
<1>8. Boosted(row, priority) \in Row
  BY DEF Row, Boosted
<1>9. \A dead, permanent \in BOOLEAN : Failed(row, dead, permanent) \in Row
  BY DEF Row, Failed
<1>10. QED
  BY <1>3, <1>4, <1>5, <1>6, <1>7, <1>8, <1>9

\* The transaction of enqueue maps a table of rows to one.
LEMMA EnqueuedTable ==
  ASSUME NEW table \in [Keys -> Row], NEW k \in Keys, NEW priority \in Priorities
  PROVE  Enqueued(table, k, priority) \in [Keys -> Row]
<1> DEFINE newerWork == \E j \in Keys : Predecessor(k, j) /\ Live(table[j])
<1> DEFINE cell(j) ==
       CASE j = k /\ ~Exists(table[j]) -> NewRow(priority)
         [] j = k /\ Live(table[j]) -> Boosted(table[j], priority)
         [] Predecessor(j, k) /\ table[j].state = "pending" -> Superseded(table[j])
         [] OTHER -> table[j]
<1>1. ASSUME NEW j \in Keys PROVE cell(j) \in Row
  <2>1. /\ NewRow(priority) \in Row /\ Boosted(table[j], priority) \in Row
        /\ Superseded(table[j]) \in Row /\ table[j] \in Row
    BY RowsWritten
  <2> HIDE DEF Keys, Row
  <2> QED BY <2>1
<1>2. [j \in Keys |-> cell(j)] \in [Keys -> Row]
  BY <1>1
<1>3. Enqueued(table, k, priority)
        = IF ~Exists(table[k]) /\ newerWork THEN table ELSE [j \in Keys |-> cell(j)]
  BY DEF Enqueued
<1> QED BY <1>2, <1>3

LEMMA StoredTypes ==
  ASSUME NEW table \in [Keys -> Row], Store(table)
  PROVE  work' \in [Keys -> Row] /\ older' \subseteq Keys \X Keys
BY DEF Store, CreationOrder

\* A worker that is not idle holds a lease.
LEMMA LeaseHeld ==
  ASSUME TypeOK, NEW w \in Workers, pc[w] # "idle"
  PROVE  /\ lease[w] \in Lease /\ lease[w].key \in Keys
         /\ lease[w].attempts \in 0..MaxAttempts /\ lease[w].priority \in Priorities
         /\ lease[w].holds \in BOOLEAN /\ lease[w].seen \in 0..MaxRevision
BY DEF TypeOK, Lease

\* What a worker writes by row id leaves a table of rows.
LEMMA WrittenTable ==
  ASSUME TypeOK, NEW w \in Workers, NEW row \in Row, WriteRow(w, row)
  PROVE  work' \in [Keys -> Row]
BY DEF TypeOK, WriteRow

\* Releasing the leases on rows that are gone touches nothing else of them.
LEMMA ReleasedLeases ==
  ASSUME TypeOK, NEW gone
  PROVE  /\ Released(gone) \in [Workers -> Lease \cup {NoLease}]
         /\ \A w \in Workers :
              /\ pc[w] = "idle" => Released(gone)[w] = NoLease
              /\ pc[w] # "idle" => /\ Released(gone)[w] \in Lease
                                  /\ Released(gone)[w].key = lease[w].key
                                  /\ Released(gone)[w].seen = lease[w].seen
                                  /\ Released(gone)[w] # NoLease
<1> SUFFICES ASSUME NEW w \in Workers
             PROVE  /\ Released(gone)[w] \in Lease \cup {NoLease}
                    /\ pc[w] = "idle" => Released(gone)[w] = NoLease
                    /\ pc[w] # "idle" => /\ Released(gone)[w] \in Lease
                                        /\ Released(gone)[w].key = lease[w].key
                                        /\ Released(gone)[w].seen = lease[w].seen
                                        /\ Released(gone)[w] # NoLease
  BY DEF Released
<1>1. CASE pc[w] = "idle"
  BY <1>1 DEF TypeOK, Released
<1>2. CASE pc[w] # "idle"
  <2>1. lease[w] \in Lease
    BY <1>2, LeaseHeld
  <2>2. /\ [lease[w] EXCEPT !.holds = FALSE] \in Lease
        /\ [lease[w] EXCEPT !.holds = FALSE].key = lease[w].key
        /\ [lease[w] EXCEPT !.holds = FALSE].seen = lease[w].seen
    BY <2>1 DEF Lease
  <2>3. NoLease \notin Lease
    BY ConstantsOK
  <2> QED
    BY <1>2, <2>1, <2>2, <2>3 DEF Released
<1> QED BY <1>1, <1>2

-----------------------------------------------------------------------------
(* The inductive invariant *)

\* A row is for a revision that exists, and superseded only if the article does
\* not show it.
RowSound(k, row) ==
  /\ Exists(row) => k[2] <= current[k[1]]
  /\ row.state = "superseded" => current[k[1]] # k[2] \/ kind[k[1]] # "article"

QueueSound == \A k \in Keys : RowSound(k, work[k])

ResultsExist == \A k \in Keys : result[k] # NoResult => k[2] <= current[k[1]]

\* What a worker remembers of the wiki while the wiki moves on: its lease and the
\* revision it saw exist, and a lease it gave up on is for no text shown now.
SnapshotSound(w) ==
  LET k == lease[w].key
  IN /\ k[2] <= current[k[1]]
     /\ pc[w] \in {"outdated", "requeue"} =>
          lease[w].seen \in Revisions /\ lease[w].seen <= current[k[1]]
     /\ pc[w] = "outdated" => k[2] < current[k[1]]
     /\ pc[w] = "rejecting" => current[k[1]] # k[2] \/ kind[k[1]] # "article"

Snapshots == \A w \in Workers : pc[w] # "idle" => SnapshotSound(w)

IInv == TypeOK /\ QueueSound /\ ResultsExist /\ Snapshots

-----------------------------------------------------------------------------
(* Type correctness *)

LEMMA InitType == Init => TypeOK
<1> SUFFICES ASSUME Init PROVE TypeOK
  OBVIOUS
<1>1. NoRow \in Row
  BY NoRowIsARow
<1>2. 1 \in Revisions /\ 0 \in 0..MaxCrashes /\ 0 \in 0..MaxRevives
  BY ConstantsOK DEF Revisions
<1>3. work \in [Keys -> Row] /\ result \in [Keys -> 0..3]
  BY <1>1 DEF Init, NoResult
<1>4. /\ pc \in [Workers -> Phases] /\ lease \in [Workers -> Lease \cup {NoLease}]
      /\ \A w \in Workers : pc[w] = "idle" <=> lease[w] = NoLease
  BY DEF Init, Phases
<1> QED BY <1>2, <1>3, <1>4 DEF Init, TypeOK

\* The wiki and time.
LEMMA EnvironmentType ==
  ASSUME TypeOK, NEW p \in Pages, NEW k \in Keys, NEW newKind,
         Edit(p, newKind) \/ ToggleDeleted(p) \/ Elapse(k) \/ Outlive(k) \/ AgeResult(k)
  PROVE  TypeOK'
<1> USE DEF wiki, queue, answers, worker, bounds
<1>1. CASE Edit(p, newKind)
  <2>1. MaxRevision \in Nat
    BY ConstantsOK
  <2>2. current' \in [Pages -> Revisions]
    BY <1>1, <2>1 DEF Edit, TypeOK, Revisions
  <2>3. kind' \in [Pages -> {"article", "redirect", "elsewhere"}]
    BY <1>1 DEF Edit, TypeOK
  <2> QED BY <1>1, <2>2, <2>3 DEF Edit, TypeOK
<1>2. CASE ToggleDeleted(p)
  BY <1>2 DEF ToggleDeleted, TypeOK
<1>3. CASE Elapse(k) \/ Outlive(k)
  <2>1. PICK age \in 1..2 : work' = [work EXCEPT ![k] = [work[k] EXCEPT !.age = age]]
    BY <1>3 DEF Elapse, Outlive
  <2>2. work[k] \in Row
    BY DEF TypeOK
  <2>3. [work[k] EXCEPT !.age = age] \in Row
    BY <2>2 DEF Row
  <2>4. work' \in [Keys -> Row]
    BY <2>1, <2>3 DEF TypeOK
  <2> QED BY <1>3, <2>4 DEF Elapse, Outlive, TypeOK
<1>4. CASE AgeResult(k)
  <2>1. result' \in [Keys -> 0..3]
    BY <1>4 DEF AgeResult, TypeOK, Recent, Aged
  <2> QED BY <1>4, <2>1 DEF AgeResult, TypeOK
<1> QED BY <1>1, <1>2, <1>3, <1>4

\* The endpoints.
LEMMA ReaderType ==
  ASSUME TypeOK, NEW k \in Keys, ReaderEnqueue(k)
  PROVE  TypeOK'
<1> DEFINE table == IF Retryable(work[k]) THEN [work EXCEPT ![k] = Revived(@)] ELSE work
<1>1. table \in [Keys -> Row]
  BY RowsWritten, ReaderPriority \in Priorities DEF TypeOK, Priorities
<1>2. Enqueued(table, k, ReaderPriority) \in [Keys -> Row]
  BY <1>1, EnqueuedTable, ReaderPriority \in Priorities DEF Priorities
<1>3. Store(Enqueued(table, k, ReaderPriority))
  BY DEF ReaderEnqueue
<1>4. work' \in [Keys -> Row] /\ older' \subseteq Keys \X Keys
  BY <1>2, <1>3, StoredTypes
<1>5. revives' \in 0..MaxRevives
  BY ConstantsOK DEF ReaderEnqueue, TypeOK
<1> QED
  BY <1>4, <1>5 DEF ReaderEnqueue, TypeOK, wiki, answers, worker

\* The scheduled jobs that enqueue.
LEMMA JobType ==
  ASSUME TypeOK, NEW p \in Pages, NEW r \in Revisions, NEW k \in Keys,
         EnqueueIfStale(p, r) \/ EnqueueIfRevisionChanged(p, r) \/ Recompute(k)
  PROVE  TypeOK'
<1>1. PICK j \in Keys, priority \in Priorities : Store(Enqueued(work, j, priority))
  BY KeyParts DEF EnqueueIfStale, EnqueueIfRevisionChanged, Recompute, Priorities
<1>2. Enqueued(work, j, priority) \in [Keys -> Row]
  BY EnqueuedTable DEF TypeOK
<1>3. work' \in [Keys -> Row] /\ older' \subseteq Keys \X Keys
  BY <1>1, <1>2, StoredTypes
<1> QED
  BY <1>3 DEF EnqueueIfStale, EnqueueIfRevisionChanged, Recompute, TypeOK,
              wiki, answers, worker, bounds

\* Cleanup.
LEMMA SelectType == ASSUME TypeOK, SelectObsolete PROVE TypeOK'
BY DEF SelectObsolete, TypeOK, wiki, queue, worker, bounds

LEMMA DeleteType == ASSUME TypeOK, DeleteSelected PROVE TypeOK'
<1> DEFINE finished == {k \in Keys : work[k].state \in {"dead", "superseded"} /\ work[k].age = 2}
<1> DEFINE table == [k \in Keys |-> IF k \in finished THEN NoRow ELSE work[k]]
<1>1. NoRow \in Row
  BY NoRowIsARow
<1>2. table \in [Keys -> Row]
  BY <1>1 DEF TypeOK
<1>3. Store(table) /\ lease' = Released(finished)
  BY DEF DeleteSelected
<1>4. work' \in [Keys -> Row] /\ older' \subseteq Keys \X Keys
  <2> HIDE DEF table
  <2> QED BY <1>2, <1>3, StoredTypes
<1>5. /\ lease' \in [Workers -> Lease \cup {NoLease}]
      /\ \A w \in Workers : pc[w] = "idle" <=> lease'[w] = NoLease
  <2> HIDE DEF finished
  <2> QED BY <1>3, ReleasedLeases
<1>6. result' \in [Keys -> 0..3] /\ newer' \subseteq Keys \X Keys /\ selected' \subseteq Keys
  BY DEF DeleteSelected, TypeOK, NoResult
<1> QED
  BY <1>4, <1>5, <1>6 DEF DeleteSelected, TypeOK, wiki, bounds

LEMMA ClaimType == ASSUME TypeOK, NEW w \in Workers, Claim(w) PROVE TypeOK'
<1> DEFINE taken(k) == [key |-> k, attempts |-> Leased(work[k]).attempts,
                        priority |-> work[k].priority, holds |-> TRUE, seen |-> 0]
<1>1. PICK k \in Keys : /\ work' = [work EXCEPT ![k] = Leased(@)]
                        /\ lease' = [lease EXCEPT ![w] = taken(k)]
  BY DEF Claim
<1>2. work[k] \in Row /\ Leased(work[k]) \in Row
  BY RowsWritten, ReaderPriority \in Priorities DEF TypeOK, Priorities
<1>3. work' \in [Keys -> Row]
  BY <1>1, <1>2 DEF TypeOK
<1>4. taken(k) \in Lease
  BY <1>2, ConstantsOK DEF Row, Lease
<1>5. taken(k) # NoLease
  BY <1>4, ConstantsOK
<1>6. /\ pc' \in [Workers -> Phases] /\ lease' \in [Workers -> Lease \cup {NoLease}]
      /\ \A v \in Workers : pc'[v] = "idle" <=> lease'[v] = NoLease
  <2> HIDE DEF taken
  <2> QED BY <1>1, <1>4, <1>5 DEF Claim, TypeOK, Phases
<1> QED
  BY <1>3, <1>6 DEF Claim, TypeOK, wiki, answers, bounds

\* Going idle keeps the two worker variables in step.
LEMMA IdleType ==
  ASSUME TypeOK, NEW w \in Workers, GoIdle(w)
  PROVE  /\ pc' \in [Workers -> Phases] /\ lease' \in [Workers -> Lease \cup {NoLease}]
         /\ \A v \in Workers : pc'[v] = "idle" <=> lease'[v] = NoLease
BY DEF TypeOK, GoIdle, Phases

\* A step between two phases of work that leaves the lease alone.
LEMMA PhaseType ==
  ASSUME TypeOK, NEW w \in Workers, NEW phase \in Phases \ {"idle"},
         pc[w] # "idle", pc' = [pc EXCEPT ![w] = phase], lease' = lease
  PROVE  /\ pc' \in [Workers -> Phases] /\ lease' \in [Workers -> Lease \cup {NoLease}]
         /\ \A v \in Workers : pc'[v] = "idle" <=> lease'[v] = NoLease
BY DEF TypeOK

LEMMA FetchType == ASSUME TypeOK, NEW w \in Workers, FetchPage(w) PROVE TypeOK'
<1> DEFINE verdict == Verdict(lease[w].key)
<1>1. pc[w] # "idle" /\ verdict \in Phases \ {"idle"} /\ pc' = [pc EXCEPT ![w] = verdict]
  BY DEF FetchPage, Verdict, Phases
<1>2. lease[w] \in Lease /\ lease[w].key \in Keys
  BY <1>1, LeaseHeld
<1>3. CASE lease' = lease
  BY <1>1, <1>3, PhaseType DEF FetchPage, TypeOK, wiki, queue, answers, bounds
<1>4. CASE lease' = [lease EXCEPT ![w].seen = current[lease[w].key[1]]]
  <2>1. current[lease[w].key[1]] \in 0..MaxRevision
    BY <1>2, KeyParts, ConstantsOK DEF TypeOK, Revisions
  <2>2. [lease[w] EXCEPT !.seen = current[lease[w].key[1]]] \in Lease
    BY <1>2, <2>1 DEF Lease
  <2>3. NoLease \notin Lease
    BY ConstantsOK
  <2>4. /\ lease' \in [Workers -> Lease \cup {NoLease}]
        /\ \A v \in Workers : pc'[v] = "idle" <=> lease'[v] = NoLease
    BY <1>1, <1>4, <2>2, <2>3 DEF TypeOK
  <2>5. pc' \in [Workers -> Phases]
    BY <1>1 DEF TypeOK
  <2> QED BY <2>4, <2>5 DEF FetchPage, TypeOK, wiki, queue, answers, bounds
<1> QED BY <1>3, <1>4 DEF FetchPage

\* The steps of a worker that write one row by its id.
LEMMA WriterType ==
  ASSUME TypeOK, NEW w \in Workers,
         \/ SupersedeRejected(w) \/ SupersedeOutdated(w)
         \/ FailPermanent(w) \/ FailTransient(w)
  PROVE  TypeOK'
<1>1. pc[w] # "idle" /\ work[lease[w].key] \in Row
  BY LeaseHeld DEF SupersedeRejected, SupersedeOutdated, FailPermanent, FailTransient, TypeOK
<1>2. /\ Superseded(work[lease[w].key]) \in Row
      /\ \A dead, permanent \in BOOLEAN : Failed(work[lease[w].key], dead, permanent) \in Row
  BY <1>1, RowsWritten, ReaderPriority \in Priorities DEF Priorities
<1>3. PICK row \in Row : WriteRow(w, row)
  <2>1. (lease[w].attempts >= MaxAttempts) \in BOOLEAN
    OBVIOUS
  <2>2. CASE SupersedeRejected(w) \/ SupersedeOutdated(w)
    BY <1>2, <2>2 DEF SupersedeRejected, SupersedeOutdated
  <2>3. CASE FailPermanent(w)
    BY <1>2, <2>3 DEF FailPermanent
  <2>4. CASE FailTransient(w)
    BY <1>2, <2>1, <2>4 DEF FailTransient
  <2> QED BY <2>2, <2>3, <2>4
<1>4. work' \in [Keys -> Row]
  BY <1>3, WrittenTable
<1>5. CASE SupersedeOutdated(w)
  <2>1. "requeue" \in Phases \ {"idle"}
    BY DEF Phases
  <2>2. /\ pc' \in [Workers -> Phases] /\ lease' \in [Workers -> Lease \cup {NoLease}]
        /\ \A v \in Workers : pc'[v] = "idle" <=> lease'[v] = NoLease
    BY <1>1, <1>5, <2>1, PhaseType DEF SupersedeOutdated
  <2> QED BY <1>4, <1>5, <2>2 DEF SupersedeOutdated, TypeOK, wiki, answers, bounds
<1>6. CASE SupersedeRejected(w) \/ FailPermanent(w) \/ FailTransient(w)
  <2>1. GoIdle(w)
    BY <1>6 DEF SupersedeRejected, FailPermanent, FailTransient
  <2> QED
    BY <1>4, <1>6, <2>1, IdleType
       DEF SupersedeRejected, FailPermanent, FailTransient, TypeOK, wiki, answers, bounds
<1> QED BY <1>5, <1>6

LEMMA RequeueType ==
  ASSUME TypeOK, Snapshots, NEW w \in Workers, EnqueueCurrent(w)
  PROVE  TypeOK'
<1>1. GoIdle(w) /\ pc[w] = "requeue"
  BY DEF EnqueueCurrent
<1> DEFINE k == <<lease[w].key[1], lease[w].seen>>
<1>2. k \in Keys /\ lease[w].priority \in Priorities
  BY <1>1, LeaseHeld, KeyParts DEF Snapshots, SnapshotSound
<1>3. Enqueued(work, k, lease[w].priority) \in [Keys -> Row]
  BY <1>2, EnqueuedTable DEF TypeOK
<1>4. UNCHANGED queue \/ Store(Enqueued(work, k, lease[w].priority))
  BY DEF EnqueueCurrent
<1>5. work' \in [Keys -> Row] /\ older' \subseteq Keys \X Keys
  BY <1>3, <1>4, StoredTypes DEF queue, TypeOK
<1> QED BY <1>1, <1>5, IdleType DEF EnqueueCurrent, TypeOK, wiki, answers, bounds

LEMMA SaveType == ASSUME TypeOK, NEW w \in Workers, SaveResult(w) PROVE TypeOK'
<1>1. lease[w].key \in Keys
  BY LeaseHeld DEF SaveResult
<1>2. result' \in [Keys -> 0..3] /\ newer' \subseteq Keys \X Keys
  BY <1>1 DEF SaveResult, TypeOK, Recent
<1>3. /\ pc' \in [Workers -> Phases] /\ lease' \in [Workers -> Lease \cup {NoLease}]
      /\ \A v \in Workers : pc'[v] = "idle" <=> lease'[v] = NoLease
  BY PhaseType, "saved" \in Phases \ {"idle"} DEF SaveResult, Phases
<1> QED BY <1>2, <1>3 DEF SaveResult, TypeOK, wiki, queue, bounds

LEMMA CompleteType == ASSUME TypeOK, NEW w \in Workers, Complete(w) PROVE TypeOK'
<1> DEFINE k == lease[w].key
<1> DEFINE table == [work EXCEPT ![k] = NoRow]
<1>1. pc[w] # "idle" /\ pc' = [pc EXCEPT ![w] = "completed"]
  BY DEF Complete
<1>2. table \in [Keys -> Row]
  BY NoRowIsARow DEF TypeOK
<1>3. work' \in [Keys -> Row] /\ older' \subseteq Keys \X Keys
  <2>1. UNCHANGED queue \/ Store(table)
    BY DEF Complete
  <2> HIDE DEF table
  <2> QED BY <1>2, <2>1, StoredTypes DEF queue, TypeOK
<1>4. /\ lease' \in [Workers -> Lease \cup {NoLease}]
      /\ \A v \in Workers : pc[v] = "idle" <=> lease'[v] = NoLease
  <2>1. lease' = lease \/ lease' = Released({k})
    BY DEF Complete
  <2> HIDE DEF k
  <2> QED BY <2>1, ReleasedLeases DEF TypeOK
<1>5. /\ pc' \in [Workers -> Phases]
      /\ \A v \in Workers : pc'[v] = "idle" <=> lease'[v] = NoLease
  BY <1>1, <1>4 DEF TypeOK, Phases
<1> QED BY <1>3, <1>4, <1>5 DEF Complete, TypeOK, wiki, answers, bounds

LEMMA RegisterType ==
  ASSUME TypeOK, NEW w \in Workers, RegisterActiveWiki(w) \/ Crash(w)
  PROVE  TypeOK'
<1>1. GoIdle(w)
  BY DEF RegisterActiveWiki, Crash
<1>2. crashes' \in 0..MaxCrashes
  BY ConstantsOK DEF RegisterActiveWiki, Crash, TypeOK, bounds
<1> QED
  BY <1>1, <1>2, IdleType
     DEF RegisterActiveWiki, Crash, TypeOK, wiki, queue, answers, bounds

\* Type correctness is preserved by every step of the system.
LEMMA NextType == ASSUME TypeOK, Snapshots, [Next]_vars PROVE TypeOK'
<1>1. CASE UNCHANGED vars
  BY <1>1 DEF vars, wiki, queue, answers, worker, bounds, TypeOK
<1>2. ASSUME NEW w \in Workers, Claim(w) \/ Process(w) \/ Crash(w) PROVE TypeOK'
  BY <1>2, ClaimType, FetchType, WriterType, RequeueType, SaveType, CompleteType, RegisterType
     DEF Process
<1>3. ASSUME NEW p \in Pages, NEW r \in Revisions,
             \/ RequestPage(p, r) \/ RequestRevision(p, r)
             \/ EnqueueIfStale(p, r) \/ EnqueueIfRevisionChanged(p, r)
      PROVE  TypeOK'
  <2>1. <<p, r>> \in Keys
    BY KeyParts
  <2> QED BY <1>3, <2>1, ReaderType, JobType DEF RequestPage, RequestRevision
<1>4. ASSUME NEW k \in Keys, Recompute(k) \/ Elapse(k) \/ Outlive(k) \/ AgeResult(k)
      PROVE  TypeOK'
  <2>1. k[1] \in Pages /\ k[2] \in Revisions
    BY KeyParts
  <2> QED BY <1>4, <2>1, JobType, EnvironmentType
<1>5. CASE SelectObsolete \/ DeleteSelected
  BY <1>5, SelectType, DeleteType
<1>6. ASSUME NEW p \in Pages, NEW newKind, Edit(p, newKind) \/ ToggleDeleted(p)
      PROVE  TypeOK'
  <2>1. <<p, 1>> \in Keys
    BY KeyParts, ConstantsOK DEF Revisions
  <2> QED BY <1>6, <2>1, EnvironmentType
<1> QED BY <1>1, <1>2, <1>3, <1>4, <1>5, <1>6 DEF Next

-----------------------------------------------------------------------------
(* The queue against the wiki *)

LEMMA InitSound == Init => QueueSound /\ ResultsExist /\ Snapshots
BY DEF Init, QueueSound, RowSound, ResultsExist, Snapshots, NoRow, Exists

\* While the wiki stands still, soundness of the queue is that of its table.
LEMMA WikiStill ==
  ASSUME UNCHANGED wiki
  PROVE  /\ QueueSound' <=> \A k \in Keys : RowSound(k, work'[k])
         /\ UNCHANGED answers /\ ResultsExist => ResultsExist'
BY DEF wiki, answers, QueueSound, RowSound, Exists, ResultsExist

\* enqueue of a revision that exists keeps a table sound: what it supersedes is
\* below that revision.
LEMMA EnqueuedSound ==
  ASSUME TypeOK, NEW table \in [Keys -> Row], \A j \in Keys : RowSound(j, table[j]),
         NEW k \in Keys, k[2] <= current[k[1]], NEW priority \in Priorities
  PROVE  \A j \in Keys : RowSound(j, Enqueued(table, k, priority)[j])
<1> SUFFICES ASSUME NEW j \in Keys
             PROVE  RowSound(j, Enqueued(table, k, priority)[j])
  OBVIOUS
<1> DEFINE row == Enqueued(table, k, priority)[j]
<1>1. \/ row = table[j]
      \/ j = k /\ row = NewRow(priority)
      \/ row = Boosted(table[j], priority) /\ Live(table[j])
      \/ j[1] = k[1] /\ j[2] < k[2] /\ row = Superseded(table[j])
  BY DEF Enqueued, Predecessor
<1>2. /\ k[1] \in Pages /\ j[2] \in Nat /\ k[2] \in Nat
      /\ current[k[1]] \in Nat
  BY KeyParts, ConstantsOK DEF TypeOK, Revisions
<1>3. table[j] \in Row
  OBVIOUS
<1>4. CASE j = k /\ row = NewRow(priority)
  BY <1>4 DEF RowSound, NewRow
<1>5. CASE row = Boosted(table[j], priority) /\ Live(table[j])
  <2>1. row.state = table[j].state
    BY <1>3, <1>5 DEF Boosted, Row
  <2>2. RowSound(j, table[j])
    OBVIOUS
  <2> HIDE DEF row
  <2>3. RowSound(j, row)
    BY <2>1, <2>2 DEF RowSound, Exists
  <2> QED BY <2>3 DEF row
<1>6. CASE j[1] = k[1] /\ j[2] < k[2] /\ row = Superseded(table[j])
  <2>1. j[2] < current[j[1]]
    BY <1>2, <1>6
  <2> QED BY <1>2, <1>6, <2>1 DEF RowSound, Superseded
<1>7. CASE row = table[j]
  BY <1>7
<1> HIDE DEF row
<1> QED BY <1>1, <1>4, <1>5, <1>6, <1>7 DEF row

\* Steps that leave wiki, phases, keys and snapshots alone keep the snapshots.
LEMMA SnapshotsKept ==
  ASSUME Snapshots, UNCHANGED wiki, UNCHANGED pc,
         \A w \in Workers : pc[w] # "idle" =>
           lease'[w].key = lease[w].key /\ lease'[w].seen = lease[w].seen
  PROVE  Snapshots'
BY DEF Snapshots, SnapshotSound, wiki

\* A worker that goes idle remembers nothing, the others what they did.
LEMMA SnapshotsOfIdle ==
  ASSUME TypeOK, Snapshots, UNCHANGED wiki, NEW w \in Workers, GoIdle(w)
  PROVE  Snapshots'
BY DEF TypeOK, Snapshots, SnapshotSound, GoIdle, wiki

LEMMA EditSound ==
  ASSUME IInv, NEW p \in Pages, NEW newKind, Edit(p, newKind)
  PROVE  QueueSound' /\ ResultsExist' /\ Snapshots'
<1>1. /\ current' = [current EXCEPT ![p] = @ + 1]
      /\ \A q \in Pages : q # p => kind'[q] = kind[q]
      /\ UNCHANGED <<queue, answers, worker>>
  BY DEF Edit, IInv, TypeOK
<1>2. \A q \in Pages : current[q] \in Nat
  BY ConstantsOK DEF IInv, TypeOK, Revisions
<1>3. ASSUME NEW k \in Keys, k[2] <= current[k[1]]
      PROVE  /\ k[2] <= current'[k[1]]
             /\ current[k[1]] # k[2] \/ kind[k[1]] # "article"
                  => current'[k[1]] # k[2] \/ kind'[k[1]] # "article"
             /\ k[2] < current[k[1]] => k[2] < current'[k[1]]
  <2>1. k[1] \in Pages /\ k[2] \in Nat
    BY KeyParts, ConstantsOK DEF Revisions
  <2>2. CASE k[1] = p
    BY <1>1, <1>2, <1>3, <2>1, <2>2 DEF IInv, TypeOK
  <2>3. CASE k[1] # p
    BY <1>1, <1>3, <2>1, <2>3 DEF IInv, TypeOK
  <2> QED BY <2>2, <2>3
<1>4. QueueSound'
  BY <1>1, <1>3 DEF IInv, QueueSound, RowSound, Exists, queue
<1>5. ResultsExist'
  BY <1>1, <1>3 DEF IInv, ResultsExist, answers
<1>6. Snapshots'
  <2> SUFFICES ASSUME NEW w \in Workers, pc[w] # "idle" PROVE SnapshotSound(w)'
    BY <1>1 DEF Snapshots, worker
  <2>1. SnapshotSound(w) /\ lease[w].key \in Keys /\ lease[w].seen \in 0..MaxRevision
    BY LeaseHeld DEF IInv, Snapshots
  <2>2. pc'[w] = pc[w] /\ lease'[w] = lease[w]
    BY <1>1 DEF worker
  <2>3. lease[w].key[1] \in Pages /\ lease[w].seen \in Nat
    BY <2>1, KeyParts, ConstantsOK
  <2>4. current'[lease[w].key[1]] >= current[lease[w].key[1]]
    BY <1>1, <1>2, <2>3 DEF IInv, TypeOK
  <2>5. lease[w].seen <= current[lease[w].key[1]] => lease[w].seen <= current'[lease[w].key[1]]
    BY <1>1, <1>2, <2>3 DEF IInv, TypeOK
  <2> QED BY <1>3, <2>1, <2>2, <2>5 DEF SnapshotSound
<1> QED BY <1>4, <1>5, <1>6

LEMMA TimeSound ==
  ASSUME IInv, NEW p \in Pages, NEW k \in Keys,
         ToggleDeleted(p) \/ Elapse(k) \/ Outlive(k) \/ AgeResult(k)
  PROVE  QueueSound' /\ ResultsExist' /\ Snapshots'
<1>1. UNCHANGED <<current, kind>> /\ UNCHANGED worker
  BY DEF ToggleDeleted, Elapse, Outlive, AgeResult, wiki
<1>2. \A j \in Keys : work'[j].state = work[j].state
  BY DEF ToggleDeleted, Elapse, Outlive, AgeResult, queue, IInv, TypeOK, Row
<1>3. \A j \in Keys : result'[j] # NoResult => result[j] # NoResult
  BY DEF ToggleDeleted, Elapse, Outlive, AgeResult, answers, IInv, TypeOK, Recent, Aged, NoResult
<1>4. QueueSound'
  BY <1>1, <1>2 DEF IInv, QueueSound, RowSound, Exists
<1>5. ResultsExist'
  BY <1>1, <1>3 DEF IInv, ResultsExist
<1>6. Snapshots'
  BY <1>1 DEF IInv, Snapshots, SnapshotSound, worker
<1> QED BY <1>4, <1>5, <1>6

LEMMA ReaderSound ==
  ASSUME IInv, NEW k \in Keys, k[2] <= current[k[1]], ReaderEnqueue(k)
  PROVE  QueueSound' /\ ResultsExist' /\ Snapshots'
<1> DEFINE table == IF Retryable(work[k]) THEN [work EXCEPT ![k] = Revived(@)] ELSE work
<1>1. table \in [Keys -> Row]
  BY RowsWritten, ReaderPriority \in Priorities DEF IInv, TypeOK, Priorities
<1>2. \A j \in Keys : RowSound(j, table[j])
  BY DEF IInv, TypeOK, QueueSound, RowSound, Exists, Revived, Retryable
<1>3. Store(Enqueued(table, k, ReaderPriority)) /\ UNCHANGED <<wiki, answers, worker>>
  BY DEF ReaderEnqueue
<1> HIDE DEF table
<1>4. QueueSound'
  BY <1>1, <1>2, <1>3, EnqueuedSound, WikiStill, ReaderPriority \in Priorities
     DEF IInv, Store, Priorities
<1> QED BY <1>3, <1>4, WikiStill, SnapshotsKept DEF IInv, worker

LEMMA JobSound ==
  ASSUME IInv, NEW p \in Pages, NEW r \in Revisions, NEW k \in Keys,
         EnqueueIfStale(p, r) \/ EnqueueIfRevisionChanged(p, r) \/ Recompute(k)
  PROVE  QueueSound' /\ ResultsExist' /\ Snapshots'
<1>1. PICK j \in Keys, priority \in Priorities :
        Store(Enqueued(work, j, priority)) /\ j[2] <= current[j[1]]
  BY KeyParts
     DEF EnqueueIfStale, EnqueueIfRevisionChanged, Recompute, Priorities, IInv, ResultsExist
<1>2. UNCHANGED <<wiki, answers, worker>>
  BY DEF EnqueueIfStale, EnqueueIfRevisionChanged, Recompute
<1>3. QueueSound'
  BY <1>1, <1>2, EnqueuedSound, WikiStill DEF IInv, TypeOK, QueueSound, Store
<1> QED BY <1>2, <1>3, WikiStill, SnapshotsKept DEF IInv, worker

LEMMA SelectSound ==
  ASSUME IInv, SelectObsolete PROVE QueueSound' /\ ResultsExist' /\ Snapshots'
BY DEF SelectObsolete, wiki, queue, worker, IInv, QueueSound, RowSound, Exists, ResultsExist,
       Snapshots, SnapshotSound

LEMMA DeleteSound == ASSUME IInv, DeleteSelected PROVE QueueSound' /\ ResultsExist' /\ Snapshots'
<1>1. UNCHANGED wiki /\ UNCHANGED pc
  BY DEF DeleteSelected
<1>2. \A k \in Keys : work'[k] = work[k] \/ work'[k] = NoRow
  BY DEF DeleteSelected, Store
<1>3. QueueSound'
  BY <1>1, <1>2, WikiStill DEF IInv, QueueSound, RowSound, NoRow, Exists
<1>4. \A k \in Keys : result'[k] # NoResult => result[k] # NoResult
  BY DEF DeleteSelected
<1>5. ResultsExist'
  BY <1>1, <1>4 DEF IInv, ResultsExist, wiki
<1>6. PICK gone : lease' = Released(gone)
  BY DEF DeleteSelected
<1>7. Snapshots'
  BY <1>1, <1>6, ReleasedLeases, SnapshotsKept DEF IInv
<1> QED BY <1>3, <1>5, <1>7

LEMMA ClaimSound ==
  ASSUME IInv, NEW w \in Workers, Claim(w)
  PROVE  QueueSound' /\ ResultsExist' /\ Snapshots'
<1>1. PICK k \in Keys :
        /\ Claimable(work[k])
        /\ work' = [work EXCEPT ![k] = Leased(@)]
        /\ lease' = [lease EXCEPT ![w] =
              [key |-> k, attempts |-> Leased(work[k]).attempts,
               priority |-> work[k].priority, holds |-> TRUE, seen |-> 0]]
  BY DEF Claim, NextInLine
<1>2. UNCHANGED wiki /\ UNCHANGED answers /\ pc' = [pc EXCEPT ![w] = "claimed"]
  BY DEF Claim
<1>3. k[2] <= current[k[1]]
  BY <1>1 DEF IInv, QueueSound, RowSound, Claimable, Live, Exists
<1>4. QueueSound'
  BY <1>1, <1>2, <1>3, WikiStill DEF IInv, TypeOK, QueueSound, RowSound, Leased
<1>5. Snapshots'
  BY <1>1, <1>2, <1>3 DEF IInv, TypeOK, Snapshots, SnapshotSound, wiki
<1> QED BY <1>2, <1>4, <1>5, WikiStill DEF IInv

LEMMA FetchSound ==
  ASSUME IInv, NEW w \in Workers, FetchPage(w)
  PROVE  QueueSound' /\ ResultsExist' /\ Snapshots'
<1> DEFINE k == lease[w].key
           verdict == Verdict(k)
<1>1. /\ pc[w] = "claimed" /\ pc' = [pc EXCEPT ![w] = verdict]
      /\ UNCHANGED <<wiki, queue, answers>>
      /\ lease' = IF verdict = "outdated"
                  THEN [lease EXCEPT ![w].seen = current[k[1]]] ELSE lease
  BY DEF FetchPage
<1>2. lease[w] \in Lease /\ k \in Keys /\ k[1] \in Pages /\ k[2] \in Nat
  BY <1>1, LeaseHeld, KeyParts, ConstantsOK DEF IInv, Revisions
<1>3. current[k[1]] \in Revisions /\ current[k[1]] \in Nat
  BY <1>2, ConstantsOK DEF IInv, TypeOK, Revisions
<1>4. k[2] <= current[k[1]]
  BY <1>1 DEF IInv, Snapshots, SnapshotSound
<1>5. /\ verdict = "outdated" => current[k[1]] # k[2]
      /\ verdict = "rejecting" => kind[k[1]] # "article"
      /\ verdict \in {"gone", "rejecting", "outdated", "attribute"}
  BY DEF Verdict
<1>6. /\ lease'[w].key = k
      /\ verdict = "outdated" => lease'[w].seen = current[k[1]]
      /\ \A v \in Workers : v # w => lease'[v] = lease[v] /\ pc'[v] = pc[v]
      /\ pc'[w] = verdict
  BY <1>1, <1>2 DEF IInv, TypeOK, Lease
<1>7. SnapshotSound(w)'
  <2> HIDE DEF verdict, k
  <2>1. lease'[w].key = k /\ pc'[w] = verdict /\ UNCHANGED <<current, kind>>
    BY <1>1, <1>6 DEF wiki
  <2>2. verdict = "outdated" => k[2] < current[k[1]]
    BY <1>2, <1>3, <1>4, <1>5
  <2> QED BY <1>3, <1>4, <1>5, <1>6, <2>1, <2>2 DEF SnapshotSound
<1>8. ASSUME NEW v \in Workers, v # w, pc'[v] # "idle" PROVE SnapshotSound(v)'
  <2>1. lease'[v] = lease[v] /\ pc'[v] = pc[v] /\ UNCHANGED <<current, kind>>
    BY <1>1, <1>6, <1>8 DEF wiki
  <2> QED BY <1>8, <2>1 DEF IInv, Snapshots, SnapshotSound
<1>9. QueueSound'
  BY <1>1, WikiStill DEF IInv, QueueSound, queue
<1> QED BY <1>1, <1>7, <1>8, <1>9, WikiStill DEF IInv, Snapshots

\* Writing by row id keeps the queue sound if the row written would be.
LEMMA WrittenSound ==
  ASSUME IInv, UNCHANGED wiki, NEW w \in Workers, pc[w] # "idle", NEW row,
         WriteRow(w, row),
         RowSound(lease[w].key, work[lease[w].key]) => RowSound(lease[w].key, row)
  PROVE  QueueSound'
<1>1. lease[w].key \in Keys
  BY LeaseHeld DEF IInv
<1> QED BY <1>1, WikiStill DEF IInv, TypeOK, QueueSound, WriteRow

LEMMA SupersedeSound ==
  ASSUME IInv, NEW w \in Workers, SupersedeRejected(w) \/ SupersedeOutdated(w)
  PROVE  QueueSound' /\ ResultsExist' /\ Snapshots'
<1> DEFINE k == lease[w].key
<1>1. /\ pc[w] \in {"rejecting", "outdated"} /\ WriteRow(w, Superseded(work[k]))
      /\ UNCHANGED <<wiki, answers>>
  BY DEF SupersedeRejected, SupersedeOutdated
<1>2. k \in Keys /\ k[1] \in Pages /\ k[2] \in Nat /\ current[k[1]] \in Nat
  BY <1>1, LeaseHeld, KeyParts, ConstantsOK DEF IInv, TypeOK, Revisions
<1>3. /\ k[2] <= current[k[1]]
      /\ current[k[1]] # k[2] \/ kind[k[1]] # "article"
  BY <1>1, <1>2 DEF IInv, Snapshots, SnapshotSound
<1>4. RowSound(k, Superseded(work[k]))
  BY <1>3 DEF RowSound, Superseded
<1>5. QueueSound'
  BY <1>1, <1>4, WrittenSound
<1>6. CASE SupersedeRejected(w)
  BY <1>1, <1>5, <1>6, WikiStill, SnapshotsOfIdle DEF SupersedeRejected, IInv
<1>7. CASE SupersedeOutdated(w)
  <2>1. Snapshots'
    BY <1>1, <1>7 DEF SupersedeOutdated, IInv, TypeOK, Snapshots, SnapshotSound, wiki
  <2> QED BY <1>1, <1>5, <2>1, WikiStill DEF IInv
<1> QED BY <1>6, <1>7

LEMMA FailSound ==
  ASSUME IInv, NEW w \in Workers, FailPermanent(w) \/ FailTransient(w)
  PROVE  QueueSound' /\ ResultsExist' /\ Snapshots'
<1>1. PICK dead, permanent : WriteRow(w, Failed(work[lease[w].key], dead, permanent))
  BY DEF FailPermanent, FailTransient
<1>2. pc[w] # "idle" /\ UNCHANGED <<wiki, answers>> /\ GoIdle(w)
  BY DEF FailPermanent, FailTransient
<1>3. RowSound(lease[w].key, Failed(work[lease[w].key], dead, permanent))
  BY <1>2 DEF RowSound, Failed, Exists, IInv, Snapshots, SnapshotSound
<1>4. QueueSound'
  BY <1>1, <1>2, <1>3, WrittenSound
<1> QED BY <1>2, <1>4, WikiStill, SnapshotsOfIdle DEF IInv

LEMMA RequeueSound ==
  ASSUME IInv, NEW w \in Workers, EnqueueCurrent(w)
  PROVE  QueueSound' /\ ResultsExist' /\ Snapshots'
<1> DEFINE k == <<lease[w].key[1], lease[w].seen>>
<1>1. pc[w] = "requeue" /\ GoIdle(w) /\ UNCHANGED <<wiki, answers>>
  BY DEF EnqueueCurrent
<1>2. k \in Keys /\ lease[w].priority \in Priorities /\ k[2] <= current[k[1]]
  BY <1>1, LeaseHeld, KeyParts DEF IInv, Snapshots, SnapshotSound
<1>3. UNCHANGED queue \/ Store(Enqueued(work, k, lease[w].priority))
  BY DEF EnqueueCurrent
<1>4. ASSUME UNCHANGED queue PROVE QueueSound'
  BY <1>1, <1>4, WikiStill DEF IInv, QueueSound, queue
<1>5. ASSUME Store(Enqueued(work, k, lease[w].priority)) PROVE QueueSound'
  <2> HIDE DEF k
  <2> QED BY <1>1, <1>2, <1>5, EnqueuedSound, WikiStill DEF IInv, TypeOK, QueueSound, Store
<1>6. QueueSound'
  BY <1>3, <1>4, <1>5
<1> QED BY <1>1, <1>6, WikiStill, SnapshotsOfIdle DEF IInv

LEMMA SaveSound ==
  ASSUME IInv, NEW w \in Workers, SaveResult(w)
  PROVE  QueueSound' /\ ResultsExist' /\ Snapshots'
<1>1. pc[w] = "attribute" /\ UNCHANGED <<wiki, queue, lease>> /\ pc' = [pc EXCEPT ![w] = "saved"]
  BY DEF SaveResult
<1>2. lease[w].key[2] <= current[lease[w].key[1]]
  BY <1>1 DEF IInv, Snapshots, SnapshotSound
<1>3. ResultsExist'
  BY <1>1, <1>2 DEF SaveResult, IInv, TypeOK, ResultsExist, wiki
<1>4. QueueSound'
  BY <1>1, WikiStill DEF IInv, QueueSound, queue
<1>5. Snapshots'
  BY <1>1 DEF IInv, TypeOK, Snapshots, SnapshotSound, wiki
<1> QED BY <1>3, <1>4, <1>5

LEMMA CompleteSound ==
  ASSUME IInv, NEW w \in Workers, Complete(w)
  PROVE  QueueSound' /\ ResultsExist' /\ Snapshots'
<1>1. /\ pc[w] = "saved" /\ UNCHANGED <<wiki, answers>> /\ pc' = [pc EXCEPT ![w] = "completed"]
      /\ lease' = lease \/ lease' = Released({lease[w].key})
  BY DEF Complete
<1>2. \A k \in Keys : work'[k] = work[k] \/ work'[k] = NoRow
  BY DEF Complete, Store, IInv, TypeOK, queue
<1>3. QueueSound'
  BY <1>1, <1>2, WikiStill DEF IInv, QueueSound, RowSound, NoRow, Exists
<1>4. \A v \in Workers : pc[v] # "idle" =>
        lease'[v].key = lease[v].key /\ lease'[v].seen = lease[v].seen
  BY <1>1, ReleasedLeases DEF IInv
<1>5. Snapshots'
  BY <1>1, <1>4 DEF IInv, TypeOK, Snapshots, SnapshotSound, wiki
<1> QED BY <1>1, <1>3, <1>5, WikiStill DEF IInv

LEMMA EndSound ==
  ASSUME IInv, NEW w \in Workers, RegisterActiveWiki(w) \/ Crash(w)
  PROVE  QueueSound' /\ ResultsExist' /\ Snapshots'
<1>1. UNCHANGED <<wiki, queue, answers>> /\ GoIdle(w)
  BY DEF RegisterActiveWiki, Crash
<1>2. QueueSound'
  BY <1>1, WikiStill DEF IInv, QueueSound, queue
<1> QED BY <1>1, <1>2, WikiStill, SnapshotsOfIdle DEF IInv

-----------------------------------------------------------------------------
(* Theorems *)

LEMMA NextInvariant == IInv /\ [Next]_vars => IInv'
<1> SUFFICES ASSUME IInv, [Next]_vars PROVE QueueSound' /\ ResultsExist' /\ Snapshots'
  BY NextType DEF IInv
<1>1. CASE UNCHANGED vars
  BY <1>1 DEF vars, wiki, queue, answers, worker, IInv, QueueSound, RowSound, Exists,
              ResultsExist, Snapshots, SnapshotSound
<1>2. ASSUME NEW w \in Workers, Claim(w) \/ Process(w) \/ Crash(w)
      PROVE  QueueSound' /\ ResultsExist' /\ Snapshots'
  BY <1>2, ClaimSound, FetchSound, SupersedeSound, FailSound, RequeueSound, SaveSound,
     CompleteSound, EndSound DEF Process
<1>3. ASSUME NEW p \in Pages, NEW r \in Revisions,
             \/ RequestPage(p, r) \/ RequestRevision(p, r)
             \/ EnqueueIfStale(p, r) \/ EnqueueIfRevisionChanged(p, r)
      PROVE  QueueSound' /\ ResultsExist' /\ Snapshots'
  <2>1. <<p, r>> \in Keys
    BY KeyParts
  <2>2. CASE RequestPage(p, r) \/ RequestRevision(p, r)
    BY <2>1, <2>2, ReaderSound DEF RequestPage, RequestRevision
  <2>3. CASE EnqueueIfStale(p, r) \/ EnqueueIfRevisionChanged(p, r)
    BY <2>1, <2>3, JobSound
  <2> QED BY <1>3, <2>2, <2>3
<1>4. ASSUME NEW k \in Keys, Recompute(k) \/ Elapse(k) \/ Outlive(k) \/ AgeResult(k)
      PROVE  QueueSound' /\ ResultsExist' /\ Snapshots'
  <2>1. k[1] \in Pages /\ k[2] \in Revisions
    BY KeyParts
  <2> QED BY <1>4, <2>1, JobSound, TimeSound
<1>5. CASE SelectObsolete \/ DeleteSelected
  BY <1>5, SelectSound, DeleteSound
<1>6. ASSUME NEW p \in Pages, NEW newKind, Edit(p, newKind) \/ ToggleDeleted(p)
      PROVE  QueueSound' /\ ResultsExist' /\ Snapshots'
  <2>1. <<p, 1>> \in Keys
    BY KeyParts, ConstantsOK DEF Revisions
  <2> QED BY <1>6, <2>1, EditSound, TimeSound
<1> QED BY <1>1, <1>2, <1>3, <1>4, <1>5, <1>6 DEF Next

LEMMA Invariant == Spec => []IInv
<1>1. Init => IInv
  BY InitType, InitSound DEF IInv
<1> QED BY <1>1, NextInvariant, PTL DEF Spec

\* The state of queue, results and workers is well formed in every reachable
\* state, whatever the pages, revisions, replicas and bounds.
THEOREM TypeCorrect == Spec => []TypeOK
<1>1. IInv => TypeOK
  BY DEF IInv
<1> QED BY <1>1, Invariant, PTL

\* No interleaving of edits, enqueues, late workers and failures supersedes the
\* revision an article shows.
THEOREM CurrentIsNeverSuperseded == Spec => []SupersededNeverCurrent
<1>1. IInv => SupersededNeverCurrent
  BY DEF IInv, QueueSound, RowSound, SupersededNeverCurrent
<1> QED BY <1>1, Invariant, PTL

(***************************************************************************)
(* Part 2: answers                                                         *)
(***************************************************************************)
-----------------------------------------------------------------------------
(* The inductive invariant *)

HasResult(k) == result[k] # NoResult

\* newer orders the results of a page: only results of one page are compared,
\* any two of them are, in one direction.
NewerOrders ==
  \A j, k \in Keys :
    /\ <<j, k>> \in newer => /\ j[1] = k[1] /\ HasResult(j) /\ HasResult(k)
                             /\ <<k, j>> \notin newer
    /\ j[1] = k[1] /\ j # k /\ HasResult(j) /\ HasResult(k) =>
         <<j, k>> \in newer \/ <<k, j>> \in newer

\* A page with results has a newest one.
NewestExists ==
  \A k \in Keys : HasResult(k) => \E r \in Revisions : IsLatest(k[1], r)

\* A worker that saved its result has not lost it to cleanup.
SavedAnswered ==
  \A w \in Workers : pc[w] = "saved" => \E r \in Revisions : IsLatest(lease[w].key[1], r)

\* The order of results is one: what is newer than a newer result is newer.
NewerTransitive ==
  \A i, j, k \in Keys : <<i, j>> \in newer /\ <<j, k>> \in newer => <<i, k>> \in newer

\* Each page of a selected result has a result that was not selected.  The worker
\* that refreshes a selected one leaves that other one where it is.
SelectedSpared ==
  /\ selected \subseteq Keys
  /\ \A k \in selected : \E j \in Keys : j[1] = k[1] /\ j \notin selected /\ HasResult(j)

AnswersSound == NewerOrders /\ NewerTransitive /\ NewestExists /\ SavedAnswered /\ SelectedSpared

-----------------------------------------------------------------------------
(* The newest result *)

\* There is one newest result at most.
LEMMA NewestIsUnique ==
  ASSUME NewerOrders, NEW p \in Pages, NEW r \in Revisions, NEW s \in Revisions,
         IsLatest(p, r), IsLatest(p, s)
  PROVE  r = s
<1>1. <<p, r>> \in Keys /\ <<p, s>> \in Keys
  BY DEF Keys
<1>2. ASSUME r # s PROVE FALSE
  <2>1. <<p, r>> # <<p, s>>
    BY <1>2
  <2>2. <<<<p, r>>, <<p, s>>>> \in newer \/ <<<<p, s>>, <<p, r>>>> \in newer
    BY <1>1, <2>1 DEF NewerOrders, HasResult, IsLatest
  <2> QED BY <2>2 DEF IsLatest
<1> QED BY <1>2

\* get_latest_result returns the newest one.
LEMMA LatestIs ==
  ASSUME NewerOrders, NEW p \in Pages, NEW r \in Revisions, IsLatest(p, r)
  PROVE  Latest(p) = r
<1>1. PICK s \in Revisions : s = (CHOOSE t \in Revisions : IsLatest(p, t)) /\ IsLatest(p, s)
  OBVIOUS
<1>2. s = r
  BY <1>1, NewestIsUnique
<1> QED BY <1>1, <1>2 DEF Latest

\* And does so after any step that leaves exactly that one the newest.
LEMMA LatestBecomes ==
  ASSUME NEW p \in Pages, NEW r \in Revisions, IsLatest(p, r)',
         \A s \in Revisions : IsLatest(p, s)' => s = r
  PROVE  Latest(p)' = r
<1>1. PICK s \in Revisions : s = (CHOOSE t \in Revisions : IsLatest(p, t)') /\ IsLatest(p, s)'
  OBVIOUS
<1>2. s = r
  BY <1>1
<1> QED BY <1>1, <1>2 DEF Latest

\* A step that changes no newest result changes no answer.
LEMMA LatestKept ==
  ASSUME NewerOrders, NEW p \in Pages,
         \A r \in Revisions : IsLatest(p, r)' <=> IsLatest(p, r)
  PROVE  Latest(p)' = Latest(p)
<1>1. CASE \E r \in Revisions : IsLatest(p, r)
  <2>1. PICK r \in Revisions : IsLatest(p, r)
    BY <1>1
  <2>2. \A s \in Revisions : IsLatest(p, s)' => s = r
    BY <2>1, NewestIsUnique
  <2>3. Latest(p)' = r
    BY <2>1, <2>2, LatestBecomes
  <2>4. Latest(p) = r
    BY <2>1, LatestIs
  <2> QED BY <2>3, <2>4
<1>2. CASE ~ \E r \in Revisions : IsLatest(p, r)
  BY <1>2 DEF Latest
<1> QED BY <1>1, <1>2

\* A set of numbers has a smallest one.
LEMMA SmallestOf ==
  ASSUME NEW S, S \subseteq Nat, S # {}
  PROVE  \E x \in S : \A y \in S : x <= y
<1>1. PICK x \in S : \A y \in S : ~(<<y, x>> \in OpToRel(<, Nat))
  BY NatLessThanWellFounded, WFMin
<1>2. ASSUME NEW y \in S PROVE x <= y
  <2>1. CASE y < x
    <3>1. <<y, x>> \in Nat \X Nat /\ <<y, x>>[1] < <<y, x>>[2]
      BY <2>1
    <3>2. <<y, x>> \in OpToRel(<, Nat)
      BY <3>1 DEF OpToRel
    <3> QED BY <1>1, <3>2
  <2> QED BY <2>1
<1> QED BY <1>2

\* Where results are ordered, a page that has one has a newest one.
NewerThan(p, r) == {s \in Revisions : <<<<p, s>>, <<p, r>>>> \in newer}

LEMMA SomeIsNewest ==
  ASSUME NewerOrders, NewerTransitive, NEW k \in Keys, HasResult(k)
  PROVE  \E r \in Revisions : IsLatest(k[1], r)
<1> DEFINE p == k[1]
           R == {r \in Revisions : HasResult(<<p, r>>)}
           rank(r) == Cardinality(NewerThan(p, r))
           ranks == {rank(r) : r \in R}
<1>1. p \in Pages /\ k[2] \in Revisions /\ k = <<p, k[2]>>
  BY KeyParts
<1>2. \A r \in Revisions : <<p, r>> \in Keys
  BY <1>1, KeyParts
<1>3. IsFiniteSet(Revisions)
  BY ConstantsOK, FS_Interval DEF Revisions
<1>4. ASSUME NEW r \in Revisions PROVE IsFiniteSet(NewerThan(p, r)) /\ rank(r) \in Nat
  <2>1. IsFiniteSet(NewerThan(p, r))
    BY <1>3, FS_Subset DEF NewerThan
  <2> QED BY <2>1, FS_CardinalityType
<1>5. ranks \subseteq Nat /\ ranks # {}
  BY <1>1, <1>4
<1>6. PICK r \in R : \A s \in R : rank(r) <= rank(s)
  <2>1. \A s \in R : rank(s) \in ranks
    OBVIOUS
  <2>2. \A n \in ranks : \E s \in R : n = rank(s)
    OBVIOUS
  <2> HIDE DEF ranks
  <2>3. PICK n \in ranks : \A m \in ranks : n <= m
    BY <1>5, SmallestOf
  <2> QED BY <2>1, <2>2, <2>3
<1>7. ASSUME NEW s \in Revisions, <<<<p, s>>, <<p, r>>>> \in newer PROVE FALSE
  <2>1. HasResult(<<p, s>>) /\ <<<<p, s>>, <<p, s>>>> \notin newer
    BY <1>2, <1>7 DEF NewerOrders
  <2>2. NewerThan(p, s) \subseteq NewerThan(p, r)
    BY <1>2, <1>7 DEF NewerTransitive, NewerThan
  <2>3. s \in NewerThan(p, r) /\ s \notin NewerThan(p, s)
    BY <1>7, <2>1 DEF NewerThan
  <2>4. rank(s) <= rank(r) /\ rank(s) # rank(r)
    BY <1>4, <2>2, <2>3, FS_Subset
  <2>5. rank(r) <= rank(s)
    BY <1>6, <2>1
  <2> QED BY <1>4, <2>4, <2>5
<1> QED BY <1>6, <1>7 DEF IsLatest, HasResult

\* A page with a newest result is served it, after a step as before it.
LEMMA ServedResult ==
  ASSUME NEW p \in Pages, \E r \in Revisions : IsLatest(p, r)
  PROVE  Latest(p) \in Revisions /\ IsLatest(p, Latest(p)) /\ Latest(p) # 0
<1>1. PICK s \in Revisions : s = (CHOOSE t \in Revisions : IsLatest(p, t)) /\ IsLatest(p, s)
  OBVIOUS
<1> QED BY <1>1, ConstantsOK DEF Latest, Revisions

LEMMA ServedResultAfter ==
  ASSUME NEW p \in Pages, \E r \in Revisions : IsLatest(p, r)'
  PROVE  Latest(p)' # 0 /\ \E s \in Revisions : s = Latest(p)' /\ IsLatest(p, s)'
<1>1. PICK s \in Revisions : s = (CHOOSE t \in Revisions : IsLatest(p, t)') /\ IsLatest(p, s)'
  OBVIOUS
<1> QED BY <1>1, ConstantsOK DEF Latest, Revisions

-----------------------------------------------------------------------------
(* The steps that change results *)

LEMMA AgeAnswers ==
  ASSUME TypeOK, NEW k \in Keys, AgeResult(k)
  PROVE  /\ \A j \in Keys : HasResult(j)' <=> HasResult(j)
         /\ \A p \in Pages, r \in Revisions : IsLatest(p, r)' <=> IsLatest(p, r)
<1>1. newer' = newer /\ result' = [result EXCEPT ![k] = @ + 1] /\ result[k] \in {1, 2}
  BY DEF AgeResult, answers, Recent, Aged
<1>2. \A j \in Keys : HasResult(j)' <=> HasResult(j)
  BY <1>1 DEF HasResult, NoResult, TypeOK
<1>3. ASSUME NEW p \in Pages, NEW r \in Revisions PROVE IsLatest(p, r)' <=> IsLatest(p, r)
  <2>1. <<p, r>> \in Keys
    BY DEF Keys
  <2> QED BY <1>1, <1>2, <2>1 DEF IsLatest, HasResult
<1> QED BY <1>2, <1>3

\* What a worker saves is the newest result of its page, and the only one.
LEMMA SaveAnswers ==
  ASSUME TypeOK, NewerOrders, NEW w \in Workers, SaveResult(w),
         NEW k \in Keys, k = lease[w].key
  PROVE  /\ IsLatest(k[1], k[2])'
         /\ \A s \in Revisions : IsLatest(k[1], s)' => s = k[2]
         /\ \A p \in Pages \ {k[1]}, r \in Revisions : IsLatest(p, r)' <=> IsLatest(p, r)
         /\ NewerOrders'
<1>1. k[1] \in Pages /\ k[2] \in Revisions /\ k = <<k[1], k[2]>>
  BY KeyParts
<1>2. result' = [result EXCEPT ![k] = Recent]
  BY DEF SaveResult
<1>3. newer' = {pair \in newer : pair[1] # k /\ pair[2] # k}
               \cup {<<k, j>> : j \in {i \in Keys : i[1] = k[1] /\ i # k /\ result[i] # NoResult}}
  BY DEF SaveResult
<1>4. /\ HasResult(k)'
      /\ \A j \in Keys : j # k => (HasResult(j)' <=> HasResult(j))
  BY <1>2 DEF HasResult, TypeOK, NoResult, Recent
<1>5. \A i, j \in Keys :
        <<i, j>> \in newer' <=>
          \/ <<i, j>> \in newer /\ i # k /\ j # k
          \/ i = k /\ j[1] = k[1] /\ j # k /\ HasResult(j)
  BY <1>3 DEF HasResult
<1>6. IsLatest(k[1], k[2])'
  <2>1. ASSUME NEW s \in Revisions PROVE <<<<k[1], s>>, <<k[1], k[2]>>>> \notin newer'
    BY <1>1, <1>5 DEF Keys
  <2> QED BY <1>1, <1>4, <2>1 DEF IsLatest, HasResult
<1>7. ASSUME NEW s \in Revisions, IsLatest(k[1], s)' PROVE s = k[2]
  <2>1. <<k[1], s>> \in Keys /\ <<k[1], s>>[1] = k[1] /\ <<k[1], s>>[2] = s
    BY <1>1 DEF Keys
  <2>2. ASSUME s # k[2] PROVE FALSE
    <3>1. <<k[1], s>> # k
      BY <2>2, <2>1
    <3>2. HasResult(<<k[1], s>>)
      BY <1>4, <1>7, <2>1, <3>1 DEF IsLatest, HasResult
    <3>3. <<k, <<k[1], s>>>> \in newer'
      BY <1>1, <1>5, <2>1, <3>1, <3>2
    <3> QED BY <1>1, <1>7, <3>3 DEF IsLatest
  <2> QED BY <2>2
<1>8. ASSUME NEW p \in Pages, p # k[1], NEW r \in Revisions
      PROVE  IsLatest(p, r)' <=> IsLatest(p, r)
  <2>1. \A s \in Revisions : /\ <<p, s>> \in Keys /\ <<p, s>>[1] = p /\ <<p, s>> # k
    BY <1>1, <1>8 DEF Keys
  <2>2. HasResult(<<p, r>>)' <=> HasResult(<<p, r>>)
    BY <1>4, <2>1
  <2>3. \A s \in Revisions : <<<<p, s>>, <<p, r>>>> \in newer' <=> <<<<p, s>>, <<p, r>>>> \in newer
    BY <1>5, <2>1
  <2> QED BY <2>2, <2>3 DEF IsLatest, HasResult
<1>9. NewerOrders'
  <2>1. ASSUME NEW i \in Keys, NEW j \in Keys
        PROVE  /\ <<i, j>> \in newer' => /\ i[1] = j[1] /\ HasResult(i)' /\ HasResult(j)'
                                         /\ <<j, i>> \notin newer'
               /\ i[1] = j[1] /\ i # j /\ HasResult(i)' /\ HasResult(j)' =>
                    <<i, j>> \in newer' \/ <<j, i>> \in newer'
    BY <1>1, <1>4, <1>5 DEF NewerOrders
  <2> QED BY <2>1 DEF NewerOrders
<1> QED BY <1>6, <1>7, <1>8, <1>9

\* And the order of results stays one.
LEMMA SaveOrder ==
  ASSUME TypeOK, NewerOrders, NewerTransitive, NEW w \in Workers, SaveResult(w)
  PROVE  NewerTransitive'
<1>1. PICK k \in Keys : k = lease[w].key
  BY LeaseHeld DEF SaveResult
<1>2. \A i, j \in Keys :
        <<i, j>> \in newer' <=>
          \/ <<i, j>> \in newer /\ i # k /\ j # k
          \/ i = k /\ j[1] = k[1] /\ j # k /\ HasResult(j)
  BY <1>1 DEF SaveResult, HasResult
<1>3. ASSUME NEW h \in Keys, NEW i \in Keys, NEW j \in Keys,
             <<h, i>> \in newer', <<i, j>> \in newer'
      PROVE  <<h, j>> \in newer'
  <2>1. i # k /\ <<i, j>> \in newer /\ j # k
    BY <1>2, <1>3
  <2>2. CASE h = k
    <3>1. i[1] = k[1] /\ j[1] = i[1] /\ HasResult(j)
      BY <1>2, <1>3, <2>1, <2>2 DEF NewerOrders
    <3> QED BY <1>2, <2>1, <2>2, <3>1
  <2>3. CASE h # k
    <3>1. <<h, i>> \in newer
      BY <1>2, <1>3, <2>3
    <3>2. <<h, j>> \in newer
      BY <2>1, <3>1 DEF NewerTransitive
    <3> QED BY <1>2, <2>1, <2>3, <3>2
  <2> QED BY <2>2, <2>3
<1> QED BY <1>3 DEF NewerTransitive

\* When cleanup selects, the newest result of each page is spared.
LEMMA SelectSpares ==
  ASSUME TypeOK, AnswersSound, SelectObsolete
  PROVE  SelectedSpared'
<1>1. selected' = {k \in Keys : Obsolete(k)} /\ UNCHANGED result
  BY DEF SelectObsolete
<1>3. ASSUME NEW k \in Keys, Obsolete(k)
      PROVE  \E j \in Keys : j[1] = k[1] /\ ~Obsolete(j) /\ HasResult(j)
  <2>1. HasResult(k)
    BY <1>3, ConstantsOK DEF Obsolete, HasResult, NoResult, Aged, TypeOK
  <2>2. PICK r \in Revisions : IsLatest(k[1], r)
    BY <2>1 DEF AnswersSound, NewestExists
  <2> DEFINE j == <<k[1], r>>
  <2>3. j \in Keys /\ j[1] = k[1] /\ HasResult(j)
    BY <2>2, KeyParts DEF IsLatest, HasResult
  <2>4. ASSUME NEW i \in Keys, <<i, j>> \in newer PROVE FALSE
    <3>1. NewerOrders
      BY DEF AnswersSound
    <3>2. i[1] = j[1]
      <4> HIDE DEF j
      <4> QED BY <2>3, <2>4, <3>1 DEF NewerOrders
    <3>3. i[1] = k[1] /\ i = <<i[1], i[2]>> /\ i[2] \in Revisions
      BY <2>3, <3>2, KeyParts
    <3> QED BY <2>2, <2>4, <3>3 DEF IsLatest
  <2>5. ~Obsolete(j)
    BY <2>4 DEF Obsolete
  <2> QED BY <2>3, <2>5
<1> QED BY <1>1, <1>3 DEF SelectedSpared, HasResult

\* The deletion spares it, and leaves the order of what is left.
LEMMA DeleteResults ==
  ASSUME TypeOK, AnswersSound, DeleteSelected
  PROVE  /\ \A k \in Keys : HasResult(k)' <=> HasResult(k) /\ k \notin selected
         /\ NewerOrders' /\ NewerTransitive'
         /\ \A k \in Keys : HasResult(k) => \E j \in Keys : j[1] = k[1] /\ HasResult(j)'
<1>1. \A k \in Keys : HasResult(k)' <=> HasResult(k) /\ k \notin selected
  BY DEF DeleteSelected, HasResult, NoResult, TypeOK
<1>2. \A i, j \in Keys : <<i, j>> \in newer' <=>
                            <<i, j>> \in newer /\ i \notin selected /\ j \notin selected
  BY DEF DeleteSelected
<1>3. NewerOrders'
  <2>1. ASSUME NEW i \in Keys, NEW j \in Keys
        PROVE  /\ <<i, j>> \in newer' => /\ i[1] = j[1] /\ HasResult(i)' /\ HasResult(j)'
                                         /\ <<j, i>> \notin newer'
               /\ i[1] = j[1] /\ i # j /\ HasResult(i)' /\ HasResult(j)' =>
                    <<i, j>> \in newer' \/ <<j, i>> \in newer'
    BY <1>1, <1>2 DEF NewerOrders, AnswersSound
  <2> QED BY <2>1 DEF NewerOrders
<1>4. NewerTransitive'
  BY <1>2 DEF AnswersSound, NewerTransitive
<1>5. \A k \in Keys : HasResult(k) => \E j \in Keys : j[1] = k[1] /\ HasResult(j)'
  BY <1>1 DEF AnswersSound, SelectedSpared
<1> QED BY <1>1, <1>3, <1>4, <1>5

\* The order of what is left, by the same argument as before the step.
LEMMA NewestAfter == (NewerOrders /\ NewerTransitive => NewestExists)
BY SomeIsNewest DEF NewestExists

-----------------------------------------------------------------------------
(* The invariant *)

AnswerInv == IInv /\ AnswersSound

LEMMA InitAnswers == Init => AnswersSound
<1> SUFFICES ASSUME Init PROVE AnswersSound
  OBVIOUS
<1>1. newer = {} /\ \A k \in Keys : ~HasResult(k)
  BY DEF Init, HasResult
<1>2. \A w \in Workers : pc[w] # "saved"
  BY DEF Init
<1> QED BY <1>1, <1>2 DEF AnswersSound, NewerOrders, NewerTransitive, NewestExists, SavedAnswered,
                       SelectedSpared, Init

\* A replica that moves on without saving brings no other one to "saved".
LEMMA SavedKept ==
  ASSUME TypeOK, SavedAnswered,
         \A p \in Pages, r \in Revisions : IsLatest(p, r)' <=> IsLatest(p, r),
         \A w \in Workers : pc'[w] = "saved" => pc[w] = "saved" /\ lease'[w].key = lease[w].key
  PROVE  SavedAnswered'
<1> SUFFICES ASSUME NEW w \in Workers, pc'[w] = "saved"
             PROVE  \E r \in Revisions : IsLatest(lease[w].key[1], r)'
  BY DEF SavedAnswered
<1>1. pc[w] = "saved" /\ lease'[w].key = lease[w].key
  OBVIOUS
<1>2. lease[w].key[1] \in Pages
  BY <1>1, LeaseHeld, KeyParts
<1>3. PICK r \in Revisions : IsLatest(lease[w].key[1], r)
  BY <1>1 DEF SavedAnswered
<1>4. PICK p \in Pages : p = lease[w].key[1]
  BY <1>2
<1>5. IsLatest(p, r)'
  BY <1>3, <1>4
<1> QED BY <1>1, <1>4, <1>5

\* Only SaveResult, AgeResult and cleanup touch the results.
LEMMA AnswersStill ==
  ASSUME TypeOK, AnswersSound, UNCHANGED answers,
         \A w \in Workers : pc'[w] = "saved" => pc[w] = "saved" /\ lease'[w].key = lease[w].key
  PROVE  AnswersSound'
<1>1. result' = result /\ newer' = newer /\ selected' = selected
  BY DEF answers
<1>2. \A p \in Pages, r \in Revisions : IsLatest(p, r)' <=> IsLatest(p, r)
  BY <1>1 DEF IsLatest
<1>3. SavedAnswered'
  BY <1>2, SavedKept DEF AnswersSound
<1>4. NewerOrders' /\ NewerTransitive'
  BY <1>1 DEF AnswersSound, NewerOrders, NewerTransitive, HasResult
<1>5. NewestExists' /\ SelectedSpared'
  BY <1>1 DEF AnswersSound, NewestExists, SelectedSpared, HasResult, IsLatest
<1> QED BY <1>3, <1>4, <1>5 DEF AnswersSound

\* The steps of a replica that leave the results alone keep every lease on its
\* key and bring nobody to "saved".
LEMMA WorkerMoves ==
  ASSUME TypeOK, NEW w \in Workers, Claim(w) \/ Process(w) \/ Crash(w), ~SaveResult(w)
  PROVE  /\ UNCHANGED answers
         /\ \A v \in Workers : pc'[v] = "saved" => pc[v] = "saved" /\ lease'[v].key = lease[v].key
<1>1. CASE Claim(w)
  BY <1>1 DEF Claim, TypeOK
<1>2. CASE FetchPage(w)
  <2>1. pc' = [pc EXCEPT ![w] = Verdict(lease[w].key)] /\ Verdict(lease[w].key) # "saved"
    BY <1>2 DEF FetchPage, Verdict
  <2>2. \A v \in Workers \ {w} : lease'[v] = lease[v]
    BY <1>2 DEF FetchPage, TypeOK
  <2> QED BY <1>2, <2>1, <2>2 DEF FetchPage, TypeOK
<1>3. CASE SupersedeOutdated(w)
  BY <1>3 DEF SupersedeOutdated, TypeOK
<1>4. CASE \/ SupersedeRejected(w) \/ EnqueueCurrent(w) \/ RegisterActiveWiki(w)
           \/ FailPermanent(w) \/ FailTransient(w) \/ Crash(w)
  <2>1. GoIdle(w) /\ UNCHANGED answers
    BY <1>4 DEF SupersedeRejected, EnqueueCurrent, RegisterActiveWiki, FailPermanent,
                FailTransient, Crash
  <2> QED BY <2>1 DEF GoIdle, TypeOK
<1>5. CASE Complete(w)
  <2>1. pc' = [pc EXCEPT ![w] = "completed"] /\ UNCHANGED answers
    BY <1>5 DEF Complete
  <2>2. lease' = lease \/ lease' = Released({lease[w].key})
    BY <1>5 DEF Complete
  <2>3. \A v \in Workers : pc[v] # "idle" => lease'[v].key = lease[v].key
    BY <2>2, ReleasedLeases
  <2> QED BY <2>1, <2>3 DEF TypeOK
<1> QED BY <1>1, <1>2, <1>3, <1>4, <1>5 DEF Process

LEMMA SaveSoundAnswers ==
  ASSUME TypeOK, AnswersSound, NEW w \in Workers, SaveResult(w)
  PROVE  AnswersSound'
<1>1. PICK k \in Keys : k = lease[w].key
  BY LeaseHeld DEF SaveResult
<1>2. /\ k[1] \in Pages /\ k[2] \in Revisions /\ k = <<k[1], k[2]>>
  BY KeyParts
<1>3. /\ IsLatest(k[1], k[2])' /\ NewerOrders'
      /\ \A p \in Pages \ {k[1]}, r \in Revisions : IsLatest(p, r)' <=> IsLatest(p, r)
  BY <1>1, SaveAnswers DEF AnswersSound
<1>4. NewestExists'
  <2> SUFFICES ASSUME NEW j \in Keys, HasResult(j)'
               PROVE  \E r \in Revisions : IsLatest(j[1], r)'
    BY DEF NewestExists
  <2>1. CASE j[1] = k[1]
    BY <1>2, <1>3, <2>1
  <2>2. CASE j[1] # k[1]
    <3>1. j[1] \in Pages \ {k[1]} /\ j # k
      BY <2>2, KeyParts
    <3>2. HasResult(j)
      BY <1>1, <3>1 DEF SaveResult, HasResult, TypeOK
    <3> QED BY <1>3, <3>1, <3>2 DEF AnswersSound, NewestExists
  <2> QED BY <2>1, <2>2
<1>5. SavedAnswered'
  <2> SUFFICES ASSUME NEW v \in Workers, pc'[v] = "saved"
               PROVE  \E r \in Revisions : IsLatest(lease[v].key[1], r)'
    BY DEF SavedAnswered
  <2>1. lease' = lease /\ pc' = [pc EXCEPT ![w] = "saved"]
    BY DEF SaveResult
  <2>2. pc[v] # "idle"
    BY <2>1 DEF SaveResult, TypeOK
  <2>3. PICK p \in Pages : p = lease[v].key[1]
    BY <2>2, LeaseHeld, KeyParts
  <2>4. CASE p = k[1]
    BY <1>2, <1>3, <2>1, <2>3, <2>4
  <2>5. CASE p # k[1]
    <3>1. pc[v] = "saved"
      BY <1>1, <2>1, <2>3, <2>5 DEF TypeOK
    <3>2. PICK r \in Revisions : IsLatest(p, r)
      BY <2>3, <3>1 DEF AnswersSound, SavedAnswered
    <3>3. IsLatest(p, r)'
      BY <1>3, <2>5, <3>2
    <3> QED BY <2>1, <2>3, <3>3
  <2> QED BY <2>4, <2>5
<1>6. NewerTransitive'
  BY SaveOrder DEF AnswersSound
<1>7. SelectedSpared'
  <2>1. selected' = selected /\ \A j \in Keys : HasResult(j) => HasResult(j)'
    BY <1>1 DEF SaveResult, HasResult, TypeOK, Recent, NoResult
  <2> QED BY <2>1 DEF AnswersSound, SelectedSpared
<1> QED BY <1>3, <1>4, <1>5, <1>6, <1>7 DEF AnswersSound

LEMMA SelectSoundAnswers ==
  ASSUME TypeOK, AnswersSound, SelectObsolete
  PROVE  AnswersSound'
<1>1. UNCHANGED <<result, newer, worker>>
  BY DEF SelectObsolete
<1>2. SelectedSpared'
  BY SelectSpares
<1> QED BY <1>1, <1>2 DEF AnswersSound, NewerOrders, NewerTransitive, NewestExists, SavedAnswered,
                       HasResult, IsLatest, worker

LEMMA DeleteSoundAnswers ==
  ASSUME TypeOK, AnswersSound, DeleteSelected
  PROVE  AnswersSound'
<1>1. /\ NewerOrders' /\ NewerTransitive'
      /\ \A k \in Keys : HasResult(k) => \E j \in Keys : j[1] = k[1] /\ HasResult(j)'
  BY DeleteResults
<1>2. (NewerOrders /\ NewerTransitive => NewestExists)'
  BY NewestAfter, PTL
<1>3. NewestExists'
  BY <1>1, <1>2
<1>4. SavedAnswered'
  <2> SUFFICES ASSUME NEW w \in Workers, pc'[w] = "saved"
               PROVE  \E r \in Revisions : IsLatest(lease[w].key[1], r)'
    BY DEF SavedAnswered
  <2>1. pc[w] = "saved" /\ \E gone \in SUBSET Keys : lease' = Released(gone)
    BY DEF DeleteSelected
  <2>2. lease'[w].key = lease[w].key /\ lease[w].key \in Keys
    BY <2>1, ReleasedLeases, LeaseHeld
  <2>3. PICK p \in Pages : p = lease[w].key[1]
    BY <2>2, KeyParts
  <2>4. PICK r \in Revisions : IsLatest(p, r)
    BY <2>1, <2>3 DEF AnswersSound, SavedAnswered
  <2>5. <<p, r>> \in Keys /\ HasResult(<<p, r>>)
    BY <2>4, KeyParts DEF IsLatest, HasResult
  <2>6. PICK j \in Keys : j[1] = p /\ HasResult(j)'
    BY <1>1, <2>5
  <2>7. \E s \in Revisions : IsLatest(p, s)'
    BY <1>3, <2>6 DEF NewestExists
  <2> QED BY <2>2, <2>3, <2>7
<1>5. SelectedSpared'
  BY DEF DeleteSelected, SelectedSpared
<1> QED BY <1>1, <1>3, <1>4, <1>5 DEF AnswersSound

LEMMA AgeSoundAnswers ==
  ASSUME TypeOK, AnswersSound, NEW k \in Keys, AgeResult(k)
  PROVE  AnswersSound'
<1>1. /\ \A j \in Keys : HasResult(j)' <=> HasResult(j)
      /\ \A p \in Pages, r \in Revisions : IsLatest(p, r)' <=> IsLatest(p, r)
  BY AgeAnswers
<1>2. newer' = newer /\ selected' = selected /\ pc' = pc /\ lease' = lease
  BY DEF AgeResult, worker
<1>3. NewerOrders' /\ NewerTransitive' /\ SelectedSpared'
  BY <1>1, <1>2 DEF AnswersSound, NewerOrders, NewerTransitive, SelectedSpared
<1>4. NewestExists'
  BY <1>1, KeyParts DEF AnswersSound, NewestExists
<1>5. SavedAnswered'
  BY <1>1, <1>2, SavedKept DEF AnswersSound
<1> QED BY <1>3, <1>4, <1>5 DEF AnswersSound

\* The steps outside the workers other than AgeResult and cleanup.
Outside(p, r, k) ==
  \/ RequestPage(p, r) \/ RequestRevision(p, r)
  \/ EnqueueIfStale(p, r) \/ EnqueueIfRevisionChanged(p, r)
  \/ Recompute(k) \/ Elapse(k) \/ Outlive(k)
  \/ ToggleDeleted(p)
  \/ \E newKind \in {"article", "redirect", "elsewhere"} : Edit(p, newKind)

LEMMA OutsideMoves ==
  ASSUME NEW p, NEW r, NEW k, Outside(p, r, k)
  PROVE  answers' = answers /\ pc' = pc /\ lease' = lease
BY DEF worker, Outside, RequestPage, RequestRevision, ReaderEnqueue, EnqueueIfStale,
       EnqueueIfRevisionChanged, Recompute, Elapse, Outlive, ToggleDeleted, Edit

\* The cases of a step, for the results.
LEMMA NextCases ==
  ASSUME [Next]_vars
  PROVE  \/ \E w \in Workers : Claim(w) \/ Process(w) \/ Crash(w)
         \/ \E k \in Keys : AgeResult(k)
         \/ SelectObsolete
         \/ DeleteSelected
         \/ \E p \in Pages : \E r, k : Outside(p, r, k)
         \/ UNCHANGED vars
BY KeyParts DEF Next, Outside

LEMMA NextAnswers == ASSUME AnswerInv, [Next]_vars PROVE AnswerInv'
<1>1. TypeOK /\ AnswersSound /\ IInv'
  BY NextInvariant DEF AnswerInv, IInv
<1>2. ASSUME NEW w \in Workers, Claim(w) \/ Process(w) \/ Crash(w) PROVE AnswersSound'
  <2>1. CASE SaveResult(w)
    BY <1>1, <2>1, SaveSoundAnswers
  <2>2. CASE ~SaveResult(w)
    BY <1>1, <1>2, <2>2, WorkerMoves, AnswersStill
  <2> QED BY <2>1, <2>2
<1>3. ASSUME NEW k \in Keys, AgeResult(k) PROVE AnswersSound'
  BY <1>1, <1>3, AgeSoundAnswers
<1>4. ASSUME SelectObsolete \/ DeleteSelected PROVE AnswersSound'
  BY <1>1, <1>4, SelectSoundAnswers, DeleteSoundAnswers
<1>5. ASSUME answers' = answers, pc' = pc, lease' = lease PROVE AnswersSound'
  BY <1>1, <1>5, AnswersStill
<1>6. ASSUME UNCHANGED vars PROVE AnswersSound'
  BY <1>5, <1>6 DEF vars, worker
<1>7. ASSUME NEW p, NEW r, NEW k, Outside(p, r, k) PROVE AnswersSound'
  BY <1>5, <1>7, OutsideMoves
<1>8. AnswersSound'
  BY <1>2, <1>3, <1>4, <1>6, <1>7, NextCases
<1> QED BY <1>1, <1>8 DEF AnswerInv

LEMMA AnswerInvariant == Spec => []AnswerInv
<1>1. Init => AnswerInv
  BY InitType, InitSound, InitAnswers DEF AnswerInv, IInv
<1> QED BY <1>1, NextAnswers, PTL DEF Spec

-----------------------------------------------------------------------------
(* Jobs and answers *)

\* A live row is deleted by the worker that saved its result, and by nobody else.
LEMMA LiveRowDeleted ==
  ASSUME TypeOK, [Next]_vars, NEW k \in Keys, Live(work[k]), ~Exists(work'[k])
  PROVE  \E w \in Workers : Complete(w) /\ lease[w].key = k
<1>1. work[k] \in Row /\ work[k].state # "none"
  BY DEF TypeOK, Live
<1>2. ASSUME work' = work PROVE FALSE
  BY <1>1, <1>2 DEF Exists
<1>3. ASSUME NEW table \in [Keys -> Row], NEW j \in Keys, NEW priority \in Priorities,
             table[k].state # "none", work' = Enqueued(table, j, priority)
      PROVE  FALSE
  <2>1. work'[k] = table[k] \/ work'[k] = NewRow(priority)
        \/ work'[k] = Boosted(table[k], priority) \/ work'[k] = Superseded(table[k])
    BY <1>3 DEF Enqueued
  <2>2. table[k] \in Row
    BY <1>3
  <2>3. work'[k].state # "none"
    BY <1>3, <2>1, <2>2 DEF NewRow, Boosted, Superseded, Row
  <2> QED BY <2>3 DEF Exists
<1>4. ASSUME NEW w \in Workers, NEW row, WriteRow(w, row), row.state # "none" PROVE FALSE
  BY <1>1, <1>2, <1>4 DEF WriteRow, TypeOK, Exists
<1>5. ASSUME NEW w \in Workers, Claim(w) \/ Process(w) \/ Crash(w), ~Complete(w) PROVE FALSE
  <2>1. ASSUME Claim(w) PROVE FALSE
    <3>1. work'[k] = work[k] \/ work'[k] = Leased(work[k])
      BY <1>1, <2>1 DEF Claim, TypeOK
    <3> QED BY <1>1, <3>1 DEF Leased, Exists
  <2>2. ASSUME FetchPage(w) \/ SaveResult(w) \/ RegisterActiveWiki(w) \/ Crash(w) PROVE FALSE
    BY <1>2, <2>2 DEF FetchPage, SaveResult, RegisterActiveWiki, Crash, queue
  <2>3. ASSUME SupersedeRejected(w) \/ SupersedeOutdated(w) PROVE FALSE
    BY <1>4, <2>3 DEF SupersedeRejected, SupersedeOutdated, Superseded
  <2>4. ASSUME FailPermanent(w) \/ FailTransient(w) PROVE FALSE
    BY <1>4, <2>4 DEF FailPermanent, FailTransient, Failed
  <2>5. ASSUME EnqueueCurrent(w) PROVE FALSE
    <3>1. CASE UNCHANGED queue
      BY <1>2, <3>1 DEF queue
    <3>2. CASE Store(Enqueued(work, <<lease[w].key[1], lease[w].seen>>, lease[w].priority))
      <4>1. lease[w].priority \in Priorities
        BY <2>5, LeaseHeld DEF EnqueueCurrent
      <4>2. work'[k] = work[k] \/ work'[k] = NewRow(lease[w].priority)
            \/ work'[k] = Boosted(work[k], lease[w].priority) \/ work'[k] = Superseded(work[k])
        BY <3>2 DEF Store, Enqueued, TypeOK
      <4> QED BY <1>1, <4>2 DEF NewRow, Boosted, Superseded, Row, Exists
    <3> QED BY <2>5, <3>1, <3>2 DEF EnqueueCurrent
  <2> QED BY <1>5, <2>1, <2>2, <2>3, <2>4, <2>5 DEF Process
<1>6. ASSUME SelectObsolete \/ DeleteSelected PROVE FALSE
  BY <1>1, <1>6 DEF SelectObsolete, DeleteSelected, Store, Live, Exists, queue
<1>7. ASSUME NEW p \in Pages, NEW r \in Revisions, NEW j \in Keys,
             \/ RequestPage(p, r) \/ RequestRevision(p, r)
             \/ EnqueueIfStale(p, r) \/ EnqueueIfRevisionChanged(p, r) \/ Recompute(j)
      PROVE  FALSE
  <2>1. <<p, r>> \in Keys
    BY KeyParts
  <2>2. ASSUME NEW i \in Keys, ReaderEnqueue(i) PROVE FALSE
    <3> DEFINE table == IF Retryable(work[i]) THEN [work EXCEPT ![i] = Revived(@)] ELSE work
    <3>1. table \in [Keys -> Row]
      BY RowsWritten, ReaderPriority \in Priorities DEF TypeOK, Priorities
    <3>2. table[k].state # "none"
      BY <1>1 DEF Revived, TypeOK
    <3>3. work' = Enqueued(table, i, ReaderPriority)
      BY <2>2 DEF ReaderEnqueue, Store
    <3>4. ReaderPriority \in Priorities
      BY DEF Priorities
    <3> HIDE DEF table
    <3> QED BY <1>3, <3>1, <3>2, <3>3, <3>4
  <2>3. ASSUME RequestPage(p, r) \/ RequestRevision(p, r) PROVE FALSE
    BY <2>1, <2>2, <2>3 DEF RequestPage, RequestRevision
  <2>4. ASSUME EnqueueIfStale(p, r) \/ EnqueueIfRevisionChanged(p, r) \/ Recompute(j) PROVE FALSE
    <3>1. PICK i \in Keys, priority \in Priorities : work' = Enqueued(work, i, priority)
      BY <2>1, <2>4 DEF EnqueueIfStale, EnqueueIfRevisionChanged, Recompute, Store, Priorities
    <3> QED BY <1>1, <1>3, <3>1 DEF TypeOK
  <2> QED BY <1>7, <2>3, <2>4
<1>8. ASSUME NEW p, NEW j \in Keys,
             \/ Elapse(j) \/ Outlive(j) \/ AgeResult(j) \/ ToggleDeleted(p)
             \/ \E newKind \in {"article", "redirect", "elsewhere"} : Edit(p, newKind)
      PROVE  FALSE
  <2>1. ASSUME Elapse(j) \/ Outlive(j) PROVE FALSE
    <3>1. PICK age \in 1..2 : work' = [work EXCEPT ![j] = [work[j] EXCEPT !.age = age]]
      BY <2>1 DEF Elapse, Outlive
    <3>2. work[j] \in Row
      BY DEF TypeOK
    <3>3. [work[j] EXCEPT !.age = age].state = work[j].state
      BY <3>2 DEF Row
    <3>4. work'[k].state = work[k].state
      BY <3>1, <3>3 DEF TypeOK
    <3> QED BY <1>1, <3>4 DEF Exists
  <2> QED BY <1>2, <1>8, <2>1 DEF AgeResult, ToggleDeleted, Edit, queue
<1>9. PICK w \in Workers : Complete(w)
  <2>1. ASSUME UNCHANGED vars PROVE FALSE
    BY <1>2, <2>1 DEF vars, queue
  <2>2. \A j \in Keys : j[1] \in Pages /\ j[2] \in Revisions
    BY KeyParts
  <2>3. \A p \in Pages, r \in Revisions : <<p, r>> \in Keys
    BY KeyParts
  <2> QED BY <1>5, <1>6, <1>7, <1>8, <2>1, <2>2, <2>3 DEF Next
<1>10. ASSUME lease[w].key # k PROVE FALSE
  <2>1. work'[k] = work[k]
    BY <1>9, <1>10 DEF Complete, Store, TypeOK, queue
  <2> QED BY <1>1, <2>1 DEF Exists
<1> QED BY <1>9, <1>10

LEMMA DeletedJobAnswered ==
  ASSUME AnswerInv, [Next]_vars, NEW k \in Keys, Live(work[k]), ~Exists(work'[k])
  PROVE  Latest(k[1])' # 0
<1>1. TypeOK /\ NewerOrders /\ SavedAnswered
  BY DEF AnswerInv, IInv, AnswersSound
<1>2. PICK w \in Workers : Complete(w) /\ lease[w].key = k
  BY <1>1, LiveRowDeleted
<1>3. k[1] \in Pages
  BY KeyParts
<1>4. PICK r \in Revisions : IsLatest(k[1], r)
  BY <1>1, <1>2 DEF Complete, SavedAnswered
<1>5. Latest(k[1]) # 0
  BY <1>3, <1>4, ServedResult
<1>6. \A s \in Revisions : IsLatest(k[1], s)' <=> IsLatest(k[1], s)
  BY <1>2 DEF Complete, answers, IsLatest
<1> QED BY <1>1, <1>3, <1>5, <1>6, LatestKept

\* A job disappears from the queue only once its page has an answer, whatever
\* workers crash, come late or fail, and whatever cleanup removes in between.
THEOREM JobsLeaveAnswers == Spec => LiveJobLeavesAnAnswer
<1>1. AnswerInv /\ [Next]_vars
        => [\A k \in Keys : Live(work[k]) /\ ~Exists(work'[k]) => Latest(k[1])' # 0]_vars
  BY DeletedJobAnswered
<1> QED BY <1>1, AnswerInvariant, PTL DEF Spec, LiveJobLeavesAnAnswer

-----------------------------------------------------------------------------
(* Answers and cleanup *)

\* A page keeps its answer if a step keeps a result of it.
LEMMA AnswerStays ==
  ASSUME AnswerInv', NEW p \in Pages, NEW k \in Keys, k[1] = p, HasResult(k)'
  PROVE  Latest(p)' # 0
<1>1. \E r \in Revisions : IsLatest(k[1], r)'
  BY DEF AnswerInv, AnswersSound, NewestExists
<1> QED BY <1>1, ServedResultAfter

LEMMA ServedHasResult ==
  ASSUME NEW p \in Pages, Latest(p) # 0
  PROVE  \E k \in Keys : k[1] = p /\ HasResult(k)
<1>1. PICK r \in Revisions : IsLatest(p, r)
  BY DEF Latest
<1> QED BY <1>1, KeyParts DEF IsLatest, HasResult

\* No step but the deletion of a cleanup removes a result.
LEMMA ResultsKept ==
  ASSUME AnswerInv, [Next]_vars, ~DeleteSelected
  PROVE  \A k \in Keys : HasResult(k) => HasResult(k)'
<1>1. TypeOK
  BY DEF AnswerInv, IInv
<1>2. ASSUME result' = result PROVE \A k \in Keys : HasResult(k) => HasResult(k)'
  BY <1>2 DEF HasResult
<1>3. ASSUME NEW w \in Workers, Claim(w) \/ Process(w) \/ Crash(w)
      PROVE  \A k \in Keys : HasResult(k) => HasResult(k)'
  <2>1. CASE SaveResult(w)
    BY <1>1, <2>1 DEF SaveResult, TypeOK, HasResult, NoResult, Recent
  <2>2. CASE ~SaveResult(w)
    BY <1>1, <1>2, <1>3, <2>2, WorkerMoves DEF answers
  <2> QED BY <2>1, <2>2
<1>4. ASSUME NEW k \in Keys, AgeResult(k)
      PROVE  \A j \in Keys : HasResult(j) => HasResult(j)'
  BY <1>1, <1>4, AgeAnswers
<1>5. ASSUME NEW p, NEW r, NEW k, Outside(p, r, k)
      PROVE  \A j \in Keys : HasResult(j) => HasResult(j)'
  BY <1>2, <1>5, OutsideMoves DEF answers
<1>6. ASSUME SelectObsolete \/ UNCHANGED vars
      PROVE  \A j \in Keys : HasResult(j) => HasResult(j)'
  BY <1>2, <1>6 DEF SelectObsolete, vars, answers
<1> QED BY <1>3, <1>4, <1>5, <1>6, NextCases

\* And the deletion leaves a result of the page where it removes one.
LEMMA AnswerKept ==
  ASSUME AnswerInv, [Next]_vars, NEW p \in Pages, Latest(p) # 0
  PROVE  Latest(p)' # 0
<1>1. PICK k \in Keys : k[1] = p /\ HasResult(k)
  BY ServedHasResult
<1>2. TypeOK /\ AnswersSound /\ AnswerInv'
  BY NextAnswers DEF AnswerInv, IInv
<1>3. CASE DeleteSelected
  <2>1. PICK j \in Keys : j[1] = p /\ HasResult(j)'
    BY <1>1, <1>2, <1>3, DeleteResults
  <2> QED BY <1>2, <2>1, AnswerStays
<1>4. CASE ~DeleteSelected
  BY <1>1, <1>2, <1>4, ResultsKept, AnswerStays
<1> QED BY <1>3, <1>4

\* Cleanup selects a result while the page has a newer one, and every page keeps a
\* result that was not selected until the selection is deleted, whichever of the
\* replicas refreshes what in between.
THEOREM NoAnswerIsWithdrawn == Spec => NeverUnanswered
<1>1. AnswerInv /\ [Next]_vars => [\A p \in Pages : Latest(p) # 0 => Latest(p)' # 0]_vars
  BY AnswerKept
<1> QED BY <1>1, AnswerInvariant, PTL DEF Spec, NeverUnanswered

-----------------------------------------------------------------------------
(* The queue implements ServedAnswer *)

Attributing == {lease[w].key : w \in {v \in Workers : pc[v] = "attribute"}}
Stored == {k \in Keys : result[k] # NoResult}
Served == [p \in Pages |-> Latest(p)]

LEMMA PromiseInit == Init => Promise!Init
<1> SUFFICES ASSUME Init PROVE Promise!Init
  OBVIOUS
<1>1. \A p \in Pages : Latest(p) = 0
  BY DEF Init, Latest, IsLatest, Keys
<1>2. Attributing = {}
  BY DEF Init, Attributing
<1>3. Stored = {}
  BY DEF Init, Stored
<1> QED BY <1>1, <1>2, <1>3 DEF Init, Attributing, Stored, Promise!Init

\* A worker that starts to attribute does so for the revision shown.
LEMMA BeginStep ==
  ASSUME TypeOK, NEW w \in Workers, FetchPage(w)
  PROVE  /\ current' = current
         /\ \/ Attributing' = Attributing
            \/ \E p \in Pages : Attributing' = Attributing \cup {<<p, current[p]>>}
<1>1. PICK k \in Keys : k = lease[w].key
  BY LeaseHeld DEF FetchPage
<1>2. /\ pc[w] = "claimed" /\ current' = current
      /\ pc' = [pc EXCEPT ![w] = Verdict(k)]
      /\ Verdict(k) = "attribute" => lease' = lease
      /\ \A v \in Workers : v # w => lease'[v] = lease[v]
  BY <1>1 DEF FetchPage, wiki, TypeOK
<1>3. CASE Verdict(k) = "attribute"
  <2>1. k[1] \in Pages /\ k = <<k[1], current[k[1]]>>
    BY <1>3, KeyParts DEF Verdict
  <2>2. Attributing' = Attributing \cup {k}
    BY <1>1, <1>2, <1>3 DEF Attributing, TypeOK
  <2> QED BY <1>2, <2>1, <2>2
<1>4. CASE Verdict(k) # "attribute"
  <2>1. Attributing' = Attributing
    BY <1>2, <1>4 DEF Attributing, TypeOK
  <2> QED BY <1>2, <2>1
<1> QED BY <1>3, <1>4

\* A worker that fails or dies while it attributes ends its computation, unless
\* another one is computing the same revision.
LEMMA AbandonStep ==
  ASSUME TypeOK, NEW w \in Workers, pc[w] # "idle", GoIdle(w)
  PROVE  \/ Attributing' = Attributing
         \/ \E k \in Attributing : Attributing' = Attributing \ {k}
<1>1. PICK k \in Keys : k = lease[w].key
  BY LeaseHeld
<1>2. /\ pc' = [pc EXCEPT ![w] = "idle"]
      /\ \A v \in Workers : v # w => lease'[v] = lease[v]
  BY DEF GoIdle, TypeOK
<1>3. CASE pc[w] = "attribute"
  <2>1. k \in Attributing
    BY <1>1, <1>3 DEF Attributing
  <2>2. CASE \E v \in Workers : v # w /\ pc[v] = "attribute" /\ lease[v].key = k
    BY <1>1, <1>2, <2>2 DEF Attributing, TypeOK
  <2>3. CASE ~ \E v \in Workers : v # w /\ pc[v] = "attribute" /\ lease[v].key = k
    <3>1. \A v \in Workers : pc'[v] = "attribute" <=> pc[v] = "attribute" /\ v # w
      BY <1>2 DEF TypeOK
    <3>2. \A j : j \in Attributing' <=> j \in Attributing /\ j # k
      BY <1>1, <1>2, <2>3, <3>1 DEF Attributing
    <3>3. Attributing' = Attributing \ {k}
      BY <3>2
    <3> QED BY <2>1, <3>3
  <2> QED BY <2>2, <2>3
<1>4. CASE pc[w] # "attribute"
  BY <1>2, <1>4 DEF Attributing, TypeOK
<1> QED BY <1>3, <1>4

\* The other steps of a worker start and end no computation.
LEMMA OtherStep ==
  ASSUME TypeOK, NEW w \in Workers, Claim(w) \/ SupersedeOutdated(w) \/ Complete(w)
  PROVE  Attributing' = Attributing
<1>1. /\ pc[w] # "attribute" /\ \A v \in Workers : v # w => pc'[v] = pc[v]
      /\ pc'[w] # "attribute"
  BY DEF Claim, SupersedeOutdated, Complete, TypeOK
<1>2. \A v \in Workers : pc[v] = "attribute" => lease'[v].key = lease[v].key
  <2>1. CASE Claim(w)
    BY <2>1 DEF Claim, TypeOK
  <2>2. CASE SupersedeOutdated(w)
    BY <2>2 DEF SupersedeOutdated
  <2>3. CASE Complete(w)
    BY <2>3, ReleasedLeases DEF Complete
  <2> QED BY <2>1, <2>2, <2>3
<1> QED BY <1>1, <1>2 DEF Attributing

\* A worker that saves publishes what it computed.
LEMMA PublishStep ==
  ASSUME TypeOK, NewerOrders, NEW w \in Workers, SaveResult(w)
  PROVE  \E k \in Attributing :
           /\ Stored' = Stored \cup {k}
           /\ Served' = [Served EXCEPT ![k[1]] = k[2]]
           /\ Attributing' \in {Attributing, Attributing \ {k}}
           /\ current' = current
<1>1. PICK k \in Keys : k = lease[w].key
  BY LeaseHeld DEF SaveResult
<1>2. /\ k[1] \in Pages /\ k[2] \in Revisions
  BY KeyParts
<1>3. /\ pc[w] = "attribute" /\ lease' = lease /\ pc' = [pc EXCEPT ![w] = "saved"]
      /\ current' = current
  BY DEF SaveResult, wiki
<1>4. k \in Attributing
  BY <1>1, <1>3 DEF Attributing
<1>5. Attributing' \in {Attributing, Attributing \ {k}}
  <2>1. CASE \E v \in Workers : v # w /\ pc[v] = "attribute" /\ lease[v].key = k
    BY <1>1, <1>3, <2>1 DEF Attributing, TypeOK
  <2>2. CASE ~ \E v \in Workers : v # w /\ pc[v] = "attribute" /\ lease[v].key = k
    BY <1>1, <1>3, <1>4, <2>2 DEF Attributing, TypeOK
  <2> QED BY <2>1, <2>2
<1>6. /\ IsLatest(k[1], k[2])'
      /\ \A s \in Revisions : IsLatest(k[1], s)' => s = k[2]
      /\ \A p \in Pages \ {k[1]}, r \in Revisions : IsLatest(p, r)' <=> IsLatest(p, r)
  BY <1>1, SaveAnswers
<1>7. Latest(k[1])' = k[2]
  BY <1>2, <1>6, LatestBecomes
<1>8. \A p \in Pages \ {k[1]} : Latest(p)' = Latest(p)
  BY <1>6, LatestKept
<1>9. Served' = [Served EXCEPT ![k[1]] = k[2]]
  BY <1>2, <1>7, <1>8 DEF Served
<1>10. Stored' = Stored \cup {k}
  BY <1>1 DEF SaveResult, Stored, TypeOK, NoResult, Recent
<1> QED BY <1>3, <1>4, <1>5, <1>9, <1>10

\* A cleanup that deletes forgets what it selected; where that was the answer
\* served, another one of the page is left and served.
LEMMA ForgetStep ==
  ASSUME AnswerInv, DeleteSelected
  PROVE  \E dropped \in SUBSET Stored :
           /\ Stored' = Stored \ dropped
           /\ Served' \in [Pages -> 0..MaxRevision]
           /\ \A p \in Pages :
                IF <<p, Served[p]>> \in dropped
                THEN <<p, Served'[p]>> \in Stored'
                ELSE Served'[p] = Served[p]
<1>1. TypeOK /\ AnswersSound /\ NewestExists'
  BY NextAnswers DEF AnswerInv, IInv, AnswersSound, Next
<1>2. /\ \A k \in Keys : HasResult(k)' <=> HasResult(k) /\ k \notin selected
      /\ NewerOrders' /\ newer' \subseteq newer
      /\ \A k \in Keys : HasResult(k) => \E j \in Keys : j[1] = k[1] /\ HasResult(j)'
  BY <1>1, DeleteResults DEF DeleteSelected
<1> DEFINE dropped == selected \cap Stored
<1>3. /\ \A k \in Keys : HasResult(k) <=> k \in Stored
      /\ \A k \in Keys : HasResult(k)' <=> k \in Stored'
      /\ Stored \subseteq Keys /\ Stored' \subseteq Keys
  BY DEF Stored, HasResult
<1>4. Stored' = Stored \ dropped
  BY <1>2, <1>3
<1>5. ASSUME NEW p \in Pages
      PROVE  /\ Latest(p)' \in 0..MaxRevision
             /\ IF <<p, Latest(p)>> \in dropped
                THEN <<p, Latest(p)'>> \in Stored'
                ELSE Latest(p)' = Latest(p)
  <2>1. \A r \in Revisions : <<p, r>> \in Keys /\ <<p, r>>[1] = p
    BY KeyParts
  <2>2. ASSUME \E r \in Revisions : IsLatest(p, r)'
        PROVE  Latest(p)' \in 0..MaxRevision /\ <<p, Latest(p)'>> \in Stored'
    <3>1. PICK s \in Revisions : s = Latest(p)' /\ IsLatest(p, s)'
      BY <2>2, ServedResultAfter
    <3>2. HasResult(<<p, s>>)'
      BY <3>1 DEF IsLatest, HasResult
    <3> QED BY <1>3, <2>1, <3>1, <3>2, ConstantsOK DEF Revisions
  <2>3. CASE <<p, Latest(p)>> \in dropped
    <3>1. <<p, Latest(p)>> \in Keys /\ HasResult(<<p, Latest(p)>>)
      BY <1>3, <2>3
    <3>2. PICK j \in Keys : j[1] = p /\ HasResult(j)'
      BY <1>2, <3>1
    <3>3. \E r \in Revisions : IsLatest(p, r)'
      BY <1>1, <3>2 DEF NewestExists
    <3> QED BY <2>2, <2>3, <3>3
  <2>4. CASE <<p, Latest(p)>> \notin dropped /\ \E r \in Revisions : IsLatest(p, r)
    <3>1. PICK r \in Revisions : r = Latest(p) /\ IsLatest(p, r)
      BY <2>4, ServedResult
    <3>2. HasResult(<<p, r>>)
      BY <3>1 DEF IsLatest, HasResult
    <3>3. HasResult(<<p, r>>)' /\ <<p, r>> \in Keys
      BY <1>2, <1>3, <2>1, <2>4, <3>1, <3>2
    <3>4. IsLatest(p, r)'
      BY <1>2, <3>1, <3>3 DEF IsLatest, HasResult
    <3>5. ASSUME NEW s \in Revisions, IsLatest(p, s)', s # r PROVE FALSE
      <4>1. HasResult(<<p, s>>)' /\ <<p, s>> # <<p, r>>
        BY <3>5 DEF IsLatest, HasResult
      <4>2. <<<<p, s>>, <<p, r>>>> \in newer' \/ <<<<p, r>>, <<p, s>>>> \in newer'
        BY <1>2, <2>1, <3>3, <4>1 DEF NewerOrders
      <4> QED BY <3>4, <3>5, <4>2 DEF IsLatest
    <3>6. Latest(p)' = r
      BY <3>4, <3>5, LatestBecomes
    <3> QED BY <2>4, <3>1, <3>6, ConstantsOK DEF Revisions
  <2>5. CASE <<p, Latest(p)>> \notin dropped /\ ~ \E r \in Revisions : IsLatest(p, r)
    <3>1. Latest(p) = 0
      BY <2>5 DEF Latest
    <3>2. ASSUME NEW r \in Revisions, IsLatest(p, r)' PROVE FALSE
      <4>1. HasResult(<<p, r>>)
        BY <1>2, <2>1, <3>2 DEF IsLatest, HasResult
      <4> QED BY <1>1, <2>1, <2>5, <4>1 DEF AnswersSound, NewestExists
    <3>3. Latest(p)' = 0
      BY <3>2 DEF Latest
    <3> QED BY <2>5, <3>1, <3>3, ConstantsOK
  <2> QED BY <2>3, <2>4, <2>5
<1>6. Served' \in [Pages -> 0..MaxRevision]
  BY <1>5 DEF Served
<1>7. \A p \in Pages : Served[p] = Latest(p) /\ Served'[p] = Latest(p)'
  BY DEF Served
<1>8. dropped \in SUBSET Stored
  OBVIOUS
<1> HIDE DEF dropped
<1> QED BY <1>4, <1>5, <1>6, <1>7, <1>8

\* No other step changes which answers there are, or the one served.
LEMMA ServedKept ==
  ASSUME AnswerInv, [Next]_vars, \A w \in Workers : ~SaveResult(w), ~DeleteSelected
  PROVE  Served' = Served /\ Stored' = Stored
<1>1. TypeOK /\ NewerOrders
  BY DEF AnswerInv, IInv, AnswersSound
<1> DEFINE Same == /\ \A p \in Pages, r \in Revisions : IsLatest(p, r)' <=> IsLatest(p, r)
                   /\ \A k \in Keys : HasResult(k)' <=> HasResult(k)
<1>2. ASSUME result' = result, newer' = newer PROVE Same
  BY <1>2 DEF IsLatest, HasResult
<1>3. Same
  <2>1. ASSUME NEW w \in Workers, Claim(w) \/ Process(w) \/ Crash(w) PROVE Same
    BY <1>1, <1>2, <2>1, WorkerMoves DEF answers
  <2>2. ASSUME NEW p, NEW r, NEW k, Outside(p, r, k) PROVE result' = result /\ newer' = newer
    BY <2>2, OutsideMoves DEF answers
  <2>3. ASSUME UNCHANGED vars \/ SelectObsolete PROVE result' = result /\ newer' = newer
    BY <2>3 DEF vars, answers, SelectObsolete
  <2>4. ASSUME NEW k \in Keys, AgeResult(k) PROVE Same
    BY <1>1, <2>4, AgeAnswers
  <2> HIDE DEF Same
  <2> QED BY <1>2, <2>1, <2>2, <2>3, <2>4, NextCases
<1>4. \A p \in Pages : Latest(p)' = Latest(p)
  BY <1>1, <1>3, LatestKept
<1>5. Stored' = Stored
  BY <1>3 DEF Stored, HasResult
<1> QED BY <1>4, <1>5 DEF Served

\* The steps of the promise, for the values the queue gives its variables.
LEMMA PromiseSteps ==
  /\ \A p \in Pages :
       /\ current[p] < MaxRevision /\ current' = [current EXCEPT ![p] = @ + 1]
       /\ Attributing' = Attributing /\ Stored' = Stored /\ Served' = Served
       => Promise!Next
  /\ \A p \in Pages :
       /\ Attributing' = Attributing \cup {<<p, current[p]>>}
       /\ current' = current /\ Stored' = Stored /\ Served' = Served
       => Promise!Next
  /\ \A k \in Attributing :
       /\ Stored' = Stored \cup {k}
       /\ Served' = [Served EXCEPT ![k[1]] = k[2]]
       /\ Attributing' \in {Attributing, Attributing \ {k}}
       /\ current' = current
       => Promise!Next
  /\ \A k \in Attributing :
       /\ Attributing' = Attributing \ {k}
       /\ current' = current /\ Stored' = Stored /\ Served' = Served
       => Promise!Next
  /\ \A dropped \in SUBSET Stored :
       /\ Stored' = Stored \ dropped
       /\ Served' \in [Pages -> 0..MaxRevision]
       /\ \A p \in Pages :
            IF <<p, Served[p]>> \in dropped
            THEN <<p, Served'[p]>> \in Stored'
            ELSE Served'[p] = Served[p]
       /\ current' = current /\ Attributing' = Attributing
       => Promise!Next
BY DEF Promise!Next, Promise!Edit, Promise!Begin, Promise!Publish, Promise!Abandon,
       Promise!Forget, Attributing, Stored, Served

LEMMA StepKeepsPromise ==
  ASSUME AnswerInv, [Next]_vars
  PROVE  Promise!Next \/ UNCHANGED <<current, Attributing, Stored, Served>>
<1>1. TypeOK /\ NewerOrders
  BY DEF AnswerInv, IInv, AnswersSound
<1>2. ASSUME NEW w \in Workers, SaveResult(w) PROVE Promise!Next
  BY <1>1, <1>2, PublishStep, PromiseSteps
<1>3. ASSUME DeleteSelected PROVE Promise!Next
  <2>1. pc' = pc /\ current' = current /\ \E gone \in SUBSET Keys : lease' = Released(gone)
    BY <1>3 DEF DeleteSelected, wiki
  <2>2. \A v \in Workers : pc[v] = "attribute" => lease'[v].key = lease[v].key
    BY <1>1, <2>1, ReleasedLeases
  <2>3. Attributing' = Attributing
    BY <2>1, <2>2 DEF Attributing
  <2> QED BY <1>3, <2>1, <2>3, ForgetStep, PromiseSteps
<1>4. ASSUME \A w \in Workers : ~SaveResult(w), ~DeleteSelected
      PROVE  Promise!Next \/ UNCHANGED <<current, Attributing, Stored, Served>>
  <2>1. Served' = Served /\ Stored' = Stored
    BY <1>4, ServedKept
  <2>2. ASSUME NEW w \in Workers, Claim(w) \/ Process(w) \/ Crash(w)
        PROVE  Promise!Next \/ UNCHANGED <<current, Attributing, Stored, Served>>
    <3>1. current' = current
      BY <2>2 DEF Claim, Process, Crash, FetchPage, SupersedeRejected, SupersedeOutdated,
                  EnqueueCurrent, SaveResult, Complete, RegisterActiveWiki, FailPermanent,
                  FailTransient, wiki
    <3>2. CASE FetchPage(w)
      BY <1>1, <2>1, <3>1, <3>2, BeginStep, PromiseSteps
    <3>3. CASE Claim(w) \/ SupersedeOutdated(w) \/ Complete(w)
      BY <1>1, <2>1, <3>1, <3>3, OtherStep
    <3>4. CASE \/ SupersedeRejected(w) \/ EnqueueCurrent(w) \/ RegisterActiveWiki(w)
               \/ FailPermanent(w) \/ FailTransient(w) \/ Crash(w)
      <4>1. pc[w] # "idle" /\ GoIdle(w)
        BY <3>4 DEF SupersedeRejected, EnqueueCurrent, RegisterActiveWiki, FailPermanent,
                    FailTransient, Crash
      <4> QED BY <1>1, <2>1, <3>1, <4>1, AbandonStep, PromiseSteps
    <3> QED BY <1>4, <2>2, <3>2, <3>3, <3>4 DEF Process
  <2>3. ASSUME pc' = pc, lease' = lease PROVE Attributing' = Attributing
    BY <2>3 DEF Attributing
  <2>4. ASSUME NEW k \in Keys, AgeResult(k)
        PROVE  UNCHANGED <<current, Attributing, Stored, Served>>
    BY <2>1, <2>3, <2>4 DEF AgeResult, wiki, worker
  <2>5. ASSUME SelectObsolete PROVE UNCHANGED <<current, Attributing, Stored, Served>>
    BY <2>1, <2>3, <2>5 DEF SelectObsolete, wiki, worker
  <2>6. ASSUME NEW p \in Pages, NEW r, NEW k, Outside(p, r, k)
        PROVE  Promise!Next \/ UNCHANGED <<current, Attributing, Stored, Served>>
    <3>1. Attributing' = Attributing
      BY <2>3, <2>6, OutsideMoves
    <3>2. CASE current' = current
      BY <2>1, <3>1, <3>2
    <3>3. CASE \E newKind \in {"article", "redirect", "elsewhere"} : Edit(p, newKind)
      <4>1. current[p] < MaxRevision /\ current' = [current EXCEPT ![p] = @ + 1]
        BY <3>3 DEF Edit
      <4> QED BY <2>1, <2>6, <3>1, <4>1, PromiseSteps
    <3> QED BY <2>6, <3>2, <3>3 DEF Outside, RequestPage, RequestRevision, ReaderEnqueue,
                EnqueueIfStale, EnqueueIfRevisionChanged, Recompute, Elapse, Outlive,
                ToggleDeleted, wiki
  <2>7. ASSUME UNCHANGED vars PROVE UNCHANGED <<current, Attributing, Stored, Served>>
    BY <2>1, <2>3, <2>7 DEF vars, wiki, worker
  <2> QED BY <1>4, <2>2, <2>4, <2>5, <2>6, <2>7, NextCases
<1> QED BY <1>2, <1>3, <1>4

\* What a reader is promised holds of every behaviour of the queue, the workers
\* and a cleanup that deletes by the ids it selected: answers are computed for a
\* revision shown at the time, and one that goes leaves another one to serve.
THEOREM QueueKeepsPromise == Spec => KeepsPromise
<1>1. AnswerInv /\ [Next]_vars => [Promise!Next]_(Promise!vars)
  BY StepKeepsPromise DEF Promise!vars, Attributing, Stored, Served
<1> QED BY <1>1, PromiseInit, AnswerInvariant, PTL DEF Spec, KeepsPromise, Promise!Spec

(***************************************************************************)
(* Part 3: requests                                                        *)
(***************************************************************************)
-----------------------------------------------------------------------------
(* What the steps of WorkQueue do to a row *)

\* enqueue creates the row asked for, supersedes older pending ones, and leaves the
\* state of every other row alone.
LEMMA EnqueuedStates ==
  ASSUME NEW table \in [Keys -> Row], NEW k \in Keys, NEW priority \in Priorities,
         NEW j \in Keys
  PROVE  \/ Enqueued(table, k, priority)[j] = table[j]
         \/ j = k /\ ~Exists(table[j]) /\ Enqueued(table, k, priority)[j] = NewRow(priority)
         \/ j = k /\ Live(table[j]) /\ Enqueued(table, k, priority)[j] = Boosted(table[j], priority)
         \/ /\ table[j].state = "pending"
            /\ Enqueued(table, k, priority)[j] = Superseded(table[j])
BY DEF Enqueued

\* A row that a step leaves in its state, or moves on without its worker.
LEMMA EnqueuedKeeps ==
  ASSUME NEW table \in [Keys -> Row], NEW k \in Keys, NEW priority \in Priorities,
         NEW j \in Keys
  PROVE  /\ Exists(table[j]) => Exists(Enqueued(table, k, priority)[j])
         /\ table[j].state = "leased" => Enqueued(table, k, priority)[j].state = "leased"
<1>1. table[j] \in Row
  OBVIOUS
<1> DEFINE row == Enqueued(table, k, priority)[j]
<1>2. Boosted(table[j], priority).state = table[j].state
  BY <1>1 DEF Boosted, Row
<1>3. \/ row = table[j]
      \/ ~Exists(table[j]) /\ row = NewRow(priority)
      \/ row = Boosted(table[j], priority)
      \/ table[j].state = "pending" /\ row = Superseded(table[j])
  BY EnqueuedStates
<1> HIDE DEF row
<1>4. (~Exists(table[j]) <=> table[j].state = "none") /\ Exists(Superseded(table[j]))
  BY DEF Exists, Superseded
<1>5. /\ Exists(table[j]) => Exists(row)
      /\ table[j].state = "leased" => row.state = "leased"
  BY <1>2, <1>3, <1>4 DEF Exists
<1> QED BY <1>5 DEF row

\* A revision that is shown has a row once it was enqueued.
LEMMA EnqueuedShown ==
  ASSUME IInv, NEW k \in Keys, Shown(k), NEW priority \in Priorities
  PROVE  Exists(Enqueued(work, k, priority)[k])
<1>1. work \in [Keys -> Row] /\ work[k] \in Row
  BY DEF IInv, TypeOK
<1>2. CASE Exists(work[k])
  BY <1>1, <1>2, EnqueuedKeeps
<1>3. CASE ~Exists(work[k])
  <2>1. ASSUME NEW j \in Keys, Predecessor(k, j), Live(work[j]) PROVE FALSE
    <3>1. j[1] = k[1] /\ k[2] < j[2]
      BY <2>1 DEF Predecessor
    <3>2. j[2] <= current[j[1]]
      BY <2>1 DEF IInv, QueueSound, RowSound, Live, Exists
    <3>3. current[k[1]] = k[2] /\ j[2] \in Nat /\ k[2] \in Nat
      BY KeyParts, ConstantsOK DEF Shown, Revisions
    <3> QED BY <3>1, <3>2, <3>3
  <2>2. Enqueued(work, k, priority)[k] = NewRow(priority)
    <3>1. ~ \E j \in Keys : Predecessor(k, j) /\ Live(work[j])
      BY <2>1
    <3> DEFINE table ==
          [j \in Keys |->
            CASE j = k /\ ~Exists(work[j]) -> NewRow(priority)
              [] j = k /\ Live(work[j]) -> Boosted(work[j], priority)
              [] Predecessor(j, k) /\ work[j].state = "pending" -> Superseded(work[j])
              [] OTHER -> work[j]]
    <3>2. Enqueued(work, k, priority) = table
      BY <3>1, Zenon DEF Enqueued
    <3>3. ~(k = k /\ Live(work[k])) /\ ~(Predecessor(k, k) /\ work[k].state = "pending")
      BY <1>3 DEF Exists, Live
    <3>4. table[k] = NewRow(priority)
      BY <1>3, <3>3
    <3> QED BY <3>2, <3>4
  <2> QED BY <2>2 DEF NewRow, Exists
<1> QED BY <1>2, <1>3

-----------------------------------------------------------------------------
(* The steps of a request, seen from the queue *)

\* Whatever a request does, it may put back a dead row or enqueue what it was asked for.
LEMMA QueueSteps ==
  ASSUME NEW c \in Readers, Request(c)
  PROVE  \/ UNCHANGED vars
         \/ Revive(c) /\ work[asked[c].key].state = "dead"
         \/ EnqueueAsked(c)
BY DEF Request, ReadResult, ReadWork, LookAgain, BreakOff, Revive, vars, queue, bounds, worker

LEMMA ReviveKeeps ==
  ASSUME AnswerInv, NEW c \in Readers, Revive(c), NEW k \in Keys, k = asked[c].key,
         work[k].state = "dead"
  PROVE  /\ AnswerInv'
         /\ UNCHANGED wiki
         /\ \A j \in Keys : \/ work'[j] = work[j]
                            \/ work[j].state = "dead" /\ work'[j].state = "pending"
<1>1. CASE UNCHANGED <<revives, work>>
  <2>1. UNCHANGED vars
    BY <1>1 DEF Revive, vars, queue, bounds
  <2> QED BY <1>1, <2>1, NextAnswers DEF vars
<1>2. CASE work' = [work EXCEPT ![k] = Revived(work[k])] /\ revives < MaxRevives
             /\ revives' = revives + 1
  <2>1. TypeOK /\ work[k] \in Row /\ Revived(work[k]) \in Row
    BY RowsWritten, ReaderPriority \in Priorities DEF AnswerInv, IInv, TypeOK, Priorities
  <2>2. UNCHANGED <<wiki, older, answers, active, worker, crashes>>
    BY DEF Revive
  <2>3. revives' \in 0..MaxRevives
    BY <1>2, <2>1, ConstantsOK DEF TypeOK
  <2>4. work' \in [Keys -> Row]
    BY <1>2, <2>1 DEF TypeOK
  <2>5. TypeOK'
    BY <2>1, <2>2, <2>3, <2>4 DEF TypeOK, wiki, answers, worker
  <2>6. \A j \in Keys : \/ work'[j] = work[j]
                        \/ work[j].state = "dead" /\ work'[j].state = "pending"
    BY <1>2, <2>1 DEF TypeOK, Revived
  <2>7. QueueSound'
    BY <2>2, <2>6, WikiStill DEF AnswerInv, IInv, QueueSound, RowSound, Exists
  <2>8. ResultsExist' /\ Snapshots'
    BY <2>2, WikiStill DEF AnswerInv, IInv, Snapshots, SnapshotSound, wiki, worker
  <2>9. AnswersSound'
    BY <2>1, <2>2, AnswersStill DEF AnswerInv, worker
  <2> QED BY <2>2, <2>5, <2>6, <2>7, <2>8, <2>9 DEF AnswerInv, IInv
<1> QED BY <1>1, <1>2 DEF Revive

LEMMA AskedKeeps ==
  ASSUME AnswerInv, NEW c \in Readers, EnqueueAsked(c), NEW k \in Keys, k = asked[c].key,
         k[2] <= current[k[1]]
  PROVE  AnswerInv' /\ UNCHANGED wiki /\ work' = Enqueued(work, k, ReaderPriority)
<1>1. ReaderPriority \in Priorities
  BY DEF Priorities
<1>2. TypeOK /\ work \in [Keys -> Row] /\ \A j \in Keys : RowSound(j, work[j])
  BY DEF AnswerInv, IInv, TypeOK, QueueSound
<1>3. Store(Enqueued(work, k, ReaderPriority)) /\ UNCHANGED <<wiki, answers, active, worker, bounds>>
  BY DEF EnqueueAsked
<1>4. Enqueued(work, k, ReaderPriority) \in [Keys -> Row]
  BY <1>1, <1>2, EnqueuedTable
<1>5. work' \in [Keys -> Row] /\ older' \subseteq Keys \X Keys
  BY <1>3, <1>4, StoredTypes
<1>6. TypeOK'
  BY <1>2, <1>3, <1>5 DEF TypeOK, wiki, answers, worker, bounds
<1>7. \A j \in Keys : RowSound(j, Enqueued(work, k, ReaderPriority)[j])
  BY <1>1, <1>2, EnqueuedSound
<1>8. QueueSound'
  BY <1>3, <1>7, WikiStill DEF Store
<1>9. ResultsExist' /\ Snapshots'
  BY <1>3, WikiStill DEF AnswerInv, IInv, Snapshots, SnapshotSound, wiki, worker
<1>10. AnswersSound'
  BY <1>2, <1>3, AnswersStill DEF AnswerInv, worker
<1> QED BY <1>3, <1>6, <1>8, <1>9, <1>10 DEF AnswerInv, IInv, Store

-----------------------------------------------------------------------------
(* The invariant of requests *)

\* A request asks for a revision that exists.
AskedExist == \A c \in Readers : at[c] # "away" => asked[c].key[2] <= current[asked[c].key[1]]

RequestTypes ==
  /\ at \in [Readers -> {"away", "work", "revive", "look", "enqueue"}]
  /\ asked \in [Readers -> Asked]
  /\ \A c \in Readers : at[c] = "away" => asked[c] = NotAsked
  /\ \A c \in Readers : asked[c].holds => at[c] = "revive" /\ Exists(work[asked[c].key])

ResultInv == AnswerInv /\ RequestTypes /\ AskedExist

LEMMA NotAskedIsAsked == NotAsked \in Asked /\ ~NotAsked.holds
<1>1. \E k \in Keys : TRUE
  <2>1. PICK p \in Pages : TRUE
    BY SomethingToAsk
  <2>2. 1 \in Revisions
    BY ConstantsOK DEF Revisions
  <2>3. <<p, 1>> \in Keys
    BY <2>2, KeyParts
  <2> QED BY <2>3
<1>2. (CHOOSE k \in Keys : TRUE) \in Keys
  BY <1>1
<1> QED BY <1>2 DEF NotAsked, Asked

LEMMA ResultInit == ReadInit => ResultInv
<1> SUFFICES ASSUME ReadInit PROVE ResultInv
  OBVIOUS
<1>1. AnswerInv
  BY InitType, InitSound, InitAnswers DEF ReadInit, AnswerInv, IInv
<1>2. RequestTypes /\ AskedExist
  BY NotAskedIsAsked DEF ReadInit, RequestTypes, AskedExist
<1> QED BY <1>1, <1>2 DEF ResultInv

-----------------------------------------------------------------------------
(* Requests *)

Labels == {"away", "work", "revive", "look", "enqueue"}

\* One request moves on, and no row disappears.
LEMMA OneRequest ==
  ASSUME RequestTypes, AskedExist, NEW c \in Readers, NEW label \in Labels, NEW a \in Asked,
         at' = [at EXCEPT ![c] = label], asked' = [asked EXCEPT ![c] = a],
         label = "away" => a = NotAsked,
         label # "away" => a.key[2] <= current[a.key[1]],
         a.holds => label = "revive" /\ Exists(work[a.key]),
         UNCHANGED current,
         \A j \in Keys : Exists(work[j]) => Exists(work'[j])
  PROVE  RequestTypes' /\ AskedExist'
<1>1. at' \in [Readers -> Labels] /\ asked' \in [Readers -> Asked]
  BY DEF RequestTypes, Labels
<1>2. at'[c] = label /\ asked'[c] = a
  BY DEF RequestTypes
<1>3. \A d \in Readers \ {c} : at'[d] = at[d] /\ asked'[d] = asked[d]
  BY DEF RequestTypes
<1>4. ASSUME NEW d \in Readers
      PROVE  /\ at'[d] = "away" => asked'[d] = NotAsked
             /\ asked'[d].holds => at'[d] = "revive" /\ Exists(work'[asked'[d].key])
             /\ at'[d] # "away" => asked'[d].key[2] <= current'[asked'[d].key[1]]
  <2>1. asked'[d].key \in Keys
    BY <1>1 DEF Asked
  <2>2. CASE d = c
    BY <1>2, <2>1, <2>2
  <2>3. CASE d # c
    BY <1>3, <2>1, <2>3 DEF RequestTypes, AskedExist
  <2> QED BY <2>2, <2>3
<1> QED BY <1>1, <1>4 DEF RequestTypes, AskedExist, Labels

LEMMA LetGo == ASSUME NEW a \in Asked, ~a.holds PROVE [a EXCEPT !.holds = FALSE] = a
BY DEF Asked

\* Rows disappear, and the requests that hold them no longer do.
LEMMA RowsGo ==
  ASSUME RequestTypes, AskedExist, NEW gone \in SUBSET Readers, UNCHANGED at,
         asked' = [c \in Readers |-> IF c \in gone THEN [asked[c] EXCEPT !.holds = FALSE]
                                     ELSE asked[c]],
         \A p \in Pages : current[p] <= current'[p],
         \A p \in Pages : current[p] \in Nat /\ current'[p] \in Nat,
         \A c \in Readers \ gone : Exists(work[asked[c].key]) => Exists(work'[asked[c].key])
  PROVE  RequestTypes' /\ AskedExist'
<1>1. ASSUME NEW c \in Readers
      PROVE  /\ asked'[c] \in Asked /\ asked'[c].key = asked[c].key
             /\ asked[c].key \in Keys
             /\ asked'[c].holds => asked[c].holds /\ c \notin gone
             /\ asked[c] = NotAsked => asked'[c] = NotAsked
  <2>1. asked[c] \in Asked /\ asked[c].key \in Keys
    BY DEF RequestTypes, Asked
  <2>2. CASE c \in gone
    <3>1. asked'[c] = [asked[c] EXCEPT !.holds = FALSE]
      BY <2>2
    <3>2. [asked[c] EXCEPT !.holds = FALSE] \in Asked
      BY <2>1 DEF Asked
    <3>3. /\ [asked[c] EXCEPT !.holds = FALSE].key = asked[c].key
          /\ ~[asked[c] EXCEPT !.holds = FALSE].holds
      BY <2>1 DEF Asked
    <3>4. asked[c] = NotAsked => [asked[c] EXCEPT !.holds = FALSE] = asked[c]
      BY <2>1, NotAskedIsAsked, LetGo
    <3> QED BY <2>1, <3>1, <3>2, <3>3, <3>4
  <2>3. CASE c \notin gone
    BY <2>1, <2>3
  <2> QED BY <2>2, <2>3
<1>2. asked' \in [Readers -> Asked]
  <2>1. DOMAIN asked' = Readers /\ asked' = [c \in Readers |-> asked'[c]]
    OBVIOUS
  <2> QED BY <1>1, <2>1
<1>3. ASSUME NEW c \in Readers, asked'[c].holds
      PROVE  at'[c] = "revive" /\ Exists(work'[asked'[c].key])
  BY <1>1, <1>3 DEF RequestTypes
<1>4. ASSUME NEW c \in Readers, at'[c] # "away"
      PROVE  asked'[c].key[2] <= current'[asked'[c].key[1]]
  <2>1. asked[c].key[2] <= current[asked[c].key[1]]
    BY <1>4 DEF AskedExist
  <2>2. asked[c].key[1] \in Pages /\ asked[c].key[2] \in Nat
    <3>1. asked[c].key \in Keys
      BY <1>1
    <3>2. \A k \in Keys : k[1] \in Pages /\ k[2] \in Nat
      BY KeyParts, ConstantsOK DEF Revisions
    <3> QED BY <3>1, <3>2
  <2>3. current[asked[c].key[1]] <= current'[asked[c].key[1]]
    BY <2>2
  <2>4. current[asked[c].key[1]] \in Nat /\ current'[asked[c].key[1]] \in Nat
    BY <2>2
  <2>5. asked[c].key[2] <= current'[asked[c].key[1]]
    BY <2>1, <2>2, <2>3, <2>4
  <2> QED BY <1>1, <2>5
<1> QED BY <1>1, <1>2, <1>3, <1>4 DEF RequestTypes, AskedExist

LEMMA RequestMoves ==
  ASSUME ResultInv, NEW c \in Readers, Request(c)
  PROVE  RequestTypes' /\ AskedExist'
<1>1. /\ RequestTypes /\ AskedExist /\ AnswerInv /\ asked[c] \in Asked
      /\ asked[c].key \in Keys
  BY DEF ResultInv, RequestTypes, Asked
<1> DEFINE a == asked[c]
<1>2. CASE UNCHANGED vars
  <2>1. UNCHANGED current /\ \A j \in Keys : Exists(work[j]) => Exists(work'[j])
    BY <1>2 DEF vars, wiki, queue
  <2>2. CASE ReadResult(c)
    <3>1. PICK k \in Keys, exact \in BOOLEAN :
            /\ k[2] <= current[k[1]]
            /\ asked' = [asked EXCEPT ![c] =
                 [key |-> k, exact |-> exact, stale |-> ~exact /\ Latest(k[1]) # 0,
                  holds |-> FALSE]]
            /\ at' = [at EXCEPT ![c] = "work"]
      BY <2>2 DEF ReadResult, Goto
    <3> DEFINE b == [key |-> k, exact |-> exact, stale |-> ~exact /\ Latest(k[1]) # 0,
                     holds |-> FALSE]
    <3>2. (~exact /\ Latest(k[1]) # 0) \in BOOLEAN
      OBVIOUS
    <3>3. b \in Asked /\ b.key = k /\ ~b.holds
      BY <3>2 DEF Asked
    <3>4. asked' = [asked EXCEPT ![c] = b]
      BY <3>1
    <3> HIDE DEF b
    <3>5. b.key[2] <= current[b.key[1]]
      BY <3>1, <3>3
    <3>6. "work" \in Labels /\ "work" # "away"
      BY DEF Labels
    <3> QED BY <1>1, <2>1, <3>1, <3>3, <3>4, <3>5, <3>6, OneRequest
  <2>3. CASE at' = [at EXCEPT ![c] = "away"] /\ asked' = [asked EXCEPT ![c] = NotAsked]
    <3>1. "away" \in Labels /\ NotAsked \in Asked /\ ~NotAsked.holds
      BY NotAskedIsAsked DEF Labels
    <3> QED BY <1>1, <2>1, <2>3, <3>1, OneRequest
  <2>4. CASE at[c] = "work" /\ Retryable(work[a.key])
             /\ at' = [at EXCEPT ![c] = "revive"]
             /\ asked' = [asked EXCEPT ![c].holds = TRUE]
    <3> DEFINE b == [asked[c] EXCEPT !.holds = TRUE]
    <3>1. b \in Asked /\ b.key = a.key
      BY <1>1 DEF Asked
    <3>2. asked' = [asked EXCEPT ![c] = b]
      BY <2>4
    <3>3. Exists(work[a.key])
      BY <2>4 DEF Retryable, Exists
    <3>4. a.key[2] <= current[a.key[1]]
      BY <1>1, <2>4 DEF AskedExist
    <3>5. "revive" \in Labels /\ "revive" # "away"
      BY DEF Labels
    <3> HIDE DEF b
    <3> QED BY <1>1, <2>1, <2>4, <3>1, <3>2, <3>3, <3>4, <3>5, OneRequest
  <2>5. CASE /\ at[c] \in {"work", "look"}
             /\ \E label \in {"look", "enqueue"} : at' = [at EXCEPT ![c] = label]
             /\ asked' = asked
    <3>1. PICK label \in {"look", "enqueue"} : at' = [at EXCEPT ![c] = label]
      BY <2>5
    <3>2. asked' = [asked EXCEPT ![c] = a]
      BY <1>1, <2>5 DEF RequestTypes
    <3>3. ~a.holds /\ a.key[2] <= current[a.key[1]]
      BY <1>1, <2>5 DEF RequestTypes, AskedExist
    <3>4. label \in Labels /\ label # "away"
      BY <3>1 DEF Labels
    <3> HIDE DEF a
    <3>5. a \in Asked
      BY <1>1 DEF a
    <3> QED BY <1>1, <2>1, <3>1, <3>2, <3>3, <3>4, <3>5, OneRequest
  <2>6. CASE Revive(c)
    <3> DEFINE b == [asked[c] EXCEPT !.holds = FALSE]
    <3>1. b \in Asked /\ b.key = a.key /\ ~b.holds
      BY <1>1 DEF Asked
    <3>2. asked' = [asked EXCEPT ![c] = b] /\ at' = [at EXCEPT ![c] = "look"] /\ at[c] = "revive"
      BY <2>6 DEF Revive, Goto
    <3>3. a.key[2] <= current[a.key[1]]
      BY <1>1, <3>2 DEF AskedExist
    <3>4. "look" \in Labels /\ "look" # "away"
      BY DEF Labels
    <3> HIDE DEF b
    <3> QED BY <1>1, <2>1, <3>1, <3>2, <3>3, <3>4, OneRequest
  <2>7. CASE EnqueueAsked(c)
    BY <2>3, <2>7 DEF EnqueueAsked, Answer, Leave, Goto
  <2>8. CASE ReadWork(c)
    BY <2>3, <2>4, <2>5, <2>8 DEF ReadWork, Leave, Goto
  <2>9. CASE LookAgain(c)
    BY <2>3, <2>5, <2>9 DEF LookAgain, Answer, Leave, Goto
  <2>10. CASE BreakOff(c)
    BY <2>3, <2>10 DEF BreakOff, Leave, Goto
  <2> QED BY <2>2, <2>6, <2>7, <2>8, <2>9, <2>10 DEF Request
<1>3. CASE Revive(c) /\ work[a.key].state = "dead"
  <2>1. /\ UNCHANGED wiki
        /\ \A j \in Keys : \/ work'[j] = work[j]
                           \/ work[j].state = "dead" /\ work'[j].state = "pending"
    BY <1>1, <1>3, ReviveKeeps
  <2>2. UNCHANGED current /\ \A j \in Keys : Exists(work[j]) => Exists(work'[j])
    BY <2>1 DEF wiki, Exists
  <2> DEFINE b == [asked[c] EXCEPT !.holds = FALSE]
  <2>3. b \in Asked /\ b.key = a.key /\ ~b.holds
    BY <1>1 DEF Asked
  <2>4. asked' = [asked EXCEPT ![c] = b] /\ at' = [at EXCEPT ![c] = "look"] /\ at[c] = "revive"
    BY <1>3 DEF Revive, Goto
  <2>5. a.key[2] <= current[a.key[1]]
    BY <1>1, <2>4 DEF AskedExist
  <2>6. "look" \in Labels /\ "look" # "away"
    BY DEF Labels
  <2> HIDE DEF b
  <2> QED BY <1>1, <2>2, <2>3, <2>4, <2>5, <2>6, OneRequest
<1>4. CASE EnqueueAsked(c)
  <2>1. at[c] = "enqueue" /\ at' = [at EXCEPT ![c] = "away"] /\ asked' = [asked EXCEPT ![c] = NotAsked]
    BY <1>4 DEF EnqueueAsked, Answer, Leave, Goto
  <2>2. a.key[2] <= current[a.key[1]]
    BY <1>1, <2>1 DEF AskedExist
  <2>3. UNCHANGED wiki /\ work' = Enqueued(work, a.key, ReaderPriority)
    BY <1>1, <1>4, <2>2, AskedKeeps
  <2>4. work \in [Keys -> Row] /\ ReaderPriority \in Priorities
    BY <1>1 DEF AnswerInv, IInv, TypeOK, Priorities
  <2>5. UNCHANGED current /\ \A j \in Keys : Exists(work[j]) => Exists(work'[j])
    BY <1>1, <2>3, <2>4, EnqueuedKeeps DEF wiki
  <2>6. "away" \in Labels /\ NotAsked \in Asked /\ ~NotAsked.holds
    BY NotAskedIsAsked DEF Labels
  <2> QED BY <1>1, <2>1, <2>5, <2>6, OneRequest
<1> QED BY <1>2, <1>3, <1>4, QueueSteps

LEMMA CurrentGrows ==
  ASSUME TypeOK, Others
  PROVE  \A p \in Pages : current[p] <= current'[p] /\ current[p] \in Nat /\ current'[p] \in Nat
<1>1. current \in [Pages -> Nat]
  BY ConstantsOK DEF TypeOK, Revisions
<1>2. CASE UNCHANGED current
  BY <1>1, <1>2
<1>3. CASE \E p \in Pages : \E newKind : Edit(p, newKind)
  BY <1>1, <1>3 DEF Edit
<1>4. ASSUME NEW w \in Workers, Claim(w) \/ Process(w) \/ Crash(w) PROVE UNCHANGED current
  BY <1>4 DEF Claim, Process, Crash, FetchPage, SupersedeRejected, SupersedeOutdated,
     EnqueueCurrent, SaveResult, Complete, RegisterActiveWiki, FailPermanent, FailTransient, wiki
<1>5. ASSUME NEW p \in Pages, NEW r \in Revisions,
             \/ RequestPage(p, r) \/ RequestRevision(p, r)
             \/ EnqueueIfStale(p, r) \/ EnqueueIfRevisionChanged(p, r)
      PROVE  UNCHANGED current
  BY <1>5 DEF RequestPage, RequestRevision, EnqueueIfStale, EnqueueIfRevisionChanged,
     ReaderEnqueue, wiki
<1>6. ASSUME NEW k \in Keys, Recompute(k) \/ Elapse(k) \/ Outlive(k) \/ AgeResult(k)
      PROVE  UNCHANGED current
  BY <1>6 DEF Recompute, Elapse, Outlive, AgeResult, wiki
<1>7. ASSUME \/ SelectObsolete \/ DeleteSelected
             \/ \E p \in Pages : ToggleDeleted(p)
      PROVE  UNCHANGED current
  BY <1>7 DEF SelectObsolete, DeleteSelected, ToggleDeleted, wiki
<1> QED BY <1>2, <1>3, <1>4, <1>5, <1>6, <1>7 DEF Others, Next

LEMMA ResultNext == ASSUME ResultInv, [ReadNext]_readVars PROVE ResultInv'
<1>1. AnswerInv /\ IInv /\ TypeOK /\ RequestTypes /\ AskedExist
  BY DEF ResultInv, AnswerInv, IInv
<1>2. ASSUME NEW c \in Readers, Request(c) PROVE ResultInv'
  <2>1. RequestTypes' /\ AskedExist'
    BY <1>2, RequestMoves
  <2>2. asked[c] \in Asked /\ asked[c].key \in Keys
    BY <1>1 DEF RequestTypes, Asked
  <2>3. ASSUME UNCHANGED vars PROVE AnswerInv'
    BY <1>1, <2>3, NextAnswers
  <2>4. ASSUME Revive(c), work[asked[c].key].state = "dead" PROVE AnswerInv'
    BY <1>1, <2>2, <2>4, ReviveKeeps
  <2>5. ASSUME EnqueueAsked(c) PROVE AnswerInv'
    <3>1. asked[c].key[2] <= current[asked[c].key[1]]
      BY <1>1, <2>5 DEF AskedExist, EnqueueAsked
    <3> QED BY <1>1, <2>2, <2>5, <3>1, AskedKeeps
  <2>6. AnswerInv'
    BY <1>2, <2>3, <2>4, <2>5, QueueSteps
  <2> QED BY <2>1, <2>6 DEF ResultInv
<1>3. CASE Others
  <2>1. AnswerInv'
    BY <1>1, <1>3, NextAnswers DEF Others
  <2> DEFINE gone == {c \in Readers : Exists(work[asked[c].key]) /\ ~Exists(work'[asked[c].key])}
  <2>2. /\ UNCHANGED at /\ gone \in SUBSET Readers
        /\ asked' = [c \in Readers |-> IF c \in gone THEN [asked[c] EXCEPT !.holds = FALSE]
                                        ELSE asked[c]]
    BY <1>3 DEF Others
  <2>3. \A c \in Readers \ gone : Exists(work[asked[c].key]) => Exists(work'[asked[c].key])
    OBVIOUS
  <2>4. \A p \in Pages : current[p] <= current'[p] /\ current[p] \in Nat /\ current'[p] \in Nat
    BY <1>1, <1>3, CurrentGrows
  <2> HIDE DEF gone
  <2>5. RequestTypes' /\ AskedExist'
    BY <1>1, <2>2, <2>3, <2>4, RowsGo
  <2> QED BY <2>1, <2>5 DEF ResultInv
<1>4. CASE UNCHANGED readVars
  <2>1. UNCHANGED vars /\ UNCHANGED requests
    BY <1>4 DEF readVars
  <2>2. AnswerInv'
    BY <1>1, <2>1, NextAnswers
  <2>3. RequestTypes' /\ AskedExist'
    BY <1>1, <2>1 DEF vars, wiki, queue, requests, RequestTypes, AskedExist
  <2> QED BY <2>2, <2>3 DEF ResultInv
<1> QED BY <1>2, <1>3, <1>4 DEF ReadNext

LEMMA ResultAlways == ReadSpec => []ResultInv
<1> QED BY ResultInit, ResultNext, PTL DEF ReadSpec

-----------------------------------------------------------------------------
(* The word given with a 202 *)

\* With requests in flight too, a page that is answered stays answered.
LEMMA StillAnswered ==
  ASSUME ResultInv, ResultInv', [ReadNext]_readVars, NEW p \in Pages, Latest(p) # 0
  PROVE  Latest(p)' # 0
<1>1. AnswerInv /\ AnswerInv'
  BY DEF ResultInv
<1>2. CASE [Next]_vars
  BY <1>1, <1>2, AnswerKept
<1>3. CASE \E c \in Readers : Request(c)
  <2>1. result' = result
    BY <1>3 DEF Request, ReadResult, ReadWork, Revive, LookAgain, EnqueueAsked, BreakOff,
       vars, answers
  <2>2. PICK k \in Keys : k[1] = p /\ HasResult(k)
    BY ServedHasResult
  <2>3. HasResult(k)'
    BY <2>1, <2>2 DEF HasResult
  <2> QED BY <1>1, <2>2, <2>3, AnswerStays
<1> QED BY <1>2, <1>3 DEF ReadNext, Others, readVars

\* What a step may do to the row a reader waits for.
LEMMA RowOfPromise ==
  ASSUME ResultInv, [ReadNext]_readVars, NEW k \in Keys, Live(work[k]) \/ work[k].state = "dead",
         ~Exists(work'[k])
  PROVE  /\ promised' = Kept(promised)
         /\ Live(work[k]) => Others
<1>1. AnswerInv /\ IInv /\ TypeOK /\ RequestTypes /\ AskedExist /\ Exists(work[k])
  BY DEF ResultInv, AnswerInv, IInv, Live, Exists
<1>2. ASSUME NEW c \in Readers, Request(c) PROVE FALSE
  <2>1. Exists(work'[k])
    <3>1. asked[c] \in Asked /\ asked[c].key \in Keys
      BY <1>1 DEF RequestTypes, Asked
    <3>2. CASE UNCHANGED vars
      BY <1>1, <3>2 DEF vars, queue
    <3>3. CASE Revive(c) /\ work[asked[c].key].state = "dead"
      <4>1. work'[k] = work[k] \/ work'[k].state = "pending"
        BY <1>1, <3>1, <3>3, ReviveKeeps
      <4> QED BY <1>1, <4>1 DEF Exists
    <3>4. CASE EnqueueAsked(c)
      <4>1. asked[c].key[2] <= current[asked[c].key[1]]
        BY <1>1, <3>4 DEF AskedExist, EnqueueAsked
      <4>2. work' = Enqueued(work, asked[c].key, ReaderPriority)
        BY <1>1, <3>1, <3>4, <4>1, AskedKeeps
      <4>3. work \in [Keys -> Row] /\ ReaderPriority \in Priorities
        BY <1>1 DEF TypeOK, Priorities
      <4> QED BY <1>1, <3>1, <4>2, <4>3, EnqueuedKeeps
    <3> QED BY <1>2, <3>2, <3>3, <3>4, QueueSteps
  <2> QED BY <2>1
<1>3. ASSUME UNCHANGED readVars PROVE FALSE
  BY <1>1, <1>3 DEF readVars, vars, queue
<1>4. CASE Others
  BY <1>4 DEF Others
<1> QED BY <1>2, <1>3, <1>4 DEF ReadNext

\* A promise a step keeps, or makes to the reader it answers.
LEMMA PromiseMade ==
  ASSUME [ReadNext]_readVars, NEW k \in promised', k \notin promised
  PROVE  /\ Shown(k)'
         /\ \E c \in Readers : /\ k = asked[c].key
                               /\ \/ LookAgain(c) /\ Usable(k, asked[c].exact)
                                  \/ EnqueueAsked(c)
<1>1. CASE Others
  BY <1>1 DEF Others, Kept
<1>2. CASE UNCHANGED readVars
  BY <1>2 DEF readVars
<1>3. ASSUME NEW c \in Readers, Request(c)
      PROVE  /\ Shown(k)' /\ k = asked[c].key
             /\ \/ LookAgain(c) /\ Usable(k, asked[c].exact)
                \/ EnqueueAsked(c)
  <2>1. LookAgain(c) \/ EnqueueAsked(c)
    BY <1>3 DEF Request, ReadResult, ReadWork, Revive, BreakOff
  <2>2. Answer(c)
    BY <2>1 DEF LookAgain, EnqueueAsked
  <2>3. k = asked[c].key /\ Shown(k)'
    BY <2>2 DEF Answer, Kept
  <2> QED BY <2>1, <2>3 DEF LookAgain
<1> QED BY <1>1, <1>2, <1>3 DEF ReadNext

\* The revision a request enqueues and the article shows has a row from then on.
LEMMA EnqueuedByAsked ==
  ASSUME ResultInv, NEW c \in Readers, EnqueueAsked(c), NEW k \in Keys, k = asked[c].key,
         Shown(k)'
  PROVE  Exists(work'[k])
<1>1. AnswerInv /\ IInv /\ ReaderPriority \in Priorities
  BY DEF ResultInv, AnswerInv, Priorities
<1>2. k[2] <= current[k[1]]
  BY DEF ResultInv, AskedExist, EnqueueAsked
<1>3. UNCHANGED wiki /\ work' = Enqueued(work, k, ReaderPriority)
  BY <1>1, <1>2, AskedKeeps
<1>4. Shown(k)
  BY <1>3 DEF Shown, wiki
<1> QED BY <1>1, <1>3, <1>4, EnqueuedShown

PromiseInv == promised \subseteq {k \in Keys : Shown(k)} /\ PendingIsKept

LEMMA PromiseShown ==
  ASSUME ResultInv, PromiseInv, [ReadNext]_readVars, NEW k \in promised'
  PROVE  k \in Keys /\ Shown(k)'
<1>1. CASE k \in promised
  <2>1. CASE promised' = Kept(promised)
    BY <1>1, <2>1 DEF Kept, PromiseInv
  <2>2. CASE \E c \in Readers : promised' = Kept(promised \cup
                 (IF asked[c].stale THEN {} ELSE {asked[c].key}))
    BY <1>1, <2>2 DEF Kept, PromiseInv
  <2>3. CASE UNCHANGED wiki
    BY <1>1, <2>3 DEF PromiseInv, Shown, wiki
  <2>4. \/ promised' = Kept(promised) \/ UNCHANGED wiki
        \/ \E c \in Readers : promised' = Kept(promised \cup
                 (IF asked[c].stale THEN {} ELSE {asked[c].key}))
    BY DEF ReadNext, Request, ReadResult, ReadWork, Revive, LookAgain, EnqueueAsked, BreakOff,
       Others, Answer, vars, readVars
  <2> QED BY <2>1, <2>2, <2>3, <2>4
<1>2. CASE k \notin promised
  <2>1. Shown(k)' /\ \E c \in Readers : k = asked[c].key
    BY <1>2, PromiseMade
  <2> QED BY <2>1 DEF ResultInv, RequestTypes, Asked
<1> QED BY <1>1, <1>2

LEMMA PromiseNext ==
  ASSUME ResultInv, ResultInv', PromiseInv, [ReadNext]_readVars
  PROVE  PromiseInv'
<1>1. AnswerInv /\ IInv /\ TypeOK /\ AnswerInv' /\ QueueSound' /\ TypeOK'
  BY DEF ResultInv, AnswerInv, IInv
<1>2. ASSUME NEW k \in promised'
      PROVE  Latest(k[1])' # 0 \/ Live(work'[k]) \/ work'[k].state = "dead"
  <2>1. k \in Keys /\ k[1] \in Pages /\ Shown(k)'
    BY <1>2, PromiseShown, KeyParts
  <2>2. ASSUME Exists(work'[k]) PROVE Live(work'[k]) \/ work'[k].state = "dead"
    <3>1. work'[k].state # "superseded"
      BY <1>1, <2>1 DEF QueueSound, RowSound, Shown
    <3>2. work'[k] \in Row
      BY <1>1, <2>1 DEF TypeOK
    <3> QED BY <2>2, <3>1, <3>2 DEF Row, Exists, Live
  <2>3. ASSUME Latest(k[1]) # 0 PROVE Latest(k[1])' # 0
    BY <2>1, <2>3, StillAnswered
  <2>4. CASE k \in promised /\ Latest(k[1]) = 0 /\ ~Exists(work'[k])
    <3>1. Live(work[k]) \/ work[k].state = "dead"
      BY <2>4 DEF PromiseInv, PendingIsKept
    <3>2. promised' = Kept(promised) /\ (Live(work[k]) => Others)
      BY <2>1, <2>4, <3>1, RowOfPromise
    <3>3. Live(work[k])
      BY <1>2, <2>4, <3>1, <3>2 DEF Kept
    <3>4. [Next]_vars
      BY <3>2, <3>3 DEF Others
    <3> QED BY <1>1, <2>1, <2>4, <3>3, <3>4, DeletedJobAnswered
  <2>5. CASE k \notin promised
    <3>1. PICK c \in Readers : /\ k = asked[c].key
                               /\ \/ LookAgain(c) /\ Usable(k, asked[c].exact)
                                  \/ EnqueueAsked(c)
      BY <2>5, PromiseMade
    <3>2. CASE Usable(k, asked[c].exact)
      <4>1. CASE Fresh(k[1])
        BY <2>3, <4>1 DEF Fresh
      <4>2. CASE HasResult(k) /\ LookAgain(c)
        <5>1. HasResult(k)'
          BY <4>2 DEF LookAgain, vars, answers, HasResult
        <5> QED BY <1>1, <2>1, <5>1, AnswerStays
      <4>3. CASE EnqueueAsked(c)
        BY <2>1, <2>2, <3>1, <4>3, EnqueuedByAsked
      <4> QED BY <3>1, <3>2, <4>1, <4>2, <4>3 DEF Usable, HasResult
    <3>3. CASE EnqueueAsked(c)
      BY <2>1, <2>2, <3>1, <3>3, EnqueuedByAsked
    <3> QED BY <3>1, <3>2, <3>3
  <2> QED BY <2>2, <2>3, <2>4, <2>5
<1>3. promised' \subseteq {k \in Keys : Shown(k)'}
  BY PromiseShown
<1> QED BY <1>2, <1>3 DEF PromiseInv, PendingIsKept

LEMMA PromiseAlways == ReadSpec => []PromiseInv
<1>1. ReadInit => PromiseInv
  BY DEF ReadInit, PromiseInv, PendingIsKept
<1> QED BY <1>1, ResultAlways, PromiseNext, PTL DEF ReadSpec

\* The row enqueued for the text that is shown is superseded by nobody, and deleted
\* by the worker whose result is saved, or dead, which ends the promise.
THEOREM WordIsKept == ReadSpec => []PendingIsKept
<1>1. PromiseInv => PendingIsKept
  BY DEF PromiseInv
<1> QED BY <1>1, PromiseAlways, PTL

\* Every variable keeps its type, and a request that is about to revive holds a row.
THEOREM ReadTypes == ReadSpec => []ReadTypeOK
<1>1. ResultInv /\ PromiseInv => ReadTypeOK
  BY DEF ResultInv, PromiseInv, AnswerInv, IInv, RequestTypes, ReadTypeOK
<1> QED BY <1>1, ResultAlways, PromiseAlways, PTL

-----------------------------------------------------------------------------
(* Leases *)

\* The workers' steps on the row of a lease, and on no other.
LEMMA WorkerTakes ==
  ASSUME TypeOK, NEW w \in Workers, Claim(w) \/ Process(w) \/ Crash(w),
         NEW k \in Keys, work[k].state = "leased", work[k].age = 0, work'[k].state # "leased"
  PROVE  pc'[w] # pc[w] /\ lease[w].key = k
<1>1. work \in [Keys -> Row] /\ pc \in [Workers -> Phases]
  BY DEF TypeOK
<1>2. ASSUME Claim(w) PROVE FALSE
  <2>1. PICK j \in Keys : Claimable(work[j]) /\ work' = [work EXCEPT ![j] = Leased(work[j])]
    BY <1>2 DEF Claim, NextInLine
  <2>2. j # k
    BY <2>1 DEF Claimable
  <2> QED BY <1>1, <2>1, <2>2
<1>3. ASSUME FetchPage(w) \/ SaveResult(w) \/ RegisterActiveWiki(w) \/ Crash(w) PROVE FALSE
  BY <1>3 DEF FetchPage, SaveResult, RegisterActiveWiki, Crash, queue
<1>4. ASSUME \/ SupersedeRejected(w) \/ SupersedeOutdated(w)
             \/ FailPermanent(w) \/ FailTransient(w)
      PROVE  pc'[w] # pc[w] /\ lease[w].key = k
  <2>1. pc'[w] # pc[w]
    BY <1>1, <1>4 DEF SupersedeRejected, SupersedeOutdated, FailPermanent, FailTransient, GoIdle
  <2>2. \E row : WriteRow(w, row)
    BY <1>4 DEF SupersedeRejected, SupersedeOutdated, FailPermanent, FailTransient
  <2>3. lease[w].key = k
    BY <1>1, <2>2 DEF WriteRow
  <2> QED BY <2>1, <2>3
<1>5. ASSUME Complete(w) PROVE pc'[w] # pc[w] /\ lease[w].key = k
  <2>1. pc'[w] # pc[w]
    BY <1>1, <1>5 DEF Complete
  <2>2. lease[w].key = k
    BY <1>1, <1>5 DEF Complete, Store, queue
  <2> QED BY <2>1, <2>2
<1>6. ASSUME EnqueueCurrent(w) PROVE FALSE
  <2>1. CASE UNCHANGED queue
    BY <2>1 DEF queue
  <2>2. CASE Store(Enqueued(work, <<lease[w].key[1], lease[w].seen>>, lease[w].priority))
    <3>1. lease[w].priority \in Priorities
      BY <1>6, LeaseHeld DEF EnqueueCurrent
    <3>2. \/ work'[k] = work[k] \/ work'[k] = Boosted(work[k], lease[w].priority)
          \/ work'[k] = NewRow(lease[w].priority) /\ ~Exists(work[k])
      BY <2>2 DEF Store, Enqueued
    <3>3. Boosted(work[k], lease[w].priority).state = work[k].state
      BY <1>1 DEF Boosted, Row
    <3> QED BY <3>2, <3>3 DEF Exists
  <2> QED BY <1>6, <2>1, <2>2 DEF EnqueueCurrent
<1> QED BY <1>2, <1>3, <1>4, <1>5, <1>6 DEF Process

\* Nobody outside takes a row from the worker that has it.
LEMMA OutsideLeaves ==
  ASSUME TypeOK, NEW p \in Pages, NEW r \in Revisions, NEW j \in Keys, NEW k \in Keys,
         \/ RequestPage(p, r) \/ RequestRevision(p, r)
         \/ EnqueueIfStale(p, r) \/ EnqueueIfRevisionChanged(p, r)
         \/ Recompute(j) \/ Elapse(j) \/ Outlive(j) \/ AgeResult(j) \/ ToggleDeleted(p)
         \/ \E newKind \in {"article", "redirect", "elsewhere"} : Edit(p, newKind),
         work[k].state = "leased"
  PROVE  work'[k].state = "leased"
<1>1. work \in [Keys -> Row] /\ <<p, r>> \in Keys
  BY KeyParts DEF TypeOK
<1>2. ASSUME NEW i \in Keys, ReaderEnqueue(i) PROVE work'[k].state = "leased"
  <2> DEFINE table == IF Retryable(work[i]) THEN [work EXCEPT ![i] = Revived(@)] ELSE work
  <2>1. table \in [Keys -> Row] /\ ReaderPriority \in Priorities
    BY <1>1, RowsWritten, ReaderPriority \in Priorities DEF Priorities
  <2>2. table[k].state = "leased"
    BY <1>1 DEF Retryable
  <2>3. work' = Enqueued(table, i, ReaderPriority)
    BY <1>2 DEF ReaderEnqueue, Store
  <2> HIDE DEF table
  <2> QED BY <2>1, <2>2, <2>3, EnqueuedKeeps
<1>3. CASE EnqueueIfStale(p, r) \/ EnqueueIfRevisionChanged(p, r) \/ Recompute(j)
  <2>1. PICK i \in Keys, priority \in Priorities : work' = Enqueued(work, i, priority)
    BY <1>1, <1>3 DEF EnqueueIfStale, EnqueueIfRevisionChanged, Recompute, Store, Priorities
  <2> QED BY <1>1, <2>1, EnqueuedKeeps
<1>4. CASE Elapse(j) \/ Outlive(j)
  <2>1. PICK age \in 1..2 : work' = [work EXCEPT ![j] = [work[j] EXCEPT !.age = age]]
    BY <1>4 DEF Elapse, Outlive
  <2>2. work[j] \in Row
    BY <1>1
  <2>3. [work[j] EXCEPT !.age = age].state = work[j].state
    BY <2>2 DEF Row
  <2> QED BY <1>1, <2>1, <2>3
<1>5. CASE \/ AgeResult(j) \/ ToggleDeleted(p)
           \/ \E newKind \in {"article", "redirect", "elsewhere"} : Edit(p, newKind)
  BY <1>5 DEF AgeResult, ToggleDeleted, Edit, queue
<1> QED BY <1>1, <1>2, <1>3, <1>4, <1>5 DEF RequestPage, RequestRevision

LEMMA LeaseTaken ==
  ASSUME ResultInv, [ReadNext]_readVars, NEW k \in Keys,
         work[k].state = "leased", work[k].age = 0, work'[k].state # "leased"
  PROVE  \E w \in Workers : pc'[w] # pc[w] /\ lease[w].key = k
<1>1. AnswerInv /\ TypeOK /\ work \in [Keys -> Row]
  BY DEF ResultInv, AnswerInv, IInv, TypeOK
<1>2. ASSUME NEW c \in Readers, Request(c) PROVE FALSE
  <2>1. asked[c].key \in Keys
    BY DEF ResultInv, RequestTypes, Asked
  <2>2. CASE UNCHANGED vars
    BY <2>2 DEF vars, queue
  <2>3. CASE Revive(c) /\ work[asked[c].key].state = "dead"
    BY <1>1, <2>1, <2>3, ReviveKeeps
  <2>4. CASE EnqueueAsked(c)
    <3>1. asked[c].key[2] <= current[asked[c].key[1]]
      BY <2>4 DEF ResultInv, AskedExist, EnqueueAsked
    <3>2. work' = Enqueued(work, asked[c].key, ReaderPriority) /\ ReaderPriority \in Priorities
      BY <1>1, <2>1, <2>4, <3>1, AskedKeeps DEF Priorities
    <3> QED BY <1>1, <2>1, <3>2, EnqueuedKeeps
  <2> QED BY <1>2, <2>2, <2>3, <2>4, QueueSteps
<1>3. ASSUME SelectObsolete \/ DeleteSelected \/ UNCHANGED readVars PROVE FALSE
  BY <1>3 DEF SelectObsolete, DeleteSelected, Store, readVars, vars, queue
<1>4. ASSUME Others PROVE \E w \in Workers : pc'[w] # pc[w] /\ lease[w].key = k
  <2>1. CASE \E w \in Workers : Claim(w) \/ Process(w) \/ Crash(w)
    BY <1>1, <2>1, WorkerTakes
  <2>2. ASSUME ~ \E w \in Workers : Claim(w) \/ Process(w) \/ Crash(w) PROVE FALSE
    <3>1. k[1] \in Pages /\ k[2] \in Revisions
      BY KeyParts
    <3> QED BY <1>1, <1>3, <1>4, <2>2, <3>1, OutsideLeaves DEF Others, Next
  <2> QED BY <2>1, <2>2
<1> QED BY <1>2, <1>3, <1>4 DEF ReadNext

\* A revive finds no dead row, an enqueue only raises the priority, and cleanup
\* deletes no row that is leased, however late any of them comes: only a worker
\* that has claimed the row itself takes it out of a lease that runs.
THEOREM LeasesAreRespected == ReadSpec => LeaseIsRespected
<1>1. ResultInv /\ [ReadNext]_readVars
        => [\A k \in Keys :
              work[k].state = "leased" /\ work[k].age = 0 /\ work'[k].state # "leased"
              => \E w \in Workers : pc'[w] # pc[w] /\ lease[w].key = k]_readVars
  BY LeaseTaken
<1> QED BY <1>1, ResultAlways, PTL DEF ReadSpec, LeaseIsRespected
=============================================================================
