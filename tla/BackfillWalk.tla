---------------------------- MODULE BackfillWalk ----------------------------
(***************************************************************************)
(* The hourly backfill of one wiki: what the demand ranking leaves of its  *)
(* batches goes to a walk down the articles by size on the replica, or,    *)
(* without credentials for one, all of them to a walk by title on the      *)
(* Action API.  Each walk resumes from a cursor of its own, while articles *)
(* are created, deleted and resized under it.                              *)
(***************************************************************************)
EXTENDS Naturals, FiniteSets

CONSTANTS
  Pages,        \* page ids, numbers, in the order of their titles
  MaxLength,    \* BOUND: sizes
  BatchSize,    \* BACKFILL_BATCH_SIZE
  TitleLimit,   \* what the Action API returns at most
  Batches,      \* --batches
  MaxEdits,     \* BOUND: changes of articles, of the ranking and of the deployment
  MaxFailures,  \* BOUND: runs that die
  MaxRestarts   \* BOUND: runs with --restart

ASSUME BackfillConstants ==
  /\ Pages \subseteq Nat \ {0} /\ IsFiniteSet(Pages)
  /\ MaxLength \in Nat \ {0}
  /\ BatchSize \in Nat \ {0} /\ TitleLimit \in Nat \ {0} /\ Batches \in Nat \ {0}
  /\ MaxEdits \in Nat /\ MaxFailures \in Nat /\ MaxRestarts \in Nat

Walks == {"length", "title"}

VARIABLES
  length,       \* length[p]: page_len, 0 when p is no article
  ranking,      \* whole batches the demand ranking has left
  credentials,  \* the deployment has replica credentials
  reachable,    \* the replica answers
  cursors,      \* cursors[w]: app_state of walk w
  run,          \* the run in progress
  steady,       \* history: steady[w]: articles in their place since w began
  times,        \* history: times[w][p]: enqueues of p since w began
  edits, failures, restarts

world == <<length, ranking, credentials, reachable, edits>>
walk == <<cursors, steady, times>>
vars == <<world, walk, run, failures, restarts>>

Articles == {p \in Pages : length[p] > 0}

\* A position in either order; the walk by title only looks at the page.
Start == [at |-> "start", length |-> 0, page |-> 0]
Complete == [at |-> "complete", length |-> 0, page |-> 0]
At(p, n) == [at |-> "mid", length |-> n, page |-> p]

\* Mutant: a tie at the end of a batch is taken to be behind it.
BelowLength(c, p) == length[p] < c.length

\* Mutant: the last page of a batch is the first of the next one.
BelowOrAt(c, p) == length[p] < c.length \/ (length[p] = c.length /\ p <= c.page)

\* NEXT_BATCH_SQL: strictly below the last page in (page_len, page_id).
Below(c, p) == length[p] < c.length \/ (length[p] = c.length /\ p < c.page)

\* What walk w has still to see.  gapcontinue names the page to go on with.
Ahead(w, c, p) ==
  CASE c.at = "start" -> TRUE
    [] c.at = "complete" -> FALSE
    [] c.at = "mid" /\ w = "length" -> Below(c, p)
    [] c.at = "mid" /\ w = "title" -> p >= c.page

\* page_len DESC, page_id DESC; titles ascending.
Before(w, p, q) ==
  IF w = "title" THEN p < q
  ELSE length[p] > length[q] \/ (length[p] = length[q] /\ p > q)

First(w, S, n) == {p \in S : Cardinality({q \in S : Before(w, q, p)}) < n}

NoRun == [at |-> "idle", walk |-> "length", left |-> 0, pages |-> {}, next |-> Start]

Init ==
  /\ length \in [Pages -> 0..MaxLength]
  /\ ranking \in 0..1
  /\ credentials = TRUE
  /\ reachable = TRUE
  /\ cursors = [w \in Walks |-> Start]
  /\ run = NoRun
  /\ steady = [w \in Walks |-> Articles]
  /\ times = [w \in Walks |-> [p \in Pages |-> 0]]
  /\ edits = 0
  /\ failures = 0
  /\ restarts = 0

-----------------------------------------------------------------------------
(* The world *)

Edit ==
  /\ edits < MaxEdits
  /\ edits' = edits + 1
  /\ UNCHANGED <<cursors, times, run, failures, restarts>>

\* An article changes its size, is created, deleted or becomes a redirect.
Resize(p) ==
  /\ \E n \in (0..MaxLength) \ {length[p]} :
       /\ length' = [length EXCEPT ![p] = n]
       /\ steady' = [steady EXCEPT
            !["length"] = @ \ {p},
            !["title"] = IF n = 0 THEN @ \ {p} ELSE @]
  /\ UNCHANGED <<ranking, credentials, reachable>>
  /\ Edit

\* The daily job fills the ranking, the replica comes and goes, so do credentials.
Shift ==
  /\ \/ ranking' = ranking + 1 /\ UNCHANGED <<credentials, reachable>>
     \/ reachable' = ~reachable /\ UNCHANGED <<ranking, credentials>>
     \/ credentials' = ~credentials /\ UNCHANGED <<ranking, reachable>>
  /\ UNCHANGED <<length, steady>>
  /\ Edit

-----------------------------------------------------------------------------
(* A run *)

Enter(w, left) ==
  IF cursors[w] = Complete THEN NoRun
  ELSE [NoRun EXCEPT !.at = "fetch", !.walk = w, !.left = left, !.next = cursors[w]]

\* backfill_wiki
StartRun ==
  /\ run.at = "idle"
  /\ run' = IF credentials THEN [NoRun EXCEPT !.at = "demand", !.left = Batches]
            ELSE Enter("title", Batches)
  /\ UNCHANGED <<world, walk, failures, restarts>>

\* main --restart forgets both cursors before the run.
Restart ==
  /\ run.at = "idle" /\ restarts < MaxRestarts
  /\ restarts' = restarts + 1
  /\ cursors' = [w \in Walks |-> Start]
  /\ steady' = [w \in Walks |-> Articles]
  /\ times' = [w \in Walks |-> [p \in Pages |-> 0]]
  /\ UNCHANGED <<world, run, failures>>

\* A batch of the demand ranking; Demand has its steps.
DemandBatch ==
  /\ run.at = "demand" /\ run.left > 0 /\ ranking > 0
  /\ reachable
  /\ ranking' = ranking - 1
  /\ run' = [run EXCEPT !.left = @ - 1]
  /\ UNCHANGED <<length, credentials, reachable, edits, walk, failures, restarts>>

\* Mutant: the size walk has its turn in any case.
LeaveDemandAnyway ==
  /\ run.at = "demand" /\ (run.left = 0 \/ ranking = 0)
  /\ run' = Enter("length", run.left)
  /\ UNCHANGED <<world, walk, failures, restarts>>

\* What is left of the batches goes to the size walk.
LeaveDemand ==
  /\ run.at = "demand" /\ (run.left = 0 \/ ranking = 0)
  /\ run' = IF run.left = 0 THEN NoRun ELSE Enter("length", run.left)
  /\ UNCHANGED <<world, walk, failures, restarts>>

\* pages_by_descending_length: only a short batch ends the walk.
FetchByLength ==
  LET batch == First("length", {p \in Articles : Ahead("length", run.next, p)}, BatchSize)
      last == CHOOSE p \in batch : \A q \in batch \ {p} : Before("length", q, p)
  IN /\ run.at = "fetch" /\ run.walk = "length"
     /\ reachable
     /\ run' = [run EXCEPT !.at = "enqueue", !.pages = batch,
                  !.next = IF Cardinality(batch) < BatchSize THEN Complete
                           ELSE At(last, length[last])]
     /\ UNCHANGED <<world, walk, failures, restarts>>

\* all_pages_batch: the walk ends when there is nothing to go on with.
FetchByTitle ==
  LET ahead == {p \in Articles : Ahead("title", run.next, p)}
      batch == First("title", ahead, TitleLimit)
      rest == ahead \ batch
      first == CHOOSE p \in rest : \A q \in rest \ {p} : Before("title", p, q)
  IN /\ run.at = "fetch" /\ run.walk = "title"
     /\ run' = [run EXCEPT !.at = "enqueue", !.pages = batch,
                  !.next = IF rest = {} THEN Complete ELSE At(first, 0)]
     /\ UNCHANGED <<world, walk, failures, restarts>>

EnqueuePage ==
  /\ run.at = "enqueue"
  /\ \E p \in run.pages :
       /\ times' = [times EXCEPT ![run.walk][p] = @ + 1]
       /\ run' = [run EXCEPT !.pages = @ \ {p}]
  /\ UNCHANGED <<world, cursors, steady, failures, restarts>>

\* Mutant: the cursor is saved before the batch is in the queue.
SaveCursorFirst ==
  /\ run.at = "enqueue"
  /\ cursors' = [cursors EXCEPT ![run.walk] = run.next]
  /\ run' = IF run.pages # {} THEN run
            ELSE IF run.next = Complete \/ run.left = 1 THEN NoRun
            ELSE [run EXCEPT !.at = "fetch", !.left = @ - 1]
  /\ UNCHANGED <<world, steady, times, failures, restarts>>

\* Mutant: every run begins where the one before it did.
SaveCursorAtEnd ==
  /\ run.at = "enqueue" /\ run.pages = {}
  /\ cursors' = IF run.next = Complete THEN [cursors EXCEPT ![run.walk] = run.next] ELSE cursors
  /\ run' = IF run.next = Complete \/ run.left = 1 THEN NoRun
            ELSE [run EXCEPT !.at = "fetch", !.left = @ - 1]
  /\ UNCHANGED <<world, steady, times, failures, restarts>>

\* Mutant: the size walk does not record that it is at its end.
SaveCursorUnlessDone ==
  /\ run.at = "enqueue" /\ run.pages = {}
  /\ cursors' = IF run.walk = "length" /\ run.next = Complete THEN cursors
                ELSE [cursors EXCEPT ![run.walk] = run.next]
  /\ run' = IF run.next = Complete \/ run.left = 1 THEN NoRun
            ELSE [run EXCEPT !.at = "fetch", !.left = @ - 1]
  /\ UNCHANGED <<world, steady, times, failures, restarts>>

\* The cursor is saved after each batch, and the next batch follows.
SaveCursor ==
  /\ run.at = "enqueue" /\ run.pages = {}
  /\ cursors' = [cursors EXCEPT ![run.walk] = run.next]
  /\ run' = IF run.next = Complete \/ run.left = 1 THEN NoRun
            ELSE [run EXCEPT !.at = "fetch", !.left = @ - 1]
  /\ UNCHANGED <<world, steady, times, failures, restarts>>

\* The replica does not answer: the run ends, and the next one tries again.
LoseReplica ==
  /\ ~reachable
  /\ \/ run.at = "demand" /\ run.left > 0 /\ ranking > 0
     \/ run.at = "fetch" /\ run.walk = "length"
  /\ run' = NoRun
  /\ UNCHANGED <<world, walk, failures, restarts>>

FailRun ==
  /\ run.at # "idle"
  /\ failures < MaxFailures
  /\ failures' = failures + 1
  /\ run' = NoRun
  /\ UNCHANGED <<world, walk, restarts>>

-----------------------------------------------------------------------------
Run == StartRun \/ DemandBatch \/ LeaveDemand \/ FetchByLength \/ FetchByTitle
       \/ EnqueuePage \/ SaveCursor \/ LoseReplica

Next ==
  \/ \E p \in Pages : Resize(p)
  \/ Shift
  \/ Run \/ Restart \/ FailRun

Spec == Init /\ [][Next]_vars

\* The job runs every hour.
FairSpec == Spec /\ WF_vars(Run)

-----------------------------------------------------------------------------
(* Properties *)

Positions == [at : {"start", "mid", "complete"}, length : 0..MaxLength, page : Pages \cup {0}]
Runs == [at : {"idle", "demand", "fetch", "enqueue"}, walk : Walks, left : 0..Batches,
         pages : SUBSET Pages, next : Positions]

TypeOK ==
  /\ length \in [Pages -> 0..MaxLength]
  /\ ranking \in Nat
  /\ credentials \in BOOLEAN /\ reachable \in BOOLEAN
  /\ cursors \in [Walks -> Positions]
  /\ \A w \in Walks : cursors[w].at = "mid" => cursors[w].page # 0
  /\ run \in Runs
  /\ run.at \in {"fetch", "enqueue"} => run.left > 0
  /\ steady \in [Walks -> SUBSET Pages]
  /\ times \in [Walks -> [Pages -> Nat]]
  /\ edits \in 0..MaxEdits /\ failures \in 0..MaxFailures /\ restarts \in 0..MaxRestarts

\* No walk leaves out an article that stayed where it was: what its cursor has
\* passed was enqueued, through ties, full last batches, runs that died and other
\* articles coming and going.
WalkSkipsNothing ==
  \A w \in Walks : \A p \in steady[w] : Ahead(w, cursors[w], p) \/ times[w][p] > 0

\* Nor does it repeat one, except for a run that died or lost the replica.
RepeatedOnlyAfterFailure ==
  \A w \in Walks : \A p \in steady[w] : times[w][p] <= 1 + failures

\* Position d lies further along walk w than c.
Past(w, c, d) ==
  \/ c # Complete /\ d = Complete
  \/ c.at = "start" /\ d.at = "mid"
  \/ /\ c.at = "mid" /\ d.at = "mid"
     /\ IF w = "title" THEN d.page > c.page
        ELSE d.length < c.length \/ (d.length = c.length /\ d.page < c.page)

\* A batch that is queued moves its cursor on, whatever happened to the articles
\* since it was fetched, and only --restart moves a cursor back.
EveryBatchMovesOn ==
  [][\A w \in Walks :
       /\ cursors'[w] # cursors[w] =>
            restarts' # restarts \/ Past(w, cursors[w], cursors'[w])
       /\ run.at = "enqueue" /\ run.walk = w /\ run'.at # "enqueue" =>
            failures' # failures \/ Past(w, cursors[w], cursors'[w])]_vars

\* The size walk comes to its end once the replica stays: a ranking that is not
\* filled up any more leaves it its batches, and a run that dies costs one batch.
SizeWalkEnds ==
  <>[](credentials /\ reachable) => <>(cursors["length"] = Complete)
=============================================================================
