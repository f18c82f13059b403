------------------------------ MODULE ReadPath ------------------------------
(***************************************************************************)
(* What WorkQueue takes as one step, taken apart: a request that finds no  *)
(* usable answer (get_result or get_latest_result, get_work, revive, the   *)
(* second look of enqueue, its transaction).  What a step read may be out  *)
(* of date when the next one acts on it.                                   *)
(***************************************************************************)
EXTENDS WorkQueue

CONSTANT Readers  \* requests in flight at the same time

ASSUME SomethingToAsk == Pages # {}

VARIABLES
  at,        \* at[c]: the next call of request c
  asked,     \* asked[c]: what it asks for, and what it has read
  promised   \* history: revisions a reader was told "pending" about

requests == <<at, asked>>
readVars == <<vars, requests, promised>>

\* exact: v1.  stale: v2 holds an answer that is too old.  holds: the id of the
\* row get_work returned still names a row.
Asked == [key : Keys, exact : BOOLEAN, stale : BOOLEAN, holds : BOOLEAN]
NotAsked == [key |-> CHOOSE k \in Keys : TRUE, exact |-> FALSE, stale |-> FALSE, holds |-> FALSE]

ReadInit ==
  /\ Init
  /\ at = [c \in Readers |-> "away"]
  /\ asked = [c \in Readers |-> NotAsked]
  /\ promised = {}

-----------------------------------------------------------------------------
(* History *)

\* The article shows this revision.
Shown(k) == current[k[1]] = k[2] /\ kind[k[1]] = "article"

\* A promise about a revision ends with the revision, or with the dead row that
\* stood for it.
Kept(keys) ==
  {k \in keys : Shown(k)' /\ ~(work[k].state = "dead" /\ ~Exists(work'[k]))}

-----------------------------------------------------------------------------
(* A request *)

Goto(c, label) == at' = [at EXCEPT ![c] = label]

\* Mutant: what a request has read outlives it.
LeaveHolding(c) ==
  /\ Goto(c, "away")
  /\ UNCHANGED asked

Leave(c) ==
  /\ Goto(c, "away")
  /\ asked' = [asked EXCEPT ![c] = NotAsked]

\* The 202, or the stale answer with a 200.
Answer(c) ==
  /\ Leave(c)
  /\ promised' = Kept(promised \cup (IF asked[c].stale THEN {} ELSE {asked[c].key}))

\* What a version serves: the answer of that revision, or the newest while fresh.
Usable(k, exact) == IF exact THEN result[k] # NoResult ELSE Fresh(k[1])

\* The first read.  A usable answer is served and changes nothing.
ReadResult(c) ==
  /\ at[c] = "away"
  /\ \E k \in Keys, exact \in BOOLEAN :
       /\ k[2] <= current[k[1]]
       /\ ~Usable(k, exact)
       /\ asked' = [asked EXCEPT ![c] =
            [key |-> k, exact |-> exact, stale |-> ~exact /\ Latest(k[1]) # 0,
             holds |-> FALSE]]
  /\ Goto(c, "work")
  /\ UNCHANGED <<vars, promised>>

\* get_work: a dead row is revived, or ends in a 503 when nothing else is at hand.
ReadWork(c) ==
  /\ at[c] = "work"
  /\ LET row == work[asked[c].key]
     IN CASE Retryable(row) ->
               /\ Goto(c, "revive")
               /\ asked' = [asked EXCEPT ![c].holds = TRUE]
          [] row.state = "dead" /\ ~Retryable(row) /\ ~asked[c].stale -> Leave(c)
          [] OTHER -> Goto(c, "look") /\ UNCHANGED asked
  /\ UNCHANGED <<vars, promised>>

\* Mutant: the UPDATE does not look at the state of the row.
ReviveAnyState(c) ==
  /\ at[c] = "revive"
  /\ LET k == asked[c].key
     IN IF asked[c].holds
        THEN /\ revives < MaxRevives
             /\ revives' = revives + 1
             /\ work' = [work EXCEPT ![k] = Revived(@)]
        ELSE UNCHANGED <<revives, work>>
  /\ Goto(c, "look")
  /\ asked' = [asked EXCEPT ![c].holds = FALSE]
  /\ UNCHANGED <<wiki, older, answers, active, worker, crashes, promised>>

\* The UPDATE by id: it finds the row as it is by now, which may be dead for good.
Revive(c) ==
  /\ at[c] = "revive"
  /\ LET k == asked[c].key
     IN IF asked[c].holds /\ work[k].state = "dead"
        THEN /\ revives < MaxRevives
             /\ revives' = revives + 1
             /\ work' = [work EXCEPT ![k] = Revived(@)]
        ELSE UNCHANGED <<revives, work>>
  /\ Goto(c, "look")
  /\ asked' = [asked EXCEPT ![c].holds = FALSE]
  /\ UNCHANGED <<wiki, older, answers, active, worker, crashes, promised>>

\* enqueue and enqueue_if_stale look for an answer of their own first.
LookAgain(c) ==
  /\ at[c] = "look"
  /\ UNCHANGED vars
  /\ IF Usable(asked[c].key, asked[c].exact) THEN Answer(c)
     ELSE Goto(c, "enqueue") /\ UNCHANGED <<asked, promised>>

\* The transaction of enqueue.
EnqueueAsked(c) ==
  /\ at[c] = "enqueue"
  /\ Store(Enqueued(work, asked[c].key, ReaderPriority))
  /\ UNCHANGED <<wiki, answers, active, worker, bounds>>
  /\ Answer(c)

\* The database fails, or the web worker goes.
BreakOff(c) ==
  /\ at[c] # "away"
  /\ Leave(c)
  /\ UNCHANGED <<vars, promised>>

Request(c) ==
  \/ ReadResult(c) \/ ReadWork(c) \/ Revive(c) \/ LookAgain(c) \/ EnqueueAsked(c)
  \/ BreakOff(c)

-----------------------------------------------------------------------------
\* Everybody else, as in WorkQueue.
Others ==
  /\ Next
  /\ promised' = Kept(promised)
  /\ asked' = [c \in Readers |-> IF Exists(work[asked[c].key]) /\ ~Exists(work'[asked[c].key])
                 THEN [asked[c] EXCEPT !.holds = FALSE] ELSE asked[c]]
  /\ UNCHANGED at

ReadNext == (\E c \in Readers : Request(c)) \/ Others

ReadSpec == ReadInit /\ [][ReadNext]_readVars

-----------------------------------------------------------------------------
(* Properties *)

\* Every variable has its type, a resting request has read nothing, and an id a
\* request is about to revive names a row.
ReadTypeOK ==
  /\ TypeOK
  /\ at \in [Readers -> {"away", "work", "revive", "look", "enqueue"}]
  /\ asked \in [Readers -> Asked]
  /\ \A c \in Readers : at[c] = "away" => asked[c] = NotAsked
  /\ \A c \in Readers : asked[c].holds => at[c] = "revive" /\ Exists(work[asked[c].key])
  /\ promised \subseteq {k \in Keys : Shown(k)}

\* A 202 is not an empty word.  From the moment a reader was told "pending" about
\* the revision the article shows, until it is edited, there is an answer to serve
\* or a row to claim or to report dead: whatever was read before the enqueue, and
\* whoever supersedes, completes, requeues and cleans up afterwards.
PendingIsKept ==
  \A k \in promised :
    Latest(k[1]) # 0 \/ Live(work[k]) \/ work[k].state = "dead"

\* A job under a lease that has not run out is not taken from its worker by a
\* reader that revives the dead row it saw a while ago, nor by an enqueue, nor by
\* cleanup: otherwise two replicas pay for one page.  Another worker may do it,
\* one that claimed the row before its own lease ran out and now completes,
\* supersedes or fails it by id.
LeaseIsRespected ==
  [][\A k \in Keys :
       work[k].state = "leased" /\ work[k].age = 0 /\ work'[k].state # "leased"
       => \E w \in Workers : pc'[w] # pc[w] /\ lease[w].key = k]_readVars
=============================================================================
