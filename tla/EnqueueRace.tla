---------------------------- MODULE EnqueueRace ----------------------------
(***************************************************************************)
(* Inside Repository.enqueue: concurrent calls for one page, statement by  *)
(* statement, against the workers.  WorkQueue takes the method as one      *)
(* step; here its reads and its writes are apart.                          *)
(*                                                                         *)
(* ToolsDB runs InnoDB at REPEATABLE READ: the two SELECTs see one         *)
(* snapshot, while INSERT and UPDATE act on what is committed when they    *)
(* get their row locks, which they keep to the commit.  So a transaction   *)
(* is two steps, the snapshot and the commit.                              *)
(***************************************************************************)
EXTENDS Naturals

CONSTANTS
  Callers,      \* concurrent calls of enqueue, one call each
  MaxRevision,  \* BOUND: revisions of the page
  Priorities    \* priorities passed

Revisions == 1..MaxRevision

ASSUME EnqueueConstants ==
  /\ MaxRevision \in Nat \ {0}
  /\ Priorities \subseteq Nat \ {0}

VARIABLES
  row,       \* row[r]: the row of work_queue for revision r
  lastId,    \* AUTO_INCREMENT of work_queue
  answered,  \* revisions with a row in attribution_results
  leases,    \* leases[r]: ids of the rows of r that some worker was given
  ask,       \* ask[c]: the arguments of the call
  at,        \* at[c]: where call c stands
  seen       \* seen[c]: the row its SELECT returned

table == <<row, lastId, answered>>
vars == <<table, leases, ask, at, seen>>

NoRow == [id |-> 0, state |-> "none", priority |-> 0]
Row == [id : Nat, state : {"none", "pending", "leased", "dead", "superseded"},
        priority : Priorities \cup {0}]
Live(x) == x.state \in {"pending", "leased"}
Exists(x) == x.state # "none"

Init ==
  /\ row = [r \in Revisions |-> NoRow]
  /\ lastId = 0
  /\ answered = {}
  /\ leases = [r \in Revisions |-> {}]
  /\ ask \in [Callers -> [revision : Revisions, priority : Priorities, exact : BOOLEAN]]
  /\ at = [c \in Callers |-> "start"]
  /\ seen = [c \in Callers |-> NoRow]

\* Mutant: a transaction that ends keeps its snapshot.
GotoKeepingSnapshot(c, label) ==
  /\ at' = [at EXCEPT ![c] = label]
  /\ UNCHANGED seen

Goto(c, label) ==
  /\ at' = [at EXCEPT ![c] = label]
  /\ seen' = [seen EXCEPT ![c] = NoRow]

-----------------------------------------------------------------------------
(* The call *)

\* Without allow_cached_result a stored result of the exact revision ends it.
LookForResult(c) ==
  /\ at[c] = "start"
  /\ Goto(c, IF ask[c].exact /\ ask[c].revision \in answered THEN "done" ELSE "read")
  /\ UNCHANGED <<table, leases, ask>>

\* Mutant: any other revision counts as newer.
OtherWork(r) == \E s \in Revisions : s # r /\ Live(row[s])

NewerWork(r) == \E s \in Revisions : s > r /\ Live(row[s])

\* The two SELECTs; with newer work and no row of its own the call returns.
ReadRows(c) ==
  /\ at[c] = "read"
  /\ LET r == ask[c].revision
     IN IF ~Exists(row[r]) /\ NewerWork(r)
        THEN Goto(c, "done")
        ELSE /\ at' = [at EXCEPT ![c] = "write"]
             /\ seen' = [seen EXCEPT ![c] = row[r]]
  /\ UNCHANGED <<table, leases, ask>>

\* Mutant: the UPDATE takes every other revision.
SupersedeOthers(rows, r) ==
  [s \in Revisions |-> IF s # r /\ rows[s].state = "pending"
                       THEN [rows[s] EXCEPT !.state = "superseded"] ELSE rows[s]]

\* The last UPDATE of the transaction, on the rows committed by then.
SupersedeBelow(rows, r) ==
  [s \in Revisions |-> IF s < r /\ rows[s].state = "pending"
                       THEN [rows[s] EXCEPT !.state = "superseded"] ELSE rows[s]]

\* No row in the snapshot: INSERT, unless somebody inserted one meanwhile.
Insert(c) ==
  LET r == ask[c].revision
  IN /\ at[c] = "write" /\ ~Exists(seen[c])
     /\ IF Exists(row[r])
        THEN Goto(c, "collided") /\ UNCHANGED <<row, lastId>>
        ELSE /\ lastId' = lastId + 1
             /\ row' = SupersedeBelow([row EXCEPT ![r] =
                  [id |-> lastId', state |-> "pending", priority |-> ask[c].priority]], r)
             /\ Goto(c, "done")
     /\ UNCHANGED <<answered, leases, ask>>

\* A live row in the snapshot: the priority computed from it is written, if it
\* differs from it.  A row deleted meanwhile fails the flush (StaleDataError).
Boost(c) ==
  LET r == ask[c].revision
      old == seen[c]
      boosted == IF old.priority < ask[c].priority
                 THEN [row EXCEPT ![r].priority = ask[c].priority] ELSE row
  IN /\ at[c] = "write" /\ Live(old)
     /\ IF row[r].id # old.id
        THEN Goto(c, "error") /\ UNCHANGED row
        ELSE row' = SupersedeBelow(boosted, r) /\ Goto(c, "done")
     /\ UNCHANGED <<lastId, answered, leases, ask>>

\* A dead or superseded row in the snapshot stays as it is.
LeaveRow(c) ==
  LET r == ask[c].revision
  IN /\ at[c] = "write" /\ Exists(seen[c]) /\ ~Live(seen[c])
     /\ row' = SupersedeBelow(row, r)
     /\ Goto(c, "done")
     /\ UNCHANGED <<lastId, answered, leases, ask>>

\* The transaction after an IntegrityError: whatever row is there now gets the
\* priority of this call.
OverwritePriority(c) ==
  LET r == ask[c].revision
  IN /\ at[c] = "collided"
     /\ row' = IF Exists(row[r]) THEN [row EXCEPT ![r].priority = ask[c].priority] ELSE row
     /\ Goto(c, "done")
     /\ UNCHANGED <<lastId, answered, leases, ask>>

-----------------------------------------------------------------------------
(* The workers, seen from the table.  They go by row id, whatever became of *)
(* the row since they were given it.  Their supersede is WorkQueue's.         *)

ClaimRow(r) ==
  /\ row[r].state = "pending"
  /\ row' = [row EXCEPT ![r].state = "leased"]
  /\ leases' = [leases EXCEPT ![r] = @ \cup {row[r].id}]
  /\ UNCHANGED <<lastId, answered, ask, at, seen>>

FailRow(r) ==
  /\ row[r].id \in leases[r]
  /\ \E state \in {"pending", "dead"} : row' = [row EXCEPT ![r].state = state]
  /\ UNCHANGED <<lastId, answered, leases, ask, at, seen>>

\* save_result does not look at the row, which may be gone.
SaveRow(r) ==
  /\ leases[r] # {}
  /\ answered' = answered \cup {r}
  /\ UNCHANGED <<row, lastId, leases, ask, at, seen>>

CompleteRow(r) ==
  /\ row[r].id \in leases[r] /\ r \in answered
  /\ row' = [row EXCEPT ![r] = NoRow]
  /\ UNCHANGED <<lastId, answered, leases, ask, at, seen>>

Call(c) ==
  \/ LookForResult(c)
  \/ ReadRows(c)
  \/ Insert(c)
  \/ Boost(c)
  \/ LeaveRow(c)
  \/ OverwritePriority(c)

Next ==
  \/ \E c \in Callers : Call(c)
  \/ \E r \in Revisions : ClaimRow(r) \/ FailRow(r) \/ SaveRow(r) \/ CompleteRow(r)

Spec == Init /\ [][Next]_vars

-----------------------------------------------------------------------------
(* Properties *)

Labels == {"start", "read", "write", "collided", "done", "error"}

TypeOK ==
  /\ row \in [Revisions -> Row]
  /\ lastId \in Nat
  /\ answered \subseteq Revisions
  /\ leases \in [Revisions -> SUBSET (Nat \ {0})]
  /\ ask \in [Callers -> [revision : Revisions, priority : Priorities, exact : BOOLEAN]]
  /\ at \in [Callers -> Labels]
  /\ seen \in [Callers -> Row]
  /\ \A c \in Callers : seen[c] # NoRow => at[c] = "write"

\* A call that returns without an error is not lost to a race: the revision it
\* asked for, or a later one, has been answered or has a row.
ReturnedCallIsQueued ==
  \A c \in Callers : at[c] = "done" =>
    \E s \in Revisions : s >= ask[c].revision /\ (s \in answered \/ Exists(row[s]))

\* Whoever raced whom, work is superseded only below a revision somebody asked for.
OnlyOlderSuperseded ==
  \A r \in Revisions : row[r].state = "superseded" =>
    \E c \in Callers : ask[c].revision > r /\ at[c] = "done"

\* tests/test_repository.py: a second enqueue boosts the priority.  Once a call
\* has returned, the live job of its revision has at least its priority.
PriorityIsBoosted ==
  \A c \in Callers : LET x == row[ask[c].revision]
                     IN at[c] = "done" /\ Live(x) => x.priority >= ask[c].priority
=============================================================================
