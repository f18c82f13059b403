------------------------- MODULE EnqueueRaceProofs -------------------------
(***************************************************************************)
(* No call of enqueue is lost, whatever the number of calls, revisions and *)
(* priorities.                                                             *)
(***************************************************************************)
EXTENDS EnqueueRace, TLAPS

-----------------------------------------------------------------------------
(* What the code relies on *)

\* An id names a row that exists, and no other value stands for "no row".
RowsAreNamed ==
  \A r \in Revisions : IF Exists(row[r]) THEN row[r].id # 0 ELSE row[r] = NoRow

\* A transaction that saw a row saw one with an id; it is still there, or a worker
\* has answered and taken it away.
SnapshotsHold ==
  \A c \in Callers : at[c] = "write" /\ Exists(seen[c]) =>
    /\ seen[c].id # 0
    /\ ask[c].revision \in answered \/ Exists(row[ask[c].revision])

\* Who lost the race to insert lost it to a row that is there, or answered.
CollisionsAreReal ==
  \A c \in Callers : at[c] = "collided" =>
    ask[c].revision \in answered \/ Exists(row[ask[c].revision])

RaceInv ==
  /\ TypeOK
  /\ RowsAreNamed
  /\ SnapshotsHold
  /\ CollisionsAreReal
  /\ ReturnedCallIsQueued
  /\ OnlyOlderSuperseded

-----------------------------------------------------------------------------
(* Lemmas *)

\* The UPDATE at the end of a transaction changes no more than states.
LEMMA SupersedingKeepsRows ==
  ASSUME NEW rows \in [Revisions -> Row], NEW r \in Revisions
  PROVE  /\ SupersedeBelow(rows, r) \in [Revisions -> Row]
         /\ \A s \in Revisions :
              /\ SupersedeBelow(rows, r)[s].id = rows[s].id
              /\ Exists(SupersedeBelow(rows, r)[s]) <=> Exists(rows[s])
              /\ ~Live(rows[s]) => SupersedeBelow(rows, r)[s] = rows[s]
              /\ s >= r => SupersedeBelow(rows, r)[s] = rows[s]
              /\ SupersedeBelow(rows, r)[s].state = "superseded"
                   => rows[s].state = "superseded" \/ s < r
<1> SUFFICES ASSUME NEW s \in Revisions
             PROVE  /\ SupersedeBelow(rows, r)[s] \in Row
                    /\ SupersedeBelow(rows, r)[s].id = rows[s].id
                    /\ Exists(SupersedeBelow(rows, r)[s]) <=> Exists(rows[s])
                    /\ ~Live(rows[s]) => SupersedeBelow(rows, r)[s] = rows[s]
                    /\ s >= r => SupersedeBelow(rows, r)[s] = rows[s]
                    /\ SupersedeBelow(rows, r)[s].state = "superseded"
                         => rows[s].state = "superseded" \/ s < r
  BY DEF SupersedeBelow
<1>1. rows[s] \in Row /\ s \in Nat /\ r \in Nat
  BY DEF Revisions
<1>2. CASE s < r /\ rows[s].state = "pending"
  <2>1. SupersedeBelow(rows, r)[s] = [id |-> rows[s].id, state |-> "superseded",
                                      priority |-> rows[s].priority]
    BY <1>1, <1>2 DEF SupersedeBelow, Row
  <2> QED BY <1>1, <1>2, <2>1 DEF Row, Exists, Live
<1>3. CASE ~(s < r /\ rows[s].state = "pending")
  <2>1. SupersedeBelow(rows, r)[s] = rows[s]
    BY <1>3 DEF SupersedeBelow
  <2> QED BY <1>1, <2>1
<1> QED BY <1>2, <1>3

\* Tables before and after a step of a call: it takes no row away and no answer.
TableGrows ==
  /\ row' \in [Revisions -> Row] /\ lastId' \in Nat
  /\ answered' = answered /\ leases' = leases
  /\ \A r \in Revisions :
       /\ Exists(row[r]) => Exists(row'[r])
       /\ IF Exists(row'[r]) THEN row'[r].id # 0 ELSE row'[r] = NoRow

\* Where a step of call c may lead.
Returned(c) ==
  \/ at'[c] \in {"read", "error"}
  \/ /\ at'[c] = "collided"
     /\ ask[c].revision \in answered \/ Exists(row'[ask[c].revision])
  \/ /\ at'[c] = "done"
     /\ \E s \in Revisions : s >= ask[c].revision /\ (s \in answered \/ Exists(row'[s]))

\* A call that steps as these say keeps the invariant.
LEMMA CallKeeps ==
  ASSUME RaceInv, NEW c \in Callers, TableGrows, ask' = ask,
         \E label \in Labels : Goto(c, label), Returned(c),
         \A r \in Revisions : row'[r].state = "superseded" =>
           \/ row[r].state = "superseded"
           \/ ask[c].revision > r /\ at'[c] = "done",
         at[c] # "done"
  PROVE  RaceInv'
<1> USE DEF RaceInv
<1>1. /\ at' = [at EXCEPT ![c] = at'[c]] /\ at'[c] \in Labels
      /\ seen' = [seen EXCEPT ![c] = NoRow]
  BY DEF Goto, TypeOK
<1>2. TypeOK'
  BY <1>1 DEF TypeOK, TableGrows, NoRow, Row
<1>3. RowsAreNamed'
  BY DEF RowsAreNamed, TableGrows
<1>4. SnapshotsHold'
  BY <1>1 DEF SnapshotsHold, TableGrows, TypeOK, NoRow, Exists, Returned
<1>5. CollisionsAreReal'
  BY <1>1 DEF CollisionsAreReal, TableGrows, TypeOK, Returned
<1>6. ReturnedCallIsQueued'
  BY <1>1 DEF ReturnedCallIsQueued, TableGrows, TypeOK, Returned
<1>7. OnlyOlderSuperseded'
  BY <1>1 DEF OnlyOlderSuperseded, TypeOK
<1> QED BY <1>2, <1>3, <1>4, <1>5, <1>6, <1>7

-----------------------------------------------------------------------------
(* The steps of a call *)

LEMMA LookForResultKeeps ==
  ASSUME RaceInv, NEW c \in Callers, LookForResult(c)
  PROVE  RaceInv'
<1>1. TableGrows /\ ask' = ask /\ leases' = leases /\ row' = row /\ answered' = answered
  BY DEF LookForResult, table, TableGrows, RaceInv, TypeOK, RowsAreNamed
<1>2. \E label \in Labels : Goto(c, label)
  BY DEF LookForResult, Labels
<1>3. at[c] # "done" /\ ask[c].revision \in Revisions
  BY DEF LookForResult, RaceInv, TypeOK
<1>4. at'[c] \in {"read", "done"} /\ (at'[c] = "done" => ask[c].revision \in answered)
  BY DEF LookForResult, Goto, RaceInv, TypeOK
<1>5. Returned(c)
  BY <1>3, <1>4 DEF Returned, Revisions
<1> QED BY <1>1, <1>2, <1>3, <1>5, CallKeeps

LEMMA ReadRowsKeeps ==
  ASSUME RaceInv, NEW c \in Callers, ReadRows(c)
  PROVE  RaceInv'
<1> DEFINE r == ask[c].revision
<1>1. /\ TableGrows /\ ask' = ask /\ leases' = leases /\ row' = row /\ answered' = answered /\ lastId' = lastId
      /\ at[c] = "read" /\ r \in Revisions
  BY DEF ReadRows, table, TableGrows, RaceInv, TypeOK, RowsAreNamed
<1>2. CASE ~Exists(row[r]) /\ NewerWork(r)
  <2>1. Goto(c, "done")
    BY <1>2 DEF ReadRows
  <2>2. PICK s \in Revisions : s > r /\ Live(row[s])
    BY <1>2 DEF NewerWork
  <2>3. s >= r /\ Exists(row'[s])
    BY <1>1, <2>2 DEF Exists, Live, Revisions
  <2>4. at'[c] = "done"
    BY <2>1 DEF Goto, RaceInv, TypeOK
  <2>5. Returned(c)
    BY <2>3, <2>4 DEF Returned
  <2>6. \E label \in Labels : Goto(c, label)
    BY <2>1 DEF Labels
  <2> QED BY <1>1, <2>5, <2>6, CallKeeps
<1>3. CASE ~(~Exists(row[r]) /\ NewerWork(r))
  <2>1. at' = [at EXCEPT ![c] = "write"] /\ seen' = [seen EXCEPT ![c] = row[r]]
    BY <1>3 DEF ReadRows
  <2>2. row[r] \in Row
    BY <1>1 DEF RaceInv, TypeOK
  <2>3. TypeOK'
    BY <1>1, <2>1, <2>2 DEF RaceInv, TypeOK, Labels
  <2>4. RowsAreNamed' /\ CollisionsAreReal' /\ ReturnedCallIsQueued'
    BY <1>1, <2>1 DEF RaceInv, TypeOK, RowsAreNamed, CollisionsAreReal, ReturnedCallIsQueued
  <2>5. SnapshotsHold'
    BY <1>1, <2>1 DEF RaceInv, TypeOK, SnapshotsHold, RowsAreNamed
  <2>6. OnlyOlderSuperseded'
    BY <1>1, <2>1 DEF RaceInv, TypeOK, OnlyOlderSuperseded
  <2> QED BY <2>3, <2>4, <2>5, <2>6 DEF RaceInv
<1> QED BY <1>2, <1>3

LEMMA InsertKeeps ==
  ASSUME RaceInv, NEW c \in Callers, Insert(c)
  PROVE  RaceInv'
<1> DEFINE r == ask[c].revision
<1>1. /\ ask' = ask /\ answered' = answered /\ leases' = leases /\ at[c] = "write"
      /\ r \in Revisions /\ r \in Nat /\ ask[c].priority \in Priorities
      /\ row \in [Revisions -> Row] /\ lastId \in Nat
  BY DEF Insert, RaceInv, TypeOK, Revisions
<1>2. CASE Exists(row[r])
  <2>1. Goto(c, "collided") /\ row' = row /\ lastId' = lastId
    BY <1>2 DEF Insert
  <2>2. TableGrows
    BY <1>1, <2>1 DEF TableGrows, RaceInv, RowsAreNamed
  <2>3. at'[c] = "collided"
    BY <2>1 DEF Goto, RaceInv, TypeOK
  <2>4. Returned(c)
    BY <1>2, <2>1, <2>3 DEF Returned
  <2>5. \E label \in Labels : Goto(c, label)
    BY <2>1 DEF Labels
  <2> QED BY <1>1, <2>1, <2>2, <2>4, <2>5, CallKeeps
<1>3. CASE ~Exists(row[r])
  <2> DEFINE new == [id |-> lastId + 1, state |-> "pending", priority |-> ask[c].priority]
             rows == [row EXCEPT ![r] = new]
  <2>1. Goto(c, "done") /\ row' = SupersedeBelow(rows, r) /\ lastId' = lastId + 1
    BY <1>3 DEF Insert
  <2>2. new \in Row /\ new.id # 0 /\ new.state = "pending"
    BY <1>1 DEF Row
  <2>3. rows \in [Revisions -> Row] /\ rows[r] = new
    BY <1>1, <2>2
  <2>4. \A s \in Revisions : s # r => rows[s] = row[s]
    BY <1>1
  <2> HIDE DEF rows, new
  <2>5. /\ row' \in [Revisions -> Row]
        /\ \A s \in Revisions :
              /\ row'[s].id = rows[s].id
              /\ Exists(row'[s]) <=> Exists(rows[s])
              /\ ~Live(rows[s]) => row'[s] = rows[s]
              /\ s >= r => row'[s] = rows[s]
              /\ row'[s].state = "superseded" => rows[s].state = "superseded" \/ s < r
    BY <1>1, <2>1, <2>3, SupersedingKeepsRows
  <2>6. row'[r] = new /\ Exists(row'[r])
    BY <1>1, <2>2, <2>3, <2>5 DEF Exists
  <2>7. TableGrows
    <3>1. lastId' \in Nat
      BY <1>1, <2>1
    <3>2. ASSUME NEW s \in Revisions
          PROVE  /\ Exists(row[s]) => Exists(row'[s])
                 /\ IF Exists(row'[s]) THEN row'[s].id # 0 ELSE row'[s] = NoRow
      <4>1. CASE s = r
        BY <1>3, <2>2, <2>6, <4>1
      <4>2. CASE s # r
        <5>1. IF Exists(row[s]) THEN row[s].id # 0 ELSE row[s] = NoRow
          BY DEF RaceInv, RowsAreNamed
        <5>2. rows[s] = row[s]
          BY <2>4, <4>2
        <5> QED BY <2>5, <5>1, <5>2 DEF Exists, Live
      <4> QED BY <4>1, <4>2
    <3> QED BY <1>1, <2>5, <3>1, <3>2 DEF TableGrows
  <2>8. at'[c] = "done"
    BY <2>1 DEF Goto, RaceInv, TypeOK
  <2>9. Returned(c)
    BY <1>1, <2>6, <2>8 DEF Returned
  <2>10. ASSUME NEW s \in Revisions, row'[s].state = "superseded"
         PROVE  row[s].state = "superseded" \/ (ask[c].revision > s /\ at'[c] = "done")
    BY <1>1, <2>2, <2>4, <2>5, <2>6, <2>8, <2>10 DEF Revisions
  <2>11. \E label \in Labels : Goto(c, label)
    BY <2>1 DEF Labels
  <2> QED BY <1>1, <2>7, <2>9, <2>10, <2>11, CallKeeps
<1> QED BY <1>2, <1>3

\* What the last UPDATE does after a priority was or was not written.
LEMMA SupersedingKeeps ==
  ASSUME RaceInv, NEW c \in Callers, NEW rows \in [Revisions -> Row],
         \A s \in Revisions : rows[s].id = row[s].id /\ rows[s].state = row[s].state,
         at[c] = "write", ask[c].revision \in answered \/ Exists(row[ask[c].revision]),
         row' = SupersedeBelow(rows, ask[c].revision), Goto(c, "done"),
         UNCHANGED <<lastId, answered, leases, ask>>,
         \A s \in Revisions : ~Exists(row[s]) => rows[s] = row[s]
  PROVE  RaceInv'
<1> DEFINE r == ask[c].revision
<1>1. /\ ask' = ask /\ answered' = answered /\ leases' = leases /\ lastId' = lastId /\ lastId \in Nat
      /\ r \in Revisions /\ r \in Nat
  BY DEF RaceInv, TypeOK, Revisions
<1>2. /\ row' \in [Revisions -> Row]
      /\ \A s \in Revisions :
            /\ row'[s].id = rows[s].id
            /\ Exists(row'[s]) <=> Exists(rows[s])
            /\ ~Live(rows[s]) => row'[s] = rows[s]
            /\ s >= r => row'[s] = rows[s]
            /\ row'[s].state = "superseded" => rows[s].state = "superseded" \/ s < r
  BY <1>1, SupersedingKeepsRows
<1>3. ASSUME NEW s \in Revisions
      PROVE  /\ Exists(row[s]) <=> Exists(row'[s])
             /\ IF Exists(row'[s]) THEN row'[s].id # 0 ELSE row'[s] = NoRow
  <2>1. IF Exists(row[s]) THEN row[s].id # 0 ELSE row[s] = NoRow
    BY DEF RaceInv, RowsAreNamed
  <2>2. Exists(row[s]) <=> Exists(row'[s])
    BY <1>2 DEF Exists
  <2>3. ~Exists(row[s]) => row'[s] = NoRow
    BY <1>2, <2>1 DEF Exists, Live
  <2>4. Exists(row[s]) => row'[s].id # 0
    BY <1>2, <2>1
  <2> QED BY <2>2, <2>3, <2>4
<1>4. TableGrows
  BY <1>1, <1>2, <1>3 DEF TableGrows
<1>5. at'[c] = "done"
  BY DEF Goto, RaceInv, TypeOK
<1>6. Returned(c)
  BY <1>1, <1>3, <1>5 DEF Returned
<1>7. ASSUME NEW s \in Revisions, row'[s].state = "superseded"
      PROVE  row[s].state = "superseded" \/ (ask[c].revision > s /\ at'[c] = "done")
  BY <1>1, <1>2, <1>5, <1>7 DEF Revisions
<1>8. \E label \in Labels : Goto(c, label)
  BY DEF Labels
<1> QED BY <1>1, <1>4, <1>6, <1>7, <1>8, CallKeeps

\* Writing a priority leaves ids and states alone.
LEMMA PriorityIsAllThatChanges ==
  ASSUME row \in [Revisions -> Row], NEW r \in Revisions, NEW p \in Priorities
  PROVE  LET rows == [row EXCEPT ![r].priority = p]
         IN /\ rows \in [Revisions -> Row]
            /\ \A s \in Revisions : /\ rows[s].id = row[s].id
                                    /\ rows[s].state = row[s].state
                                    /\ s # r => rows[s] = row[s]
<1> DEFINE new == [id |-> row[r].id, state |-> row[r].state, priority |-> p]
<1>1. row[r] \in Row
  OBVIOUS
<1>2. [row[r] EXCEPT !.priority = p] = new /\ new \in Row
  BY <1>1 DEF Row
<1>3. [row EXCEPT ![r].priority = p] = [row EXCEPT ![r] = new]
  BY <1>2
<1>4. new.id = row[r].id /\ new.state = row[r].state
  OBVIOUS
<1> HIDE DEF new
<1> QED BY <1>2, <1>3, <1>4

LEMMA BoostKeeps ==
  ASSUME RaceInv, NEW c \in Callers, Boost(c)
  PROVE  RaceInv'
<1> DEFINE r == ask[c].revision
<1>1. /\ at[c] = "write" /\ Live(seen[c]) /\ UNCHANGED <<lastId, answered, leases, ask>>
      /\ r \in Revisions /\ ask[c].priority \in Priorities
      /\ row \in [Revisions -> Row] /\ lastId \in Nat
  BY DEF Boost, RaceInv, TypeOK
<1>2. CASE row[r].id # seen[c].id
  <2>1. Goto(c, "error") /\ row' = row
    BY <1>2 DEF Boost
  <2>2. TableGrows
    BY <1>1, <2>1 DEF TableGrows, RaceInv, RowsAreNamed
  <2>3. at'[c] = "error"
    BY <2>1 DEF Goto, RaceInv, TypeOK
  <2>4. Returned(c) /\ \E label \in Labels : Goto(c, label)
    BY <2>1, <2>3 DEF Returned, Labels
  <2> QED BY <1>1, <2>1, <2>2, <2>4, CallKeeps
<1>3. CASE row[r].id = seen[c].id
  <2>1. seen[c].id # 0
    BY <1>1 DEF RaceInv, SnapshotsHold, Live, Exists
  <2>2. Exists(row[r])
    BY <1>1, <1>3, <2>1 DEF RaceInv, RowsAreNamed, NoRow
  <2> DEFINE boosted == IF seen[c].priority < ask[c].priority
                        THEN [row EXCEPT ![r].priority = ask[c].priority] ELSE row
  <2>3. row' = SupersedeBelow(boosted, r) /\ Goto(c, "done")
    BY <1>3 DEF Boost
  <2>4. /\ boosted \in [Revisions -> Row]
        /\ \A s \in Revisions : /\ boosted[s].id = row[s].id
                                /\ boosted[s].state = row[s].state
                                /\ s # r => boosted[s] = row[s]
    BY <1>1, PriorityIsAllThatChanges
  <2> HIDE DEF boosted
  <2>5. \A s \in Revisions : ~Exists(row[s]) => boosted[s] = row[s]
    BY <2>2, <2>4
  <2> QED BY <1>1, <2>2, <2>3, <2>4, <2>5, SupersedingKeeps
<1> QED BY <1>2, <1>3

LEMMA LeaveRowKeeps ==
  ASSUME RaceInv, NEW c \in Callers, LeaveRow(c)
  PROVE  RaceInv'
<1>1. /\ ask[c].revision \in answered \/ Exists(row[ask[c].revision])
      /\ row \in [Revisions -> Row]
  BY DEF LeaveRow, RaceInv, TypeOK, SnapshotsHold
<1> QED BY <1>1, SupersedingKeeps DEF LeaveRow

LEMMA OverwritePriorityKeeps ==
  ASSUME RaceInv, NEW c \in Callers, OverwritePriority(c)
  PROVE  RaceInv'
<1> DEFINE r == ask[c].revision
<1>1. /\ at[c] = "collided" /\ UNCHANGED <<lastId, answered, leases, ask>> /\ Goto(c, "done")
      /\ r \in Revisions /\ r \in Nat /\ ask[c].priority \in Priorities
      /\ row \in [Revisions -> Row] /\ lastId \in Nat
  BY DEF OverwritePriority, RaceInv, TypeOK, Revisions
<1>2. /\ row' \in [Revisions -> Row]
      /\ \A s \in Revisions : /\ row'[s].id = row[s].id
                              /\ row'[s].state = row[s].state
                              /\ ~Exists(row[s]) => row'[s] = row[s]
  BY <1>1, PriorityIsAllThatChanges DEF OverwritePriority
<1>3. TableGrows
  BY <1>1, <1>2 DEF TableGrows, RaceInv, RowsAreNamed, Exists, Live
<1>4. at'[c] = "done"
  BY <1>1 DEF Goto, RaceInv, TypeOK
<1>5. r \in answered \/ Exists(row'[r])
  BY <1>1, <1>2 DEF RaceInv, CollisionsAreReal, Exists
<1>6. Returned(c)
  BY <1>1, <1>4, <1>5 DEF Returned
<1>7. \E label \in Labels : Goto(c, label)
  BY <1>1 DEF Labels
<1> QED BY <1>1, <1>2, <1>3, <1>6, <1>7, CallKeeps

-----------------------------------------------------------------------------
(* The steps of the workers *)

\* A worker moves a row to another state, or deletes one that is answered.
LEMMA WorkerKeeps ==
  ASSUME RaceInv, NEW r \in Revisions, NEW new \in Row, row' = [row EXCEPT ![r] = new],
         Exists(row[r]), UNCHANGED <<lastId, answered, ask, at, seen>>,
         leases' \in [Revisions -> SUBSET (Nat \ {0})],
         \/ new.id = row[r].id /\ Exists(new) /\ new.state # "superseded"
         \/ new = NoRow /\ r \in answered
  PROVE  RaceInv'
<1> USE DEF RaceInv
<1>1. TypeOK'
  BY DEF TypeOK
<1>2. \A s \in Revisions : row'[s] = IF s = r THEN new ELSE row[s]
  BY DEF TypeOK
<1>3. \A s \in Revisions : s \in answered \/ Exists(row[s]) => s \in answered' \/ Exists(row'[s])
  BY <1>2
<1>4. RowsAreNamed'
  BY <1>2 DEF RowsAreNamed, Exists, NoRow
<1>5. SnapshotsHold'
  BY <1>3 DEF SnapshotsHold, TypeOK
<1>6. CollisionsAreReal'
  BY <1>3 DEF CollisionsAreReal, TypeOK
<1>7. ReturnedCallIsQueued'
  BY <1>3 DEF ReturnedCallIsQueued
<1>8. OnlyOlderSuperseded'
  BY <1>2 DEF OnlyOlderSuperseded, NoRow
<1> QED BY <1>1, <1>4, <1>5, <1>6, <1>7, <1>8

\* Only a row that is there has the id of a lease.
LEMMA LeasedRowsExist ==
  ASSUME RaceInv, NEW r \in Revisions, row[r].id \in leases[r]
  PROVE  Exists(row[r])
<1>1. row[r].id # 0
  BY DEF RaceInv, TypeOK
<1> QED BY <1>1 DEF RaceInv, RowsAreNamed, NoRow

LEMMA ClaimRowKeeps ==
  ASSUME RaceInv, NEW r \in Revisions, ClaimRow(r)
  PROVE  RaceInv'
<1> DEFINE new == [id |-> row[r].id, state |-> "leased", priority |-> row[r].priority]
<1>1. row[r] \in Row
  BY DEF RaceInv, TypeOK
<1>2. [row[r] EXCEPT !.state = "leased"] = new /\ new \in Row
  BY <1>1 DEF Row
<1>3. row' = [row EXCEPT ![r] = new]
  BY <1>2 DEF ClaimRow
<1>4. Exists(row[r])
  BY DEF ClaimRow, Exists
<1>5. leases' \in [Revisions -> SUBSET (Nat \ {0})]
  <2>1. row[r].id \in Nat \ {0}
    BY <1>1, <1>4 DEF Row, RaceInv, RowsAreNamed
  <2> QED BY <2>1 DEF ClaimRow, RaceInv, TypeOK
<1> QED BY <1>2, <1>3, <1>4, <1>5, WorkerKeeps DEF ClaimRow, Exists

LEMMA FailRowKeeps ==
  ASSUME RaceInv, NEW r \in Revisions, FailRow(r)
  PROVE  RaceInv'
<1>1. PICK state \in {"pending", "dead"} : row' = [row EXCEPT ![r].state = state]
  BY DEF FailRow
<1> DEFINE new == [id |-> row[r].id, state |-> state, priority |-> row[r].priority]
<1>2. row[r] \in Row /\ leases \in [Revisions -> SUBSET (Nat \ {0})]
  BY DEF RaceInv, TypeOK
<1>3. [row[r] EXCEPT !.state = state] = new /\ new \in Row
  BY <1>2 DEF Row
<1>4. row' = [row EXCEPT ![r] = new]
  BY <1>1, <1>3
<1>5. Exists(row[r])
  BY LeasedRowsExist DEF FailRow
<1> QED BY <1>2, <1>3, <1>4, <1>5, WorkerKeeps DEF FailRow, Exists

\* A late worker saves though its row is gone.
LEMMA SaveRowKeeps ==
  ASSUME RaceInv, NEW r \in Revisions, SaveRow(r)
  PROVE  RaceInv'
<1>1. /\ answered \subseteq answered' /\ answered' \subseteq Revisions
      /\ UNCHANGED <<row, lastId, leases, ask, at, seen>>
  BY DEF SaveRow, RaceInv, TypeOK
<1> QED BY <1>1 DEF RaceInv, TypeOK, RowsAreNamed, SnapshotsHold, CollisionsAreReal,
                    ReturnedCallIsQueued, OnlyOlderSuperseded

LEMMA CompleteRowKeeps ==
  ASSUME RaceInv, NEW r \in Revisions, CompleteRow(r)
  PROVE  RaceInv'
<1>1. NoRow \in Row
  BY DEF NoRow, Row
<1>2. Exists(row[r])
  BY LeasedRowsExist DEF CompleteRow
<1>3. leases' \in [Revisions -> SUBSET (Nat \ {0})]
  BY DEF CompleteRow, RaceInv, TypeOK
<1> QED BY <1>1, <1>2, <1>3, WorkerKeeps DEF CompleteRow

-----------------------------------------------------------------------------
(* The theorem *)

LEMMA InitRaceInv == Init => RaceInv
<1> SUFFICES ASSUME Init PROVE RaceInv
  OBVIOUS
<1>1. TypeOK
  BY DEF Init, TypeOK, NoRow, Row, Labels
<1>2. RowsAreNamed /\ SnapshotsHold /\ CollisionsAreReal /\ ReturnedCallIsQueued
  BY DEF Init, RowsAreNamed, SnapshotsHold, CollisionsAreReal, ReturnedCallIsQueued,
         NoRow, Exists
<1>3. OnlyOlderSuperseded
  BY DEF Init, OnlyOlderSuperseded, NoRow
<1> QED BY <1>1, <1>2, <1>3 DEF RaceInv

LEMMA StepKeepsRaceInv == RaceInv /\ [Next]_vars => RaceInv'
<1> SUFFICES ASSUME RaceInv, [Next]_vars PROVE RaceInv'
  OBVIOUS
<1>1. ASSUME NEW c \in Callers, Call(c) PROVE RaceInv'
  BY <1>1, LookForResultKeeps, ReadRowsKeeps, InsertKeeps, BoostKeeps, LeaveRowKeeps,
     OverwritePriorityKeeps DEF Call
<1>2. ASSUME NEW r \in Revisions, ClaimRow(r) \/ FailRow(r) \/ SaveRow(r) \/ CompleteRow(r)
      PROVE  RaceInv'
  BY <1>2, ClaimRowKeeps, FailRowKeeps, SaveRowKeeps, CompleteRowKeeps
<1>3. CASE UNCHANGED vars
  BY <1>3 DEF vars, table, RaceInv, TypeOK, RowsAreNamed, SnapshotsHold, CollisionsAreReal,
              ReturnedCallIsQueued, OnlyOlderSuperseded
<1> QED BY <1>1, <1>2, <1>3 DEF Next

\* Every row of jobs and every call of Repository.enqueue is of its type, and what a
\* call has read in its snapshot is kept only until it writes.
THEOREM RaceTypes == Spec => []TypeOK
<1>1. RaceInv => TypeOK
  BY DEF RaceInv
<1> QED BY <1>1, InitRaceInv, StepKeepsRaceInv, PTL DEF Spec

\* Repository.enqueue loses no call: whatever the races between callers and
\* with the workers, a call that returned left its revision, or a later one,
\* queued, dead or answered.
THEOREM CallsAreQueued == Spec => []ReturnedCallIsQueued
<1>1. RaceInv => ReturnedCallIsQueued
  BY DEF RaceInv
<1> QED BY <1>1, InitRaceInv, StepKeepsRaceInv, PTL DEF Spec

\* Repository.enqueue supersedes only below a revision some call asked for.
THEOREM SupersededAreOlder == Spec => []OnlyOlderSuperseded
<1>1. RaceInv => OnlyOlderSuperseded
  BY DEF RaceInv
<1> QED BY <1>1, InitRaceInv, StepKeepsRaceInv, PTL DEF Spec
=============================================================================
