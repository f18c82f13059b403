--------------------------- MODULE StandingProofs ---------------------------
(***************************************************************************)
(* The standing sync makes nobody out to be sanctioned and takes away no   *)
(* link without cause, for any number of accounts, failures and changes of *)
(* mind between two of its requests.                                       *)
(***************************************************************************)
EXTENDS Standing, FiniteSetTheorems, WellFoundedInduction, TLAPS

-----------------------------------------------------------------------------
(* The cap of a run *)

\* A set of numbers has a smallest one.
LEMMA SmallestOf ==
  ASSUME NEW S, S \subseteq Nat, S # {}
  PROVE  Min(S) \in S /\ \A y \in S : Min(S) <= y
<1>1. PICK x \in S : \A y \in S : ~(<<y, x>> \in OpToRel(<, Nat))
  BY NatLessThanWellFounded, WFMin
<1>2. ASSUME NEW y \in S PROVE x <= y
  <2>1. CASE y < x
    <3>1. <<y, x>> \in Nat \X Nat /\ <<y, x>>[1] < <<y, x>>[2]
      BY <2>1
    <3>2. <<y, x>> \in OpToRel(<, Nat)
      BY <3>1 DEF OpToRel
    <3> QED BY <1>1, <3>2
  <2> QED BY <2>1
<1> QED BY <1>2 DEF Min

\* The n smallest of a set, as Due takes them.
Below(U, a) == {b \in U : b < a}
Smallest(U, n) == {a \in U : Cardinality(Below(U, a)) < n}

LEMMA BelowIsFinite ==
  ASSUME NEW U \in SUBSET Accounts, NEW a \in U
  PROVE  IsFiniteSet(Below(U, a)) /\ Cardinality(Below(U, a)) \in Nat
<1>1. IsFiniteSet(U)
  BY StandingConstants, FS_Subset
<1>2. IsFiniteSet(Below(U, a))
  BY <1>1, FS_Subset DEF Below
<1> QED BY <1>2, FS_CardinalityType

LEMMA BelowGrows ==
  ASSUME NEW U \in SUBSET Accounts, NEW a \in U, NEW b \in U, a < b
  PROVE  Cardinality(Below(U, a)) < Cardinality(Below(U, b))
<1>1. Below(U, a) \subseteq Below(U, b) /\ a \in Below(U, b) /\ a \notin Below(U, a)
  <2>1. \A x \in U : x \in Nat
    BY StandingConstants
  <2> QED BY <2>1 DEF Below
<1>2. Cardinality(Below(U, a)) <= Cardinality(Below(U, b))
  BY <1>1, BelowIsFinite, FS_Subset
<1>3. Cardinality(Below(U, a)) # Cardinality(Below(U, b))
  BY <1>1, BelowIsFinite, FS_Subset
<1> QED BY <1>2, <1>3, BelowIsFinite

LEMMA SmallestAreFew ==
  ASSUME NEW U \in SUBSET Accounts, NEW n \in Int
  PROVE  /\ IsFiniteSet(Smallest(U, n))
         /\ Cardinality(Smallest(U, n)) <= IF n < 0 THEN 0 ELSE n
<1> DEFINE S == Smallest(U, n)
           rank(a) == Cardinality(Below(U, a))
           left == {n - rank(a) : a \in S}
<1>1. IsFiniteSet(U) /\ U \subseteq Nat /\ S \subseteq U
  BY StandingConstants, FS_Subset DEF Smallest
<1>2. ASSUME NEW a \in S PROVE rank(a) \in Nat /\ rank(a) < n
  BY BelowIsFinite DEF Smallest
<1>3. IsFiniteSet(S)
  BY <1>1, FS_Subset
<1>4. CASE S = {}
  BY <1>3, <1>4, FS_EmptySet
<1>5. CASE S # {}
  <2> HIDE DEF S
  <2>1. left \subseteq Nat /\ left # {}
    BY <1>2, <1>5
  <2>2. PICK a \in S : \A b \in S : n - rank(a) <= n - rank(b)
    <3>1. \A b \in S : n - rank(b) \in left
      OBVIOUS
    <3>2. \A k \in left : \E b \in S : k = n - rank(b)
      OBVIOUS
    <3> HIDE DEF left
    <3>3. Min(left) \in left /\ \A k \in left : Min(left) <= k
      BY <2>1, SmallestOf
    <3>4. PICK a \in S : Min(left) = n - rank(a)
      BY <3>2, <3>3
    <3>5. \A b \in S : Min(left) <= n - rank(b)
      BY <3>1, <3>3
    <3> QED BY <3>4, <3>5
  <2>3. S \subseteq Below(U, a) \cup {a}
    <3> SUFFICES ASSUME NEW b \in S, ~(b < a), b # a PROVE FALSE
      BY <1>1 DEF Below
    <3>1. rank(a) < rank(b)
      BY <1>1, BelowGrows
    <3> QED BY <1>2, <2>2, <3>1
  <2>4. IsFiniteSet(Below(U, a)) /\ a \notin Below(U, a)
    BY <1>1, BelowIsFinite DEF Below
  <2>5. /\ IsFiniteSet(Below(U, a) \cup {a})
        /\ Cardinality(Below(U, a) \cup {a}) = rank(a) + 1
    BY <2>4, FS_AddElement
  <2>6. Cardinality(S) <= rank(a) + 1
    BY <2>3, <2>5, FS_Subset
  <2>7. Cardinality(S) \in Nat
    BY <1>3, FS_CardinalityType
  <2>8. Cardinality(S) <= n /\ ~(n < 0)
    BY <1>2, <2>6, <2>7
  <2> QED BY <1>3, <2>8 DEF S
<1> QED BY <1>3, <1>4, <1>5

\* A run asks for no more locks than its cap.
LEMMA DueWithinCap ==
  ASSUME NEW ids \in SUBSET Accounts, NEW due \in Due(ids)
  PROVE  due \in SUBSET Accounts /\ Cardinality(due) <= LockChecksPerRun
<1> DEFINE candidates == {a \in Accounts : rows[a].tracked /\ a \notin recent}
           unseen == {a \in ids : ~rows[a].tracked}
<1>1. PICK D \in SUBSET candidates :
         /\ Cardinality(D) <= LockChecksPerRun
         /\ due = D \cup Smallest(unseen, Left(D))
  BY DEF Due, Smallest, Below
<1>2. IsFiniteSet(D) /\ Cardinality(D) \in Nat
  BY StandingConstants, FS_Subset, FS_CardinalityType
<1>3. Left(D) \in Nat
  BY <1>1, <1>2, StandingConstants DEF Left
<1> DEFINE F == Smallest(unseen, Left(D))
<1>4. IsFiniteSet(F) /\ Cardinality(F) <= Left(D) /\ Cardinality(F) \in Nat
  BY <1>3, SmallestAreFew, FS_CardinalityType
<1>5. F \subseteq Accounts
  BY DEF Smallest
<1>6. D \cap F = {}
  BY DEF Smallest
<1> HIDE DEF F
<1>7. Cardinality(D \cup F) = Cardinality(D) + Cardinality(F)
  <2>1. Cardinality(D \cup F) = Cardinality(D) + Cardinality(F) - Cardinality(D \cap F)
    BY <1>2, <1>4, FS_Union
  <2>2. Cardinality(D \cap F) = 0
    BY <1>6, FS_EmptySet
  <2> QED BY <1>2, <1>4, <2>1, <2>2
<1>8. due = D \cup F
  BY <1>1 DEF F
<1> QED BY <1>2, <1>3, <1>4, <1>5, <1>7, <1>8, StandingConstants DEF Left

-----------------------------------------------------------------------------
(* Types *)

Truth == [blocked : BOOLEAN, locked : BOOLEAN,
          wording : {"none", "memorial", "sanction"}, page : BOOLEAN]
Phases == {"idle", "blocks", "pages", "locks", "reason"}
Runs == [at : Phases, ids : SUBSET Accounts, due : SUBSET Accounts,
         answered : SUBSET Accounts, found : SUBSET Accounts, todo : SUBSET Accounts,
         records : [Accounts -> Row]]
Evers == [sanctioned : SUBSET Accounts, pageless : SUBSET Accounts, lost : SUBSET Accounts]

LEMMA NowIsNat == Now \in Nat \ {0} /\ Cardinality(Accounts) \in Nat
BY StandingConstants, FS_CardinalityType DEF Now

LEMMA UnknownIsRow == Unknown \in Row
BY NowIsNat DEF Unknown, Row

\* The fields of a row are written one at a time.
LEMMA BlockedField ==
  ASSUME NEW r \in Row, NEW b \in BOOLEAN
  PROVE  [r EXCEPT !.blocked = b] \in Row
BY DEF Row

LEMMA LockedField ==
  ASSUME NEW r \in Row, NEW b \in BOOLEAN
  PROVE  [r EXCEPT !.locked = b] \in Row
BY DEF Row

LEMMA OtherFields ==
  ASSUME NEW r \in Row
  PROVE  /\ [r EXCEPT !.tracked = TRUE] \in Row
         /\ \A w \in {"none", "memorial", "sanction"} : [r EXCEPT !.reason = w] \in Row
         /\ \A p \in {"unknown", "there", "missing"} : [r EXCEPT !.page = p] \in Row
         /\ \A n \in 0..Now : [r EXCEPT !.checked = n] \in Row
BY DEF Row

\* What the requests make of a row.
Unlocked(r) == [r EXCEPT !.locked = FALSE, !.reason = "none", !.checked = Now]
Locked(r) == [r EXCEPT !.locked = TRUE]
Explained(r, w) == [r EXCEPT !.reason = w, !.checked = Now]
Paged(r, p) == [r EXCEPT !.page = p]

LEMMA BlockIsRow ==
  ASSUME NEW r \in Row, NEW b \in BOOLEAN
  PROVE  /\ Block(r, b) \in Row
         /\ Block(r, b).tracked
         /\ Block(r, b).blocked = b
         /\ Block(r, b).reason = r.reason
         /\ Block(r, b).page = r.page
         /\ Block(r, b).checked = r.checked
<1> DEFINE s == [r EXCEPT !.tracked = TRUE]
<1>1. s \in Row /\ s.tracked /\ s.reason = r.reason /\ s.page = r.page /\ s.checked = r.checked
  <2>1. s \in Row
    BY OtherFields
  <2>2. s.tracked /\ s.reason = r.reason /\ s.page = r.page /\ s.checked = r.checked
    BY DEF Row
  <2> QED BY <2>1, <2>2
<1>2. Block(r, b) = [s EXCEPT !.blocked = b]
  BY DEF Block
<1> HIDE DEF s
<1>3. [s EXCEPT !.blocked = b] \in Row
  BY <1>1, BlockedField
<1>4. LET t == [s EXCEPT !.blocked = b]
      IN t.tracked = s.tracked /\ t.reason = s.reason /\ t.page = s.page /\ t.checked = s.checked
  BY <1>1 DEF Row
<1>5. [s EXCEPT !.blocked = b].blocked = b
  BY <1>1 DEF Row
<1> QED BY <1>1, <1>2, <1>3, <1>4, <1>5

LEMMA LockIsRow ==
  ASSUME NEW r \in Row, NEW w \in {"none", "memorial", "sanction"}
  PROVE  /\ Unlocked(r) \in Row /\ Locked(r) \in Row /\ Explained(r, w) \in Row
         /\ Unlocked(r).tracked = r.tracked /\ Locked(r).tracked = r.tracked
         /\ Explained(r, w).tracked = r.tracked
         /\ Unlocked(r).blocked = r.blocked /\ Locked(r).blocked = r.blocked
         /\ Explained(r, w).blocked = r.blocked
         /\ Unlocked(r).page = r.page /\ Locked(r).page = r.page /\ Explained(r, w).page = r.page
         /\ Unlocked(r).reason = "none" /\ Locked(r).reason = r.reason
         /\ Explained(r, w).reason = w
         /\ Unlocked(r).checked = Now /\ Locked(r).checked = r.checked
         /\ Explained(r, w).checked = Now
<1>1. Now \in 0..Now
  BY NowIsNat
<1>2. Locked(r) \in Row /\ [r EXCEPT !.locked = FALSE] \in Row
  BY LockedField DEF Locked
<1>3. Unlocked(r) = [[[r EXCEPT !.locked = FALSE] EXCEPT !.reason = "none"] EXCEPT !.checked = Now]
  BY DEF Unlocked
<1>4. Explained(r, w) = [[r EXCEPT !.reason = w] EXCEPT !.checked = Now]
  BY DEF Explained
<1>5. [[r EXCEPT !.locked = FALSE] EXCEPT !.reason = "none"] \in Row
  BY <1>2, OtherFields
<1>6. Unlocked(r) \in Row
  BY <1>1, <1>3, <1>5, OtherFields
<1>7. Explained(r, w) \in Row
  <2>1. [r EXCEPT !.reason = w] \in Row
    BY OtherFields
  <2> QED BY <1>1, <1>4, <2>1, OtherFields
<1> QED BY <1>2, <1>6, <1>7 DEF Unlocked, Locked, Explained, Row

LEMMA PageIsRow ==
  ASSUME NEW r \in Row, NEW p \in {"unknown", "there", "missing"}
  PROVE  /\ Paged(r, p) \in Row
         /\ Paged(r, p).tracked = r.tracked /\ Paged(r, p).blocked = r.blocked
         /\ Paged(r, p).reason = r.reason /\ Paged(r, p).page = p
         /\ Paged(r, p).checked = r.checked
BY OtherFields DEF Paged, Row

-----------------------------------------------------------------------------
(* The invariant *)

\* TypeOK by its parts.
WorldTypes ==
  /\ named \subseteq Accounts /\ reply \in [Accounts -> Replies]
  /\ truth \in [Accounts -> Truth]
  /\ ever \in Evers
  /\ changes \in 0..MaxChanges
TableTypes ==
  /\ rows \in [Accounts -> Row]
  /\ \A a \in Accounts : rows[a].tracked \/ rows[a] = Unknown
  /\ \A a \in recent : rows[a].checked # 0
RunTypes ==
  /\ run \in Runs
  /\ Cardinality(run.due) <= LockChecksPerRun
  /\ run.at = "reason" => run.todo # {}
  /\ failures \in 0..MaxFailures

LEMMA TypeParts == TypeOK <=> WorldTypes /\ TableTypes /\ RunTypes
BY DEF TypeOK, WorldTypes, TableTypes, RunTypes, Truth, Evers, Runs, Phases

\* The history has what is the case.
TruthIsHistory ==
  \A a \in Accounts :
    /\ truth[a].blocked \/ truth[a].wording = "sanction" => a \in ever.sanctioned
    /\ ~truth[a].page => a \in ever.pageless
    /\ reply[a] = "missing" => a \in ever.lost

\* A row says nothing of an account that was never true of it.  The reason counts
\* even beside a lock that is gone, since the next lock may be stored with it.
Sound(a, r) ==
  /\ r.blocked \/ r.reason = "sanction" => a \in ever.sanctioned
  /\ r.page = "missing" => a \in ever.pageless \cup ever.lost

\* What a run has in hand may replace the table.
Replaceable(a, r) ==
  /\ Sound(a, r)
  /\ r.tracked \/ r = Unknown
  /\ a \in recent /\ r.tracked => r.checked # 0

RowsAreSound == \A a \in Accounts : Sound(a, rows[a])

RecordsAreSound ==
  /\ \A a \in Accounts : Replaceable(a, run.records[a])
  /\ run.at = "blocks" => run.records = rows
  /\ run.todo \subseteq run.answered
  /\ \A a \in run.answered : run.records[a].tracked
  /\ run.answered \ run.found \subseteq ever.lost

StandingInv ==
  /\ WorldTypes /\ TableTypes /\ RunTypes
  /\ TruthIsHistory /\ RowsAreSound /\ RecordsAreSound

LEMMA NoRunIsSound ==
  /\ NoRun \in Runs /\ NoRun.at = "idle" /\ Cardinality(NoRun.due) <= LockChecksPerRun
  /\ NoRun.todo = {} /\ NoRun.answered = {}
  /\ \A a \in Accounts : NoRun.records[a] = Unknown
<1>1. [a \in Accounts |-> Unknown] \in [Accounts -> Row]
  BY UnknownIsRow
<1> QED BY <1>1, FS_EmptySet, StandingConstants DEF NoRun, Runs, Phases

LEMMA UnknownIsSound ==
  ASSUME NEW a \in Accounts
  PROVE  Replaceable(a, Unknown)
BY DEF Replaceable, Sound, Unknown

LEMMA StandingInit == Init => StandingInv
<1> SUFFICES ASSUME Init PROVE StandingInv
  OBVIOUS
<1>1. Clean \in Truth /\ ~Clean.blocked /\ Clean.wording = "none" /\ Clean.page
  BY DEF Clean, Truth
<1>2. WorldTypes
  BY <1>1, StandingConstants DEF Init, WorldTypes, Evers, Replies
<1>3. TableTypes
  BY UnknownIsRow DEF Init, TableTypes
<1>4. RunTypes
  BY NoRunIsSound, StandingConstants DEF Init, RunTypes
<1>5. TruthIsHistory
  BY <1>1 DEF Init, TruthIsHistory
<1>6. RowsAreSound
  BY UnknownIsSound DEF Init, RowsAreSound, Replaceable
<1>7. RecordsAreSound
  BY NoRunIsSound, UnknownIsSound DEF Init, RecordsAreSound
<1> QED BY <1>2, <1>3, <1>4, <1>5, <1>6, <1>7 DEF StandingInv

\* What is done to an account is remembered.
LEMMA DecisionsAreTruth ==
  ASSUME WorldTypes, NEW a \in Accounts, Decide(a)
  PROVE  /\ truth' \in [Accounts -> Truth]
         /\ \A b \in Accounts : /\ truth'[b].blocked => Sanctioned(b)'
                                /\ truth'[b].wording = "sanction" =>
                                     Sanctioned(b)' \/ truth[b].wording = "sanction"
<1>1. truth \in [Accounts -> Truth] /\ truth[a] \in Truth
  BY DEF WorldTypes
<1> DEFINE t == truth[a]
<1>2. CASE truth' = [truth EXCEPT ![a].blocked = ~@]
  <2>1. [t EXCEPT !.blocked = ~@] \in Truth /\ [t EXCEPT !.blocked = ~@].wording = t.wording
    BY <1>1 DEF Truth
  <2>2. truth' = [truth EXCEPT ![a] = [t EXCEPT !.blocked = ~@]]
    BY <1>2
  <2> HIDE DEF t
  <2>3. truth'[a].wording = truth[a].wording /\ \A b \in Accounts \ {a} : truth'[b] = truth[b]
    BY <1>1, <2>1, <2>2 DEF t
  <2> QED BY <1>1, <2>1, <2>2, <2>3 DEF Sanctioned
<1>3. CASE \E w \in {"memorial", "sanction"} :
             truth' = [truth EXCEPT ![a].locked = TRUE, ![a].wording = w]
  <2>1. PICK w \in {"memorial", "sanction"} :
               truth' = [truth EXCEPT ![a].locked = TRUE, ![a].wording = w]
    BY <1>3
  <2> DEFINE u == [[t EXCEPT !.locked = TRUE] EXCEPT !.wording = w]
  <2>2. u \in Truth /\ u.locked /\ u.wording = w
    BY <1>1 DEF Truth
  <2>3. truth' = [truth EXCEPT ![a] = u]
    BY <1>1, <2>1
  <2> HIDE DEF u
  <2>4. truth'[a] = u /\ \A b \in Accounts \ {a} : truth'[b] = truth[b]
    BY <1>1, <2>3
  <2> QED BY <1>1, <2>2, <2>3, <2>4 DEF Sanctioned
<1>4. CASE truth' = [truth EXCEPT ![a].locked = FALSE]
  <2>1. [t EXCEPT !.locked = FALSE] \in Truth /\ [t EXCEPT !.locked = FALSE].wording = t.wording
    BY <1>1 DEF Truth
  <2>2. truth' = [truth EXCEPT ![a] = [t EXCEPT !.locked = FALSE]]
    BY <1>4
  <2> HIDE DEF t
  <2>3. truth'[a].wording = truth[a].wording /\ \A b \in Accounts \ {a} : truth'[b] = truth[b]
    BY <1>1, <2>1, <2>2 DEF t
  <2> QED BY <1>1, <2>1, <2>2, <2>3 DEF Sanctioned
<1>5. CASE truth' = [truth EXCEPT ![a].page = ~@]
  <2>1. [t EXCEPT !.page = ~@] \in Truth /\ [t EXCEPT !.page = ~@].wording = t.wording
    BY <1>1 DEF Truth
  <2>2. truth' = [truth EXCEPT ![a] = [t EXCEPT !.page = ~@]]
    BY <1>5
  <2> HIDE DEF t
  <2>3. truth'[a].wording = truth[a].wording /\ \A b \in Accounts \ {a} : truth'[b] = truth[b]
    BY <1>1, <2>1, <2>2 DEF t
  <2> QED BY <1>1, <2>1, <2>2, <2>3 DEF Sanctioned
<1> QED BY <1>2, <1>3, <1>4, <1>5 DEF Decide

\* The history only grows.
LEMMA HistoryGrows ==
  ASSUME StandingInv, UNCHANGED <<rows, recent, run, failures>>, WorldTypes', TruthIsHistory',
         ever.sanctioned \subseteq ever'.sanctioned, ever.pageless \subseteq ever'.pageless,
         ever.lost \subseteq ever'.lost
  PROVE  StandingInv'
<1>1. TableTypes' /\ RunTypes'
  BY DEF StandingInv, TableTypes, RunTypes
<1>2. \A a, r : Sound(a, r) => Sound(a, r)'
  BY DEF Sound
<1>3. \A a, r : Replaceable(a, r) => Replaceable(a, r)'
  BY <1>2 DEF Replaceable
<1> QED BY <1>1, <1>2, <1>3 DEF StandingInv, RowsAreSound, RecordsAreSound

LEMMA WorldMoves ==
  ASSUME StandingInv, NEW a \in Accounts, Decide(a) \/ Appear(a)
  PROVE  StandingInv'
<1>1. Change
  BY DEF Decide, Appear
<1>2. truth' \in [Accounts -> Truth]
  BY DecisionsAreTruth DEF Appear, StandingInv, WorldTypes
<1>3. named' \subseteq Accounts /\ reply' \in [Accounts -> Replies]
  BY DEF Decide, Appear, Toggle, StandingInv, WorldTypes
<1>4. /\ ever'.sanctioned = ever.sanctioned \cup {b \in Accounts : Sanctioned(b)'}
      /\ ever'.pageless = ever.pageless \cup {b \in Accounts : ~truth'[b].page}
      /\ ever'.lost = ever.lost \cup {b \in Accounts : reply'[b] = "missing"}
      /\ ever' \in Evers
  BY <1>1 DEF Change, StandingInv, WorldTypes, Evers
<1>5. WorldTypes'
  BY <1>1, <1>2, <1>3, <1>4, StandingConstants DEF Change, StandingInv, WorldTypes
<1>6. TruthIsHistory'
  <2>1. \A b \in Accounts : /\ truth'[b].blocked => Sanctioned(b)'
                            /\ truth'[b].wording = "sanction" =>
                                 Sanctioned(b)' \/ truth[b].wording = "sanction"
    BY DecisionsAreTruth DEF Appear, Sanctioned, StandingInv
  <2> QED BY <1>4, <2>1 DEF TruthIsHistory, StandingInv
<1>7. UNCHANGED <<rows, recent, run, failures>>
  BY <1>1 DEF Change, table
<1> QED BY <1>4, <1>5, <1>6, <1>7, HistoryGrows

LEMMA TimePasses ==
  ASSUME StandingInv, GoStale
  PROVE  StandingInv'
<1>1. recent' \subseteq recent /\ UNCHANGED <<named, reply, truth, ever, changes, rows, run, failures>>
  BY DEF GoStale, world
<1>2. WorldTypes' /\ TableTypes' /\ RunTypes' /\ TruthIsHistory' /\ RowsAreSound'
  BY <1>1 DEF StandingInv, WorldTypes, TableTypes, RunTypes, TruthIsHistory, RowsAreSound, Sound
<1>3. \A a, r : Replaceable(a, r) => Replaceable(a, r)'
  BY <1>1 DEF Replaceable, Sound
<1> QED BY <1>1, <1>2, <1>3 DEF StandingInv, RecordsAreSound

\* A step of a run that writes no table.
LEMMA RunSteps ==
  ASSUME StandingInv, UNCHANGED <<world, table>>, RunTypes', RecordsAreSound'
  PROVE  StandingInv'
<1>1. UNCHANGED <<named, reply, truth, ever, changes, rows, recent>>
  BY DEF world, table
<1> QED BY <1>1 DEF StandingInv, WorldTypes, TableTypes, TruthIsHistory, RowsAreSound, Sound

\* The same by what the run has in hand.
LEMMA RecordsStep ==
  ASSUME StandingInv, UNCHANGED <<world, table>>, RunTypes', run'.at # "blocks",
         run'.todo \subseteq run'.answered,
         run'.answered \ run'.found \subseteq ever.lost,
         \A a \in Accounts : Replaceable(a, run'.records[a]),
         \A a \in run'.answered : run'.records[a].tracked
  PROVE  StandingInv'
<1>1. UNCHANGED <<ever, recent>>
  BY DEF world, table
<1>2. \A a \in Accounts : Replaceable(a, run.records[a])'
  BY <1>1 DEF Replaceable, Sound
<1>3. RecordsAreSound'
  BY <1>1, <1>2 DEF RecordsAreSound
<1> QED BY <1>3, RunSteps

LEMMA BeginsSound ==
  ASSUME StandingInv, ReadTables
  PROVE  StandingInv'
<1>1. PICK due \in Due(named) :
         run' = [NoRun EXCEPT !.at = "blocks", !.ids = named, !.due = due, !.records = rows]
  BY DEF ReadTables
<1>2. named \in SUBSET Accounts /\ rows \in [Accounts -> Row]
  BY DEF StandingInv, WorldTypes, TableTypes
<1>3. due \in SUBSET Accounts /\ Cardinality(due) <= LockChecksPerRun
  BY <1>2, DueWithinCap
<1>4. /\ run'.at = "blocks" /\ run'.due = due /\ run'.records = rows
      /\ run'.todo = {} /\ run'.answered = {}
      /\ run' \in Runs
  BY <1>1, <1>2, <1>3 DEF NoRun, Runs, Phases
<1>5. RunTypes'
  BY <1>3, <1>4 DEF ReadTables, StandingInv, RunTypes
<1>6. UNCHANGED <<world, table>>
  BY DEF ReadTables
<1>7. \A a \in Accounts : Replaceable(a, rows[a])'
  <2>1. UNCHANGED <<ever, recent, rows>>
    BY <1>6 DEF world, table
  <2> QED BY <2>1 DEF StandingInv, TableTypes, RowsAreSound, Replaceable, Sound
<1>8. rows' = rows
  BY <1>6 DEF table
<1>9. RecordsAreSound'
  BY <1>4, <1>7, <1>8 DEF RecordsAreSound
<1> QED BY <1>5, <1>6, <1>9, RunSteps

LEMMA BlocksSound ==
  ASSUME StandingInv, FetchBlocks
  PROVE  StandingInv'
<1> DEFINE answered == {a \in run.ids : reply[a] # "absent"}
           found == {a \in run.ids : reply[a] = "found"}
           blocked(a) == a \in found /\ truth[a].blocked
           new == [a \in Accounts |->
                     IF a \in answered THEN Block(run.records[a], blocked(a))
                     ELSE IF a \in run.ids THEN run.records[a] ELSE Unknown]
<1>1. /\ run \in Runs /\ run.records = rows /\ rows \in [Accounts -> Row]
      /\ truth \in [Accounts -> Truth]
  BY DEF FetchBlocks, StandingInv, RunTypes, RecordsAreSound, TableTypes, WorldTypes
<1>2. run.ids \in SUBSET Accounts /\ run.due \in SUBSET Accounts
  BY <1>1 DEF Runs
<1>3. ASSUME NEW a \in Accounts
      PROVE  /\ new[a] \in Row /\ Replaceable(a, new[a])
             /\ a \in answered => new[a].tracked
  <2>1. rows[a] \in Row /\ blocked(a) \in BOOLEAN
    BY <1>1 DEF Truth
  <2>2. Replaceable(a, rows[a])
    BY DEF StandingInv, TableTypes, RowsAreSound, Replaceable
  <2>3. CASE a \in answered
    <3>1. new[a] = Block(rows[a], blocked(a))
      BY <1>1, <2>3
    <3>2. blocked(a) => a \in ever.sanctioned
      BY DEF StandingInv, TruthIsHistory
    <3>3. a \in recent => rows[a].checked # 0
      BY DEF StandingInv, TableTypes
    <3> HIDE DEF new, blocked
    <3>4. new[a] \in Row /\ new[a].tracked
      BY <2>1, <3>1, BlockIsRow
    <3>5. /\ new[a].blocked = blocked(a) /\ new[a].reason = rows[a].reason
          /\ new[a].page = rows[a].page /\ new[a].checked = rows[a].checked
      BY <2>1, <3>1, BlockIsRow
    <3>6. Sound(a, new[a])
      BY <2>2, <3>2, <3>5 DEF Replaceable, Sound
    <3> QED BY <3>3, <3>4, <3>5, <3>6 DEF Replaceable
  <2>4. CASE a \notin answered /\ a \in run.ids
    BY <1>1, <2>1, <2>2, <2>4
  <2>5. CASE a \notin run.ids
    BY <2>5, UnknownIsRow, UnknownIsSound
  <2> QED BY <2>3, <2>4, <2>5
<1>4. new \in [Accounts -> Row]
  BY <1>3
<1>5. /\ answered \in SUBSET Accounts /\ found \in SUBSET Accounts
      /\ run.due \cap answered \in SUBSET Accounts
      /\ answered \ found \subseteq ever.lost
  <2>1. \A a \in Accounts : reply[a] \in Replies
    BY DEF StandingInv, WorldTypes
  <2>2. \A a \in Accounts : reply[a] = "missing" => a \in ever.lost
    BY DEF StandingInv, TruthIsHistory
  <2> QED BY <1>2, <2>1, <2>2 DEF Replies
<1>6. run' = [run EXCEPT !.at = "pages", !.answered = answered, !.found = found,
                         !.todo = run.due \cap answered, !.records = new]
  BY DEF FetchBlocks
<1> HIDE DEF new, answered, found
<1>7. /\ run' \in Runs /\ run'.at = "pages" /\ run'.answered = answered /\ run'.found = found
      /\ run'.todo = run.due \cap answered /\ run'.records = new /\ run'.due = run.due
  BY <1>1, <1>4, <1>5, <1>6 DEF Runs, Phases
<1>8. RunTypes'
  BY <1>7 DEF FetchBlocks, StandingInv, RunTypes
<1>9. UNCHANGED <<world, table>>
  BY DEF FetchBlocks
<1>10. /\ \A a \in run'.answered : a \in Accounts
       /\ run'.answered \ run'.found \subseteq ever.lost
  BY <1>5, <1>7
<1> QED BY <1>3, <1>7, <1>8, <1>9, <1>10, RecordsStep

LEMMA PagesSound ==
  ASSUME StandingInv, FetchPages \/ PagesFail
  PROVE  StandingInv'
<1> DEFINE seen(a) == IF a \in run.found /\ truth[a].page THEN "there" ELSE "missing"
           new == [a \in Accounts |->
                     IF a \in run.answered THEN Paged(run.records[a], seen(a))
                     ELSE run.records[a]]
<1>1. /\ run \in Runs /\ run.records \in [Accounts -> Row] /\ run.answered \in SUBSET Accounts
      /\ run.at = "pages" /\ run.answered \ run.found \subseteq ever.lost
  BY DEF RecordsAreSound, FetchPages, PagesFail, StandingInv, RunTypes, Runs
<1>2. /\ \A a \in Accounts : Replaceable(a, run.records[a])
      /\ run.todo \subseteq run.answered
      /\ \A a \in run.answered : run.records[a].tracked
  BY DEF StandingInv, RecordsAreSound
<1>3. CASE FetchPages
  <2>1. ASSUME NEW a \in Accounts
        PROVE  /\ new[a] \in Row /\ Replaceable(a, new[a])
               /\ a \in run.answered => new[a].tracked
    <3>1. CASE a \in run.answered
      <4>1. new[a] = Paged(run.records[a], seen(a))
        BY <3>1
      <4>2. seen(a) = "missing" => a \in ever.pageless \cup ever.lost
        BY <1>1, <3>1 DEF StandingInv, TruthIsHistory
      <4>3. run.records[a] \in Row /\ seen(a) \in {"unknown", "there", "missing"}
        BY <1>1
      <4> HIDE DEF new, seen
      <4>4. /\ new[a] \in Row /\ new[a].tracked = run.records[a].tracked
            /\ new[a].blocked = run.records[a].blocked
            /\ new[a].reason = run.records[a].reason /\ new[a].page = seen(a)
            /\ new[a].checked = run.records[a].checked
        BY <4>1, <4>3, PageIsRow
      <4>5. run.records[a].tracked /\ Replaceable(a, run.records[a])
        BY <1>2, <3>1
      <4> QED BY <4>2, <4>4, <4>5 DEF Replaceable, Sound
    <3>2. CASE a \notin run.answered
      BY <1>1, <1>2, <3>2
    <3> QED BY <3>1, <3>2
  <2>2. new \in [Accounts -> Row]
    BY <2>1
  <2>3. run' = [run EXCEPT !.at = "locks", !.records = new]
    BY <1>3 DEF FetchPages, Paged
  <2> HIDE DEF new
  <2>4. /\ run' \in Runs /\ run'.at = "locks" /\ run'.answered = run.answered
        /\ run'.found = run.found /\ run'.todo = run.todo /\ run'.records = new /\ run'.due = run.due
    BY <1>1, <2>2, <2>3 DEF Runs, Phases
  <2>5. RunTypes'
    BY <1>3, <2>4 DEF FetchPages, StandingInv, RunTypes
  <2>6. UNCHANGED <<world, table>>
    BY <1>3 DEF FetchPages
  <2>7. \A a \in run'.answered : a \in Accounts
    BY <1>1, <2>4
  <2> QED BY <1>1, <1>2, <2>1, <2>4, <2>5, <2>6, <2>7, RecordsStep
<1>4. CASE PagesFail
  <2>1. run' = [run EXCEPT !.at = "locks", !.records = run.records]
    BY <1>4 DEF PagesFail, SamePages
  <2>2. /\ run' \in Runs /\ run'.at = "locks" /\ run'.answered = run.answered
        /\ run'.found = run.found /\ run'.todo = run.todo /\ run'.records = run.records /\ run'.due = run.due
    BY <1>1, <2>1 DEF Runs, Phases
  <2>3. RunTypes'
    BY <1>4, <2>2, StandingConstants DEF PagesFail, StandingInv, RunTypes
  <2>4. UNCHANGED <<world, table>>
    BY <1>4 DEF PagesFail
  <2> QED BY <1>1, <1>2, <2>2, <2>3, <2>4, RecordsStep
<1> QED BY <1>3, <1>4

LEMMA LocksSound ==
  ASSUME StandingInv, CheckLock \/ ReadReason \/ LockFails
  PROVE  StandingInv'
<1> DEFINE a == Min(run.todo)
           r == run.records[a]
<1>1. /\ run \in Runs /\ run.records \in [Accounts -> Row] /\ run.answered \in SUBSET Accounts
      /\ run.todo \in SUBSET Accounts /\ run.todo # {} /\ Cardinality(run.due) <= LockChecksPerRun
      /\ run.at \in {"locks", "reason"}
  BY DEF CheckLock, ReadReason, LockFails, StandingInv, RunTypes, Runs
<1>2. /\ \A b \in Accounts : Replaceable(b, run.records[b])
      /\ run.todo \subseteq run.answered
      /\ \A b \in run.answered : run.records[b].tracked
      /\ run.answered \ run.found \subseteq ever.lost
  BY DEF StandingInv, RecordsAreSound
<1>3. a \in run.todo /\ a \in Accounts
  BY <1>1, SmallestOf, StandingConstants
<1>4. r \in Row /\ r.tracked /\ Replaceable(a, r)
  BY <1>1, <1>2, <1>3
<1>5. truth[a].wording \in {"none", "memorial", "sanction"}
        /\ (truth[a].wording = "sanction" => a \in ever.sanctioned)
  BY <1>3 DEF StandingInv, WorldTypes, Truth, TruthIsHistory
<1> HIDE DEF a, r
<1>6. ASSUME NEW s \in Row, s.tracked, Sound(a, s), a \in recent => s.checked # 0,
             NEW at \in {"locks", "reason"}, NEW todo \in SUBSET run.todo,
             at = "reason" => todo # {},
             run' = [run EXCEPT !.at = at, !.todo = todo,
                                !.records = [run.records EXCEPT ![a] = s]],
             UNCHANGED <<world, table>>, failures' \in 0..MaxFailures
      PROVE  StandingInv'
  <2> DEFINE new == [run.records EXCEPT ![a] = s]
  <2>1. new \in [Accounts -> Row] /\ new[a] = s /\ \A b \in Accounts \ {a} : new[b] = run.records[b]
    BY <1>1, <1>3, <1>6
  <2>2. todo \in SUBSET Accounts
    BY <1>1
  <2>3. run' = [run EXCEPT !.at = at, !.todo = todo, !.records = new]
    BY <1>6
  <2> HIDE DEF new
  <2>4. /\ run' \in Runs /\ run'.at = at /\ run'.answered = run.answered
        /\ run'.found = run.found /\ run'.todo = todo /\ run'.records = new /\ run'.due = run.due
    BY <1>1, <2>1, <2>2, <2>3 DEF Runs, Phases
  <2>5. RunTypes'
    BY <1>1, <1>6, <2>4 DEF RunTypes
  <2>6. \A b \in Accounts : Replaceable(b, new[b])
    <3>1. Replaceable(a, s)
      BY <1>6 DEF Replaceable
    <3> QED BY <1>2, <2>1, <3>1
  <2>7. \A b \in run.answered : new[b].tracked
    <3>1. \A b \in run.answered : b \in Accounts
      BY <1>1
    <3> QED BY <1>2, <1>6, <2>1, <3>1
  <2>8. run'.todo \subseteq run'.answered /\ run'.answered \ run'.found \subseteq ever.lost
    BY <1>2, <2>4
  <2> QED BY <1>6, <2>4, <2>5, <2>6, <2>7, <2>8, RecordsStep
<1>7. run.todo \ {a} \in SUBSET run.todo
  OBVIOUS
<1>8. failures \in 0..MaxFailures
  BY DEF StandingInv, RunTypes
<1>9. CASE CheckLock /\ a \in run.found /\ truth[a].locked
  <2>1. run' = [run EXCEPT !.at = "reason", !.records[a] = Locked(r)]
    BY <1>9 DEF CheckLock, Locked, a, r
  <2>2. run' = [run EXCEPT !.at = "reason", !.todo = run.todo,
                           !.records = [run.records EXCEPT ![a] = Locked(r)]]
    BY <1>1, <2>1 DEF Runs
  <2>3. Locked(r) \in Row /\ Locked(r).tracked
    BY <1>4, LockIsRow
  <2>4. Locked(r).blocked = r.blocked /\ Locked(r).reason = r.reason
          /\ Locked(r).page = r.page /\ Locked(r).checked = r.checked
    BY <1>4, LockIsRow
  <2>5. Sound(a, Locked(r)) /\ (a \in recent => Locked(r).checked # 0)
    BY <1>4, <2>4 DEF Replaceable, Sound
  <2>6. UNCHANGED <<world, table>> /\ failures' = failures
    BY <1>9 DEF CheckLock
  <2> QED BY <1>1, <1>6, <1>8, <2>2, <2>3, <2>5, <2>6
<1>10. CASE CheckLock /\ ~(a \in run.found /\ truth[a].locked)
  <2>1. run' = [run EXCEPT !.todo = @ \ {a}, !.records[a] = Unlocked(r)]
    BY <1>10 DEF CheckLock, Unlocked, a, r
  <2>2. run.at = "locks"
    BY <1>10 DEF CheckLock
  <2>3. run' = [run EXCEPT !.at = "locks", !.todo = run.todo \ {a},
                           !.records = [run.records EXCEPT ![a] = Unlocked(r)]]
    BY <1>1, <2>1, <2>2 DEF Runs
  <2>4. Unlocked(r) \in Row /\ Unlocked(r).tracked
    BY <1>4, LockIsRow
  <2>5. Unlocked(r).blocked = r.blocked /\ Unlocked(r).reason = "none"
          /\ Unlocked(r).page = r.page /\ Unlocked(r).checked = Now
    BY <1>4, LockIsRow
  <2>6. Sound(a, Unlocked(r)) /\ (a \in recent => Unlocked(r).checked # 0)
    BY <1>4, <2>5, NowIsNat DEF Replaceable, Sound
  <2>7. UNCHANGED <<world, table>> /\ failures' = failures
    BY <1>10 DEF CheckLock
  <2> QED BY <1>6, <1>8, <1>7, <2>3, <2>4, <2>6, <2>7
<1>11. CASE ReadReason
  <2> DEFINE s == Explained(r, truth[a].wording)
  <2>1. run' = [run EXCEPT !.at = "locks", !.todo = @ \ {a}, !.records[a] = s]
    BY <1>11 DEF ReadReason, Explained, a, r
  <2> HIDE DEF s
  <2>2. run' = [run EXCEPT !.at = "locks", !.todo = run.todo \ {a},
                           !.records = [run.records EXCEPT ![a] = s]]
    BY <1>1, <2>1 DEF Runs
  <2>3. s \in Row /\ s.tracked
    BY <1>4, <1>5, LockIsRow DEF s
  <2>4. s.blocked = r.blocked /\ s.reason = truth[a].wording /\ s.page = r.page /\ s.checked = Now
    BY <1>4, <1>5, LockIsRow DEF s
  <2>5. Sound(a, s) /\ (a \in recent => s.checked # 0)
    BY <1>4, <1>5, <2>4, NowIsNat DEF Replaceable, Sound
  <2>6. UNCHANGED <<world, table>> /\ failures' = failures
    BY <1>11 DEF ReadReason
  <2> QED BY <1>6, <1>8, <1>7, <2>2, <2>3, <2>5, <2>6
<1>12. CASE LockFails
  <2>1. run' = [run EXCEPT !.at = "locks", !.todo = @ \ {a}]
    BY <1>12 DEF LockFails, a
  <2>2. [run.records EXCEPT ![a] = r] = run.records
    BY <1>1, <1>3 DEF r
  <2>3. run' = [run EXCEPT !.at = "locks", !.todo = run.todo \ {a},
                           !.records = [run.records EXCEPT ![a] = r]]
    BY <1>1, <2>1, <2>2 DEF Runs
  <2>4. UNCHANGED <<world, table>> /\ failures' \in 0..MaxFailures
    BY <1>8, <1>12, StandingConstants DEF LockFails
  <2>5. Sound(a, r) /\ (a \in recent => r.checked # 0)
    BY <1>4 DEF Replaceable
  <2> QED BY <1>4, <1>6, <1>7, <2>3, <2>4, <2>5
<1> QED BY <1>9, <1>10, <1>11, <1>12

\* The order in which replace_standing leaves the rows.
Rank(a) ==
  Cardinality({run.records[b].checked : b \in {b \in Accounts :
                 run.records[b].checked # 0
                   /\ run.records[b].checked <= run.records[a].checked}})

LEMMA RanksFit ==
  ASSUME NEW a \in Accounts, run.records \in [Accounts -> Row]
  PROVE  /\ Rank(a) \in 0..Now
         /\ Rank(a) = 0 <=> run.records[a].checked = 0
<1> DEFINE checks == {run.records[b].checked : b \in {b \in Accounts :
                        run.records[b].checked # 0
                          /\ run.records[b].checked <= run.records[a].checked}}
<1>1. \A b \in Accounts : run.records[b].checked \in 0..Now
  BY DEF Row
<1>2. checks \subseteq 1..Now
  BY <1>1, NowIsNat
<1>3. IsFiniteSet(1..Now) /\ Cardinality(1..Now) = Now
  BY NowIsNat, FS_Interval
<1>4. run.records[a].checked = 0 => checks = {}
  BY <1>1
<1>5. run.records[a].checked # 0 => checks # {}
  <2>1. run.records[a].checked \in Nat /\ run.records[a].checked <= run.records[a].checked
    BY <1>1, NowIsNat
  <2>2. run.records[a].checked # 0 => run.records[a].checked \in checks
    BY <2>1
  <2> QED BY <2>2
<1> HIDE DEF checks
<1>6. IsFiniteSet(checks) /\ Cardinality(checks) <= Now /\ Cardinality(checks) \in Nat
  BY <1>2, <1>3, FS_Subset, FS_CardinalityType
<1>7. Cardinality(checks) = 0 <=> checks = {}
  BY <1>6, FS_EmptySet
<1>8. Rank(a) = Cardinality(checks)
  BY DEF Rank, checks
<1> QED BY <1>4, <1>5, <1>6, <1>7, <1>8, NowIsNat

LEMMA RunEnds ==
  ASSUME RunTypes, run' = NoRun, failures' \in 0..MaxFailures,
         UNCHANGED ever
  PROVE  RunTypes' /\ RecordsAreSound'
<1>1. RunTypes'
  BY NoRunIsSound DEF RunTypes
<1>2. \A a \in Accounts : Replaceable(a, run.records[a])'
  BY NoRunIsSound DEF Replaceable, Sound, Unknown
<1>3. /\ run'.at = "idle" /\ run'.todo = {} /\ run'.answered = {}
  BY NoRunIsSound
<1> QED BY <1>1, <1>2, <1>3 DEF RecordsAreSound

LEMMA TableSound ==
  ASSUME StandingInv, Replace
  PROVE  StandingInv'
<1>1. /\ rows' = [a \in Accounts |-> [run.records[a] EXCEPT !.checked = Rank(a)]]
      /\ recent' = {a \in Accounts : run.records[a].tracked
                      /\ (run.records[a].checked = Now \/ a \in recent)}
      /\ run' = NoRun /\ failures' = failures
      /\ UNCHANGED <<named, reply, truth, ever, changes>>
  BY DEF Replace, Rank, world
<1>2. run.records \in [Accounts -> Row]
  BY DEF StandingInv, RunTypes, Runs
<1>3. ASSUME NEW a \in Accounts
      PROVE  /\ rows'[a] \in Row
             /\ rows'[a].tracked \/ rows'[a] = Unknown
             /\ a \in recent' => rows'[a].checked # 0
             /\ Sound(a, rows'[a])
  <2> DEFINE r == run.records[a]
             n == Rank(a)
  <2>1. r \in Row /\ Replaceable(a, r)
    BY <1>2 DEF StandingInv, RecordsAreSound
  <2>2. n \in 0..Now /\ (n = 0 <=> r.checked = 0)
    BY <1>2, RanksFit
  <2>3. rows'[a] = [r EXCEPT !.checked = n]
    BY <1>1
  <2>4. a \in recent' => r.tracked /\ (r.checked = Now \/ a \in recent)
    BY <1>1
  <2> HIDE DEF r, n
  <2>5. /\ rows'[a] \in Row /\ rows'[a].checked = n
        /\ rows'[a].tracked = r.tracked /\ rows'[a].blocked = r.blocked
        /\ rows'[a].reason = r.reason /\ rows'[a].page = r.page
    BY <2>1, <2>2, <2>3, OtherFields DEF Row
  <2>6. r = Unknown => rows'[a] = Unknown
    <3>1. r = Unknown => n = 0
      BY <2>2 DEF Unknown
    <3> QED BY <2>3, <3>1 DEF Unknown
  <2>7. a \in recent' => n # 0
    BY <2>1, <2>2, <2>4, NowIsNat DEF Replaceable
  <2> QED BY <2>1, <2>5, <2>6, <2>7 DEF Replaceable, Sound
<1>4. rows' \in [Accounts -> Row]
  <2>1. \A a \in Accounts : [run.records[a] EXCEPT !.checked = Rank(a)] \in Row
    BY <1>1, <1>3
  <2> QED BY <1>1, <2>1
<1>5. TableTypes'
  <2>1. \A a \in recent' : a \in Accounts
    BY <1>1
  <2> QED BY <1>3, <1>4, <2>1 DEF TableTypes
<1>6. RowsAreSound'
  BY <1>1, <1>3 DEF RowsAreSound, Sound
<1>7. RunTypes' /\ RecordsAreSound'
  <2>1. failures' \in 0..MaxFailures
    BY <1>1 DEF StandingInv, RunTypes
  <2> QED BY <1>1, <2>1, RunEnds DEF StandingInv
<1>8. WorldTypes' /\ TruthIsHistory'
  BY <1>1 DEF StandingInv, WorldTypes, TruthIsHistory
<1> QED BY <1>5, <1>6, <1>7, <1>8 DEF StandingInv

LEMMA AbandonSound ==
  ASSUME StandingInv, Abandon
  PROVE  StandingInv'
<1>1. failures' \in 0..MaxFailures /\ run' = NoRun
  BY StandingConstants DEF Abandon, StandingInv, RunTypes
<1>2. UNCHANGED <<world, table>> /\ UNCHANGED ever
  BY DEF Abandon, world
<1> QED BY <1>1, <1>2, RunEnds, RunSteps DEF StandingInv

LEMMA StandingNext == StandingInv /\ [Next]_vars => StandingInv'
<1> SUFFICES ASSUME StandingInv, [Next]_vars PROVE StandingInv'
  OBVIOUS
<1>1. CASE \E a \in Accounts : Decide(a) \/ Appear(a)
  BY <1>1, WorldMoves
<1>2. CASE GoStale
  BY <1>2, TimePasses
<1>3. CASE Sync \/ PagesFail \/ LockFails \/ Abandon
  BY <1>3, BeginsSound, BlocksSound, PagesSound, LocksSound, TableSound, AbandonSound DEF Sync
<1>4. CASE UNCHANGED vars
  BY <1>4 DEF vars, world, table, StandingInv, WorldTypes, TableTypes, RunTypes,
              TruthIsHistory, RowsAreSound, RecordsAreSound, Replaceable, Sound
<1> QED BY <1>1, <1>2, <1>3, <1>4 DEF Next

LEMMA StandingHolds == Spec => []StandingInv
<1>1. Init => StandingInv
  BY StandingInit
<1>2. StandingInv /\ [Next]_vars => StandingInv'
  BY StandingNext
<1> QED BY <1>1, <1>2, PTL DEF Spec

-----------------------------------------------------------------------------
(* The theorems *)

\* The table and a run are well formed, and no run asks for more locks than the cap,
\* however many accounts are new and however many wait for their turn.
THEOREM StandingTypes == Spec => []TypeOK
<1>1. StandingInv => TypeOK
  BY TypeParts DEF StandingInv
<1> QED BY <1>1, StandingHolds, PTL

\* Nobody is made out to be sanctioned: whoever a stored row withholds was blocked,
\* or locked for a sanction, at some time.
THEOREM WithheldWithCause == Spec => []WithheldWasSanctioned
<1>1. StandingInv => WithheldWasSanctioned
  BY DEF StandingInv, RowsAreSound, Sound, WithheldWasSanctioned, Withheld
<1> QED BY <1>1, StandingHolds, PTL

\* A stored row takes away a link only after the wiki had no user page, or knew no
\* account by the id: the one answer that is taken for "no page" without being one.
THEOREM UnlinkedWithCause == Spec => []MissingPageWasMissing
<1>1. StandingInv => MissingPageWasMissing
  BY DEF StandingInv, RowsAreSound, Sound, MissingPageWasMissing
<1> QED BY <1>1, StandingHolds, PTL
=============================================================================
