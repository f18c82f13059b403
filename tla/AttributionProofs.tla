------------------------- MODULE AttributionProofs -------------------------
(***************************************************************************)
(* Who is named, for any accounts, any thresholds and any size of the      *)
(* pool and the cache, whatever the wiki changes between the requests.     *)
(***************************************************************************)
EXTENDS Attribution, FiniteSetTheorems, SequenceTheorems, WellFoundedInduction, TLAPS

-----------------------------------------------------------------------------
(* Sums over the accounts *)

\* A set of numbers has a smallest one.
LEMMA SmallestOf ==
  ASSUME NEW S, S \subseteq Nat, S # {}
  PROVE  \E x \in S : \A y \in S : x <= y
<1>1. PICK x \in S : \A y \in S : ~(<<y, x>> \in OpToRel(<, Nat))
  BY NatLessThanWellFounded, WFMin
<1>2. ASSUME NEW y \in S PROVE x <= y
  <2>1. CASE y < x
    <3>1. <<y, x>> \in Nat \X Nat /\ <<y, x>>[1] < <<y, x>>[2]
      BY <2>1
    <3>2. <<y, x>> \in OpToRel(<, Nat)
      BY <3>1 DEF OpToRel
    <3> QED BY <1>1, <3>2
  <2> QED BY <2>1
<1> QED BY <1>2

\* Induction over the subsets of a finite set, for a property given as the set of
\* those that have it.
LEMMA SubsetInduction ==
  ASSUME NEW S, IsFiniteSet(S), NEW Q, Q \subseteq SUBSET S, {} \in Q,
         \A s \in SUBSET S : s # {} /\ (\A x \in s : s \ {x} \in Q) => s \in Q
  PROVE  Q = SUBSET S
<1> DEFINE sizes == {n \in Nat : \E s \in SUBSET S : s \notin Q /\ Cardinality(s) = n}
<1>1. ASSUME NEW s \in SUBSET S
      PROVE  /\ IsFiniteSet(s) /\ Cardinality(s) \in Nat
             /\ \A x \in s : Cardinality(s \ {x}) = Cardinality(s) - 1
  BY FS_Subset, FS_CardinalityType, FS_RemoveElement
<1>2. ASSUME NEW n \in sizes, \A k \in sizes : n <= k PROVE FALSE
  <2>1. PICK s \in SUBSET S : s \notin Q /\ Cardinality(s) = n
    OBVIOUS
  <2>2. PICK x \in s : s \ {x} \notin Q
    BY <2>1
  <2>3. s \ {x} \in SUBSET S /\ Cardinality(s \ {x}) = n - 1 /\ Cardinality(s \ {x}) \in Nat
    BY <1>1, <2>1
  <2>4. n - 1 \in sizes
    BY <2>2, <2>3
  <2>5. n <= n - 1 /\ n \in Nat
    BY <1>2, <2>4
  <2> QED BY <2>5
<1>3. sizes = {}
  <2>1. sizes \subseteq Nat
    OBVIOUS
  <2> HIDE DEF sizes
  <2> QED BY <1>2, <2>1, SmallestOf
<1> QED BY <1>1, <1>3

\* g takes the elements of a subset of S away one at a time.
TakesAway(g, S, base, pick, step) ==
  \A s \in SUBSET S :
    g[s] = IF s = {} THEN base ELSE step[<<pick[s], g[s \ {pick[s]}]>>]

Foldable(S, T, base, pick, step) ==
  \E g \in [SUBSET S -> T] : TakesAway(g, S, base, pick, step)

\* Such a recursion has a solution.
LEMMA FoldExists ==
  ASSUME NEW S, IsFiniteSet(S), NEW T, NEW base \in T, NEW pick, NEW step \in [S \X T -> T],
         \A s \in SUBSET S : s # {} => pick[s] \in s
  PROVE  Foldable(S, T, base, pick, step)
<1> DEFINE Upto(n) == {s \in SUBSET S : Cardinality(s) <= n}
           Solves(g, n) == \A s \in Upto(n) :
             g[s] = IF s = {} THEN base ELSE step[<<pick[s], g[s \ {pick[s]}]>>]
           Good(n) == \E g \in [Upto(n) -> T] : Solves(g, n)
           bad == {n \in Nat : ~Good(n)}
<1>1. \A s \in SUBSET S :
        /\ IsFiniteSet(s) /\ Cardinality(s) \in Nat /\ Cardinality(s) <= Cardinality(S)
        /\ Cardinality(s) = 0 <=> s = {}
        /\ s # {} => s \ {pick[s]} \in SUBSET S
                     /\ Cardinality(s \ {pick[s]}) = Cardinality(s) - 1
  BY FS_Subset, FS_CardinalityType, FS_EmptySet, FS_RemoveElement
<1>2. ASSUME NEW n \in bad, \A k \in bad : n <= k PROVE FALSE
  <2>1. CASE n = 0
    <3> DEFINE g == [s \in Upto(0) |-> base]
    <3>1. \A s \in Upto(0) : s = {}
      <4>1. ASSUME NEW s \in Upto(0) PROVE s = {}
        <5>1. Cardinality(s) \in Nat /\ Cardinality(s) <= 0
          BY <1>1
        <5>2. Cardinality(s) = 0
          BY <5>1
        <5> QED BY <1>1, <5>2
      <4> QED BY <4>1
    <3>2. g \in [Upto(0) -> T] /\ Solves(g, 0)
      BY <3>1
    <3> QED BY <2>1, <3>2
  <2>2. CASE n # 0
    <3>1. n \in Nat /\ n - 1 \in Nat /\ ~(n <= n - 1)
      BY <2>2
    <3>2. PICK g \in [Upto(n - 1) -> T] : Solves(g, n - 1)
      <4>1. n - 1 \notin bad
        BY <1>2, <3>1
      <4> QED BY <3>1, <4>1
    <3> DEFINE h == [s \in Upto(n) |->
                      IF s = {} THEN base ELSE step[<<pick[s], g[s \ {pick[s]}]>>]]
    <3>3. \A s \in Upto(n) : s # {} => pick[s] \in S /\ s \ {pick[s]} \in Upto(n - 1)
      <4>1. ASSUME NEW s \in Upto(n), s # {} PROVE s \ {pick[s]} \in Upto(n - 1)
        <5>1. /\ Cardinality(s) \in Nat /\ Cardinality(s) <= n
              /\ Cardinality(s \ {pick[s]}) = Cardinality(s) - 1
          BY <1>1, <4>1
        <5>2. Cardinality(s \ {pick[s]}) <= n - 1
          BY <3>1, <5>1
        <5> QED BY <1>1, <4>1, <5>2
      <4> QED BY <4>1
    <3>4. h \in [Upto(n) -> T]
      BY <3>3
    <3>5. ASSUME NEW s \in Upto(n - 1) PROVE s \in Upto(n) /\ h[s] = g[s]
      <4>1. s \in Upto(n)
        <5>1. Cardinality(s) \in Nat /\ Cardinality(s) <= n - 1
          BY <1>1
        <5>2. Cardinality(s) <= n
          BY <3>1, <5>1
        <5> QED BY <5>2
      <4>2. h[s] = IF s = {} THEN base ELSE step[<<pick[s], g[s \ {pick[s]}]>>]
        BY <4>1
      <4> QED BY <3>2, <4>1, <4>2
    <3>6. \A s \in Upto(n) :
            h[s] = IF s = {} THEN base ELSE step[<<pick[s], g[s \ {pick[s]}]>>]
      OBVIOUS
    <3> HIDE DEF h, Upto
    <3>7. Solves(h, n)
      BY <3>3, <3>5, <3>6
    <3> QED BY <3>1, <3>4, <3>7
  <2> QED BY <2>1, <2>2
<1>3. bad = {}
  <2> HIDE DEF bad
  <2>1. bad \subseteq Nat
    BY DEF bad
  <2> QED BY <1>2, <2>1, SmallestOf
<1>4. Cardinality(S) \in Nat
  BY FS_CardinalityType
<1>5. Good(Cardinality(S))
  <2> HIDE DEF Good
  <2> QED BY <1>3, <1>4
<1>6. Upto(Cardinality(S)) = SUBSET S
  BY <1>1
<1> QED BY <1>5, <1>6 DEF Foldable, TakesAway

\* The tokens of an article, or the revisions of a batch, are a number.
LEMMA TotalIsNat ==
  ASSUME NEW counts \in [Accounts -> Nat]
  PROVE  Total(counts) \in Nat
<1> DEFINE pick == [s \in SUBSET Accounts |-> CHOOSE x \in s : TRUE]
           step == [p \in Accounts \X Nat |-> counts[p[1]] + p[2]]
           none == 0
           Solves(g) == g = [s \in SUBSET Accounts |->
              IF s = {} THEN 0
              ELSE LET x == CHOOSE x \in s : TRUE IN counts[x] + g[s \ {x}]]
           fold == CHOOSE g : Solves(g)
<1>1. Total(counts) = fold[Accounts]
  BY DEF Total, FoldFunction, FoldFunctionOnSet, MapThenFoldSet
<1>2. PICK g \in [SUBSET Accounts -> Nat] :
         TakesAway(g, Accounts, none, pick, step)
  <2>1. step \in [Accounts \X Nat -> Nat]
    OBVIOUS
  <2>2. \A s \in SUBSET Accounts : s # {} => pick[s] \in s
    OBVIOUS
  <2>3. IsFiniteSet(Accounts) /\ none \in Nat
    BY AttributionConstantsOK
  <2> HIDE DEF step, pick, none
  <2>4. Foldable(Accounts, Nat, none, pick, step)
    BY <2>1, <2>2, <2>3, FoldExists
  <2> QED BY <2>4 DEF Foldable
<1>3. Solves(g)
  <2>1. ASSUME NEW s \in SUBSET Accounts
        PROVE  g[s] = IF s = {} THEN 0
                      ELSE LET x == CHOOSE x \in s : TRUE IN counts[x] + g[s \ {x}]
    <3>1. CASE s = {}
      BY <1>2, <3>1 DEF TakesAway
    <3>2. CASE s # {}
      <4> DEFINE x == CHOOSE x \in s : TRUE
      <4>1. x \in s /\ pick[s] = x
        BY <3>2
      <4>2. s \ {x} \in SUBSET Accounts /\ g[s \ {x}] \in Nat /\ x \in Accounts
        BY <4>1
      <4>3. g[s] = step[<<x, g[s \ {x}]>>]
        BY <1>2, <3>2, <4>1 DEF TakesAway
      <4> DEFINE rest == g[s \ {x}]
      <4>4. x \in Accounts /\ rest \in Nat
        BY <4>2
      <4>5. step[<<x, rest>>] = counts[x] + rest
        <5> HIDE DEF x, rest
        <5> QED BY <4>4
      <4>6. g[s] = counts[x] + rest
        BY <4>3, <4>5
      <4> QED BY <3>2, <4>6
    <3> QED BY <3>1, <3>2
  <2> QED BY <2>1
<1>4. fold = [s \in SUBSET Accounts |->
                IF s = {} THEN 0
                ELSE LET x == CHOOSE x \in s : TRUE IN counts[x] + fold[s \ {x}]]
  <2>1. Solves(fold)
    <3> HIDE DEF Solves
    <3> QED BY <1>3
  <2> QED BY <2>1
<1> HIDE DEF fold
<1> DEFINE sums == {s \in SUBSET Accounts : fold[s] \in Nat}
<1>5. {} \in sums
  <2>1. fold[{}] = 0
    BY <1>4
  <2> QED BY <2>1
<1>6. ASSUME NEW s \in SUBSET Accounts, s # {}, \A x \in s : s \ {x} \in sums
      PROVE  s \in sums
  <2> DEFINE x == CHOOSE x \in s : TRUE
  <2>1. x \in s
    BY <1>6
  <2>2. fold[s] = counts[x] + fold[s \ {x}]
    BY <1>4, <1>6
  <2> HIDE DEF x
  <2>3. counts[x] \in Nat /\ fold[s \ {x}] \in Nat
    BY <1>6, <2>1
  <2> QED BY <2>2, <2>3
<1>7. IsFiniteSet(Accounts)
  BY AttributionConstantsOK
<1>8. sums = SUBSET Accounts
  <2>1. sums \subseteq SUBSET Accounts
    OBVIOUS
  <2> HIDE DEF sums
  <2> QED BY <1>5, <1>6, <1>7, <2>1, SubsetInduction
<1> QED BY <1>1, <1>8
-----------------------------------------------------------------------------
(* Rankings *)

LEMMA TypeOfLimits ==
  /\ IsFiniteSet(Accounts) /\ Unnameable \subseteq Accounts
  /\ Limit \in Nat \ {0} /\ PoolSize \in Nat \ {0} /\ MinimumTokens \in Nat
  /\ CacheSize \in Nat \ {0} /\ MaxCount \in Nat /\ MinimumShare \in Nat
  /\ MaxRevisions \in Nat /\ MaxChanges \in Nat
BY AttributionConstantsOK

LEMMA SmallerOfTwo ==
  ASSUME NEW m \in Nat, NEW n \in Nat
  PROVE  Min({m, n}) = IF m <= n THEN m ELSE n
<1> DEFINE low == IF m <= n THEN m ELSE n
<1>1. low \in {m, n} /\ \A y \in {m, n} : low <= y
  OBVIOUS
<1>2. ASSUME NEW x \in {m, n}, \A y \in {m, n} : x <= y PROVE x = low
  BY <1>2
<1> QED BY <1>1, <1>2 DEF Min

\* Positions of a sequence, and what is found there.
LEMMA Members ==
  ASSUME NEW s \in Seq(Accounts)
  PROVE  /\ DOMAIN s = 1..Len(s) /\ Len(s) \in Nat
         /\ \A i \in DOMAIN s : s[i] \in Accounts /\ s[i] \in ToSet(s)
         /\ \A a : a \in ToSet(s) <=> \E i \in DOMAIN s : s[i] = a
         /\ ToSet(s) \subseteq Accounts
<1>1. DOMAIN s = 1..Len(s) /\ Len(s) \in Nat /\ \A i \in 1..Len(s) : s[i] \in Accounts
  BY LenProperties
<1> QED BY <1>1 DEF ToSet

LEMMA NoMembers == <<>> \in Seq(Accounts) /\ ToSet(<<>>) = {} /\ Len(<<>>) = 0
<1>1. <<>> \in Seq(Accounts) /\ Len(<<>>) = 0
  BY EmptySeq
<1>2. \A i : i \notin 1..0
  OBVIOUS
<1> QED BY <1>1, <1>2, Members

\* The sequences of a set hold each of its members once.
LEMMA SequencesOfSet ==
  ASSUME NEW S \in SUBSET Accounts, NEW s \in SetToSeqs(S)
  PROVE  /\ s \in Seq(Accounts) /\ ToSet(s) = S
         /\ \A i, j \in DOMAIN s : i # j => s[i] # s[j]
<1> DEFINE n == Cardinality(S)
<1>1. IsFiniteSet(S) /\ n \in Nat
  BY TypeOfLimits, FS_Subset, FS_CardinalityType
<1>2. s \in [1..n -> S] /\ \A i, j \in 1..n : i # j => s[i] # s[j]
  BY DEF SetToSeqs
<1>3. Cardinality(1..n) = n
  BY <1>1, FS_Interval
<1> HIDE DEF n
<1>4. s \in Seq(S)
  BY <1>1, <1>2, SeqDef
<1>5. s \in Seq(Accounts)
  BY <1>4, SeqMonotonic
<1>6. s \in Surjection(1..n, S)
  <2>1. s \in Injection(1..n, S)
    BY <1>2 DEF Injection, IsInjective
  <2> QED BY <1>1, <1>3, <2>1, FS_Injection DEF n
<1>7. ToSet(s) = S
  BY <1>2, <1>6 DEF ToSet, Surjection
<1> QED BY <1>2, <1>5, <1>7

LEMMA MostCommonIsRanking ==
  ASSUME NEW counts \in [Accounts -> Nat], NEW order \in MostCommon(counts)
  PROVE  /\ order \in Seq(Accounts)
         /\ ToSet(order) = {a \in Accounts : counts[a] > 0}
         /\ \A i, j \in DOMAIN order : i # j => order[i] # order[j]
         /\ \A i, j \in DOMAIN order : i < j => counts[order[i]] >= counts[order[j]]
<1> DEFINE S == {a \in Accounts : counts[a] > 0}
<1>1. order \in SetToSeqs(S)
  BY DEF MostCommon
<1>2. S \in SUBSET Accounts
  OBVIOUS
<1>3. \A i, j \in DOMAIN order : i < j => counts[order[i]] >= counts[order[j]]
  BY DEF MostCommon
<1> HIDE DEF S
<1>4. /\ order \in Seq(Accounts) /\ ToSet(order) = S
      /\ \A i, j \in DOMAIN order : i # j => order[i] # order[j]
  BY <1>1, <1>2, SequencesOfSet
<1> QED BY <1>3, <1>4 DEF S

LEMMA PoolIsPrefix ==
  ASSUME NEW order \in Seq(Accounts)
  PROVE  /\ Pool(order) \in Seq(Accounts)
         /\ \A i \in DOMAIN Pool(order) : i \in DOMAIN order /\ Pool(order)[i] = order[i]
         /\ \A i \in DOMAIN order : i <= PoolSize => i \in DOMAIN Pool(order)
<1> DEFINE n == Min({Len(order), PoolSize})
<1>1. Len(order) \in Nat /\ PoolSize \in Nat /\ DOMAIN order = 1..Len(order)
  BY Members, TypeOfLimits
<1>2. n = IF Len(order) <= PoolSize THEN Len(order) ELSE PoolSize
  BY <1>1, SmallerOfTwo
<1>3. n \in Nat /\ n <= Len(order) /\ \A i \in DOMAIN order : i <= PoolSize => i \in 1..n
  <2> HIDE DEF n
  <2>1. n \in Nat /\ n <= Len(order)
    BY <1>1, <1>2
  <2>2. \A i \in 1..Len(order) : i <= PoolSize => i \in 1..n
    BY <1>1, <1>2
  <2> QED BY <1>1, <2>1, <2>2
<1> HIDE DEF n
<1>4. \A i \in 1..n : order[i] \in Accounts /\ i \in DOMAIN order
  BY <1>1, <1>3, Members
<1>5. Pool(order) = SubSeq(order, 1, n)
  BY DEF Pool, n
<1>6. /\ SubSeq(order, 1, n) \in Seq(Accounts)
      /\ Len(SubSeq(order, 1, n)) = n
      /\ \A i \in 1..n : SubSeq(order, 1, n)[i] = order[i]
  BY <1>3, <1>4, SubSeqProperties
<1>7. DOMAIN Pool(order) = 1..n
  BY <1>5, <1>6, Members
<1> QED BY <1>3, <1>4, <1>5, <1>6, <1>7

\* Who beats every rival for the last place in the pool has a place in it.
LEMMA StrongestArePooled ==
  ASSUME NEW counts \in [Accounts -> Nat], NEW order \in MostCommon(counts),
         NEW a \in Accounts, counts[a] > 0,
         Cardinality({b \in Accounts : counts[b] >= counts[a]}) <= PoolSize
  PROVE  a \in ToSet(Pool(order))
<1> DEFINE rivals == {b \in Accounts : counts[b] >= counts[a]}
<1>1. /\ order \in Seq(Accounts) /\ a \in ToSet(order)
      /\ \A i, j \in DOMAIN order : i # j => order[i] # order[j]
      /\ \A i, j \in DOMAIN order : i < j => counts[order[i]] >= counts[order[j]]
  BY MostCommonIsRanking
<1>2. /\ DOMAIN order = 1..Len(order) /\ Len(order) \in Nat
      /\ \A i \in DOMAIN order : order[i] \in Accounts
  BY <1>1, Members
<1>3. PICK i \in DOMAIN order : order[i] = a
  BY <1>1, Members
<1> DEFINE before == [j \in 1..i |-> order[j]]
<1>4. i \in Nat /\ i > 0 /\ \A j \in 1..i : j \in DOMAIN order /\ (j < i \/ j = i)
  BY <1>2
<1>5. \A j \in 1..i : order[j] \in rivals
  <2>1. ASSUME NEW j \in 1..i PROVE counts[order[j]] >= counts[a]
    <3>1. CASE j < i
      BY <1>1, <1>3, <1>4, <3>1
    <3>2. CASE j = i
      BY <1>3, <3>2
    <3> QED BY <1>4, <3>1, <3>2
  <2> QED BY <1>2, <1>4, <2>1
<1>6. before \in Injection(1..i, rivals)
  BY <1>1, <1>4, <1>5 DEF Injection, IsInjective
<1>7. IsFiniteSet(rivals) /\ Cardinality(rivals) \in Nat
  BY TypeOfLimits, FS_Subset, FS_CardinalityType
<1> HIDE DEF before, rivals
<1>8. Cardinality(1..i) <= Cardinality(rivals)
  BY <1>6, <1>7, FS_Injection
<1>9. Cardinality(1..i) = i
  BY <1>4, FS_Interval
<1>10. i <= PoolSize
  BY <1>4, <1>7, <1>8, <1>9, TypeOfLimits DEF rivals
<1>11. i \in DOMAIN Pool(order) /\ Pool(order)[i] = a /\ Pool(order) \in Seq(Accounts)
  BY <1>1, <1>3, <1>10, PoolIsPrefix
<1> QED BY <1>11, Members

-----------------------------------------------------------------------------
(* The inductive invariant *)

Jobs == [step : Steps, metric : {"tokens", "edits"}, counts : [Accounts -> Nat],
         total : Nat, revisions : Nat, order : Seq(Accounts), named : Seq(Accounts),
         distinct : Nat]

Asked == {b \in Accounts : known[b] # "unasked"}

\* The histories hold what they are called after, and the cache says nothing that
\* was not so at some time of the process.
Witnessed ==
  /\ {local, global, gone, passed, innocent, suspect} \subseteq SUBSET Accounts
  /\ job.step # "idle" => Accounts \ Excluded \subseteq passed
  /\ Accounts \ global \subseteq innocent
  /\ Excluded \cup global \subseteq suspect
  /\ known \in [Accounts -> {"unasked", "bot", "human"}]
  /\ \A a \in Accounts : /\ known[a] = "human" => a \in innocent
                         /\ known[a] = "bot" => a \in suspect
  /\ Cardinality(Asked) <= CacheSize
  /\ changes \in 0..MaxChanges

\* The metric, and whether somebody is named, at each step of a job.
Stepwise ==
  /\ job.step \in {"idle", "tokens", "resolve", "history"} => job.named = <<>>
  /\ job.step = "history" => job.metric = "edits"
  /\ job.step \in {"count", "saved"} /\ job.metric = "tokens" => job.named # <<>>
  /\ job.step = "saved" => job.distinct >= Len(job.named)

Sorted ==
  \A m, n \in DOMAIN job.order : m < n => job.counts[job.order[m]] >= job.counts[job.order[n]]

\* Nobody was named before an account that wrote more.
Leading ==
  \A b \in ToSet(job.named), c \in ToSet(job.order) : job.counts[b] >= job.counts[c]

\* Who is entitled to a name has one or is still in line.
Considered == Entitled \subseteq ToSet(job.named) \cup ToSet(job.order)

Ranked ==
  /\ job.step = "resolve" => job.order \in MostCommon(job.counts)
  /\ job.step = "select" => /\ ToSet(job.order) \subseteq passed
                          /\ Sorted /\ Leading /\ Considered

Named ==
  /\ Len(job.named) <= Limit
  /\ ToSet(job.named) \subseteq passed \cap innocent

AttrInv == Witnessed /\ job \in Jobs /\ Stepwise /\ Ranked /\ Named

-----------------------------------------------------------------------------
(* Jobs *)

LEMMA JobFields ==
  ASSUME NEW j \in Jobs
  PROVE  /\ j.step \in Steps /\ j.metric \in {"tokens", "edits"}
         /\ j.counts \in [Accounts -> Nat] /\ j.total \in Nat /\ j.revisions \in Nat
         /\ j.order \in Seq(Accounts) /\ j.named \in Seq(Accounts) /\ j.distinct \in Nat
BY DEF Jobs

LEMMA NoCountsAreCounts == NoCounts \in [Accounts -> Nat]
BY DEF NoCounts

LEMMA NoJobIsJob ==
  /\ NoJob \in Jobs /\ NoJob.step = "idle" /\ NoJob.named = <<>> /\ NoJob.order = <<>>
  /\ NoJob.metric = "tokens"
<1>1. <<>> \in Seq(Accounts) /\ NoCounts \in [Accounts -> Nat] /\ "idle" \in Steps
  BY NoMembers, NoCountsAreCounts DEF Steps
<1> HIDE DEF Steps, NoCounts
<1> QED BY <1>1 DEF NoJob, Jobs

\* A job that names nobody.
LEMMA NamelessIsNamed ==
  ASSUME NEW j, j.named = <<>>
  PROVE  Len(j.named) <= Limit /\ ToSet(j.named) = {}
BY NoMembers, TypeOfLimits

\* Nobody becomes entitled while the counts stand.
LEMMA EntitledShrinks ==
  ASSUME suspect \subseteq suspect', job'.counts = job.counts, job'.total = job.total,
         job'.metric = job.metric
  PROVE  Entitled' \subseteq Entitled
BY DEF Entitled, Significant

-----------------------------------------------------------------------------
(* The steps *)

LEMMA AttrInvInit == AttrInit => AttrInv
<1> SUFFICES ASSUME AttrInit PROVE AttrInv
  OBVIOUS
<1>1. Asked = {}
  BY DEF AttrInit, Asked
<1>2. Cardinality(Asked) <= CacheSize
  BY <1>1, FS_EmptySet, TypeOfLimits
<1>3. Excluded \subseteq Accounts /\ changes \in 0..MaxChanges
  BY TypeOfLimits DEF AttrInit, Excluded
<1>4. Witnessed
  BY <1>2, <1>3, NoJobIsJob DEF AttrInit, Witnessed
<1>5. job \in Jobs /\ job.step = "idle" /\ job.named = <<>>
  BY NoJobIsJob DEF AttrInit
<1>6. Stepwise /\ Ranked /\ Named
  BY <1>5, NamelessIsNamed DEF Stepwise, Ranked, Named
<1> QED BY <1>4, <1>5, <1>6 DEF AttrInv

\* A step of a job that touches neither accounts, cache nor histories.
LEMMA OnlyTheJob ==
  ASSUME AttrInv, job.step # "idle", UNCHANGED <<accounts, known, attrHistory>>
  PROVE  Witnessed'
BY DEF AttrInv, Witnessed, accounts, attrHistory, Excluded, Asked

\* A step of a job that is not about the ranking names nobody.
LEMMA UnrankedSteps ==
  ASSUME AttrInv, Witnessed', job' \in Jobs, job'.named = <<>>,
         job'.step \in {"idle", "tokens", "history"},
         job'.step = "history" => job'.metric = "edits"
  PROVE  AttrInv'
<1>1. Stepwise' /\ Ranked'
  BY DEF Stepwise, Ranked
<1>2. Named'
  BY NamelessIsNamed DEF Named
<1> QED BY <1>1, <1>2 DEF AttrInv

LEMMA BeginJobKeeps == AttrInv /\ BeginJob => AttrInv'
<1> SUFFICES ASSUME AttrInv, BeginJob PROVE AttrInv'
  OBVIOUS
<1> DEFINE u == [NoJob EXCEPT !.step = "tokens"]
<1>1. u \in Jobs /\ u.step = "tokens" /\ u.named = <<>>
  BY NoJobIsJob DEF Jobs, Steps
<1>2. job' = u
  BY DEF BeginJob
<1> HIDE DEF u
<1>3. Witnessed'
  BY DEF AttrInv, Witnessed, BeginJob, accounts, Excluded, Asked
<1> QED BY <1>1, <1>2, <1>3, UnrankedSteps

LEMMA FailJobKeeps == AttrInv /\ FailJob => AttrInv'
<1> SUFFICES ASSUME AttrInv, FailJob PROVE AttrInv'
  OBVIOUS
<1>1. Witnessed'
  BY OnlyTheJob DEF FailJob
<1> QED BY <1>1, NoJobIsJob, UnrankedSteps DEF FailJob

LEMMA RestartWorkerKeeps == AttrInv /\ RestartWorker => AttrInv'
<1> SUFFICES ASSUME AttrInv, RestartWorker PROVE AttrInv'
  OBVIOUS
<1>1. Asked' = {}
  BY DEF RestartWorker, Asked
<1>2. (Cardinality(Asked) <= CacheSize)'
  BY <1>1, FS_EmptySet, TypeOfLimits
<1>3. Excluded' = Excluded /\ Excluded \subseteq Accounts
  BY TypeOfLimits DEF RestartWorker, accounts, Excluded, AttrInv, Witnessed
<1>4. Witnessed'
  BY <1>2, <1>3, NoJobIsJob DEF RestartWorker, accounts, AttrInv, Witnessed
<1> QED BY <1>4, NoJobIsJob, UnrankedSteps DEF RestartWorker

LEMMA DeclinedKeeps == AttrInv /\ Declined => AttrInv'
<1> SUFFICES ASSUME AttrInv, Declined PROVE AttrInv'
  OBVIOUS
<1>1. job \in Jobs /\ job.named = <<>>
  BY DEF AttrInv, Stepwise, Declined
<1> DEFINE u == [job EXCEPT !.step = "history", !.metric = "edits"]
<1>2. u \in Jobs /\ u.step = "history" /\ u.metric = "edits" /\ u.named = job.named
  BY <1>1 DEF Jobs, Steps
<1>3. job' = u
  BY DEF Declined
<1> HIDE DEF u
<1>4. Witnessed'
  BY OnlyTheJob DEF Declined
<1> QED BY <1>1, <1>2, <1>3, <1>4, UnrankedSteps

\* A ranking is read: by the text, or by the edits.
LEMMA RankingRead ==
  ASSUME AttrInv, Witnessed', job' \in Jobs, job'.step = "resolve", job'.named = <<>>,
         job'.order \in MostCommon(job'.counts)
  PROVE  AttrInv'
<1>1. Stepwise' /\ Ranked'
  BY DEF Stepwise, Ranked
<1>2. Named'
  BY NamelessIsNamed DEF Named
<1> QED BY <1>1, <1>2 DEF AttrInv

LEMMA FetchTokensKeeps == AttrInv /\ FetchTokens => AttrInv'
<1> SUFFICES ASSUME AttrInv, FetchTokens PROVE AttrInv'
  OBVIOUS
<1>1. job \in Jobs /\ job.named = <<>>
  BY DEF AttrInv, Stepwise, FetchTokens
<1>2. PICK counts \in [Accounts -> 0..MaxCount], others \in 0..MaxCount :
        \E order \in MostCommon(counts) :
          job' = [job EXCEPT !.step = "resolve", !.counts = counts,
                             !.total = Total(counts) + others, !.order = order]
  BY DEF FetchTokens
<1>3. PICK order \in MostCommon(counts) :
        job' = [job EXCEPT !.step = "resolve", !.counts = counts,
                           !.total = Total(counts) + others, !.order = order]
  BY <1>2
<1>4. counts \in [Accounts -> Nat] /\ others \in Nat
  BY TypeOfLimits
<1>5. Total(counts) + others \in Nat /\ order \in Seq(Accounts)
  BY <1>4, TotalIsNat, MostCommonIsRanking
<1> DEFINE sum == Total(counts) + others
           u == [job EXCEPT !.step = "resolve", !.counts = counts, !.total = sum,
                            !.order = order]
<1> HIDE DEF sum
<1>6. /\ u \in Jobs /\ u.step = "resolve" /\ u.named = job.named
      /\ u.counts = counts /\ u.order = order
  BY <1>1, <1>4, <1>5 DEF Jobs, Steps, sum
<1>7. job' = u
  BY <1>3 DEF sum
<1> HIDE DEF u
<1>8. Witnessed'
  BY OnlyTheJob DEF FetchTokens
<1> QED BY <1>1, <1>6, <1>7, <1>8, RankingRead

\* The pool keeps the order of the ranking, and so does what is left of it.
LEMMA KeptInOrder ==
  ASSUME NEW counts \in [Accounts -> Nat], NEW order \in MostCommon(counts),
         NEW worthy \in SUBSET Accounts, NEW kept \in InOrder(Pool(order), worthy)
  PROVE  /\ kept \in Seq(Accounts) /\ ToSet(kept) = worthy
         /\ \A m, n \in DOMAIN kept : m < n => counts[kept[m]] >= counts[kept[n]]
<1>1. kept \in SetToSeqs(worthy)
  BY DEF InOrder
<1>2. /\ order \in Seq(Accounts)
      /\ \A i, j \in DOMAIN order : i < j => counts[order[i]] >= counts[order[j]]
  BY MostCommonIsRanking
<1>3. \A i \in DOMAIN Pool(order) : i \in DOMAIN order /\ Pool(order)[i] = order[i]
  BY <1>2, PoolIsPrefix
<1>4. ASSUME NEW m \in DOMAIN kept, NEW n \in DOMAIN kept, m < n
      PROVE  counts[kept[m]] >= counts[kept[n]]
  <2>1. PICK i \in DOMAIN Pool(order), j \in DOMAIN Pool(order) :
          i < j /\ Pool(order)[i] = kept[m] /\ Pool(order)[j] = kept[n]
    BY <1>4 DEF InOrder
  <2> QED BY <1>2, <1>3, <2>1
<1> QED BY <1>1, <1>4, SequencesOfSet

LEMMA ResolveUsersKeeps == AttrInv /\ ResolveUsers => AttrInv'
<1> SUFFICES ASSUME AttrInv, ResolveUsers PROVE AttrInv'
  OBVIOUS
<1> DEFINE pool == Pool(job.order)
           worthy == {a \in ToSet(pool) : Significant(a) /\ Passes(a)}
<1>1. PICK kept \in InOrder(pool, worthy) :
        job' = [job EXCEPT !.step = "select", !.order = kept]
  BY DEF ResolveUsers
<1>2. /\ job \in Jobs /\ job.step = "resolve" /\ job.named = <<>>
      /\ job.counts \in [Accounts -> Nat] /\ job.order \in MostCommon(job.counts)
  BY JobFields DEF AttrInv, Stepwise, Ranked, ResolveUsers
<1>3. worthy \in SUBSET Accounts
  BY <1>2, MostCommonIsRanking, PoolIsPrefix, Members
<1> HIDE DEF worthy
<1>4. /\ kept \in Seq(Accounts) /\ ToSet(kept) = worthy
      /\ \A m, n \in DOMAIN kept : m < n => job.counts[kept[m]] >= job.counts[kept[n]]
  BY <1>1, <1>2, <1>3, KeptInOrder
<1> DEFINE u == [job EXCEPT !.step = "select", !.order = kept]
<1>5. /\ u \in Jobs /\ u.step = "select" /\ u.order = kept /\ u.named = job.named
      /\ u.counts = job.counts /\ u.total = job.total /\ u.metric = job.metric
  BY <1>2, <1>4 DEF Jobs, Steps
<1>6. job' = u
  BY <1>1
<1> HIDE DEF u
<1>7. Witnessed'
  BY <1>2, OnlyTheJob DEF ResolveUsers
<1>8. UNCHANGED <<local, global, gone, passed, innocent, suspect>>
  BY DEF ResolveUsers, accounts, attrHistory
<1>9. worthy \subseteq passed
  BY <1>2, <1>3 DEF AttrInv, Witnessed, worthy, Passes
<1>10. Entitled \subseteq worthy
  <2> SUFFICES ASSUME NEW a \in Entitled PROVE a \in worthy
    OBVIOUS
  <2>1. a \in ToSet(pool)
    BY <1>2, StrongestArePooled DEF Entitled
  <2>2. Significant(a) /\ Passes(a)
    BY DEF Entitled, Passes, AttrInv, Witnessed
  <2> QED BY <2>1, <2>2 DEF worthy
<1>11. Considered'
  BY <1>4, <1>5, <1>6, <1>8, <1>10, EntitledShrinks DEF Considered
<1>12. Sorted'
  BY <1>4, <1>5, <1>6 DEF Sorted
<1>13. Leading'
  BY <1>2, <1>5, <1>6, NoMembers DEF Leading
<1>14. Ranked'
  BY <1>4, <1>5, <1>6, <1>8, <1>9, <1>11, <1>12, <1>13 DEF Ranked
<1>15. Stepwise' /\ Named'
  BY <1>2, <1>5, <1>6, NamelessIsNamed DEF Stepwise, Named
<1> QED BY <1>5, <1>6, <1>7, <1>14, <1>15 DEF AttrInv

\* The head of the line is taken out of it; the others keep their places.
LEMMA HeadOfLine ==
  ASSUME NEW s \in Seq(Accounts), s # <<>>
  PROVE  /\ Head(s) \in Accounts /\ Head(s) \in ToSet(s)
         /\ Tail(s) \in Seq(Accounts) /\ ToSet(s) = {Head(s)} \cup ToSet(Tail(s))
         /\ \A i \in DOMAIN Tail(s) : i + 1 \in DOMAIN s /\ 1 < i + 1 /\ Tail(s)[i] = s[i + 1]
         /\ 1 \in DOMAIN s /\ Head(s) = s[1]
<1>1. Len(s) \in Nat \ {0} /\ DOMAIN s = 1..Len(s)
  BY EmptySeq, Members
<1>2. /\ Head(s) \in Accounts /\ Tail(s) \in Seq(Accounts)
      /\ Len(Tail(s)) = Len(s) - 1
      /\ \A i \in 1..Len(Tail(s)) : Tail(s)[i] = s[i + 1]
  BY HeadTailProperties
<1>3. DOMAIN Tail(s) = 1..(Len(s) - 1)
  BY <1>2, Members
<1>4. Head(s) = s[1]
  OBVIOUS
<1>5. \A i \in DOMAIN Tail(s) : i + 1 \in DOMAIN s /\ 1 < i + 1 /\ Tail(s)[i] = s[i + 1]
  BY <1>1, <1>2, <1>3
<1>6. 1 \in DOMAIN s
  BY <1>1
<1>7. \A i \in DOMAIN s : i = 1 \/ (i - 1 \in DOMAIN Tail(s) /\ Tail(s)[i - 1] = s[i])
  <2>1. ASSUME NEW i \in DOMAIN s, i # 1
        PROVE  i - 1 \in DOMAIN Tail(s) /\ Tail(s)[i - 1] = s[i]
    <3>1. i - 1 \in DOMAIN Tail(s) /\ (i - 1) + 1 = i
      BY <1>1, <1>3, <2>1
    <3> QED BY <1>5, <3>1
  <2> QED BY <2>1
<1>8. ToSet(s) = {Head(s)} \cup ToSet(Tail(s))
  <2>1. ASSUME NEW a \in ToSet(s) PROVE a \in {Head(s)} \cup ToSet(Tail(s))
    <3>1. PICK i \in DOMAIN s : s[i] = a
      BY Members
    <3>2. CASE i = 1
      BY <1>4, <3>1, <3>2
    <3>3. CASE i # 1
      <4>1. i - 1 \in DOMAIN Tail(s) /\ Tail(s)[i - 1] = a
        BY <1>7, <3>1, <3>3
      <4> QED BY <1>2, <4>1, Members
    <3> QED BY <3>2, <3>3
  <2>2. ASSUME NEW a \in ToSet(Tail(s)) PROVE a \in ToSet(s)
    <3>1. PICK i \in DOMAIN Tail(s) : Tail(s)[i] = a
      BY <1>2, Members
    <3>2. i + 1 \in DOMAIN s /\ s[i + 1] = a
      BY <1>5, <3>1
    <3> QED BY <3>2, Members
  <2>3. Head(s) \in ToSet(s)
    BY <1>4, <1>6, Members
  <2> QED BY <2>1, <2>2, <2>3
<1> QED BY <1>2, <1>4, <1>5, <1>6, <1>8 DEF ToSet

LEMMA OneMoreName ==
  ASSUME NEW s \in Seq(Accounts), NEW a \in Accounts
  PROVE  /\ Append(s, a) \in Seq(Accounts) /\ Append(s, a) # <<>>
         /\ Len(Append(s, a)) = Len(s) + 1
         /\ ToSet(Append(s, a)) = ToSet(s) \cup {a}
<1>1. /\ Append(s, a) \in Seq(Accounts) /\ Append(s, a) # <<>>
      /\ Len(Append(s, a)) = Len(s) + 1
      /\ \A i \in 1..Len(s) : Append(s, a)[i] = s[i]
      /\ Append(s, a)[Len(s) + 1] = a
  BY AppendProperties
<1>2. Len(s) \in Nat /\ DOMAIN s = 1..Len(s) /\ DOMAIN Append(s, a) = 1..(Len(s) + 1)
  BY <1>1, Members
<1>3. \A i : i \in DOMAIN Append(s, a) <=> i \in DOMAIN s \/ i = Len(s) + 1
  BY <1>2
<1> QED BY <1>1, <1>2, <1>3 DEF ToSet

\* The cache after an answer: within its size, and nothing in it that was not so.
LEMMA RememberedWitnessed ==
  ASSUME AttrInv, NEW a \in Accounts, known[a] = "unasked"
  PROVE  /\ Remembered(a) \in [Accounts -> {"unasked", "bot", "human"}]
         /\ \A b \in Accounts : /\ Remembered(a)[b] = "human" => b \in innocent
                                /\ Remembered(a)[b] = "bot" => b \in suspect
         /\ Remembered(a)[a] \in {"bot", "human"}
         /\ Cardinality({b \in Accounts : Remembered(a)[b] # "unasked"}) <= CacheSize
<1> DEFINE full == Cardinality({b \in Accounts : known[b] # "unasked"}) >= CacheSize
           next == [b \in Accounts |-> IF b = a THEN IF a \in global THEN "bot" ELSE "human"
                                       ELSE IF full THEN "unasked" ELSE known[b]]
<1>1. Remembered(a) = next
  BY DEF Remembered
<1>2. /\ known \in [Accounts -> {"unasked", "bot", "human"}]
      /\ Accounts \ global \subseteq innocent /\ global \subseteq suspect
      /\ \A b \in Accounts : /\ known[b] = "human" => b \in innocent
                             /\ known[b] = "bot" => b \in suspect
      /\ Cardinality(Asked) <= CacheSize
  BY DEF AttrInv, Witnessed
<1>3. full <=> Cardinality(Asked) >= CacheSize
  BY DEF Asked
<1> HIDE DEF full
<1>4. IsFiniteSet(Asked) /\ Cardinality(Asked) \in Nat
  BY TypeOfLimits, FS_Subset, FS_CardinalityType DEF Asked
<1> DEFINE asked == {b \in Accounts : next[b] # "unasked"}
<1>5. Cardinality(asked) <= CacheSize
  <2>1. CASE full
    <3>1. asked = {a}
      BY <2>1
    <3> HIDE DEF asked
    <3>2. Cardinality({a}) = 1
      BY FS_Singleton
    <3>3. 1 <= CacheSize
      BY TypeOfLimits
    <3> QED BY <3>1, <3>2, <3>3
  <2>2. CASE ~full
    <3>1. asked = Asked \cup {a}
      BY <2>2 DEF Asked
    <3> HIDE DEF asked
    <3>2. Cardinality(Asked \cup {a}) = Cardinality(Asked) + 1
      <4>1. a \notin Asked
        BY DEF Asked
      <4> QED BY <1>4, <4>1, FS_AddElement
    <3>3. Cardinality(Asked) + 1 <= CacheSize
      BY <1>3, <1>4, <2>2, TypeOfLimits
    <3> QED BY <3>1, <3>2, <3>3
  <2> QED BY <2>1, <2>2
<1>6. next \in [Accounts -> {"unasked", "bot", "human"}]
  BY <1>2
<1>7. \A b \in Accounts : /\ next[b] = "human" => b \in innocent
                          /\ next[b] = "bot" => b \in suspect
  <2> SUFFICES ASSUME NEW b \in Accounts
               PROVE  /\ next[b] = "human" => b \in innocent
                      /\ next[b] = "bot" => b \in suspect
    OBVIOUS
  <2>1. CASE b = a
    <3>1. next[a] = IF a \in global THEN "bot" ELSE "human"
      OBVIOUS
    <3> HIDE DEF next
    <3>2. a \in global => a \in suspect
      BY <1>2
    <3>3. a \notin global => a \in innocent
      BY <1>2
    <3> QED BY <2>1, <3>1, <3>2, <3>3
  <2>2. CASE b # a
    <3>1. next[b] = "unasked" \/ next[b] = known[b]
      BY <2>2
    <3> HIDE DEF next
    <3> QED BY <1>2, <3>1
  <2> QED BY <2>1, <2>2
<1>8. next[a] \in {"bot", "human"}
  OBVIOUS
<1> QED BY <1>1, <1>5, <1>6, <1>7, <1>8

LEMMA ConsiderKeeps == AttrInv /\ Consider => AttrInv'
<1> SUFFICES ASSUME AttrInv, Consider PROVE AttrInv'
  OBVIOUS
<1> DEFINE a == Head(job.order)
           rest == Tail(job.order)
           named == IF known'[a] = "human" THEN Append(job.named, a) ELSE job.named
           u == [job EXCEPT !.order = rest, !.named = named]
<1>1. /\ job \in Jobs /\ job.step = "select" /\ job.order \in Seq(Accounts)
      /\ job.named \in Seq(Accounts) /\ job.order # <<>> /\ Len(job.named) < Limit
      /\ ToSet(job.order) \subseteq passed /\ Sorted /\ Leading /\ Considered
      /\ job.counts \in [Accounts -> Nat]
  BY JobFields DEF AttrInv, Ranked, Consider, Selecting
<1>2. /\ a \in Accounts /\ a \in ToSet(job.order) /\ rest \in Seq(Accounts)
      /\ ToSet(job.order) = {a} \cup ToSet(rest)
      /\ \A i \in DOMAIN rest : /\ i + 1 \in DOMAIN job.order /\ 1 < i + 1
                                /\ rest[i] = job.order[i + 1]
      /\ 1 \in DOMAIN job.order /\ a = job.order[1]
  BY <1>1, HeadOfLine
<1>3. /\ known' = IF known[a] = "unasked" THEN Remembered(a) ELSE known
      /\ job' = u
      /\ UNCHANGED <<local, global, gone, changes, passed, innocent, suspect>>
  BY DEF Consider, accounts, attrHistory
<1>4. /\ known' \in [Accounts -> {"unasked", "bot", "human"}]
      /\ \A b \in Accounts : /\ known'[b] = "human" => b \in innocent
                             /\ known'[b] = "bot" => b \in suspect
      /\ known'[a] \in {"bot", "human"}
      /\ Cardinality({b \in Accounts : known'[b] # "unasked"}) <= CacheSize
  <2>1. CASE known[a] = "unasked"
    BY <1>2, <1>3, <2>1, RememberedWitnessed
  <2>2. CASE known[a] # "unasked"
    BY <1>2, <1>3, <2>2 DEF AttrInv, Witnessed, Asked
  <2> QED BY <2>1, <2>2
<1> HIDE DEF a, rest
<1>5. /\ known'[a] = "human" \/ a \in suspect
      /\ known'[a] = "human" => a \in innocent
  <2>1. /\ known'[a] = "human" => a \in innocent
        /\ known'[a] = "bot" => a \in suspect
        /\ known'[a] \in {"bot", "human"}
    BY <1>2, <1>4, Zenon
  <2> QED BY <2>1
<1>6. /\ named \in Seq(Accounts) /\ Len(named) <= Limit
      /\ ToSet(named) \subseteq ToSet(job.named) \cup {a}
      /\ ToSet(job.named) \subseteq ToSet(named)
      /\ known'[a] = "human" => a \in ToSet(named)
      /\ a \in ToSet(named) => a \in innocent \/ a \in ToSet(job.named)
  <2>1. CASE known'[a] = "human"
    <3>1. Len(job.named) \in Nat /\ Limit \in Nat
      BY <1>1, Members, TypeOfLimits
    <3>2. /\ Append(job.named, a) \in Seq(Accounts)
          /\ Len(Append(job.named, a)) = Len(job.named) + 1
          /\ ToSet(Append(job.named, a)) = ToSet(job.named) \cup {a}
      BY <1>1, <1>2, OneMoreName
    <3>3. Len(job.named) + 1 <= Limit
      BY <1>1, <3>1
    <3>4. named = Append(job.named, a) /\ a \in innocent
      BY <1>5, <2>1
    <3> HIDE DEF named
    <3> QED BY <3>2, <3>3, <3>4
  <2>2. CASE known'[a] # "human"
    <3>1. named = job.named
      BY <2>2
    <3> HIDE DEF named
    <3> QED BY <1>1, <2>2, <3>1 DEF AttrInv, Named
  <2> QED BY <2>1, <2>2
<1> HIDE DEF named
<1>7. /\ u \in Jobs /\ u.step = "select" /\ u.order = rest /\ u.named = named
      /\ u.counts = job.counts /\ u.total = job.total /\ u.metric = job.metric
  BY <1>1, <1>2, <1>6 DEF Jobs
<1> HIDE DEF u
<1>8. Witnessed'
  <2>1. Asked' = {b \in Accounts : known'[b] # "unasked"}
    BY DEF Asked
  <2>2. Excluded' = Excluded
    BY <1>3 DEF Excluded
  <2>3. job.step # "idle" /\ Witnessed
    BY <1>1 DEF AttrInv
  <2> HIDE DEF AttrInv
  <2>4. (Cardinality(Asked) <= CacheSize)'
    BY <1>4, <2>1
  <2>5. /\ \A b \in Accounts : /\ known'[b] = "human" => b \in innocent'
                               /\ known'[b] = "bot" => b \in suspect'
        /\ known' \in [Accounts -> {"unasked", "bot", "human"}]
    BY <1>3, <1>4
  <2>6. /\ {local, global, gone, passed, innocent, suspect}' \subseteq SUBSET Accounts
        /\ Accounts \ Excluded' \subseteq passed'
        /\ Accounts \ global' \subseteq innocent'
        /\ Excluded' \cup global' \subseteq suspect'
        /\ changes' \in 0..MaxChanges
    BY <1>3, <2>2, <2>3 DEF Witnessed
  <2> QED BY <2>4, <2>5, <2>6 DEF Witnessed
<1>9. Sorted'
  <2> SUFFICES ASSUME NEW m \in DOMAIN rest, NEW n \in DOMAIN rest, m < n
               PROVE  job.counts[rest[m]] >= job.counts[rest[n]]
    BY <1>3, <1>7 DEF Sorted
  <2>1. m \in Int /\ n \in Int
    BY <1>2, Members
  <2>2. m + 1 < n + 1
    BY <2>1
  <2> QED BY <1>1, <1>2, <2>2 DEF Sorted
<1>10. Leading'
  <2> SUFFICES ASSUME NEW b \in ToSet(named), NEW c \in ToSet(rest)
               PROVE  job.counts[b] >= job.counts[c]
    BY <1>3, <1>7 DEF Leading
  <2>1. CASE b \in ToSet(job.named)
    BY <1>1, <1>2, <2>1 DEF Leading
  <2>2. CASE b = a
    <3>1. PICK i \in DOMAIN rest : rest[i] = c
      BY <1>2, Members
    <3> QED BY <1>1, <1>2, <2>2, <3>1 DEF Sorted
  <2> QED BY <1>6, <2>1, <2>2
<1>11. Considered'
  <2>1. Entitled' \subseteq Entitled
    BY <1>3, <1>7, EntitledShrinks
  <2>2. ASSUME NEW e \in Entitled PROVE e \in ToSet(named) \cup ToSet(rest)
    <3>1. CASE e = a
      <4>1. a \notin suspect
        BY <3>1 DEF Entitled
      <4>2. known'[a] = "human"
        BY <1>5, <3>1, <4>1
      <4> QED BY <1>6, <3>1, <4>2
    <3>2. CASE e # a
      BY <1>1, <1>2, <1>6, <3>2 DEF Considered
    <3> QED BY <3>1, <3>2
  <2> QED BY <1>3, <1>7, <2>1, <2>2 DEF Considered
<1>12. Named'
  <2>1. ToSet(named) \subseteq passed \cap innocent
    BY <1>1, <1>2, <1>6 DEF AttrInv, Named
  <2> QED BY <1>3, <1>6, <1>7, <2>1 DEF Named
<1>13. Ranked'
  BY <1>1, <1>2, <1>3, <1>7, <1>9, <1>10, <1>11 DEF Ranked
<1>14. Stepwise'
  BY <1>3, <1>7 DEF Stepwise
<1> QED BY <1>3, <1>7, <1>8, <1>12, <1>13, <1>14 DEF AttrInv

\* A job that ranks nobody any more keeps the names it has.
LEMMA CountingKeeps ==
  ASSUME AttrInv, job.step \in {"select", "history"}, job' \in Jobs,
         UNCHANGED <<accounts, known, attrHistory>>,
         job'.step = "count", job'.named = job.named,
         job'.metric = "tokens" => job.named # <<>>
  PROVE  AttrInv'
<1>1. Witnessed'
  BY OnlyTheJob
<1>2. Stepwise' /\ Ranked'
  BY DEF Stepwise, Ranked
<1>3. Named'
  BY DEF AttrInv, Named, attrHistory
<1> QED BY <1>1, <1>2, <1>3 DEF AttrInv

LEMMA CloseRankingKeeps == AttrInv /\ CloseRanking => AttrInv'
<1> SUFFICES ASSUME AttrInv, CloseRanking PROVE AttrInv'
  OBVIOUS
<1>1. /\ job \in Jobs /\ job.step = "select" /\ <<>> \in Seq(Accounts)
      /\ NoCounts \in [Accounts -> Nat]
  BY NoMembers, NoCountsAreCounts DEF AttrInv, CloseRanking
<1>2. UNCHANGED <<accounts, known, attrHistory>>
  BY DEF CloseRanking
<1>3. CASE job.metric = "tokens" /\ job.named = <<>>
  <2> DEFINE u == [job EXCEPT !.step = "history", !.metric = "edits", !.counts = NoCounts,
                              !.order = <<>>]
  <2>1. u \in Jobs /\ u.step = "history" /\ u.metric = "edits" /\ u.named = job.named
    <3> HIDE DEF NoCounts
    <3> QED BY <1>1 DEF Jobs, Steps
  <2>2. job' = u
    BY <1>3 DEF CloseRanking
  <2> HIDE DEF u
  <2>3. Witnessed'
    BY <1>1, <1>2, OnlyTheJob
  <2> QED BY <1>3, <2>1, <2>2, <2>3, UnrankedSteps
<1>4. CASE ~(job.metric = "tokens" /\ job.named = <<>>)
  <2> DEFINE u == [job EXCEPT !.step = "count", !.order = <<>>]
  <2>1. u \in Jobs /\ u.step = "count" /\ u.metric = job.metric /\ u.named = job.named
    BY <1>1 DEF Jobs, Steps
  <2>2. job' = u
    BY <1>4 DEF CloseRanking
  <2> HIDE DEF u
  <2> QED BY <1>1, <1>2, <1>4, <2>1, <2>2, CountingKeeps
<1> QED BY <1>3, <1>4

LEMMA HistoryGoneKeeps == AttrInv /\ HistoryGone => AttrInv'
<1> SUFFICES ASSUME AttrInv, HistoryGone PROVE AttrInv'
  OBVIOUS
<1>1. job \in Jobs /\ job.step = "history" /\ job.metric = "edits"
  BY DEF AttrInv, Stepwise, HistoryGone
<1>2. UNCHANGED <<accounts, known, attrHistory>>
  BY DEF HistoryGone
<1> DEFINE u == [job EXCEPT !.step = "count", !.counts = NoCounts]
<1>3. u \in Jobs /\ u.step = "count" /\ u.metric = job.metric /\ u.named = job.named
  BY <1>1, NoCountsAreCounts DEF Jobs, Steps
<1>4. job' = u
  BY DEF HistoryGone
<1> HIDE DEF u
<1> QED BY <1>1, <1>2, <1>3, <1>4, CountingKeeps

LEMMA ReadHistoryKeeps == AttrInv /\ ReadHistory => AttrInv'
<1> SUFFICES ASSUME AttrInv, ReadHistory PROVE AttrInv'
  OBVIOUS
<1>1. /\ job \in Jobs /\ job.step = "history" /\ job.metric = "edits" /\ job.named = <<>>
      /\ job.counts \in [Accounts -> Nat] /\ job.revisions \in Nat
  BY JobFields DEF AttrInv, Stepwise, ReadHistory
<1>2. UNCHANGED <<accounts, known, attrHistory>>
  BY DEF ReadHistory
<1>3. PICK batch \in [Accounts -> 0..MaxCount], others \in 0..MaxCount, more \in BOOLEAN :
        LET counts == [a \in Accounts |-> job.counts[a] + batch[a]]
            revisions == job.revisions + Total(batch) + others
        IN \/ \E order \in MostCommon(counts) :
                job' = [job EXCEPT !.step = "resolve", !.counts = counts,
                                   !.revisions = revisions, !.order = order]
           \/ job' = [job EXCEPT !.counts = counts, !.revisions = revisions]
           \/ job' = [job EXCEPT !.step = "count", !.counts = NoCounts,
                                 !.revisions = revisions]
  BY DEF ReadHistory
<1> DEFINE counts == [a \in Accounts |-> job.counts[a] + batch[a]]
           revisions == job.revisions + Total(batch) + others
<1>4. batch \in [Accounts -> Nat] /\ others \in Nat
  BY TypeOfLimits
<1>5. counts \in [Accounts -> Nat]
  BY <1>1, <1>4
<1>6. revisions \in Nat
  BY <1>1, <1>4, TotalIsNat
<1>7. \/ \E order \in MostCommon(counts) :
           job' = [job EXCEPT !.step = "resolve", !.counts = counts,
                              !.revisions = revisions, !.order = order]
      \/ job' = [job EXCEPT !.counts = counts, !.revisions = revisions]
      \/ job' = [job EXCEPT !.step = "count", !.counts = NoCounts, !.revisions = revisions]
  BY <1>3
<1> HIDE DEF counts, revisions
<1>8. Witnessed'
  BY <1>1, <1>2, OnlyTheJob
<1>9. ASSUME NEW order \in MostCommon(counts),
             job' = [job EXCEPT !.step = "resolve", !.counts = counts,
                                !.revisions = revisions, !.order = order]
      PROVE  AttrInv'
  <2>1. order \in Seq(Accounts)
    BY <1>5, MostCommonIsRanking
  <2> DEFINE u == [job EXCEPT !.step = "resolve", !.counts = counts,
                              !.revisions = revisions, !.order = order]
  <2>2. /\ u \in Jobs /\ u.step = "resolve" /\ u.named = job.named
        /\ u.counts = counts /\ u.order = order
    BY <1>1, <1>5, <1>6, <2>1 DEF Jobs, Steps
  <2>3. job' = u
    BY <1>9
  <2> HIDE DEF u
  <2> QED BY <1>1, <1>8, <1>9, <2>2, <2>3, RankingRead
<1>10. CASE job' = [job EXCEPT !.counts = counts, !.revisions = revisions]
  <2> DEFINE u == [job EXCEPT !.counts = counts, !.revisions = revisions]
  <2>1. u \in Jobs /\ u.step = job.step /\ u.named = job.named /\ u.metric = job.metric
    BY <1>1, <1>5, <1>6 DEF Jobs
  <2>2. job' = u
    BY <1>10
  <2> HIDE DEF u
  <2> QED BY <1>1, <1>8, <2>1, <2>2, UnrankedSteps
<1>11. CASE job' = [job EXCEPT !.step = "count", !.counts = NoCounts, !.revisions = revisions]
  <2> DEFINE u == [job EXCEPT !.step = "count", !.counts = NoCounts, !.revisions = revisions]
  <2>1. u \in Jobs /\ u.step = "count" /\ u.metric = job.metric /\ u.named = job.named
    BY <1>1, <1>6, NoCountsAreCounts DEF Jobs, Steps
  <2>2. job' = u
    BY <1>11
  <2> HIDE DEF u
  <2> QED BY <1>1, <1>2, <2>1, <2>2, CountingKeeps
<1> QED BY <1>7, <1>9, <1>10, <1>11

LEMMA LargerOfTwo ==
  ASSUME NEW m \in Nat, NEW n \in Int
  PROVE  Max({m, n}) \in Nat /\ Max({m, n}) >= m
<1> DEFINE high == IF m >= n THEN m ELSE n
<1>1. high \in {m, n} /\ \A y \in {m, n} : high >= y
  OBVIOUS
<1>2. ASSUME NEW x \in {m, n}, \A y \in {m, n} : x >= y PROVE x = high
  BY <1>2
<1>3. Max({m, n}) = high
  BY <1>1, <1>2 DEF Max
<1> QED BY <1>3

LEMMA CountAndSaveKeeps == AttrInv /\ CountAndSave => AttrInv'
<1> SUFFICES ASSUME AttrInv, CountAndSave PROVE AttrInv'
  OBVIOUS
<1>1. /\ job \in Jobs /\ job.step = "count" /\ job.named \in Seq(Accounts)
      /\ job.metric = "tokens" => job.named # <<>>
  BY JobFields DEF AttrInv, Stepwise, CountAndSave
<1>2. UNCHANGED <<accounts, known, attrHistory>>
  BY DEF CountAndSave
<1> DEFINE most == Cardinality(Accounts) + 1
<1>3. most \in Nat
  BY TypeOfLimits, FS_CardinalityType
<1>4. PICK editors \in 0..most, bots \in 0..most :
        job' = [job EXCEPT !.step = "saved", !.counts = NoCounts, !.total = 0,
                  !.revisions = 0, !.distinct = Max({Len(job.named), editors - bots})]
  BY DEF CountAndSave
<1> DEFINE distinct == Max({Len(job.named), editors - bots})
<1>5. Len(job.named) \in Nat /\ editors - bots \in Int
  BY <1>1, <1>3, Members
<1>6. distinct \in Nat /\ distinct >= Len(job.named)
  BY <1>5, LargerOfTwo
<1> HIDE DEF distinct
<1> DEFINE u == [job EXCEPT !.step = "saved", !.counts = NoCounts, !.total = 0,
                            !.revisions = 0, !.distinct = distinct]
<1>7. /\ u \in Jobs /\ u.step = "saved" /\ u.metric = job.metric /\ u.named = job.named
      /\ u.distinct = distinct
  BY <1>1, <1>6, NoCountsAreCounts DEF Jobs, Steps
<1>8. job' = u
  BY <1>4 DEF distinct
<1> HIDE DEF u
<1>9. Witnessed'
  BY <1>1, <1>2, OnlyTheJob
<1>10. Stepwise' /\ Ranked'
  BY <1>1, <1>6, <1>7, <1>8 DEF Stepwise, Ranked
<1>11. Named'
  BY <1>2, <1>7, <1>8 DEF AttrInv, Named, attrHistory
<1> QED BY <1>7, <1>8, <1>9, <1>10, <1>11 DEF AttrInv

LEMMA ChangeAccountKeeps ==
  ASSUME AttrInv, NEW a \in Accounts, ChangeAccount(a)
  PROVE  AttrInv'
<1>1. /\ local \subseteq Accounts /\ global \subseteq Accounts /\ gone \subseteq Accounts
      /\ Unnameable \subseteq Accounts /\ passed \subseteq Accounts
      /\ innocent \subseteq Accounts /\ suspect \subseteq Accounts
  BY TypeOfLimits DEF AttrInv, Witnessed
<1>2. local' \subseteq Accounts /\ global' \subseteq Accounts /\ gone' \subseteq Accounts
  BY <1>1 DEF ChangeAccount, SymDiff
<1>3. Excluded' \subseteq Accounts
  BY <1>1, <1>2 DEF Excluded
<1>4. /\ passed' = passed \cup (Accounts \ Excluded')
      /\ innocent' = innocent \cup (Accounts \ global')
      /\ suspect' = suspect \cup Excluded' \cup global'
      /\ UNCHANGED <<known, job>> /\ changes' = changes + 1 /\ changes < MaxChanges
  BY DEF ChangeAccount, process
<1>5. changes' \in 0..MaxChanges
  BY <1>4, TypeOfLimits DEF AttrInv, Witnessed
<1>6. Asked' = Asked
  BY <1>4 DEF Asked
<1>7. Witnessed'
  BY <1>1, <1>2, <1>3, <1>4, <1>5, <1>6 DEF AttrInv, Witnessed
<1>8. Entitled' \subseteq Entitled
  BY <1>4, EntitledShrinks
<1>9. Ranked'
  BY <1>4, <1>8 DEF AttrInv, Ranked, Sorted, Leading, Considered
<1>10. Stepwise' /\ Named'
  BY <1>4 DEF AttrInv, Stepwise, Named
<1> QED BY <1>4, <1>7, <1>9, <1>10 DEF AttrInv

-----------------------------------------------------------------------------
(* The theorems *)

LEMMA AttrInvNext == AttrInv /\ [AttrNext]_attrVars => AttrInv'
<1> SUFFICES ASSUME AttrInv, [AttrNext]_attrVars PROVE AttrInv'
  OBVIOUS
<1>1. CASE Attribute
  BY <1>1, BeginJobKeeps, FetchTokensKeeps, DeclinedKeeps, ResolveUsersKeeps, ConsiderKeeps,
     CloseRankingKeeps, ReadHistoryKeeps, HistoryGoneKeeps, CountAndSaveKeeps, FailJobKeeps
     DEF Attribute
<1>2. CASE RestartWorker
  BY <1>2, RestartWorkerKeeps
<1>3. CASE \E a \in Accounts : ChangeAccount(a)
  BY <1>3, ChangeAccountKeeps
<1>4. CASE UNCHANGED attrVars
  BY <1>4 DEF attrVars, accounts, process, attrHistory, AttrInv, Witnessed, Excluded, Asked,
              Stepwise, Ranked, Sorted, Leading, Considered, Entitled, Significant, Named
<1> QED BY <1>1, <1>2, <1>3, <1>4 DEF AttrNext

\* What a worker saves is an answer: it counts no fewer people than it names, and it
\* names somebody whenever it says that the text was ranked; _global_users keeps to
\* its size, whatever was asked.
THEOREM AttributionTypes == AttrSpec => []AttrTypeOK
<1>1. AttrInv => AttrTypeOK
  <2> SUFFICES ASSUME AttrInv PROVE AttrTypeOK
    OBVIOUS
  <2>1. ToSet(job.order) \cup ToSet(job.named) \subseteq Accounts
    BY JobFields, Members DEF AttrInv
  <2> QED BY <2>1, JobFields DEF AttrInv, Witnessed, Asked, Stepwise, Named, AttrTypeOK
<1> QED BY <1>1, AttrInvInit, AttrInvNext, PTL DEF AttrSpec

\* select_contributors and select_top_editors name no account that was a bot, gone or
\* nameless for the whole job, or a global bot for as long as the process ran.
THEOREM NoBotIsNamed == AttrSpec => []NamedWereHuman
<1>1. AttrInv => NamedWereHuman
  BY DEF AttrInv, Named, NamedWereHuman
<1> QED BY <1>1, AttrInvInit, AttrInvNext, PTL DEF AttrSpec

\* A ranking passes over nobody who beats every rival for the last place in the pool
\* and whom nothing ever spoke against, unless all places went to accounts that did
\* as much: whatever the thresholds, the pool, the cache and the ties.
THEOREM EntitledAreNamed == AttrSpec => []NobodyPassedOver
<1>1. AttrInv => NobodyPassedOver
  <2> SUFFICES ASSUME AttrInv, job.step = "select", ~Selecting,
                      NEW a \in Entitled \ ToSet(job.named)
               PROVE  /\ Len(job.named) = Limit
                      /\ \A b \in ToSet(job.named) : job.counts[b] >= job.counts[a]
    BY DEF NobodyPassedOver
  <2>1. Leading /\ Considered /\ Len(job.named) <= Limit /\ job.named \in Seq(Accounts)
    BY JobFields DEF AttrInv, Ranked, Named
  <2>2. a \in ToSet(job.order)
    BY <2>1 DEF Considered
  <2>3. job.order # <<>>
    BY <2>2, NoMembers
  <2>4. Len(job.named) \in Nat /\ Limit \in Nat /\ ~(Len(job.named) < Limit)
    BY <2>1, <2>3, Members, TypeOfLimits DEF Selecting
  <2>5. Len(job.named) = Limit
    BY <2>1, <2>4
  <2> QED BY <2>1, <2>2, <2>5 DEF Leading
<1> QED BY <1>1, AttrInvInit, AttrInvNext, PTL DEF AttrSpec
=============================================================================
