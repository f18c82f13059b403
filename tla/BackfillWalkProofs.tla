------------------------- MODULE BackfillWalkProofs -------------------------
(***************************************************************************)
(* The walks of the backfill leave out no article that stayed where it     *)
(* was, for any number of articles and any size of batch.                  *)
(***************************************************************************)
EXTENDS BackfillWalk, FiniteSetTheorems, WellFoundedInduction, TLAPS

-----------------------------------------------------------------------------
(* Batches *)

\* A set of numbers has a smallest one.
LEMMA SmallestOf ==
  ASSUME NEW S, S \subseteq Nat, S # {}
  PROVE  \E x \in S : \A y \in S : x <= y
<1>1. PICK x \in S : \A y \in S : ~(<<y, x>> \in OpToRel(<, Nat))
  BY NatLessThanWellFounded, WFMin
<1>2. ASSUME NEW y \in S PROVE x <= y
  <2>1. CASE y < x
    <3>1. <<y, x>> \in Nat \X Nat /\ <<y, x>>[1] < <<y, x>>[2]
      BY <2>1
    <3>2. <<y, x>> \in OpToRel(<, Nat)
      BY <3>1 DEF OpToRel
    <3> QED BY <1>1, <3>2
  <2> QED BY <2>1
<1> QED BY <1>2

Lengths == length \in [Pages -> 0..MaxLength]

\* Both walks put the pages in one order.
LEMMA Ordered ==
  ASSUME Lengths, NEW w \in Walks, NEW p \in Pages, NEW q \in Pages
  PROVE  /\ p # q => Before(w, p, q) \/ Before(w, q, p)
         /\ ~(Before(w, p, q) /\ Before(w, q, p)) /\ ~Before(w, p, p)
         /\ \A r \in Pages : Before(w, p, q) /\ Before(w, q, r) => Before(w, p, r)
<1>1. p \in Nat /\ q \in Nat /\ \A r \in Pages : r \in Nat /\ length[r] \in Nat
  BY BackfillConstants DEF Lengths
<1> QED BY <1>1 DEF Before

\* How many pages of S come before p.
Rank(w, S, p) == Cardinality({q \in S : Before(w, q, p)})

LEMMA RankGrows ==
  ASSUME Lengths, NEW w \in Walks, NEW S \in SUBSET Pages, NEW p \in S
  PROVE  /\ Rank(w, S, p) \in Nat
         /\ \A q \in S : Before(w, q, p) => Rank(w, S, q) < Rank(w, S, p)
<1> DEFINE Ahd(q) == {r \in S : Before(w, r, q)}
<1>1. ASSUME NEW q \in S PROVE IsFiniteSet(Ahd(q)) /\ Cardinality(Ahd(q)) \in Nat
  <2>1. Ahd(q) \subseteq Pages
    OBVIOUS
  <2> QED BY <2>1, BackfillConstants, FS_Subset, FS_CardinalityType
<1>2. ASSUME NEW q \in S, Before(w, q, p) PROVE Cardinality(Ahd(q)) < Cardinality(Ahd(p))
  <2>1. Ahd(q) \subseteq Ahd(p)
    BY <1>2, Ordered
  <2>2. q \in Ahd(p) /\ q \notin Ahd(q)
    BY <1>2, Ordered
  <2> HIDE DEF Ahd
  <2>3. Cardinality(Ahd(q)) <= Cardinality(Ahd(p)) /\ Cardinality(Ahd(q)) # Cardinality(Ahd(p))
    BY <1>1, <2>1, <2>2, FS_Subset
  <2> QED BY <1>1, <2>3
<1> QED BY <1>1, <1>2 DEF Rank

\* A batch takes with a page all that come before it.
LEMMA BatchIsClosed ==
  ASSUME Lengths, NEW w \in Walks, NEW S \in SUBSET Pages, NEW n \in Nat,
         NEW p \in First(w, S, n), NEW q \in S, Before(w, q, p)
  PROVE  q \in First(w, S, n)
<1>1. p \in S /\ Rank(w, S, p) < n
  BY DEF First, Rank
<1>2. Rank(w, S, q) < n
  BY <1>1, RankGrows
<1> QED BY <1>2 DEF First, Rank

\* Some page of a set comes before all others of it.
LEMMA FirstExists ==
  ASSUME Lengths, NEW w \in Walks, NEW S \in SUBSET Pages, NEW T \in SUBSET S, T # {}
  PROVE  \E p \in T : \A q \in T \ {p} : Before(w, p, q)
<1> DEFINE ranks == {Rank(w, S, p) : p \in T}
<1>1. ranks \subseteq Nat /\ ranks # {}
  BY RankGrows
<1>2. PICK p \in T : \A q \in T : Rank(w, S, p) <= Rank(w, S, q)
  <2>1. \A q \in T : Rank(w, S, q) \in ranks
    OBVIOUS
  <2>2. \A k \in ranks : \E p \in T : k = Rank(w, S, p)
    OBVIOUS
  <2> HIDE DEF ranks
  <2>3. PICK k \in ranks : \A m \in ranks : k <= m
    BY <1>1, SmallestOf
  <2> QED BY <2>1, <2>2, <2>3
<1>3. ASSUME NEW q \in T \ {p} PROVE Before(w, p, q)
  <2>1. CASE Before(w, q, p)
    <3>1. Rank(w, S, q) < Rank(w, S, p)
      BY <2>1, RankGrows
    <3> QED BY <1>2, <3>1, RankGrows
  <2> QED BY <2>1, Ordered
<1> QED BY <1>3

\* And some page of a batch after all others of it.
LEMMA LastExists ==
  ASSUME Lengths, NEW w \in Walks, NEW S \in SUBSET Pages, NEW n \in Nat,
         First(w, S, n) # {}
  PROVE  \E p \in First(w, S, n) : \A q \in First(w, S, n) \ {p} : Before(w, q, p)
<1> DEFINE batch == First(w, S, n)
           left == {n - Rank(w, S, p) : p \in batch}
<1>1. ASSUME NEW p \in batch PROVE p \in S /\ Rank(w, S, p) < n /\ Rank(w, S, p) \in Nat
  BY RankGrows DEF First, Rank
<1> HIDE DEF batch
<1>2. left \subseteq Nat /\ left # {}
  BY <1>1 DEF batch
<1>3. PICK p \in batch : \A q \in batch : n - Rank(w, S, p) <= n - Rank(w, S, q)
  <2>1. \A q \in batch : n - Rank(w, S, q) \in left
    OBVIOUS
  <2>2. \A k \in left : \E p \in batch : k = n - Rank(w, S, p)
    OBVIOUS
  <2> HIDE DEF left
  <2>3. PICK k \in left : \A m \in left : k <= m
    BY <1>2, SmallestOf
  <2> QED BY <2>1, <2>2, <2>3
<1>4. ASSUME NEW q \in batch \ {p} PROVE Before(w, q, p)
  <2>1. CASE Before(w, p, q)
    <3>1. Rank(w, S, p) < Rank(w, S, q)
      BY <1>1, <2>1, RankGrows
    <3> QED BY <1>1, <1>3, <3>1
  <2> QED BY <1>1, <2>1, Ordered
<1> QED BY <1>4 DEF batch

\* A short batch is all there is.
LEMMA ShortBatchIsAll ==
  ASSUME Lengths, NEW w \in Walks, NEW S \in SUBSET Pages, NEW n \in Nat,
         Cardinality(First(w, S, n)) < n
  PROVE  First(w, S, n) = S
<1> DEFINE batch == First(w, S, n)
<1>1. batch \subseteq S /\ IsFiniteSet(S) /\ IsFiniteSet(batch)
  BY BackfillConstants, FS_Subset DEF First
<1>2. ASSUME S \ batch # {} PROVE FALSE
  <2>1. PICK p \in S \ batch : \A q \in (S \ batch) \ {p} : Before(w, p, q)
    BY <1>2, FirstExists
  <2>2. {q \in S : Before(w, q, p)} \subseteq batch
    <3> HIDE DEF batch
    <3> QED BY <2>1, Ordered
  <2>3. Rank(w, S, p) <= Cardinality(batch)
    BY <1>1, <2>2, FS_Subset DEF Rank
  <2>4. Rank(w, S, p) < n
    BY <1>1, <2>3, RankGrows, FS_CardinalityType
  <2> QED BY <2>1, <2>4 DEF First, Rank
<1> QED BY <1>1, <1>2

-----------------------------------------------------------------------------
(* One fetch *)

\* The cursor of a batch divides what was ahead into the batch and what is still
\* ahead, and adds nothing to it.
Divides(w, c, batch, next) ==
  /\ next \in Positions /\ (next.at = "mid" => next.page # 0)
  /\ batch \subseteq Articles
  /\ \A p \in Articles :
       /\ Ahead(w, c, p) <=> p \in batch \/ Ahead(w, next, p)
       /\ ~(p \in batch /\ Ahead(w, next, p))

LEMMA ArticlesArePages == Articles \in SUBSET Pages
BY DEF Articles

\* What a position and a page are made of.
LEMMA PositionParts ==
  ASSUME NEW c \in Positions
  PROVE  c.at \in {"start", "mid", "complete"} /\ c.length \in Nat /\ c.page \in Nat
<1>1. /\ c.at \in {"start", "mid", "complete"} /\ c.length \in 0..MaxLength
      /\ c.page \in Pages \cup {0}
  BY DEF Positions
<1>2. c.page \in Nat
  <2>1. \A n \in Pages \cup {0} : n \in Nat
    BY BackfillConstants
  <2> QED BY <1>1, <2>1
<1>3. c.length \in Nat
  BY <1>1
<1> QED BY <1>1, <1>2, <1>3

\* Ahead without its CASE.
LEMMA AheadIs ==
  ASSUME NEW c \in Positions, NEW p
  PROVE  /\ Ahead("length", c, p) <=> c.at = "start" \/ (c.at = "mid" /\ Below(c, p))
         /\ Ahead("title", c, p) <=> c.at = "start" \/ (c.at = "mid" /\ p >= c.page)
<1>1. CASE c.at = "start"
  BY <1>1 DEF Ahead
<1>2. CASE c.at = "complete"
  BY <1>2 DEF Ahead
<1>3. CASE c.at = "mid"
  BY <1>3 DEF Ahead
<1> QED BY <1>1, <1>2, <1>3, PositionParts

LEMMA PageParts ==
  ASSUME Lengths
  PROVE  \A p \in Pages : p \in Nat \ {0} /\ length[p] \in 0..MaxLength /\ length[p] \in Nat
<1>1. \A p \in Pages : length[p] \in 0..MaxLength
  BY DEF Lengths
<1> QED BY <1>1, BackfillConstants

\* A batch of all that is ahead completes the walk.
LEMMA CompleteDivides ==
  ASSUME NEW w \in Walks, NEW c \in Positions
  PROVE  Divides(w, c, {p \in Articles : Ahead(w, c, p)}, Complete)
<1>1. Complete \in Positions /\ Complete.at = "complete"
  BY BackfillConstants DEF Complete, Positions
<1>2. \A p \in Articles : ~Ahead(w, Complete, p)
  BY <1>1 DEF Ahead
<1> QED BY <1>1, <1>2 DEF Divides

\* The pages the next cursors are made of.
LastOf(batch) == CHOOSE p \in batch : \A q \in batch \ {p} : Before("length", q, p)
FirstOf(rest) == CHOOSE p \in rest : \A q \in rest \ {p} : Before("title", p, q)

LEMMA FetchByLengthDivides ==
  ASSUME Lengths, NEW c \in Positions, NEW batch,
         batch = First("length", {p \in Articles : Ahead("length", c, p)}, BatchSize)
  PROVE  Divides("length", c, batch, IF Cardinality(batch) < BatchSize THEN Complete
                                     ELSE At(LastOf(batch), length[LastOf(batch)]))
<1> DEFINE S == {p \in Articles : Ahead("length", c, p)}
           last == LastOf(batch)
           next == At(last, length[last])
<1>1. /\ S \in SUBSET Pages /\ batch \subseteq S /\ "length" \in Walks /\ BatchSize \in Nat \ {0}
      /\ \A p \in Pages : p \in Nat \ {0} /\ length[p] \in Nat
  BY ArticlesArePages, PageParts, BackfillConstants DEF First, Walks
<1>2. CASE Cardinality(batch) < BatchSize
  <2>1. batch = S
    BY <1>1, <1>2, ShortBatchIsAll
  <2> QED BY <1>1, <1>2, <2>1, CompleteDivides
<1>3. CASE ~(Cardinality(batch) < BatchSize)
  <2>1. batch # {}
    BY <1>1, <1>3, FS_EmptySet
  <2>2. \E p \in batch : \A q \in batch \ {p} : Before("length", q, p)
    <3> HIDE DEF S
    <3> QED BY <1>1, <2>1, LastExists DEF S
  <2>3. last \in batch /\ \A q \in batch \ {last} : Before("length", q, last)
    BY <2>2 DEF LastOf
  <2> HIDE DEF last
  <2>4. last \in Pages /\ last \in Articles /\ Ahead("length", c, last)
    BY <1>1, <2>3
  <2>5. next \in Positions /\ next.at = "mid" /\ next.page = last /\ next.length = length[last]
        /\ next.page # 0
    BY <1>1, <2>4 DEF At, Positions, Lengths
  <2> HIDE DEF next
  <2>6. \A p \in Articles : Ahead("length", next, p) <=> Before("length", last, p)
    BY <1>1, <2>4, <2>5, ArticlesArePages DEF Ahead, Below, Before
  <2>7. ASSUME NEW p \in Articles, Ahead("length", c, p), p \notin batch
        PROVE  Before("length", last, p)
    <3>1. p \in S /\ p # last
      BY <2>3, <2>7
    <3>2. ~Before("length", p, last)
      <4> HIDE DEF S
      <4> QED BY <1>1, <2>3, <2>7, <3>1, BatchIsClosed DEF S
    <3> QED BY <1>1, <2>4, <3>1, <3>2, Ordered
  <2>8. ASSUME NEW p \in Articles, Before("length", last, p) PROVE Ahead("length", c, p)
    <3>1. p \in Pages /\ length[p] \in Nat /\ length[last] \in Nat /\ p \in Nat /\ last \in Nat
      BY <1>1, <2>4, ArticlesArePages
    <3> QED BY <2>4, <2>8, <3>1, PositionParts, AheadIs DEF Below, Before
  <2>9. ASSUME NEW p \in batch PROVE ~Before("length", last, p)
    <3>1. p \in Pages
      BY <1>1
    <3> QED BY <1>1, <2>3, <2>4, <3>1, Ordered
  <2>10. Divides("length", c, batch, next)
    BY <1>1, <2>5, <2>6, <2>7, <2>8, <2>9 DEF Divides
  <2> QED BY <1>3, <2>10 DEF next, last
<1> QED BY <1>2, <1>3

LEMMA FetchByTitleDivides ==
  ASSUME Lengths, NEW c \in Positions, NEW ahead, NEW batch,
         ahead = {p \in Articles : Ahead("title", c, p)},
         batch = First("title", ahead, TitleLimit)
  PROVE  Divides("title", c, batch, IF ahead \ batch = {} THEN Complete
                                    ELSE At(FirstOf(ahead \ batch), 0))
<1> DEFINE rest == ahead \ batch
           first == FirstOf(rest)
           next == At(first, 0)
<1>1. /\ ahead \in SUBSET Pages /\ batch \subseteq ahead /\ "title" \in Walks
      /\ TitleLimit \in Nat \ {0} /\ \A p \in Pages : p \in Nat \ {0}
  BY ArticlesArePages, BackfillConstants DEF First, Walks
<1>2. CASE rest = {}
  <2>1. batch = ahead
    BY <1>1, <1>2
  <2> QED BY <1>1, <1>2, <2>1, CompleteDivides
<1>3. CASE rest # {}
  <2>1. \E p \in rest : \A q \in rest \ {p} : Before("title", p, q)
    <3>1. rest \in SUBSET ahead
      OBVIOUS
    <3> HIDE DEF rest
    <3> QED BY <1>1, <1>3, <3>1, FirstExists
  <2>2. first \in rest /\ \A q \in rest \ {first} : Before("title", first, q)
    BY <2>1 DEF FirstOf
  <2> HIDE DEF first
  <2>3. first \in Pages /\ first \in Articles /\ Ahead("title", c, first) /\ first \in Nat
    BY <1>1, <2>2
  <2>4. next \in Positions /\ next.at = "mid" /\ next.page = first /\ next.page # 0
    BY <1>1, <2>3, BackfillConstants DEF At, Positions
  <2> HIDE DEF next
  <2>5. \A p \in Articles : Ahead("title", next, p) <=> p >= first
    BY <2>4 DEF Ahead
  <2>6. ASSUME NEW p \in rest PROVE p >= first
    BY <1>1, <2>2, <2>3 DEF Before
  <2>7. ASSUME NEW p \in Articles, p >= first PROVE Ahead("title", c, p)
    <3>1. p \in Nat
      BY ArticlesArePages, BackfillConstants
    <3> QED BY <2>3, <2>7, <3>1, PositionParts, AheadIs
  <2>8. ASSUME NEW p \in batch PROVE ~(p >= first)
    <3>1. p \in Pages /\ p \in Nat /\ p # first
      BY <1>1, <2>2
    <3>2. ~Before("title", first, p)
      BY <1>1, <2>2, BatchIsClosed
    <3> QED BY <2>3, <3>1, <3>2 DEF Before
  <2>9. Divides("title", c, batch, next)
    BY <1>1, <2>4, <2>5, <2>6, <2>7, <2>8 DEF Divides
  <2> QED BY <1>3, <2>9 DEF next, first
<1> QED BY <1>2, <1>3

\* A cursor that divides a batch off lies past the one it was fetched from: a
\* page of the batch is no longer ahead of the one and was ahead of the other.
LEMMA DividingMovesOn ==
  ASSUME Lengths, NEW w \in Walks, NEW c \in Positions, NEW batch, NEW next,
         Divides(w, c, batch, next), next.at = "mid", batch # {}
  PROVE  Past(w, c, next)
<1>1. PICK p \in batch : TRUE
  OBVIOUS
<1>2. /\ p \in Articles /\ Ahead(w, c, p) /\ ~Ahead(w, next, p) /\ next \in Positions
  BY <1>1 DEF Divides
<1>3. p \in Nat /\ length[p] \in Nat
  BY <1>2, ArticlesArePages, PageParts
<1>4. CASE w = "title"
  BY <1>2, <1>3, <1>4, AheadIs, PositionParts DEF Past
<1>5. CASE w = "length"
  BY <1>2, <1>3, <1>5, AheadIs, PositionParts DEF Past, Below
<1> QED BY <1>4, <1>5 DEF Walks

LEMMA FetchByLengthMovesOn ==
  ASSUME Lengths, NEW c \in Positions, c # Complete, NEW batch, NEW next,
         batch = First("length", {p \in Articles : Ahead("length", c, p)}, BatchSize),
         next = IF Cardinality(batch) < BatchSize THEN Complete
                ELSE At(LastOf(batch), length[LastOf(batch)])
  PROVE  Past("length", c, next)
<1>1. CASE Cardinality(batch) < BatchSize
  BY <1>1 DEF Past
<1>2. CASE ~(Cardinality(batch) < BatchSize)
  <2>1. batch # {}
    BY <1>2, BackfillConstants, FS_EmptySet
  <2>2. next = At(LastOf(batch), length[LastOf(batch)])
    BY <1>2
  <2>3. next.at = "mid"
    BY <2>2 DEF At
  <2>4. Divides("length", c, batch, next)
    BY FetchByLengthDivides
  <2> QED BY <2>1, <2>3, <2>4, DividingMovesOn DEF Walks
<1> QED BY <1>1, <1>2

LEMMA FetchByTitleMovesOn ==
  ASSUME Lengths, NEW c \in Positions, c # Complete, NEW ahead, NEW batch, NEW next,
         ahead = {p \in Articles : Ahead("title", c, p)},
         batch = First("title", ahead, TitleLimit),
         next = IF ahead \ batch = {} THEN Complete ELSE At(FirstOf(ahead \ batch), 0)
  PROVE  Past("title", c, next)
<1>1. CASE ahead \ batch = {}
  BY <1>1 DEF Past
<1>2. CASE ahead \ batch # {}
  <2>1. batch # {}
    <3>1. ahead \in SUBSET Pages /\ "title" \in Walks
      BY ArticlesArePages DEF Walks
    <3> TitleLimit \in Nat /\ 0 < TitleLimit
      BY BackfillConstants
    <3>2. SUFFICES ASSUME batch = {} PROVE FALSE
      OBVIOUS
    <3>3. Cardinality(batch) < TitleLimit
      BY <3>1, <3>2, FS_EmptySet
    <3>4. batch = ahead
      BY <3>1, <3>3, ShortBatchIsAll
    <3> QED BY <1>2, <3>4
  <2>2. next = At(FirstOf(ahead \ batch), 0)
    BY <1>2
  <2>3. next.at = "mid"
    BY <2>2 DEF At
  <2>4. Divides("title", c, batch, next)
    BY FetchByTitleDivides
  <2> QED BY <2>1, <2>3, <2>4, DividingMovesOn DEF Walks
<1> QED BY <1>1, <1>2

-----------------------------------------------------------------------------
(* Types *)

\* Every run a step writes is a run, and differs where the step says.
LEMMA RunLeft ==
  ASSUME NEW r \in Runs, NEW n \in 0..Batches
  PROVE  LET new == [r EXCEPT !.left = n]
         IN new \in Runs /\ new.at = r.at /\ new.walk = r.walk /\ new.left = n
            /\ new.pages = r.pages /\ new.next = r.next
BY DEF Runs

LEMMA RunPages ==
  ASSUME NEW r \in Runs, NEW S \in SUBSET Pages
  PROVE  LET new == [r EXCEPT !.pages = S]
         IN new \in Runs /\ new.at = r.at /\ new.walk = r.walk /\ new.left = r.left
            /\ new.pages = S /\ new.next = r.next
BY DEF Runs

LEMMA RunMoved ==
  ASSUME NEW r \in Runs, NEW label \in {"idle", "demand", "fetch", "enqueue"}
  PROVE  [r EXCEPT !.at = label] \in Runs
BY DEF Runs

LEMMA RunNext ==
  ASSUME NEW r \in Runs, NEW c \in Positions
  PROVE  [r EXCEPT !.next = c] \in Runs
BY DEF Runs

LEMMA RunFetches ==
  ASSUME NEW r \in Runs, NEW n \in 0..Batches
  PROVE  LET new == [r EXCEPT !.at = "fetch", !.left = n]
         IN new \in Runs /\ new.at = "fetch" /\ new.walk = r.walk /\ new.left = n
            /\ new.pages = r.pages /\ new.next = r.next
<1> DEFINE moved == [r EXCEPT !.at = "fetch"]
           new == [r EXCEPT !.at = "fetch", !.left = n]
<1>1. new = [moved EXCEPT !.left = n]
  OBVIOUS
<1>2. moved \in Runs
  BY RunMoved
<1>3. new.at = "fetch" /\ new.walk = r.walk /\ new.left = n /\ new.pages = r.pages
      /\ new.next = r.next
  BY DEF Runs
<1> HIDE DEF moved
<1>4. new \in Runs
  BY <1>1, <1>2, RunLeft
<1> QED BY <1>3, <1>4

Filled(r, S, c) == [r EXCEPT !.at = "enqueue", !.pages = S, !.next = c]

LEMMA RunFilled ==
  ASSUME NEW r \in Runs, NEW S \in SUBSET Pages, NEW c \in Positions
  PROVE  /\ Filled(r, S, c) \in Runs /\ Filled(r, S, c).at = "enqueue"
         /\ Filled(r, S, c).walk = r.walk /\ Filled(r, S, c).left = r.left
         /\ Filled(r, S, c).pages = S /\ Filled(r, S, c).next = c
<1> DEFINE moved == [r EXCEPT !.at = "enqueue"]
           filled == [moved EXCEPT !.pages = S]
           new == [r EXCEPT !.at = "enqueue", !.pages = S, !.next = c]
<1>1. new = [filled EXCEPT !.next = c]
  OBVIOUS
<1>2. moved \in Runs
  BY RunMoved
<1>3. filled \in Runs
  <2> HIDE DEF moved
  <2> QED BY <1>2, RunPages
<1>4. new.at = "enqueue" /\ new.walk = r.walk /\ new.left = r.left /\ new.pages = S
      /\ new.next = c
  BY DEF Runs
<1> HIDE DEF filled
<1>5. new \in Runs
  BY <1>1, <1>3, RunNext
<1> QED BY <1>4, <1>5 DEF Filled

-----------------------------------------------------------------------------
(* The invariant *)

\* An article walk w has still to enqueue: in the batch at hand, or ahead.
Owed(w, p) ==
  IF run.at = "enqueue" /\ run.walk = w
  THEN p \in run.pages \/ Ahead(w, run.next, p)
  ELSE Ahead(w, cursors[w], p)

RunSound ==
  /\ TypeOK
  /\ run.next.at = "mid" => run.next.page # 0
  /\ run.at = "fetch" => run.next = cursors[run.walk] /\ run.next # Complete
  /\ run.at = "enqueue" => Past(run.walk, cursors[run.walk], run.next)
  /\ \A w \in Walks : steady[w] \subseteq Articles

\* Nothing steady is missed, and nothing is in the batch and ahead at once.
StillOwed ==
  \A w \in Walks : \A p \in steady[w] :
    /\ Owed(w, p) \/ times[w][p] > 0
    /\ run.at = "enqueue" /\ run.walk = w => ~(p \in run.pages /\ Ahead(w, run.next, p))

\* An enqueue more than the first is paid for by a failure.
WalkBudget ==
  \A w \in Walks : \A p \in steady[w] :
    times[w][p] + (IF Owed(w, p) THEN 1 ELSE 0) <= 1 + failures

WalkInv == RunSound /\ WalkSkipsNothing /\ StillOwed /\ WalkBudget

LEMMA Parts ==
  ASSUME RunSound
  PROVE  /\ Lengths /\ failures \in Nat /\ run \in Runs /\ run.walk \in Walks
         /\ run.left \in 0..Batches /\ run.left \in Nat /\ run.pages \in SUBSET Pages
         /\ run.next \in Positions
         /\ \A w \in Walks : /\ cursors[w] \in Positions /\ steady[w] \subseteq Pages
                             /\ steady[w] \subseteq Articles
                             /\ \A p \in Pages : times[w][p] \in Nat
<1>1. failures \in Nat /\ run \in Runs /\ Lengths
  BY BackfillConstants DEF RunSound, TypeOK, Lengths
<1>2. /\ run.walk \in Walks /\ run.left \in 0..Batches /\ run.pages \in SUBSET Pages
      /\ run.next \in Positions
  BY <1>1 DEF Runs
<1>3. run.left \in Nat
  BY <1>2
<1> QED BY <1>1, <1>2, <1>3 DEF RunSound, TypeOK

\* Between batches only the cursors count.
LEMMA BetweenBatches ==
  ASSUME WalkInv, RunSound', UNCHANGED <<length, cursors, steady, times, failures>>,
         run.at # "enqueue", run'.at # "enqueue"
  PROVE  WalkInv'
<1>1. \A w \in Walks, p \in Pages : Ahead(w, cursors[w], p)' <=> Ahead(w, cursors[w], p)
  BY DEF Ahead, Below
<1>2. \A w \in Walks : \A p \in steady[w] : p \in Pages
  BY Parts DEF WalkInv
<1>3. \A w \in Walks, p \in Pages : Owed(w, p)' <=> Owed(w, p)
  BY <1>1 DEF Owed
<1>4. WalkSkipsNothing'
  BY <1>1, <1>2 DEF WalkInv, WalkSkipsNothing
<1>5. StillOwed'
  BY <1>2, <1>3 DEF WalkInv, StillOwed
<1>6. WalkBudget'
  BY <1>2, <1>3 DEF WalkInv, WalkBudget
<1> QED BY <1>4, <1>5, <1>6 DEF WalkInv

NoRunTyped == NoRun \in Runs /\ NoRun.at = "idle" /\ NoRun.next.at = "start"

LEMMA NoRunIsARun == NoRunTyped
<1>1. Start \in Positions /\ Start.at = "start"
  BY BackfillConstants DEF Start, Positions
<1>2. 0 \in 0..Batches /\ "length" \in Walks
  BY BackfillConstants DEF Walks
<1> QED BY <1>1, <1>2 DEF NoRunTyped, NoRun, Runs

\* A walk is entered at its cursor.
LEMMA Entered ==
  ASSUME RunSound, NEW w \in Walks, NEW left \in (0..Batches) \ {0}
  PROVE  LET new == Enter(w, left)
         IN /\ new \in Runs /\ new.at \in {"idle", "fetch"}
            /\ new.at = "fetch" => new.next = cursors[w] /\ new.next # Complete /\ new.walk = w /\ new.left = left
            /\ new.next.at = "mid" => new.next.page # 0
<1>1. CASE cursors[w] = Complete
  BY <1>1, NoRunIsARun DEF Enter, NoRunTyped
<1>2. CASE cursors[w] # Complete
  <2> DEFINE new == [at |-> "fetch", walk |-> w, left |-> left, pages |-> {}, next |-> cursors[w]]
  <2>1. Enter(w, left) = new
    BY <1>2 DEF Enter, NoRun
  <2>2. cursors[w] \in Positions /\ (cursors[w].at = "mid" => cursors[w].page # 0)
    BY Parts DEF RunSound, TypeOK
  <2>3. new \in Runs
    BY <2>2 DEF Runs
  <2> QED BY <1>2, <2>1, <2>2, <2>3
<1> QED BY <1>1, <1>2

\* Any other run the job steps to, while table and articles stay.
LEMMA RunSteps ==
  ASSUME WalkInv, UNCHANGED <<length, cursors, steady, times, failures, edits, restarts>>,
         run.at # "enqueue", run' \in Runs, run'.at # "enqueue",
         run'.next.at = "mid" => run'.next.page # 0,
         run'.at = "fetch" => run'.next = cursors[run'.walk] /\ run'.next # Complete /\ run'.left > 0,
         ranking' \in Nat, credentials' \in BOOLEAN, reachable' \in BOOLEAN
  PROVE  WalkInv'
<1>1. RunSound'
  BY DEF WalkInv, RunSound, TypeOK, Articles
<1> QED BY <1>1, BetweenBatches

LEMMA StartRunKeeps ==
  ASSUME WalkInv, StartRun
  PROVE  WalkInv'
<1>1. /\ UNCHANGED <<length, cursors, steady, times, failures, edits, restarts>>
      /\ UNCHANGED <<ranking, credentials, reachable>> /\ run.at = "idle"
  BY DEF StartRun, world, walk
<1>2. Batches \in (0..Batches) \ {0} /\ "title" \in Walks /\ "length" \in Walks
  BY BackfillConstants DEF Walks
<1>3. CASE credentials
  <2> DEFINE new == [at |-> "demand", walk |-> "length", left |-> Batches, pages |-> {},
                     next |-> Start]
  <2>1. run' = new
    BY <1>3 DEF StartRun, NoRun
  <2>2. Start \in Positions /\ Start.at = "start"
    BY BackfillConstants DEF Start, Positions
  <2>3. new \in Runs
    BY <1>2, <2>2 DEF Runs
  <2> QED BY <1>1, <2>1, <2>2, <2>3, RunSteps DEF WalkInv, RunSound, TypeOK
<1>4. CASE ~credentials
  <2> DEFINE new == Enter("title", Batches)
  <2>1. run' = new
    BY <1>4 DEF StartRun
  <2>2. /\ new \in Runs /\ new.at \in {"idle", "fetch"}
        /\ new.at = "fetch" => new.next = cursors["title"] /\ new.next # Complete /\ new.walk = "title"
                              /\ new.left = Batches
        /\ new.next.at = "mid" => new.next.page # 0
    BY <1>2, Entered DEF WalkInv
  <2> HIDE DEF new
  <2> QED BY <1>1, <1>2, <2>1, <2>2, BackfillConstants, RunSteps DEF WalkInv, RunSound, TypeOK
<1> QED BY <1>3, <1>4

LEMMA DemandBatchKeeps ==
  ASSUME WalkInv, DemandBatch
  PROVE  WalkInv'
<1>1. /\ UNCHANGED <<length, cursors, steady, times, failures, edits, restarts>>
      /\ UNCHANGED <<credentials, reachable>> /\ run.at = "demand" /\ run.left > 0
      /\ ranking' = ranking - 1 /\ ranking > 0 /\ run' = [run EXCEPT !.left = run.left - 1]
  BY DEF DemandBatch, walk
<1>2. run \in Runs /\ run.left - 1 \in 0..Batches /\ ranking' \in Nat
      /\ (run.next.at = "mid" => run.next.page # 0)
  <2>1. run \in Runs /\ run.left \in 0..Batches /\ (run.next.at = "mid" => run.next.page # 0)
    BY Parts DEF WalkInv, RunSound
  <2>2. run.left - 1 \in 0..Batches
    BY <1>1, <2>1, BackfillConstants
  <2>3. ranking' \in Nat
    BY <1>1 DEF WalkInv, RunSound, TypeOK
  <2> QED BY <2>1, <2>2, <2>3
<1>3. run' \in Runs /\ run'.at = "demand" /\ run'.next = run.next
  <2> DEFINE n == run.left - 1
             new == [run EXCEPT !.left = n]
  <2>1. n \in 0..Batches /\ run' = new
    BY <1>1, <1>2
  <2> HIDE DEF n
  <2>2. new \in Runs /\ new.at = run.at /\ new.next = run.next
    BY <1>2, <2>1, RunLeft
  <2> HIDE DEF new
  <2> QED BY <1>1, <2>1, <2>2
<1> QED BY <1>1, <1>2, <1>3, RunSteps DEF WalkInv, RunSound, TypeOK

LEMMA LeaveDemandKeeps ==
  ASSUME WalkInv, LeaveDemand
  PROVE  WalkInv'
<1>1. /\ UNCHANGED <<length, cursors, steady, times, failures, edits, restarts>>
      /\ UNCHANGED <<ranking, credentials, reachable>> /\ run.at = "demand"
  BY DEF LeaveDemand, world, walk
<1>2. CASE run.left = 0
  BY <1>1, <1>2, NoRunIsARun, RunSteps DEF LeaveDemand, NoRunTyped, WalkInv, RunSound, TypeOK
<1>3. CASE run.left # 0
  <2> DEFINE new == Enter("length", run.left)
  <2>1. run' = new
    BY <1>3 DEF LeaveDemand
  <2>2. run.left \in (0..Batches) \ {0} /\ run.left > 0 /\ "length" \in Walks
    BY <1>3, Parts DEF WalkInv, Walks
  <2>3. /\ new \in Runs /\ new.at \in {"idle", "fetch"}
        /\ new.at = "fetch" => new.next = cursors["length"] /\ new.next # Complete /\ new.walk = "length"
                              /\ new.left = run.left
        /\ new.next.at = "mid" => new.next.page # 0
    BY <2>2, Entered DEF WalkInv
  <2> HIDE DEF new
  <2> QED BY <1>1, <2>1, <2>2, <2>3, RunSteps DEF WalkInv, RunSound, TypeOK
<1> QED BY <1>2, <1>3

LEMMA LoseReplicaKeeps ==
  ASSUME WalkInv, LoseReplica
  PROVE  WalkInv'
<1>1. /\ UNCHANGED <<length, cursors, steady, times, failures, edits, restarts>>
      /\ UNCHANGED <<ranking, credentials, reachable>> /\ run.at # "enqueue" /\ run' = NoRun
  BY DEF LoseReplica, world, walk
<1> QED BY <1>1, NoRunIsARun, RunSteps DEF NoRunTyped, WalkInv, RunSound, TypeOK

\* A fetch turns what is ahead into the batch and what is still ahead.
LEMMA FetchKeeps ==
  ASSUME WalkInv, run.at = "fetch", NEW batch, NEW next,
         Divides(run.walk, run.next, batch, next), Past(run.walk, run.next, next),
         run' = [run EXCEPT !.at = "enqueue", !.pages = batch, !.next = next],
         UNCHANGED <<world, walk, failures, restarts>>
  PROVE  WalkInv'
<1>1. /\ run' \in Runs /\ run'.at = "enqueue" /\ run'.walk = run.walk /\ run'.left = run.left
      /\ run'.pages = batch /\ run'.next = next
  <2> DEFINE new == Filled(run, batch, next)
  <2>1. batch \in SUBSET Pages /\ next \in Positions /\ run \in Runs /\ run.left \in 0..Batches
    BY ArticlesArePages, Parts DEF Divides, WalkInv
  <2>2. /\ new \in Runs /\ new.at = "enqueue" /\ new.walk = run.walk /\ new.left = run.left
        /\ new.pages = batch /\ new.next = next
    BY <2>1, RunFilled
  <2>3. run' = new
    BY DEF Filled
  <2> HIDE DEF new
  <2> QED BY <2>2, <2>3
<1>2. UNCHANGED <<length, cursors, steady, times, failures, edits, restarts, ranking,
                  credentials, reachable>>
  BY DEF world, walk
<1>3. run.left > 0 /\ run.next = cursors[run.walk] /\ run.walk \in Walks
      /\ \A w \in Walks : steady[w] \subseteq Articles
  BY Parts DEF WalkInv, RunSound, TypeOK
<1>4. RunSound'
  BY <1>1, <1>2, <1>3 DEF WalkInv, RunSound, TypeOK, Divides, Articles
<1>5. WalkSkipsNothing'
  BY <1>2 DEF WalkInv, WalkSkipsNothing, Ahead, Below
<1>6. \A w \in Walks : \A p \in steady[w] : Owed(w, p)' <=> Owed(w, p)
  <2> TAKE w \in Walks
  <2> TAKE p \in steady[w]
  <2>1. p \in Articles
    BY <1>3
  <2>2. CASE w = run.walk
    <3>1. Owed(w, p) <=> Ahead(w, run.next, p)
      BY <1>3, <2>2 DEF Owed
    <3>2. Owed(w, p)' <=> p \in batch \/ Ahead(w, next, p)
      BY <1>1, <1>2, <2>2 DEF Owed, Ahead, Below
    <3> QED BY <2>1, <2>2, <3>1, <3>2 DEF Divides
  <2>3. CASE w # run.walk
    BY <1>1, <1>2, <2>3 DEF Owed, Ahead, Below
  <2> QED BY <2>2, <2>3
<1>7. StillOwed'
  <2>1. ASSUME NEW w \in Walks, NEW p \in steady[w], run.walk = w
        PROVE  ~(p \in run'.pages /\ Ahead(w, run.next, p)')
    <3>1. p \in Articles
      BY <1>3
    <3>2. Ahead(w, run.next, p)' <=> Ahead(w, next, p)
      BY <1>1, <1>2 DEF Ahead, Below
    <3> QED BY <1>1, <2>1, <3>1, <3>2 DEF Divides
  <2> QED BY <1>1, <1>2, <1>6, <2>1 DEF WalkInv, StillOwed
<1>8. WalkBudget'
  BY <1>2, <1>6 DEF WalkInv, WalkBudget
<1> QED BY <1>4, <1>5, <1>7, <1>8 DEF WalkInv

LEMMA FetchByLengthKeeps ==
  ASSUME WalkInv, FetchByLength
  PROVE  WalkInv'
<1> DEFINE batch == First("length", {p \in Articles : Ahead("length", run.next, p)}, BatchSize)
           next == IF Cardinality(batch) < BatchSize THEN Complete
                   ELSE At(LastOf(batch), length[LastOf(batch)])
<1>1. /\ run.at = "fetch" /\ run.walk = "length" /\ UNCHANGED <<world, walk, failures, restarts>>
      /\ run' = [run EXCEPT !.at = "enqueue", !.pages = batch, !.next = next]
  BY DEF FetchByLength, LastOf
<1>2. run.next \in Positions /\ Lengths
  BY Parts DEF WalkInv
<1>3. Divides("length", run.next, batch, next)
  <2> HIDE DEF batch
  <2> QED BY <1>2, FetchByLengthDivides DEF batch
<1>4. Past("length", run.next, next)
  <2>1. batch = First("length", {p \in Articles : Ahead("length", run.next, p)}, BatchSize)
        /\ next = IF Cardinality(batch) < BatchSize THEN Complete
                  ELSE At(LastOf(batch), length[LastOf(batch)])
    OBVIOUS
  <2>2. run.next # Complete
    BY <1>1 DEF WalkInv, RunSound
  <2> HIDE DEF next, batch
  <2> QED BY <1>2, <2>1, <2>2, FetchByLengthMovesOn
<1> HIDE DEF next, batch
<1> QED BY <1>1, <1>3, <1>4, FetchKeeps

LEMMA FetchByTitleKeeps ==
  ASSUME WalkInv, FetchByTitle
  PROVE  WalkInv'
<1> DEFINE ahead == {p \in Articles : Ahead("title", run.next, p)}
           batch == First("title", ahead, TitleLimit)
           next == IF ahead \ batch = {} THEN Complete ELSE At(FirstOf(ahead \ batch), 0)
<1>1. /\ run.at = "fetch" /\ run.walk = "title" /\ UNCHANGED <<world, walk, failures, restarts>>
      /\ run' = [run EXCEPT !.at = "enqueue", !.pages = batch, !.next = next]
  BY DEF FetchByTitle, FirstOf
<1>2. run.next \in Positions /\ Lengths
  BY Parts DEF WalkInv
<1>3. Divides("title", run.next, batch, next)
  <2>1. ahead = {p \in Articles : Ahead("title", run.next, p)}
        /\ batch = First("title", ahead, TitleLimit)
    OBVIOUS
  <2> HIDE DEF ahead, batch
  <2> QED BY <1>2, <2>1, FetchByTitleDivides
<1>4. Past("title", run.next, next)
  <2>1. /\ ahead = {p \in Articles : Ahead("title", run.next, p)}
        /\ batch = First("title", ahead, TitleLimit)
        /\ next = IF ahead \ batch = {} THEN Complete ELSE At(FirstOf(ahead \ batch), 0)
    OBVIOUS
  <2>2. run.next # Complete
    BY <1>1 DEF WalkInv, RunSound
  <2> HIDE DEF next, batch, ahead
  <2> QED BY <1>2, <2>1, <2>2, FetchByTitleMovesOn
<1> HIDE DEF next, batch
<1> QED BY <1>1, <1>3, <1>4, FetchKeeps

LEMMA EnqueuePageKeeps ==
  ASSUME WalkInv, EnqueuePage
  PROVE  WalkInv'
<1>1. PICK p \in run.pages : /\ times' = [times EXCEPT ![run.walk][p] = times[run.walk][p] + 1]
                             /\ run' = [run EXCEPT !.pages = run.pages \ {p}]
  BY DEF EnqueuePage
<1>2. /\ UNCHANGED <<length, cursors, steady, failures, edits, restarts, ranking,
                     credentials, reachable>>
      /\ run.at = "enqueue"
  BY DEF EnqueuePage, world
<1>3. /\ run' \in Runs /\ run'.at = "enqueue" /\ run'.walk = run.walk /\ run'.left = run.left
      /\ run'.pages = run.pages \ {p} /\ run'.next = run.next
  <2> DEFINE S == run.pages \ {p}
             new == [run EXCEPT !.pages = S]
  <2>1. S \in SUBSET Pages /\ run \in Runs /\ run.next \in Positions /\ run.left \in 0..Batches
    BY Parts DEF WalkInv
  <2>2. run' = new
    BY <1>1
  <2> HIDE DEF S
  <2>3. /\ new \in Runs /\ new.at = run.at /\ new.walk = run.walk /\ new.left = run.left
        /\ new.pages = S /\ new.next = run.next
    BY <2>1, RunPages
  <2> HIDE DEF new
  <2> QED BY <1>2, <2>2, <2>3 DEF S
<1>4. /\ run.walk \in Walks /\ p \in Pages /\ times \in [Walks -> [Pages -> Nat]]
      /\ failures \in Nat /\ \A w \in Walks : steady[w] \subseteq Pages
  BY Parts DEF WalkInv, RunSound, TypeOK
<1>5. /\ times' \in [Walks -> [Pages -> Nat]]
      /\ times'[run.walk][p] = times[run.walk][p] + 1
      /\ \A w \in Walks, q \in Pages : ~(w = run.walk /\ q = p) => times'[w][q] = times[w][q]
  BY <1>1, <1>4
<1>6. RunSound'
  BY <1>2, <1>3, <1>5 DEF WalkInv, RunSound, TypeOK, Articles
<1>7. ASSUME NEW w \in Walks, NEW q \in steady[w]
      PROVE  /\ Ahead(w, cursors[w], q)' <=> Ahead(w, cursors[w], q)
             /\ Ahead(w, run.next, q)' <=> Ahead(w, run.next, q)
             /\ times[w][q] \in Nat /\ times'[w][q] \in Nat /\ times'[w][q] >= times[w][q]
  <2>1. q \in Pages
    BY <1>4
  <2>2. times[w][q] \in Nat /\ times'[w][q] \in Nat /\ times'[w][q] >= times[w][q]
    BY <1>4, <1>5, <2>1
  <2> QED BY <1>2, <1>3, <2>2 DEF Ahead, Below
<1>8. WalkSkipsNothing'
  BY <1>2, <1>7 DEF WalkInv, WalkSkipsNothing
<1>9. ASSUME NEW w \in Walks, NEW q \in steady[w]
      PROVE  /\ (Owed(w, q) \/ times[w][q] > 0)'
             /\ (run.at = "enqueue" /\ run.walk = w => ~(q \in run.pages /\ Ahead(w, run.next, q)))'
             /\ (times[w][q] + (IF Owed(w, q) THEN 1 ELSE 0) <= 1 + failures)'
  <2>1. /\ Owed(w, q) \/ times[w][q] > 0
        /\ run.walk = w => ~(q \in run.pages /\ Ahead(w, run.next, q))
        /\ times[w][q] + (IF Owed(w, q) THEN 1 ELSE 0) <= 1 + failures
    BY <1>2 DEF WalkInv, StillOwed, WalkBudget
  <2>2. CASE w = run.walk /\ q = p
    <3>1. Owed(w, q) /\ ~Ahead(w, run.next, q)
      BY <1>2, <2>1, <2>2 DEF Owed
    <3>2. ~Owed(w, q)'
      BY <1>3, <1>7, <2>2, <3>1 DEF Owed
    <3>3. times'[w][q] = times[w][q] + 1 /\ times[w][q] \in Nat
      BY <1>5, <1>7, <2>2
    <3>4. q \notin run'.pages
      BY <1>3, <2>2
    <3> QED BY <1>2, <1>4, <2>1, <3>1, <3>2, <3>3, <3>4
  <2>3. CASE ~(w = run.walk /\ q = p)
    <3>1. times'[w][q] = times[w][q]
      BY <1>4, <1>5, <2>3
    <3>2. Owed(w, q)' <=> Owed(w, q)
      BY <1>2, <1>3, <1>7, <2>3 DEF Owed
    <3>3. run.walk = w => (q \in run'.pages <=> q \in run.pages)
      BY <1>3, <2>3
    <3> QED BY <1>2, <1>3, <1>7, <2>1, <3>1, <3>2, <3>3
  <2> QED BY <2>2, <2>3
<1>10. StillOwed' /\ WalkBudget'
  BY <1>2, <1>9 DEF StillOwed, WalkBudget
<1> QED BY <1>6, <1>8, <1>10 DEF WalkInv

LEMMA SaveCursorKeeps ==
  ASSUME WalkInv, SaveCursor
  PROVE  WalkInv'
<1>1. /\ UNCHANGED <<length, steady, times, failures, edits, restarts, ranking,
                     credentials, reachable>>
      /\ run.at = "enqueue" /\ run.pages = {}
      /\ cursors' = [cursors EXCEPT ![run.walk] = run.next]
  BY DEF SaveCursor, world
<1>2. /\ run.walk \in Walks /\ run.next \in Positions /\ run \in Runs
      /\ run.left \in 0..Batches /\ run.left > 0
      /\ cursors \in [Walks -> Positions] /\ (run.next.at = "mid" => run.next.page # 0)
      /\ \A w \in Walks : steady[w] \subseteq Pages
  BY <1>1, Parts DEF WalkInv, RunSound, TypeOK
<1>3. /\ cursors' \in [Walks -> Positions] /\ cursors'[run.walk] = run.next
      /\ \A w \in Walks : w # run.walk => cursors'[w] = cursors[w]
  BY <1>1, <1>2
<1>4. /\ run' \in Runs /\ run'.at \in {"idle", "fetch"}
      /\ run'.at = "fetch" => run'.walk = run.walk /\ run'.left > 0
      /\ run'.next \in {run.next, Start}
  <2>1. CASE run.next = Complete \/ run.left = 1
    <3>1. run' = NoRun
      BY <2>1 DEF SaveCursor
    <3>2. NoRun.next = Start
      BY DEF NoRun
    <3> QED BY <3>1, <3>2, NoRunIsARun DEF NoRunTyped
  <2>2. CASE ~(run.next = Complete \/ run.left = 1)
    <3> DEFINE n == run.left - 1
               new == [run EXCEPT !.at = "fetch", !.left = n]
    <3>1. n \in 0..Batches /\ n > 0
      BY <1>2, <2>2, BackfillConstants
    <3>2. run' = new
      BY <2>2 DEF SaveCursor
    <3> HIDE DEF n
    <3>3. new \in Runs /\ new.at = "fetch" /\ new.walk = run.walk /\ new.left = n
          /\ new.pages = run.pages /\ new.next = run.next
      BY <1>2, <3>1, RunFetches
    <3> HIDE DEF new
    <3> QED BY <3>1, <3>2, <3>3
  <2> QED BY <2>1, <2>2
<1>5. run'.at = "fetch" => run'.next = run.next /\ run'.next # Complete
  <2>1. CASE run.next = Complete \/ run.left = 1
    BY <2>1, NoRunIsARun DEF SaveCursor, NoRunTyped
  <2>2. CASE ~(run.next = Complete \/ run.left = 1)
    <3>1. run' = [run EXCEPT !.at = "fetch", !.left = run.left - 1]
      BY <2>2 DEF SaveCursor
    <3> QED BY <1>2, <2>2, <3>1 DEF Runs
  <2> QED BY <2>1, <2>2
<1>6. TypeOK'
  <2>1. \A w \in Walks : cursors'[w].at = "mid" => cursors'[w].page # 0
    BY <1>2, <1>3 DEF WalkInv, RunSound, TypeOK
  <2> QED BY <1>1, <1>3, <1>4, <2>1 DEF WalkInv, RunSound, TypeOK
<1>7. Start.at # "mid"
  BY DEF Start
<1>8. RunSound'
  BY <1>1, <1>2, <1>3, <1>4, <1>5, <1>6, <1>7 DEF WalkInv, RunSound, Articles
<1>9. \A w \in Walks : \A p \in steady[w] : Owed(w, p)' <=> Owed(w, p)
  <2> TAKE w \in Walks
  <2> TAKE p \in steady[w]
  <2>1. Owed(w, p)' <=> Ahead(w, cursors'[w], p)
    BY <1>1, <1>4 DEF Owed, Ahead, Below
  <2>2. CASE w = run.walk
    BY <1>1, <1>3, <2>1, <2>2 DEF Owed
  <2>3. CASE w # run.walk
    BY <1>1, <1>3, <2>1, <2>3 DEF Owed
  <2> QED BY <2>2, <2>3
<1>10. \A w \in Walks : \A p \in steady[w] : Owed(w, p)' <=> Ahead(w, cursors[w], p)'
  BY <1>4 DEF Owed
<1>11. WalkSkipsNothing'
  BY <1>1, <1>9, <1>10 DEF WalkInv, StillOwed, WalkSkipsNothing
<1>12. StillOwed' /\ WalkBudget'
  BY <1>1, <1>4, <1>9 DEF WalkInv, StillOwed, WalkBudget
<1> QED BY <1>8, <1>11, <1>12 DEF WalkInv

LEMMA FailRunKeeps ==
  ASSUME WalkInv, FailRun
  PROVE  WalkInv'
<1>1. /\ UNCHANGED <<length, cursors, steady, times, edits, restarts, ranking,
                     credentials, reachable>>
      /\ failures' = failures + 1 /\ failures' \in 0..MaxFailures /\ run' = NoRun
  BY BackfillConstants DEF FailRun, world, walk, WalkInv, RunSound, TypeOK
<1>2. RunSound'
  BY <1>1, NoRunIsARun DEF NoRunTyped, WalkInv, RunSound, TypeOK, Articles
<1>3. WalkSkipsNothing'
  BY <1>1 DEF WalkInv, WalkSkipsNothing, Ahead, Below
<1>4. \A w \in Walks : \A p \in steady[w] : Owed(w, p)' <=> Ahead(w, cursors[w], p)'
  BY <1>1, NoRunIsARun DEF NoRunTyped, Owed
<1>5. StillOwed'
  BY <1>1, <1>3, <1>4, NoRunIsARun DEF NoRunTyped, StillOwed, WalkSkipsNothing
<1>6. WalkBudget'
  <2> SUFFICES ASSUME NEW w \in Walks, NEW p \in steady[w]
               PROVE  times[w][p] + (IF Owed(w, p)' THEN 1 ELSE 0) <= 1 + failures'
    BY <1>1 DEF WalkBudget
  <2>1. times[w][p] + (IF Owed(w, p) THEN 1 ELSE 0) <= 1 + failures
    BY DEF WalkInv, WalkBudget
  <2>2. times[w][p] \in Nat /\ failures \in Nat
    BY Parts DEF WalkInv
  <2> QED BY <1>1, <2>1, <2>2
<1> QED BY <1>2, <1>3, <1>5, <1>6 DEF WalkInv

\* Both walks begin: nothing is enqueued yet, and everything is ahead.
LEMMA BeginningHolds ==
  ASSUME RunSound, run.at # "enqueue", cursors = [w \in Walks |-> Start],
         times = [w \in Walks |-> [p \in Pages |-> 0]]
  PROVE  WalkInv
<1>1. \A w \in Walks : \A p \in steady[w] : Ahead(w, cursors[w], p) /\ Owed(w, p) /\ times[w][p] = 0
  BY Parts DEF Start, Ahead, Owed
<1>2. failures \in Nat
  BY Parts
<1> QED BY <1>1, <1>2 DEF WalkInv, WalkSkipsNothing, StillOwed, WalkBudget

LEMMA StartIsAPosition == Start \in Positions /\ Start.at = "start"
BY BackfillConstants DEF Start, Positions

LEMMA RestartKeeps ==
  ASSUME WalkInv, Restart
  PROVE  WalkInv'
<1>1. /\ UNCHANGED <<length, edits, ranking, credentials, reachable, run, failures>>
      /\ run.at = "idle" /\ restarts' \in 0..MaxRestarts
      /\ cursors' = [w \in Walks |-> Start] /\ steady' = [w \in Walks |-> Articles]
      /\ times' = [w \in Walks |-> [p \in Pages |-> 0]]
  BY BackfillConstants DEF Restart, world, WalkInv, RunSound, TypeOK
<1>2. Articles' = Articles /\ Articles \in SUBSET Pages
  BY <1>1, ArticlesArePages DEF Articles
<1>3. RunSound'
  BY <1>1, <1>2, StartIsAPosition DEF WalkInv, RunSound, TypeOK
<1>4. \A w \in Walks : \A p \in steady'[w] : Ahead(w, cursors[w], p)' /\ Owed(w, p)' /\ times'[w][p] = 0
  BY <1>1, <1>2 DEF Start, Ahead, Owed
<1>5. failures' \in Nat
  BY <1>1, Parts DEF WalkInv
<1> QED BY <1>1, <1>3, <1>4, <1>5 DEF WalkInv, WalkSkipsNothing, StillOwed, WalkBudget

LEMMA ResizeKeeps ==
  ASSUME WalkInv, NEW p \in Pages, Resize(p)
  PROVE  WalkInv'
<1>1. PICK n \in 0..MaxLength :
        /\ length' = [length EXCEPT ![p] = n]
        /\ steady' = [steady EXCEPT !["length"] = @ \ {p},
                                    !["title"] = IF n = 0 THEN @ \ {p} ELSE @]
  BY DEF Resize
<1>2. /\ UNCHANGED <<ranking, credentials, reachable, cursors, times, run, failures, restarts>>
      /\ edits' \in 0..MaxEdits
  BY BackfillConstants DEF Resize, Edit, WalkInv, RunSound, TypeOK
<1>3. /\ Walks = {"length", "title"} /\ steady \in [Walks -> SUBSET Pages]
      /\ \A w \in Walks : steady[w] \subseteq Articles
      /\ length \in [Pages -> 0..MaxLength]
  BY DEF Walks, WalkInv, RunSound, TypeOK
<1>4. /\ steady' \in [Walks -> SUBSET Pages]
      /\ steady'["length"] = steady["length"] \ {p}
      /\ steady'["title"] = IF n = 0 THEN steady["title"] \ {p} ELSE steady["title"]
  BY <1>1, <1>3
<1>5. \A q \in Pages : q # p => length'[q] = length[q]
  BY <1>1, <1>3
<1>6. length' \in [Pages -> 0..MaxLength] /\ length'[p] = n
  BY <1>1, <1>3
<1>7. \A w \in Walks : steady'[w] \subseteq Articles'
  <2>1. \A q \in Pages : q # p => (q \in Articles' <=> q \in Articles)
    BY <1>5 DEF Articles
  <2>2. n # 0 => p \in Articles'
    BY <1>6 DEF Articles
  <2> QED BY <1>3, <1>4, <2>1, <2>2
<1>8. RunSound'
  BY <1>2, <1>4, <1>6, <1>7 DEF WalkInv, RunSound, TypeOK
<1>9. \A w \in Walks : steady'[w] \subseteq steady[w]
  BY <1>3, <1>4
<1>10. \A w \in Walks : \A q \in steady'[w] :
         /\ Ahead(w, cursors[w], q)' <=> Ahead(w, cursors[w], q)
         /\ Ahead(w, run.next, q)' <=> Ahead(w, run.next, q)
  <2> TAKE w \in Walks
  <2> TAKE q \in steady'[w]
  <2>1. CASE w = "title"
    BY <1>2, <2>1 DEF Ahead
  <2>2. CASE w = "length"
    <3>1. q # p /\ q \in Pages
      BY <1>3, <1>4, <2>2
    <3>2. length'[q] = length[q]
      BY <1>5, <3>1
    <3> QED BY <1>2, <3>2 DEF Ahead, Below
  <2> QED BY <1>3, <2>1, <2>2
<1>11. \A w \in Walks : \A q \in steady'[w] : Owed(w, q)' <=> Owed(w, q)
  BY <1>2, <1>10 DEF Owed
<1>12. WalkSkipsNothing'
  BY <1>2, <1>9, <1>10 DEF WalkInv, WalkSkipsNothing
<1>13. StillOwed'
  BY <1>2, <1>9, <1>10, <1>11 DEF WalkInv, StillOwed
<1>14. WalkBudget'
  BY <1>2, <1>9, <1>11 DEF WalkInv, WalkBudget
<1> QED BY <1>8, <1>12, <1>13, <1>14 DEF WalkInv

\* Nothing the walks depend on changes.
LEMMA WalksUntouched ==
  ASSUME WalkInv, UNCHANGED <<length, walk, run, failures, restarts>>,
         ranking' \in Nat, credentials' \in BOOLEAN, reachable' \in BOOLEAN, edits' \in 0..MaxEdits
  PROVE  WalkInv'
<1>1. RunSound'
  BY DEF walk, WalkInv, RunSound, TypeOK, Articles
<1>2. UNCHANGED <<cursors, steady, times>>
  BY DEF walk
<1>3. \A w \in Walks : \A p \in steady[w] :
        /\ Ahead(w, cursors[w], p)' <=> Ahead(w, cursors[w], p)
        /\ Ahead(w, run.next, p)' <=> Ahead(w, run.next, p)
        /\ Owed(w, p)' <=> Owed(w, p)
  BY <1>2 DEF Owed, Ahead, Below
<1>4. WalkSkipsNothing'
  BY <1>2, <1>3 DEF WalkInv, WalkSkipsNothing
<1>5. StillOwed'
  BY <1>2, <1>3 DEF WalkInv, StillOwed
<1>6. WalkBudget'
  BY <1>2, <1>3 DEF WalkInv, WalkBudget
<1> QED BY <1>1, <1>4, <1>5, <1>6 DEF WalkInv

LEMMA ShiftKeeps ==
  ASSUME WalkInv, Shift
  PROVE  WalkInv'
<1>1. ranking \in Nat /\ credentials \in BOOLEAN /\ reachable \in BOOLEAN /\ edits \in 0..MaxEdits
  BY DEF WalkInv, RunSound, TypeOK
<1>2. edits' \in 0..MaxEdits /\ UNCHANGED <<length, walk, run, failures, restarts>>
  BY <1>1, BackfillConstants DEF Shift, Edit, walk
<1>3. ranking' \in Nat /\ credentials' \in BOOLEAN /\ reachable' \in BOOLEAN
  <2>1. CASE ranking' = ranking + 1 /\ UNCHANGED <<credentials, reachable>>
    BY <1>1, <2>1
  <2>2. CASE reachable' = ~reachable /\ UNCHANGED <<ranking, credentials>>
    BY <1>1, <2>2
  <2>3. CASE credentials' = ~credentials /\ UNCHANGED <<ranking, reachable>>
    BY <1>1, <2>3
  <2> QED BY <2>1, <2>2, <2>3 DEF Shift
<1> QED BY <1>2, <1>3, WalksUntouched

-----------------------------------------------------------------------------
(* The theorems *)

LEMMA InitWalkInv == Init => WalkInv
<1> SUFFICES ASSUME Init PROVE WalkInv
  OBVIOUS
<1>1. NoRun \in Runs /\ NoRun.at = "idle" /\ NoRun.next.at = "start"
  BY NoRunIsARun DEF NoRunTyped
<1>2. TypeOK
  <2>1. cursors \in [Walks -> Positions] /\ \A w \in Walks : cursors[w].at = "start"
    BY StartIsAPosition DEF Init
  <2>2. steady \in [Walks -> SUBSET Pages] /\ times \in [Walks -> [Pages -> Nat]]
    BY ArticlesArePages DEF Init
  <2>3. edits \in 0..MaxEdits /\ failures \in 0..MaxFailures /\ restarts \in 0..MaxRestarts
    BY BackfillConstants DEF Init
  <2>4. length \in [Pages -> 0..MaxLength] /\ ranking \in Nat
        /\ credentials \in BOOLEAN /\ reachable \in BOOLEAN
    BY DEF Init
  <2> QED BY <1>1, <2>1, <2>2, <2>3, <2>4 DEF TypeOK, Init
<1>3. RunSound
  BY <1>1, <1>2 DEF Init, RunSound
<1> QED BY <1>1, <1>3, BeginningHolds DEF Init

LEMMA StepKeepsWalkInv == WalkInv /\ [Next]_vars => WalkInv'
<1> SUFFICES ASSUME WalkInv, [Next]_vars PROVE WalkInv'
  OBVIOUS
<1>1. CASE UNCHANGED vars
  <2>1. ranking' \in Nat /\ credentials' \in BOOLEAN /\ reachable' \in BOOLEAN
        /\ edits' \in 0..MaxEdits
    BY <1>1 DEF vars, world, WalkInv, RunSound, TypeOK
  <2> QED BY <1>1, <2>1, WalksUntouched DEF vars, world
<1>2. CASE Run
  BY <1>2, StartRunKeeps, DemandBatchKeeps, LeaveDemandKeeps, FetchByLengthKeeps,
     FetchByTitleKeeps, EnqueuePageKeeps, SaveCursorKeeps, LoseReplicaKeeps DEF Run
<1> QED BY <1>1, <1>2, ResizeKeeps, ShiftKeeps, RestartKeeps, FailRunKeeps DEF Next

\* Every variable of the backfill keeps its type, and a run that fetches starts
\* from the cursor it saved.
THEOREM WalkTypes == Spec => []TypeOK
<1>1. WalkInv => TypeOK
  BY DEF WalkInv, RunSound
<1> QED BY <1>1, InitWalkInv, StepKeepsWalkInv, PTL DEF Spec

\* backfill.py leaves out no article that stayed in its place: for any number of
\* articles, any sizes, ties and batches, and whatever happens to the runs.
THEOREM NothingIsSkipped == Spec => []WalkSkipsNothing
<1>1. WalkInv => WalkSkipsNothing
  BY DEF WalkInv
<1> QED BY <1>1, InitWalkInv, StepKeepsWalkInv, PTL DEF Spec

\* And enqueues it a second time only for a run that died.
THEOREM RepeatsArePaid == Spec => []RepeatedOnlyAfterFailure
<1>1. WalkInv => RepeatedOnlyAfterFailure
  <2> SUFFICES ASSUME WalkInv, NEW w \in Walks, NEW p \in steady[w]
               PROVE  times[w][p] <= 1 + failures
    BY DEF RepeatedOnlyAfterFailure
  <2>1. times[w][p] + (IF Owed(w, p) THEN 1 ELSE 0) <= 1 + failures
    BY DEF WalkInv, WalkBudget
  <2>2. times[w][p] \in Nat /\ failures \in Nat
    BY Parts DEF WalkInv
  <2> QED BY <2>1, <2>2
<1> QED BY <1>1, InitWalkInv, StepKeepsWalkInv, PTL DEF Spec

\* A queued batch moves its cursor on, for any sizes and ties and whatever the
\* articles do while it is queued: backfill_by_length and backfill_by_title never
\* spend a batch on what they saved as behind them, and never turn back.
THEOREM BatchesMoveOn == Spec => EveryBatchMovesOn
<1>1. ASSUME WalkInv, [Next]_vars, NEW w \in Walks
      PROVE  /\ cursors'[w] # cursors[w] =>
                  restarts' # restarts \/ Past(w, cursors[w], cursors'[w])
             /\ run.at = "enqueue" /\ run.walk = w /\ run'.at # "enqueue" =>
                  failures' # failures \/ Past(w, cursors[w], cursors'[w])
  <2>1. CASE SaveCursor
    <3>1. /\ cursors \in [Walks -> Positions] /\ run.walk \in Walks
          /\ Past(run.walk, cursors[run.walk], run.next)
      BY <1>1, <2>1, Parts DEF SaveCursor, WalkInv, RunSound, TypeOK
    <3>2. cursors' = [cursors EXCEPT ![run.walk] = run.next]
      BY <2>1 DEF SaveCursor
    <3>3. cursors'[run.walk] = run.next /\ (w # run.walk => cursors'[w] = cursors[w])
      BY <3>1, <3>2
    <3> QED BY <3>1, <3>3
  <2>2. CASE Restart
    <3>1. restarts \in Nat /\ restarts' = restarts + 1 /\ run.at = "idle"
      BY <1>1, <2>2, BackfillConstants DEF Restart, WalkInv, RunSound, TypeOK
    <3> QED BY <3>1
  <2>3. CASE FailRun
    <3>1. failures \in Nat /\ failures' = failures + 1 /\ cursors' = cursors
      BY <1>1, <2>3, Parts DEF FailRun, walk, WalkInv
    <3> QED BY <3>1
  <2>4. CASE EnqueuePage
    <3>1. PICK p \in run.pages : run' = [run EXCEPT !.pages = run.pages \ {p}]
      BY <2>4 DEF EnqueuePage
    <3>2. run \in Runs /\ cursors' = cursors
      BY <1>1, <2>4, Parts DEF EnqueuePage, WalkInv
    <3>3. run'.at = run.at
      BY <3>1, <3>2 DEF Runs
    <3> QED BY <3>2, <3>3
  <2>5. CASE UNCHANGED vars
    BY <2>5 DEF vars, walk
  <2>6. CASE StartRun \/ DemandBatch \/ LeaveDemand \/ FetchByLength \/ FetchByTitle \/ LoseReplica
    <3>1. cursors' = cursors /\ run.at # "enqueue"
      BY <2>6 DEF StartRun, DemandBatch, LeaveDemand, FetchByLength, FetchByTitle, LoseReplica, walk
    <3> QED BY <3>1
  <2>7. CASE Shift \/ \E p \in Pages : Resize(p)
    <3>1. cursors' = cursors /\ run' = run
      BY <2>7 DEF Shift, Resize, Edit
    <3> QED BY <3>1
  <2> QED BY <1>1, <2>1, <2>2, <2>3, <2>4, <2>5, <2>6, <2>7 DEF Next, Run
<1>2. WalkInv /\ [Next]_vars =>
        [\A w \in Walks :
           /\ cursors'[w] # cursors[w] =>
                restarts' # restarts \/ Past(w, cursors[w], cursors'[w])
           /\ run.at = "enqueue" /\ run.walk = w /\ run'.at # "enqueue" =>
                failures' # failures \/ Past(w, cursors[w], cursors'[w])]_vars
  BY <1>1
<1> QED BY <1>2, InitWalkInv, StepKeepsWalkInv, PTL DEF Spec, EveryBatchMovesOn
=============================================================================
