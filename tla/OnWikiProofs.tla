---------------------------- MODULE OnWikiProofs ----------------------------
(***************************************************************************)
(* What a wiki states about its answers stays stored while it states it,   *)
(* for any number of articles, edits and failed runs.                      *)
(***************************************************************************)
EXTENDS OnWiki, TLAPS

-----------------------------------------------------------------------------
(* Types *)

\* Whatever the page says, what is taken from it is a policy.
LEMMA NormalizedIsPolicy ==
  ASSUME NEW o \in Options
  PROVE  Normalized(o) \in Policies
<1>1. /\ o \in [names : Names \cup {"unusable"}, sanctioned : Masks \cup {"unusable"},
                anonymised : Labels \cup {"unusable"}]
  BY OnWikiConstants
<1> QED BY <1>1 DEF Normalized, Policies, Default, Names, Masks, Labels

LEMMA DefaultIsPolicy == Default \in Policies
BY DEF Default, Policies, Names, Masks, Labels

Configs == [state : {"ok", "broken", "missing"}, options : Options,
            listed : SUBSET Pages, category : BOOLEAN]
Runs == [at : {"idle", "titles", "category", "policy", "optout"}, policy : Policies,
         listed : SUBSET Pages, category : BOOLEAN, entries : SUBSET Pages]
Requests == [at : {"idle", "policy", "facts"}, page : Pages \cup {0},
             optedOut : BOOLEAN, policy : Policies]

LEMMA StatedIsPolicy ==
  ASSUME NEW c \in Configs
  PROVE  Stated(c) \in Policies
<1>1. c.options \in Options
  BY DEF Configs
<1> QED BY <1>1, NormalizedIsPolicy, DefaultIsPolicy DEF Stated

LEMMA CoverageIsEntries ==
  ASSUME NEW c \in Configs, NEW A \in SUBSET Pages, NEW M \in SUBSET Pages
  PROVE  Coverage(c, A, M) \in SUBSET Entries
<1>1. c.listed \in SUBSET Pages
  BY DEF Configs
<1> QED BY <1>1 DEF Coverage, Listing, Entries

LEMMA NoRunIsRun == NoRun \in Runs
BY DefaultIsPolicy DEF NoRun, Runs

\* The fields of a run are written one at a time.
LEMMA RunFields ==
  ASSUME NEW r \in Runs
  PROVE  /\ \A at \in {"idle", "titles", "category", "policy", "optout"} :
              [r EXCEPT !.at = at] \in Runs
         /\ \A E \in SUBSET Pages : [r EXCEPT !.entries = E] \in Runs
BY DEF Runs

LEMMA ParsedIsRun ==
  ASSUME NEW c \in Configs
  PROVE  /\ Parsed(c) \in Runs
         /\ Parsed(c).at \in {"idle", "titles"}
         /\ Parsed(c).at = "titles" =>
              /\ c.state # "broken"
              /\ Parsed(c).policy = Stated(c)
              /\ Parsed(c).listed = IF c.state = "ok" THEN c.listed ELSE {}
              /\ Parsed(c).category = (c.state = "ok" /\ c.category)
<1> DEFINE r == [at |-> "titles", policy |-> Stated(c),
                 listed |-> IF c.state = "ok" THEN c.listed ELSE {},
                 category |-> c.state = "ok" /\ c.category, entries |-> {}]
<1>1. c.state # "broken" => Parsed(c) = r
  BY DEF Parsed, NoRun
<1>2. c.state = "broken" => Parsed(c) = NoRun /\ NoRun.at = "idle"
  BY DEF Parsed, NoRun
<1>3. (c.state = "ok" /\ c.category) \in BOOLEAN /\ c.listed \in SUBSET Pages
  BY DEF Configs
<1>4. r \in Runs
  BY <1>3, StatedIsPolicy DEF Runs
<1> QED BY <1>1, <1>2, <1>4, NoRunIsRun

\* TypeOK by its parts.
Wiki == config \in Configs /\ articles \subseteq Pages /\ members \subseteq Pages
Stores == policy \in Policies /\ optout \subseteq Pages
History == /\ steady \subseteq Entries /\ assured \subseteq Entries
           /\ stable \in [run : BOOLEAN, saved : BOOLEAN]
Owed == [unnamed : BOOLEAN, unsanctioned : BOOLEAN]
Serving == facts \in [Accounts -> Facts] /\ reader \in Requests /\ owed \in Owed
Counters == edits \in 0..MaxEdits /\ failures \in 0..MaxFailures

LEMMA TypeParts == TypeOK <=> Wiki /\ Stores /\ run \in Runs /\ History /\ Serving /\ Counters
BY DEF TypeOK, Wiki, Stores, History, Serving, Counters, Configs, Runs, Requests, Owed

LEMMA Assembled ==
  ASSUME Wiki', Stores', (run \in Runs)', History', Serving', Counters'
  PROVE  TypeOK'
BY DEF TypeOK, Wiki, Stores, History, Serving, Counters, Configs, Runs, Requests, Owed

LEMMA TypeInit == Init => TypeOK
<1> SUFFICES ASSUME Init PROVE TypeOK
  OBVIOUS
<1>1. Wiki
  BY DEF Init, Wiki, Configs
<1>2. Stores /\ run \in Runs
  BY DefaultIsPolicy, NoRunIsRun DEF Init, Stores
<1>3. History
  BY DEF Init, History
<1>4. Serving
  BY DefaultIsPolicy DEF Init, Serving, Unseen, Facts, NoReader, Requests, NothingOwed, Owed
<1>5. Counters
  BY OnWikiConstants DEF Init, Counters
<1> QED BY <1>1, <1>2, <1>3, <1>4, <1>5, TypeParts

\* An edit of a page's parts leaves a page.
LEMMA ConfigFields ==
  ASSUME NEW c \in Configs
  PROVE  /\ \A s \in {"ok", "broken", "missing"} : [c EXCEPT !.state = s] \in Configs
         /\ \A o \in Options : [c EXCEPT !.options = o] \in Configs
         /\ \A P \in SUBSET Pages : [c EXCEPT !.listed = P] \in Configs
         /\ [c EXCEPT !.category = ~@] \in Configs
<1>1. [c EXCEPT !.category = ~@] \in Configs
  BY Zenon DEF Configs
<1> QED BY <1>1 DEF Configs

LEMMA EditsWiki ==
  ASSUME Wiki, EditPage \/ \E p \in Pages : EditArticle(p)
  PROVE  Wiki'
<1>1. CASE EditPage
  <2>1. config \in Configs /\ config.listed \in SUBSET Pages
    BY DEF Wiki, Configs
  <2>2. CASE \E s \in {"ok", "broken", "missing"} : config' = [config EXCEPT !.state = s]
    BY <1>1, <2>1, <2>2, ConfigFields DEF Wiki, EditPage
  <2>3. CASE \E o \in Options : config' = [config EXCEPT !.options = o]
    BY <1>1, <2>1, <2>3, ConfigFields DEF Wiki, EditPage
  <2>4. CASE \E p \in Pages : config' = [config EXCEPT !.listed =
                                 IF p \in @ THEN @ \ {p} ELSE @ \cup {p}]
    <3>1. \E P \in SUBSET Pages : config' = [config EXCEPT !.listed = P]
      BY <2>1, <2>4
    <3> QED BY <1>1, <2>1, <3>1, ConfigFields DEF Wiki, EditPage
  <2>5. CASE config' = [config EXCEPT !.category = ~@]
    BY <1>1, <2>1, <2>5, ConfigFields DEF Wiki, EditPage
  <2> QED BY <1>1, <2>2, <2>3, <2>4, <2>5 DEF EditPage
<1>2. CASE \E p \in Pages : EditArticle(p)
  BY <1>2 DEF Wiki, EditArticle
<1> QED BY <1>1, <1>2

LEMMA EditKeepsTypes ==
  ASSUME TypeOK, EditPage \/ \E p \in Pages : EditArticle(p)
  PROVE  TypeOK'
<1>1. Wiki /\ Stores /\ run \in Runs /\ History /\ Serving /\ Counters
  BY TypeParts
<1>2. Edited
  BY DEF EditPage, EditArticle
<1>3. Wiki'
  BY <1>1, EditsWiki
<1>4. Stores' /\ (run \in Runs)' /\ Serving'
  BY <1>1, <1>2 DEF Edited, Stores, Serving, stored, serving
<1>5. steady' \subseteq Entries /\ assured' \subseteq Entries
  BY <1>1, <1>2 DEF Edited, History
<1>6. stable' \in [run : BOOLEAN, saved : BOOLEAN]
  BY <1>2, Zenon DEF Edited
<1>7. Counters'
  BY <1>1, <1>2, OnWikiConstants DEF Edited, Counters
<1>8. History'
  BY <1>5, <1>6 DEF History
<1> QED BY <1>3, <1>4, <1>7, <1>8, Assembled

LEMMA SyncKeepsTypes ==
  ASSUME TypeOK, Sync \/ FailRun
  PROVE  TypeOK'
<1>1. Wiki /\ Stores /\ run \in Runs /\ History /\ Serving /\ Counters
  BY TypeParts
<1>2. Wiki' /\ Serving'
  BY <1>1 DEF Sync, ReadPage, ClassifyTitles, ReadCategory, SavePolicy, ReplaceOptOut,
              FailRun, wiki, serving, Wiki, Serving
<1>3. run.policy \in Policies /\ run.entries \in SUBSET Pages /\ run.listed \in SUBSET Pages
  BY <1>1 DEF Runs
<1>4. Stores'
  BY <1>1, <1>3 DEF Sync, ReadPage, ClassifyTitles, ReadCategory, SavePolicy, ReplaceOptOut,
                    Replaced, FailRun, stored, Stores
<1>5. (run \in Runs)'
  <2>1. CASE ReadPage
    BY <1>1, <2>1, ParsedIsRun DEF ReadPage, Wiki
  <2>2. CASE ClassifyTitles
    <3> DEFINE at == IF run.category THEN "category" ELSE "policy"
               E == run.listed \cap articles
    <3>1. at \in {"idle", "titles", "category", "policy", "optout"} /\ E \in SUBSET Pages
      BY <1>3
    <3>2. run' = [[run EXCEPT !.at = at] EXCEPT !.entries = E]
      BY <2>2 DEF ClassifyTitles
    <3> HIDE DEF at, E
    <3> QED BY <1>1, <3>1, <3>2, RunFields
  <2>3. CASE ReadCategory
    <3> DEFINE E == run.entries \cup Listing(members \cap articles)
    <3>1. E \in SUBSET Pages
      BY <1>1, <1>3 DEF Listing, Wiki
    <3>2. run' = [[run EXCEPT !.at = "policy"] EXCEPT !.entries = E]
      BY <2>3 DEF ReadCategory
    <3> HIDE DEF E
    <3> QED BY <1>1, <3>1, <3>2, RunFields
  <2>4. CASE SavePolicy
    BY <1>1, <2>4, RunFields DEF SavePolicy
  <2>5. CASE ReplaceOptOut \/ FailRun
    BY <2>5, NoRunIsRun DEF ReplaceOptOut, FailRun
  <2> QED BY <2>1, <2>2, <2>3, <2>4, <2>5 DEF Sync
<1>6. steady' \subseteq Entries /\ assured' \subseteq Entries
  BY <1>1, CoverageIsEntries
  DEF Sync, ReadPage, ClassifyTitles, ReadCategory, SavePolicy, ReplaceOptOut, FailRun,
      history, History, Wiki
<1>7. stable' \in [run : BOOLEAN, saved : BOOLEAN]
  <2>1. stable \in [run : BOOLEAN, saved : BOOLEAN]
    BY <1>1 DEF History
  <2>2. stable' \in {stable, [stable EXCEPT !.run = TRUE], [stable EXCEPT !.saved = stable.run]}
    BY DEF Sync, ReadPage, ClassifyTitles, ReadCategory, SavePolicy, ReplaceOptOut, FailRun,
           history
  <2>3. [stable EXCEPT !.run = TRUE] \in [run : BOOLEAN, saved : BOOLEAN]
    BY <2>1
  <2>4. [stable EXCEPT !.saved = stable.run] \in [run : BOOLEAN, saved : BOOLEAN]
    BY <2>1
  <2> QED BY <2>1, <2>2, <2>3, <2>4
<1>8. Counters'
  BY <1>1, OnWikiConstants
  DEF Sync, ReadPage, ClassifyTitles, ReadCategory, SavePolicy, ReplaceOptOut, FailRun, Counters
<1>9. History'
  BY <1>6, <1>7 DEF History
<1> QED BY <1>2, <1>4, <1>5, <1>8, <1>9, Assembled

LEMMA ReadKeepsTypes ==
  ASSUME TypeOK,
         \/ \E a \in Accounts : UpdateFacts(a)
         \/ \E p \in Pages : ReadOptOut(p)
         \/ ReadPolicy \/ Answer
  PROVE  TypeOK'
<1>1. Wiki /\ Stores /\ run \in Runs /\ History /\ Serving /\ Counters
  BY TypeParts
<1>2. Wiki' /\ Stores' /\ (run \in Runs)' /\ History' /\ Counters'
  BY <1>1 DEF UpdateFacts, ReadOptOut, ReadPolicy, Answer, wiki, stored, history,
              Wiki, Stores, History, Counters
<1>3. (facts \in [Accounts -> Facts])'
  BY <1>1 DEF UpdateFacts, ReadOptOut, ReadPolicy, Answer, Serving
<1>4. (reader \in Requests)'
  <2>1. CASE \E a \in Accounts : UpdateFacts(a)
    BY <1>1, <2>1 DEF UpdateFacts, Serving
  <2>2. CASE \E p \in Pages : ReadOptOut(p)
    <3>1. PICK p \in Pages : ReadOptOut(p)
      BY <2>2
    <3>2. (p \in optout) \in BOOLEAN
      OBVIOUS
    <3> QED BY <3>1, <3>2, DefaultIsPolicy DEF ReadOptOut, Requests
  <2>3. CASE ReadPolicy
    <3>1. [policy EXCEPT !.sanctioned = "link"] \in Policies
      BY <1>1 DEF Stores, Policies, Masks
    <3>2. Effective(policy) \in Policies
      BY <1>1, <3>1 DEF Effective, Stores
    <3> DEFINE row == Effective(policy)
    <3>3. [reader EXCEPT !.at = "facts"] \in Requests
      BY <1>1 DEF Serving, Requests
    <3>4. reader' = [[reader EXCEPT !.at = "facts"] EXCEPT !.policy = row]
      BY <2>3 DEF ReadPolicy
    <3> HIDE DEF row
    <3>5. row \in Policies
      BY <3>2 DEF row
    <3>6. \A r \in Requests : [r EXCEPT !.policy = row] \in Requests
      BY <3>5 DEF Requests
    <3> QED BY <3>3, <3>4, <3>6
  <2>4. CASE Answer
    BY <2>4, DefaultIsPolicy DEF Answer, NoReader, Requests
  <2> QED BY <2>1, <2>2, <2>3, <2>4
<1>5. (owed \in Owed)'
  <2>1. CASE \E a \in Accounts : UpdateFacts(a)
    BY <1>1, <2>1 DEF UpdateFacts, Serving
  <2>2. CASE (\E p \in Pages : ReadOptOut(p)) \/ Answer
    <3>1. CASE \E p \in Pages : ReadOptOut(p)
      <4>1. PICK p \in Pages : owed' = [unnamed |-> p \in Covered(assured), unsanctioned |-> FALSE]
        BY <3>1 DEF ReadOptOut
      <4> DEFINE unnamed == p \in Covered(assured)
      <4>2. unnamed \in BOOLEAN
        OBVIOUS
      <4>3. owed' = [unnamed |-> unnamed, unsanctioned |-> FALSE]
        BY <4>1
      <4> HIDE DEF unnamed
      <4> QED BY <4>2, <4>3 DEF Owed
    <3>2. CASE Answer
      BY <3>2 DEF Answer, NothingOwed, Owed
    <3> QED BY <2>2, <3>1, <3>2
  <2>3. CASE ReadPolicy
    <3> DEFINE unnamed == owed.unnamed \/ (stable.saved /\ Stated(config).names = "hide")
               unsanctioned == /\ stable.saved /\ HideSanctioned
                               /\ Stated(config).sanctioned = "hide"
    <3>1. owed' = [unnamed |-> unnamed, unsanctioned |-> unsanctioned]
      BY <2>3 DEF ReadPolicy
    <3>2. unnamed \in BOOLEAN /\ unsanctioned \in BOOLEAN
      OBVIOUS
    <3> HIDE DEF unnamed, unsanctioned
    <3> QED BY <3>1, <3>2 DEF Owed
  <2> QED BY <2>1, <2>2, <2>3
<1>6. Serving'
  BY <1>3, <1>4, <1>5 DEF Serving
<1> QED BY <1>2, <1>6, Assembled

LEMMA TypeNext == TypeOK /\ [Next]_vars => TypeOK'
<1>1. CASE Next
  BY <1>1, EditKeepsTypes, SyncKeepsTypes, ReadKeepsTypes DEF Next
<1>2. CASE UNCHANGED vars
  BY <1>2 DEF vars, wiki, stored, history, serving, TypeOK, Entries
<1> QED BY <1>1, <1>2

\* Policies, lists, runs and requests are well formed, however often the page, the
\* articles and the category change.
THEOREM OnWikiTypes == Spec => []TypeOK
<1>1. Init => TypeOK
  BY TypeInit
<1>2. TypeOK /\ [Next]_vars => TypeOK'
  BY TypeNext
<1> QED BY <1>1, <1>2, PTL DEF Spec

-----------------------------------------------------------------------------
(* Opt-out *)

\* What a run has still to find of the entries covered since it began.
InHand(pair) ==
  CASE run.at = "titles" -> IF pair[2] = "page" THEN pair[1] \in run.listed ELSE run.category
    [] run.at = "category" -> pair[2] = "page" => pair[1] \in run.entries
    [] run.at \in {"policy", "optout"} -> pair[1] \in run.entries
    [] OTHER -> TRUE

\* Nothing is covered in the history that is not covered now; a run in progress began
\* after everything that is assured, and will store all that was covered meanwhile.
CoverInv ==
  /\ TypeOK
  /\ steady \subseteq Coverage(config, articles, members)
  /\ assured \subseteq Coverage(config, articles, members)
  /\ run.at # "idle" => assured \subseteq steady
  /\ \A pair \in steady : InHand(pair)
  /\ CoveredStaysOptedOut

LEMMA CoverInit == Init => CoverInv
<1> SUFFICES ASSUME Init PROVE CoverInv
  OBVIOUS
<1>1. TypeOK
  BY TypeInit
<1> QED BY <1>1 DEF Init, CoverInv, CoveredStaysOptedOut, Covered

\* An edit takes from the history what it uncovers.
LEMMA EditCovers ==
  ASSUME CoverInv, TypeOK', EditPage \/ \E p \in Pages : EditArticle(p)
  PROVE  CoverInv'
<1>1. Edited
  BY DEF EditPage, EditArticle
<1>2. /\ steady' = steady \cap Coverage(config, articles, members)'
      /\ assured' = assured \cap Coverage(config, articles, members)'
      /\ run' = run /\ optout' = optout
  BY <1>1, Zenon DEF Edited, stored
<1>3. (\A pair \in steady : InHand(pair))'
  BY <1>2 DEF CoverInv, InHand
<1>4. CoveredStaysOptedOut'
  BY <1>2 DEF CoverInv, CoveredStaysOptedOut, Covered
<1> QED BY <1>2, <1>3, <1>4 DEF CoverInv

\* The entries of a run when it has read the page.
LEMMA BeginCovers ==
  ASSUME CoverInv, TypeOK', ReadPage
  PROVE  CoverInv'
<1>1. /\ steady' = Coverage(config, articles, members)
      /\ run' = Parsed(config)
      /\ UNCHANGED <<config, articles, members, optout, assured>>
  BY DEF ReadPage, wiki, stored
<1>2. config \in Configs
  BY TypeParts DEF CoverInv, Wiki
<1>3. (\A pair \in steady : InHand(pair))'
  <2>1. CASE Parsed(config).at = "idle"
    BY <1>1, <2>1 DEF InHand
  <2>2. CASE Parsed(config).at = "titles"
    <3>1. /\ config.state # "broken"
          /\ Parsed(config).listed = IF config.state = "ok" THEN config.listed ELSE {}
          /\ Parsed(config).category = (config.state = "ok" /\ config.category)
      BY <1>2, <2>2, ParsedIsRun
    <3>2. config.state \in {"ok", "missing"}
      BY <1>2, <3>1 DEF Configs
    <3>3. ASSUME NEW pair \in Coverage(config, articles, members)
          PROVE  IF pair[2] = "page" THEN pair[1] \in Parsed(config).listed
                 ELSE Parsed(config).category
      <4>1. config.state = "ok"
        BY <3>2, <3>3 DEF Coverage
      <4>2. pair \in (config.listed \cap articles) \X {"page"}
              \/ (config.category /\ pair \in Listing(members \cap articles) \X {"category"})
        BY <3>3 DEF Coverage
      <4> QED BY <3>1, <4>1, <4>2
    <3> QED BY <1>1, <2>2, <3>3 DEF InHand
  <2> QED BY <1>2, <2>1, <2>2, ParsedIsRun
<1>4. CoveredStaysOptedOut'
  BY <1>1 DEF CoverInv, CoveredStaysOptedOut, Covered
<1>5. Coverage(config, articles, members)' = Coverage(config, articles, members)
  BY <1>1
<1> QED BY <1>1, <1>3, <1>4, <1>5 DEF CoverInv

\* A pair that is covered is of an existing article, listed or in the category.
LEMMA CoveredPair ==
  ASSUME NEW pair \in Coverage(config, articles, members)
  PROVE  /\ pair[2] = "page" => pair[1] \in config.listed \cap articles
         /\ pair[2] # "page" => pair[1] \in Listing(members \cap articles)
BY DEF Coverage

\* Each request adds what is covered by its kind of entry.
LEMMA CollectCovers ==
  ASSUME CoverInv, TypeOK', ClassifyTitles \/ ReadCategory \/ SavePolicy
  PROVE  CoverInv'
<1>1. UNCHANGED <<config, articles, members, optout, assured, steady>>
  BY DEF ClassifyTitles, ReadCategory, SavePolicy, wiki, stored, history
<1>2. run \in Runs
  BY TypeParts DEF CoverInv
<1>3. ASSUME NEW pair \in steady PROVE InHand(pair)'
  <2>1. InHand(pair)
    BY <1>3 DEF CoverInv
  <2>2. /\ pair[2] = "page" => pair[1] \in articles
        /\ pair[2] # "page" => pair[1] \in Listing(members \cap articles)
    BY <1>3, CoveredPair DEF CoverInv
  <2>3. CASE ClassifyTitles
    <3>1. /\ run.at = "titles"
          /\ run'.at = IF run.category THEN "category" ELSE "policy"
          /\ run'.entries = run.listed \cap articles
      BY <1>2, <2>3 DEF ClassifyTitles, Runs
    <3>2. pair[2] = "page" => pair[1] \in run'.entries
      BY <2>1, <2>2, <3>1 DEF InHand
    <3>3. pair[2] # "page" => run.category
      BY <2>1, <3>1 DEF InHand
    <3>4. CASE run'.at = "category"
      BY <3>2, <3>4 DEF InHand
    <3>5. CASE run'.at = "policy"
      BY <3>1, <3>2, <3>3, <3>5 DEF InHand
    <3> QED BY <3>1, <3>4, <3>5
  <2>4. CASE ReadCategory
    <3>1. /\ run.at = "category" /\ run'.at = "policy"
          /\ run'.entries = run.entries \cup Listing(members \cap articles)
      BY <1>2, <2>4 DEF ReadCategory, Runs
    <3> QED BY <2>1, <2>2, <3>1 DEF InHand
  <2>5. CASE SavePolicy
    <3>1. run.at = "policy" /\ run'.at = "optout" /\ run'.entries = run.entries
      BY <1>2, <2>5 DEF SavePolicy, Runs
    <3> QED BY <2>1, <3>1 DEF InHand
  <2> QED BY <2>3, <2>4, <2>5
<1>4. run.at # "idle"
  BY DEF ClassifyTitles, ReadCategory, SavePolicy
<1>5. /\ Coverage(config, articles, members)' = Coverage(config, articles, members)
      /\ CoveredStaysOptedOut' = CoveredStaysOptedOut
  BY <1>1 DEF CoveredStaysOptedOut, Covered
<1> QED BY <1>1, <1>3, <1>4, <1>5 DEF CoverInv

\* The new list has what was covered throughout the run, and so what was assured.
LEMMA StoreCovers ==
  ASSUME CoverInv, TypeOK', ReplaceOptOut
  PROVE  CoverInv'
<1>1. /\ run.at = "optout" /\ run'.at = "idle"
      /\ optout' = run.entries /\ assured' = assured \cup steady
      /\ UNCHANGED <<config, articles, members, steady>>
  BY DEF ReplaceOptOut, Replaced, NoRun, wiki
<1>2. assured \subseteq steady
  BY <1>1 DEF CoverInv
<1>3. \A pair \in steady : pair[1] \in run.entries
  BY <1>1 DEF CoverInv, InHand
<1>4. CoveredStaysOptedOut'
  BY <1>1, <1>2, <1>3 DEF CoveredStaysOptedOut, Covered
<1>5. (\A pair \in steady : InHand(pair))'
  BY <1>1 DEF InHand
<1>6. Coverage(config, articles, members)' = Coverage(config, articles, members)
  BY <1>1
<1> QED BY <1>1, <1>2, <1>4, <1>5, <1>6 DEF CoverInv

\* Nothing else touches the list or the entries.
LEMMA OthersCover ==
  ASSUME CoverInv, TypeOK',
         UNCHANGED <<config, articles, members, optout, assured, steady>>,
         run' = run \/ run'.at = "idle"
  PROVE  CoverInv'
<1>1. (\A pair \in steady : InHand(pair))'
  <2>1. CASE run' = run
    BY <2>1 DEF CoverInv, InHand
  <2>2. CASE run'.at = "idle"
    BY <2>2 DEF InHand
  <2> QED BY <2>1, <2>2
<1>2. /\ Coverage(config, articles, members)' = Coverage(config, articles, members)
      /\ CoveredStaysOptedOut' = CoveredStaysOptedOut
  BY DEF CoveredStaysOptedOut, Covered
<1> QED BY <1>1, <1>2 DEF CoverInv

LEMMA CoverNext == CoverInv /\ [Next]_vars => CoverInv'
<1> SUFFICES ASSUME CoverInv, [Next]_vars PROVE CoverInv'
  OBVIOUS
<1>1. TypeOK'
  BY TypeNext DEF CoverInv
<1>2. CASE EditPage \/ \E p \in Pages : EditArticle(p)
  BY <1>1, <1>2, EditCovers
<1>3. CASE Sync
  BY <1>1, <1>3, BeginCovers, CollectCovers, StoreCovers DEF Sync
<1>4. CASE FailRun
  <2>1. UNCHANGED <<config, articles, members, optout, assured, steady>> /\ run'.at = "idle"
    BY <1>4 DEF FailRun, NoRun, wiki, stored, history
  <2> QED BY <1>1, <2>1, OthersCover
<1>5. CASE \/ \E a \in Accounts : UpdateFacts(a)
           \/ \E p \in Pages : ReadOptOut(p)
           \/ ReadPolicy \/ Answer
  <2>1. UNCHANGED <<config, articles, members, optout, assured, steady>> /\ run' = run
    BY <1>5 DEF UpdateFacts, ReadOptOut, ReadPolicy, Answer, wiki, stored, history
  <2> QED BY <1>1, <2>1, OthersCover
<1>6. CASE UNCHANGED vars
  <2>1. UNCHANGED <<config, articles, members, optout, assured, steady>> /\ run' = run
    BY <1>6 DEF vars, wiki, stored, history
  <2> QED BY <1>1, <2>1, OthersCover
<1> QED BY <1>2, <1>3, <1>4, <1>5, <1>6 DEF Next

\* An article keeps its opt-out for as long as an entry covers it, whatever runs
\* fail, die or follow.
THEOREM OptOutIsKept == Spec => []CoveredStaysOptedOut
<1>1. Init => CoverInv
  BY CoverInit
<1>2. CoverInv /\ [Next]_vars => CoverInv'
  BY CoverNext
<1>3. CoverInv => CoveredStaysOptedOut
  BY DEF CoverInv
<1> QED BY <1>1, <1>2, <1>3, PTL DEF Spec

-----------------------------------------------------------------------------
(* Policy *)

\* Until it is saved, the policy of a run is the one the page stated all the while.
PolicyInv ==
  /\ TypeOK
  /\ run.at \in {"titles", "category", "policy"} /\ stable.run => run.policy = Stated(config)
  /\ StatedIsStored

LEMMA PolicyInit == Init => PolicyInv
<1>1. Init => TypeOK
  BY TypeInit
<1>2. Init => run.at = "idle" /\ ~stable.saved
  BY DEF Init, NoRun
<1> QED BY <1>1, <1>2 DEF PolicyInv, StatedIsStored

LEMMA EditStates ==
  ASSUME PolicyInv, TypeOK', EditPage \/ \E p \in Pages : EditArticle(p)
  PROVE  PolicyInv'
<1>1. Edited
  BY DEF EditPage, EditArticle
<1> DEFINE same == Stated(config)' = Stated(config)
<1>2. run' = run /\ policy' = policy
  BY <1>1 DEF Edited, stored
<1>3. stable'.run => stable.run /\ same
  BY <1>1 DEF Edited
<1>4. stable'.saved => stable.saved /\ same
  BY <1>1 DEF Edited
<1> QED BY <1>2, <1>3, <1>4 DEF PolicyInv, StatedIsStored

LEMMA SyncStates ==
  ASSUME PolicyInv, TypeOK', Sync \/ FailRun
  PROVE  PolicyInv'
<1>1. run \in Runs /\ History /\ config \in Configs
  BY TypeParts DEF PolicyInv, Wiki
<1>2. config' = config /\ Stated(config)' = Stated(config)
  BY DEF Sync, ReadPage, ClassifyTitles, ReadCategory, SavePolicy, ReplaceOptOut, FailRun, wiki
<1>3. CASE ReadPage
  <2>1. run'.at = "titles" => run'.policy = Stated(config)
    BY <1>1, <1>3, ParsedIsRun DEF ReadPage
  <2>2. run'.at \in {"idle", "titles"}
    BY <1>1, <1>3, ParsedIsRun DEF ReadPage
  <2>3. stable'.saved = stable.saved
    BY <1>1, <1>3 DEF ReadPage, History
  <2>4. policy' = policy
    BY <1>3 DEF ReadPage, stored
  <2> QED BY <1>2, <2>1, <2>2, <2>3, <2>4 DEF PolicyInv, StatedIsStored
<1>4. CASE ClassifyTitles \/ ReadCategory
  <2>1. run'.policy = run.policy /\ run.at \in {"titles", "category"}
    BY <1>1, <1>4 DEF ClassifyTitles, ReadCategory, Runs
  <2>2. stable' = stable /\ policy' = policy
    BY <1>4 DEF ClassifyTitles, ReadCategory, stored, history
  <2> QED BY <1>2, <2>1, <2>2 DEF PolicyInv, StatedIsStored
<1>5. CASE SavePolicy
  <2>1. run.at = "policy" /\ policy' = run.policy /\ run'.at = "optout"
    BY <1>1, <1>5 DEF SavePolicy, Runs
  <2>2. stable'.saved = stable.run
    BY <1>1, <1>5 DEF SavePolicy, History
  <2> QED BY <1>2, <2>1, <2>2 DEF PolicyInv, StatedIsStored
<1>6. CASE ReplaceOptOut \/ FailRun
  <2>1. run'.at = "idle" /\ stable' = stable /\ policy' = policy
    BY <1>6 DEF ReplaceOptOut, FailRun, NoRun, stored, history
  <2> QED BY <1>2, <2>1 DEF PolicyInv, StatedIsStored
<1> QED BY <1>3, <1>4, <1>5, <1>6 DEF Sync

LEMMA OthersState ==
  ASSUME PolicyInv, TypeOK', UNCHANGED <<config, policy, run, stable>>
  PROVE  PolicyInv'
<1>1. Stated(config)' = Stated(config)
  OBVIOUS
<1> QED BY <1>1 DEF PolicyInv, StatedIsStored

LEMMA PolicyNext == PolicyInv /\ [Next]_vars => PolicyInv'
<1> SUFFICES ASSUME PolicyInv, [Next]_vars PROVE PolicyInv'
  OBVIOUS
<1>1. TypeOK'
  BY TypeNext DEF PolicyInv
<1>2. CASE EditPage \/ \E p \in Pages : EditArticle(p)
  BY <1>1, <1>2, EditStates
<1>3. CASE Sync \/ FailRun
  BY <1>1, <1>3, SyncStates
<1>4. CASE \/ \E a \in Accounts : UpdateFacts(a)
           \/ \E p \in Pages : ReadOptOut(p)
           \/ ReadPolicy \/ Answer
  <2>1. UNCHANGED <<config, policy, run, stable>>
    BY <1>4 DEF UpdateFacts, ReadOptOut, ReadPolicy, Answer, wiki, stored, history
  <2> QED BY <1>1, <2>1, OthersState
<1>5. CASE UNCHANGED vars
  <2>1. UNCHANGED <<config, policy, run, stable>>
    BY <1>5 DEF vars, wiki, stored, history
  <2> QED BY <1>1, <2>1, OthersState
<1> QED BY <1>2, <1>3, <1>4, <1>5 DEF Next

\* A policy that was stored stays the one in force until the page states another.
THEOREM PolicyIsKept == Spec => []StatedIsStored
<1>1. Init => PolicyInv
  BY PolicyInit
<1>2. PolicyInv /\ [Next]_vars => PolicyInv'
  BY PolicyNext
<1>3. PolicyInv => StatedIsStored
  BY DEF PolicyInv
<1> QED BY <1>1, <1>2, <1>3, PTL DEF Spec

-----------------------------------------------------------------------------
(* What an answer owes to the page *)

\* The policy an answer is given under states what is stored, as far as it goes.
LEMMA EffectiveStates ==
  ASSUME NEW row \in Policies
  PROVE  /\ Effective(row).names = row.names
         /\ HideSanctioned => Effective(row) = row
BY DEF Effective, Policies

\* What was owed when the request read the list and the policy is in what it read.
OwedInv ==
  /\ CoverInv /\ PolicyInv
  /\ owed.unnamed => \/ reader.optedOut
                     \/ reader.at = "facts" /\ reader.policy.names = "hide"
  /\ owed.unsanctioned => reader.at = "facts" /\ reader.policy.sanctioned = "hide"

LEMMA RequestOwes ==
  ASSUME OwedInv, CoverInv', PolicyInv',
         (\E p \in Pages : ReadOptOut(p)) \/ ReadPolicy \/ Answer
  PROVE  OwedInv'
<1>1. reader \in Requests /\ policy \in Policies
  BY TypeParts DEF OwedInv, CoverInv, Serving, Stores
<1>2. CASE \E p \in Pages : ReadOptOut(p)
  <2>1. PICK p \in Pages : ReadOptOut(p)
    BY <1>2
  <2>2. /\ reader'.optedOut = (p \in optout)
        /\ owed' = [unnamed |-> p \in Covered(assured), unsanctioned |-> FALSE]
    BY <2>1 DEF ReadOptOut
  <2>3. Covered(assured) \subseteq optout
    BY DEF OwedInv, CoverInv, CoveredStaysOptedOut
  <2> QED BY <2>2, <2>3 DEF OwedInv
<1>3. CASE ReadPolicy
  <2>1. reader.at = "policy" /\ reader' = [reader EXCEPT !.at = "facts", !.policy = Effective(policy)]
    BY <1>3 DEF ReadPolicy
  <2>2. /\ reader'.at = "facts" /\ reader'.optedOut = reader.optedOut
        /\ reader'.policy = Effective(policy)
    BY <1>1, <2>1 DEF Requests
  <2>3. stable.saved => policy = Stated(config)
    BY DEF OwedInv, PolicyInv, StatedIsStored
  <2>4. owed'.unnamed => owed.unnamed \/ (stable.saved /\ Stated(config).names = "hide")
    BY <1>3 DEF ReadPolicy
  <2>5. owed'.unsanctioned =>
          stable.saved /\ HideSanctioned /\ Stated(config).sanctioned = "hide"
    BY <1>3 DEF ReadPolicy
  <2>6. owed.unnamed => reader.optedOut
    BY <2>1 DEF OwedInv
  <2>7. /\ Effective(policy).names = policy.names
        /\ HideSanctioned => Effective(policy) = policy
    BY <1>1, EffectiveStates
  <2>8. owed'.unnamed => reader'.optedOut \/ (reader'.at = "facts" /\ reader'.policy.names = "hide")
    BY <2>2, <2>3, <2>4, <2>6, <2>7
  <2>9. owed'.unsanctioned => reader'.at = "facts" /\ reader'.policy.sanctioned = "hide"
    BY <2>2, <2>3, <2>5, <2>7
  <2> QED BY <2>8, <2>9 DEF OwedInv
<1>4. CASE Answer
  <2>1. ~owed'.unnamed /\ ~owed'.unsanctioned
    BY <1>4 DEF Answer, NothingOwed
  <2> QED BY <2>1 DEF OwedInv
<1> QED BY <1>2, <1>3, <1>4

LEMMA OwedNext == OwedInv /\ [Next]_vars => OwedInv'
<1> SUFFICES ASSUME OwedInv, [Next]_vars PROVE OwedInv'
  OBVIOUS
<1>1. CoverInv' /\ PolicyInv'
  BY CoverNext, PolicyNext DEF OwedInv
<1>2. CASE (\E p \in Pages : ReadOptOut(p)) \/ ReadPolicy \/ Answer
  BY <1>1, <1>2, RequestOwes
<1>3. CASE \/ EditPage \/ (\E p \in Pages : EditArticle(p))
           \/ Sync \/ FailRun \/ (\E a \in Accounts : UpdateFacts(a))
           \/ UNCHANGED vars
  <2>1. UNCHANGED <<reader, owed>>
    <3>1. CASE EditPage \/ \E p \in Pages : EditArticle(p)
      BY <3>1 DEF EditPage, EditArticle, Edited, serving
    <3>2. CASE Sync \/ FailRun
      BY <3>2 DEF Sync, ReadPage, ClassifyTitles, ReadCategory, SavePolicy, ReplaceOptOut,
                  FailRun, serving
    <3>3. CASE (\E a \in Accounts : UpdateFacts(a)) \/ UNCHANGED vars
      BY <3>3 DEF UpdateFacts, vars, serving
    <3> QED BY <1>3, <3>1, <3>2, <3>3
  <2> QED BY <1>1, <2>1 DEF OwedInv
<1> QED BY <1>2, <1>3 DEF Next

\* What was read decides the answer, whatever the standing sync has written since.
LEMMA OwedIsGiven == OwedInv => AnswersObeyThePage
<1> SUFFICES ASSUME OwedInv, reader.at = "facts"
             PROVE  /\ owed.unnamed => Presented = {}
                    /\ owed.unsanctioned => \A a \in Presented : ~facts[a].withheld
  BY DEF AnswersObeyThePage
<1>1. owed.unnamed => Presented = {}
  BY DEF OwedInv, Presented
<1>2. ASSUME owed.unsanctioned, NEW a \in Presented PROVE ~facts[a].withheld
  <2>1. reader.policy.sanctioned = "hide"
    BY <1>2 DEF OwedInv
  <2>2. Display(a, reader.policy) # "hide"
    BY DEF Presented
  <2>3. facts[a].withheld => Chosen(a, reader.policy) = "hide"
    BY <2>1 DEF Chosen
  <2> QED BY <2>2, <2>3 DEF Display
<1> QED BY <1>1, <1>2

\* Every answer obeys what the page had decided before a sync that ended: neither the
\* edits, syncs and failures since, nor what is written between the three reads of the
\* request, puts a name or the mark of a sanction into it.
THEOREM PageIsObeyed == Spec => []AnswersObeyThePage
<1>1. Init => OwedInv
  <2>1. Init => CoverInv
    BY CoverInit
  <2>2. Init => PolicyInv
    BY PolicyInit
  <2>3. Init => ~owed.unnamed /\ ~owed.unsanctioned
    BY DEF Init, NothingOwed
  <2> QED BY <2>1, <2>2, <2>3 DEF OwedInv
<1>2. OwedInv /\ [Next]_vars => OwedInv'
  BY OwedNext
<1> QED BY <1>1, <1>2, OwedIsGiven, PTL DEF Spec
=============================================================================
