------------------------------- MODULE OnWiki -------------------------------
(***************************************************************************)
(* What a wiki decides about the answers it is served.  The configuration  *)
(* page lists titles whose articles keep their contributors unnamed and    *)
(* states how sanctioned and renamed accounts appear; a job reads it, the  *)
(* articles and the category behind the titles one request after another   *)
(* and stores a policy and a list in two transactions.  An answer reads    *)
(* the list, the policy and the standing of its accounts in three more.    *)
(***************************************************************************)
EXTENDS Naturals, FiniteSets

CONSTANTS
  Pages,          \* page ids
  Accounts,       \* the contributors a stored result names
  Renamed,        \* those whose name is a placeholder
  Options,        \* raw options the page may state
  CategoryLimit,  \* OPTOUT_CATEGORY_LIMIT
  HideSanctioned, \* HIDE_SANCTIONED_CONTRIBUTORS
  MaxEdits,       \* BOUND: edits of the wiki
  MaxFailures     \* BOUND: requests that fail and runs that die

Masks == {"hide", "unlink", "link"}
Names == {"show", "hide"}
Labels == Masks \cup {"label"}
Policies == [names : Names, sanctioned : Masks, anonymised : Labels]
Default == [names |-> "show", sanctioned |-> "hide", anonymised |-> "label"]

ASSUME OnWikiConstants ==
  /\ Pages \subseteq Nat /\ IsFiniteSet(Pages)
  /\ IsFiniteSet(Accounts) /\ Renamed \subseteq Accounts
  /\ Options \subseteq [names : Names \cup {"unusable"},
                        sanctioned : Masks \cup {"unusable"},
                        anonymised : Labels \cup {"unusable"}]
  /\ Options # {}
  /\ CategoryLimit \in Nat \ {0}
  /\ HideSanctioned \in BOOLEAN
  /\ MaxEdits \in Nat /\ MaxFailures \in Nat

VARIABLES
  config,    \* the page: its state, and what its last readable version says
  articles,  \* pages that exist
  members,   \* articles in the category the page may list
  policy,    \* the row of wiki_display_policy, Default when there is none
  optout,    \* page_optout
  run,       \* the run in progress
  facts,     \* facts[a]: the standing of a, as the standing sync left it
  reader,    \* the request in progress
  steady,    \* history: covered without a break since the run in progress began
  assured,   \* history: covered without a break since before a run that ended
  stable,    \* history: the policy has not changed since the run in progress
             \* began, since before one that saved it
  owed,      \* history: what the stored decisions of the page promised the
             \* request when it read them
  edits, failures

wiki == <<config, articles, members>>
stored == <<policy, optout>>
history == <<steady, assured, stable>>
serving == <<facts, reader, owed>>
vars == <<wiki, stored, run, history, serving, edits, failures>>

\* Mutant: a value is taken as it stands.
NormalizedLoosely(o) == o

\* normalize_display_policy: a value that is not one of its key's is the default.
Normalized(o) == [key \in DOMAIN o |-> IF o[key] = "unusable" THEN Default[key] ELSE o[key]]

\* The members that fit under the limit, in the order of the category.
Listing(S) == {p \in S : Cardinality({q \in S : q < p}) < CategoryLimit}

Stated(c) == IF c.state = "missing" THEN Default ELSE Normalized(c.options)

\* The articles the page covers, each with the entry that does.
Coverage(c, existing, category) ==
  IF c.state = "missing" THEN {}
  ELSE ((c.listed \cap existing) \X {"page"})
         \cup (IF c.category THEN Listing(category \cap existing) \X {"category"} ELSE {})
Covered(pairs) == {pair[1] : pair \in pairs}

NoRun == [at |-> "idle", policy |-> Default, listed |-> {}, category |-> FALSE, entries |-> {}]
NoReader == [at |-> "idle", page |-> 0, optedOut |-> FALSE, policy |-> Default]
NothingOwed == [unnamed |-> FALSE, unsanctioned |-> FALSE]

\* contributor_facts.  A user page nobody has looked for is not missing.
Facts == [withheld : BOOLEAN, pageless : BOOLEAN]
Unseen == [withheld |-> FALSE, pageless |-> FALSE]

Init ==
  /\ config \in [state : {"missing"}, options : Options, listed : {{}}, category : {FALSE}]
  /\ articles = Pages
  /\ members = {}
  /\ policy = Default
  /\ optout = {}
  /\ run = NoRun
  /\ facts = [a \in Accounts |-> Unseen]
  /\ reader = NoReader
  /\ owed = NothingOwed
  /\ steady = {} /\ assured = {}
  /\ stable = [run |-> FALSE, saved |-> FALSE]
  /\ edits = 0
  /\ failures = 0

-----------------------------------------------------------------------------
(* The wiki *)

Edited ==
  LET covered == Coverage(config, articles, members)'
      same == Stated(config)' = Stated(config)
  IN /\ edits < MaxEdits
     /\ edits' = edits + 1
     /\ steady' = steady \cap covered
     /\ assured' = assured \cap covered
     /\ stable' = [run |-> stable.run /\ same, saved |-> stable.saved /\ same]
     /\ UNCHANGED <<stored, run, serving, failures>>

\* A broken page is repaired as it was, or goes.
EditPage ==
  /\ \/ \E s \in {"ok", "broken", "missing"} \ {config.state} :
          /\ s = "broken" => config.state = "ok"
          /\ config' = [config EXCEPT !.state = s]
     \/ /\ config.state = "ok"
        /\ \/ \E o \in Options \ {config.options} : config' = [config EXCEPT !.options = o]
           \/ \E p \in Pages : config' = [config EXCEPT !.listed =
                                   IF p \in @ THEN @ \ {p} ELSE @ \cup {p}]
           \/ config' = [config EXCEPT !.category = ~@]
  /\ UNCHANGED <<articles, members>>
  /\ Edited

\* An article is deleted or restored, put into the category or taken out of it.
EditArticle(p) ==
  /\ \/ /\ articles' = IF p \in articles THEN articles \ {p} ELSE articles \cup {p}
        /\ UNCHANGED members
     \/ /\ p \in articles
        /\ members' = IF p \in members THEN members \ {p} ELSE members \cup {p}
        /\ UNCHANGED articles
  /\ UNCHANGED config
  /\ Edited

-----------------------------------------------------------------------------
(* sync_wiki *)

\* Mutant: what cannot be parsed says nothing.
ParsedAnyhow(c) ==
  [NoRun EXCEPT !.at = "titles",
     !.policy = IF c.state = "ok" THEN Stated(c) ELSE Default,
     !.listed = IF c.state = "ok" THEN c.listed ELSE {},
     !.category = c.state = "ok" /\ c.category]

\* A page that is not there says nothing; one that does not parse ends the run.
Parsed(c) ==
  IF c.state = "broken" THEN NoRun
  ELSE [NoRun EXCEPT !.at = "titles",
          !.policy = Stated(c),
          !.listed = IF c.state = "ok" THEN c.listed ELSE {},
          !.category = c.state = "ok" /\ c.category]

ReadPage ==
  /\ run.at = "idle"
  /\ run' = Parsed(config)
  /\ steady' = Coverage(config, articles, members)
  /\ stable' = [stable EXCEPT !.run = TRUE]
  /\ UNCHANGED <<wiki, stored, assured, serving, edits, failures>>

\* classify_titles: a listed page that does not exist is skipped.
ClassifyTitles ==
  /\ run.at = "titles"
  /\ run' = [run EXCEPT !.at = IF run.category THEN "category" ELSE "policy",
                        !.entries = run.listed \cap articles]
  /\ UNCHANGED <<wiki, stored, history, serving, edits, failures>>

\* category_members
ReadCategory ==
  /\ run.at = "category"
  /\ run' = [run EXCEPT !.at = "policy",
                        !.entries = @ \cup Listing(members \cap articles)]
  /\ UNCHANGED <<wiki, stored, history, serving, edits, failures>>

\* save_display_policy
SavePolicy ==
  /\ run.at = "policy"
  /\ policy' = run.policy
  /\ run' = [run EXCEPT !.at = "optout"]
  /\ stable' = [stable EXCEPT !.saved = stable.run]
  /\ UNCHANGED <<wiki, optout, steady, assured, serving, edits, failures>>

\* Mutant: entries are added and none removed.
ReplacedByMerge(entries) == optout \cup entries

\* replace_optout
Replaced(entries) == entries

ReplaceOptOut ==
  /\ run.at = "optout"
  /\ optout' = Replaced(run.entries)
  /\ run' = NoRun
  /\ assured' = assured \cup steady
  /\ UNCHANGED <<wiki, policy, steady, stable, serving, edits, failures>>

\* Mutant: a category that cannot be read is a category without members.
GiveUpCategory ==
  /\ failures < MaxFailures
  /\ failures' = failures + 1
  /\ run.at # "idle"
  /\ run' = IF run.at = "category" THEN [run EXCEPT !.at = "policy"] ELSE NoRun
  /\ UNCHANGED <<wiki, stored, history, serving, edits>>

\* A request fails or the run dies: what it has not stored stays as it was.
FailRun ==
  /\ failures < MaxFailures
  /\ failures' = failures + 1
  /\ run.at # "idle"
  /\ run' = NoRun
  /\ UNCHANGED <<wiki, stored, history, serving, edits>>

Sync == ReadPage \/ ClassifyTitles \/ ReadCategory \/ SavePolicy \/ ReplaceOptOut

-----------------------------------------------------------------------------
(* _attribution_fields *)

\* replace_standing of the standing sync
UpdateFacts(a) ==
  /\ \E f \in Facts : facts' = [facts EXCEPT ![a] = f]
  /\ UNCHANGED <<wiki, stored, run, history, reader, owed, edits, failures>>

ReadOptOut(p) ==
  /\ reader.at = "idle"
  /\ reader' = [at |-> "policy", page |-> p, optedOut |-> p \in optout, policy |-> Default]
  /\ owed' = [unnamed |-> p \in Covered(assured), unsanctioned |-> FALSE]
  /\ UNCHANGED <<wiki, stored, run, history, facts, edits, failures>>

\* _effective_policy
Effective(row) == IF HideSanctioned THEN row ELSE [row EXCEPT !.sanctioned = "link"]

ReadPolicy ==
  /\ reader.at = "policy"
  /\ reader' = [reader EXCEPT !.at = "facts", !.policy = Effective(policy)]
  /\ owed' = [unnamed |-> owed.unnamed \/ (stable.saved /\ Stated(config).names = "hide"),
              unsanctioned |-> /\ stable.saved /\ HideSanctioned
                               /\ Stated(config).sanctioned = "hide"]
  /\ UNCHANGED <<wiki, stored, run, history, facts, edits, failures>>

\* Mutant: a renamed account is settled first.
ChosenRenamedFirst(a, chosenPolicy) ==
  IF a \in Renamed THEN chosenPolicy.anonymised
  ELSE IF facts[a].withheld THEN chosenPolicy.sanctioned
  ELSE "link"

\* The policy's answer; sanction is the stronger statement.
Chosen(a, chosenPolicy) ==
  IF facts[a].withheld THEN chosenPolicy.sanctioned
  ELSE IF a \in Renamed THEN chosenPolicy.anonymised
  ELSE "link"

\* contributor_display: the user page only decides about the link.
Display(a, chosenPolicy) ==
  IF Chosen(a, chosenPolicy) = "link" /\ facts[a].pageless THEN "unlink"
  ELSE Chosen(a, chosenPolicy)

\* _presented_contributors: the accounts the answer names, each with its display.
Presented ==
  IF reader.optedOut \/ reader.policy.names = "hide" THEN {}
  ELSE {a \in Accounts : Display(a, reader.policy) # "hide"}

Answer ==
  /\ reader.at = "facts"
  /\ reader' = NoReader
  /\ owed' = NothingOwed
  /\ UNCHANGED <<wiki, stored, run, history, facts, edits, failures>>

-----------------------------------------------------------------------------
Next ==
  \/ EditPage
  \/ \E p \in Pages : EditArticle(p) \/ ReadOptOut(p)
  \/ Sync \/ FailRun
  \/ \E a \in Accounts : UpdateFacts(a)
  \/ ReadPolicy \/ Answer

Spec == Init /\ [][Next]_vars

\* The job runs every quarter of an hour.
FairSpec == Spec /\ WF_vars(Sync)

-----------------------------------------------------------------------------
(* Properties *)

Entries == Pages \X {"page", "category"}

TypeOK ==
  /\ config \in [state : {"ok", "broken", "missing"}, options : Options,
                 listed : SUBSET Pages, category : BOOLEAN]
  /\ articles \subseteq Pages /\ members \subseteq Pages
  /\ policy \in Policies
  /\ optout \subseteq Pages
  /\ run \in [at : {"idle", "titles", "category", "policy", "optout"}, policy : Policies,
              listed : SUBSET Pages, category : BOOLEAN, entries : SUBSET Pages]
  /\ facts \in [Accounts -> Facts]
  /\ owed \in [unnamed : BOOLEAN, unsanctioned : BOOLEAN]
  /\ reader \in [at : {"idle", "policy", "facts"}, page : Pages \cup {0},
                 optedOut : BOOLEAN, policy : Policies]
  /\ steady \subseteq Entries /\ assured \subseteq Entries
  /\ stable \in [run : BOOLEAN, saved : BOOLEAN]
  /\ edits \in 0..MaxEdits /\ failures \in 0..MaxFailures

\* An article keeps its opt-out for as long as an entry covers it: neither a failed
\* request nor a page that does not parse nor a later run takes it off the list.
CoveredStaysOptedOut == Covered(assured) \subseteq optout

\* A policy that was stored is served until the page states another.
StatedIsStored == stable.saved => policy = Stated(config)

\* An answer obeys what the page had decided for good, through syncs, failed runs and
\* the three reads of the request: an article some entry has covered, or whose wiki has
\* stated to show no names, since before a sync that ended names nobody; and where the
\* page has so long left sanctioned accounts hidden, no contributor in the answer,
\* linked or not, labelled or not, is withheld by what the standing sync last wrote.
AnswersObeyThePage ==
  reader.at = "facts" =>
    /\ owed.unnamed => Presented = {}
    /\ owed.unsanctioned => \A a \in Presented : ~facts[a].withheld

\* What the page says reaches the table, and what it no longer says leaves it,
\* unless the page stays broken.
TableFollowsPage ==
  <>[](config.state # "broken") =>
    <>[](/\ policy = Stated(config)
         /\ optout = Covered(Coverage(config, articles, members)))
=============================================================================
