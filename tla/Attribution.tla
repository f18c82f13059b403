---------------------------- MODULE Attribution ----------------------------
(***************************************************************************)
(* What one worker does between get_page and save_result: name up to Limit *)
(* accounts by the text they wrote or, failing that, by the edits they     *)
(* made, and count the contributors.  Each request to WikiWho or MediaWiki *)
(* is a step; accounts are flagged, unflagged and removed in between.      *)
(*                                                                         *)
(* What the process knows of global groups outlives the job: it is cached  *)
(* until the process ends or the cache is full.                            *)
(***************************************************************************)
EXTENDS Integers, SequencesExt, FiniteSetsExt

CONSTANTS
  Accounts,      \* registered accounts that wrote or edited the article
  Unnameable,    \* those with a name ending in "bot", and temporary ones
  Limit,         \* how many accounts an answer names (3)
  PoolSize,      \* CANDIDATE_POOL_SIZE
  MinimumTokens, \* MINIMUM_TOKENS
  MinimumShare,  \* MINIMUM_SHARE, in percent
  MaxRevisions,  \* TOP_EDITOR_MAX_REVISIONS
  CacheSize,     \* GLOBAL_GROUP_CACHE_SIZE
  MaxCount,      \* BOUND: tokens of an account, revisions in a batch
  MaxChanges     \* BOUND: accounts flagged, unflagged, removed or restored

ASSUME AttributionConstantsOK ==
  /\ IsFiniteSet(Accounts) /\ Unnameable \subseteq Accounts
  /\ {Limit, PoolSize, MinimumTokens, MaxRevisions, CacheSize, MaxCount} \subseteq Nat \ {0}
  /\ MinimumShare \in 0..100
  /\ MaxChanges \in Nat

VARIABLES
  local,    \* accounts in a bot group of the wiki
  global,   \* accounts in a global bot group
  gone,     \* accounts the wiki reports as missing
  known,    \* known[a]: the groups of a in _global_users, by what they say
  job,      \* the attribution in progress
  changes,
  passed,   \* history: accounts the wiki would have let pass during the job
  innocent, \* history: accounts without a global flag at some time of the process
  suspect   \* history: accounts excluded for some reason at some time of it

accounts == <<local, global, gone, changes>>
process == <<known, job>>
attrHistory == <<passed, innocent, suspect>>
attrVars == <<accounts, process, attrHistory>>

-----------------------------------------------------------------------------
NoCounts == [a \in Accounts |-> 0]
NoJob == [step |-> "idle", metric |-> "tokens", counts |-> NoCounts, total |-> 0,
          revisions |-> 0, order |-> <<>>, named |-> <<>>,
          distinct |-> 0]

Steps == {"idle", "tokens", "resolve", "select", "history", "count", "saved"}

Total(counts) == FoldFunction(+, 0, counts)

\* Counter.most_common: ties stand in the order of the text, or of the history.
MostCommon(counts) ==
  {order \in SetToSeqs({a \in Accounts : counts[a] > 0}) :
     \A i, j \in DOMAIN order : i < j => counts[order[i]] >= counts[order[j]]}

Excluded == local \cup gone \cup Unnameable

AttrInit ==
  /\ local = {}
  /\ global = {}
  /\ gone = {}
  /\ known = [a \in Accounts |-> "unasked"]
  /\ job = NoJob
  /\ changes = 0
  /\ passed = {}
  /\ innocent = Accounts
  /\ suspect = Excluded

-----------------------------------------------------------------------------
(* The accounts (external) *)

\* A right is given or taken away, or an account is hidden or restored.
ChangeAccount(a) ==
  /\ changes < MaxChanges
  /\ changes' = changes + 1
  /\ \/ local' = SymDiff(local, {a}) /\ UNCHANGED <<global, gone>>
     \/ global' = SymDiff(global, {a}) /\ UNCHANGED <<local, gone>>
     \/ gone' = SymDiff(gone, {a}) /\ UNCHANGED <<local, global>>
  /\ passed' = passed \cup (Accounts \ Excluded')
  /\ innocent' = innocent \cup (Accounts \ global')
  /\ suspect' = suspect \cup Excluded' \cup global'
  /\ UNCHANGED process

-----------------------------------------------------------------------------
(* A job *)

\* run_once has a lease whose revision the article shows.
BeginJob ==
  /\ job.step \in {"idle", "saved"}
  /\ job' = [NoJob EXCEPT !.step = "tokens"]
  /\ passed' = Accounts \ Excluded
  /\ UNCHANGED <<accounts, known, innocent, suspect>>

\* fetch_revision and count_tokens.  Tokens of IP addresses only count in the total.
FetchTokens ==
  /\ job.step = "tokens"
  /\ \E counts \in [Accounts -> 0..MaxCount], others \in 0..MaxCount :
       \E order \in MostCommon(counts) :
         job' = [job EXCEPT !.step = "resolve", !.counts = counts,
                            !.total = Total(counts) + others, !.order = order]
  /\ UNCHANGED <<accounts, known, attrHistory>>

\* PermanentDataError: WikiWho declines the revision, or its text is too large.
Declined ==
  /\ job.step = "tokens"
  /\ job' = [job EXCEPT !.step = "history", !.metric = "edits"]
  /\ UNCHANGED <<accounts, known, attrHistory>>

\* The thresholds of the token path; the edit path has none.
Significant(a) ==
  job.metric = "tokens" =>
    /\ job.counts[a] >= MinimumTokens
    /\ job.counts[a] * 100 >= MinimumShare * job.total

\* Mutant: everybody the wiki knows by an id passes.
PassesIfPresent(a) == a \notin gone

\* The tests of should_highlight_contributor that the local wiki answers.
Passes(a) == a \notin Excluded

\* Mutant: no more candidates are looked up than may be named.
PoolOfNamed(order) == SubSeq(order, 1, Min({Len(order), Limit}))

\* candidate_user_ids, and the slice of most_common on the edit path.
Pool(order) == SubSeq(order, 1, Min({Len(order), PoolSize}))

\* Some members of a ranking, in the order they have in it.
InOrder(ranking, some) ==
  {kept \in SetToSeqs(some) :
     \A i, j \in DOMAIN kept : i < j =>
       \E m, n \in DOMAIN ranking :
         m < n /\ ranking[m] = kept[i] /\ ranking[n] = kept[j]}

\* resolve_users on the candidate pool.  What is left to decide is the global
\* groups of those who are in the pool, significant and not excluded yet.
ResolveUsers ==
  /\ job.step = "resolve"
  /\ LET pool == Pool(job.order)
         worthy == {a \in ToSet(pool) : Significant(a) /\ Passes(a)}
     IN \E kept \in InOrder(pool, worthy) :
          job' = [job EXCEPT !.step = "select", !.order = kept]
  /\ UNCHANGED <<accounts, known, attrHistory>>

\* Mutant: the cache is not emptied when it is full.
RememberedMore(a) == [known EXCEPT ![a] = IF a \in global THEN "bot" ELSE "human"]

\* The cache after an answer about a: it is emptied when it is full.
Remembered(a) ==
  LET full == Cardinality({b \in Accounts : known[b] # "unasked"}) >= CacheSize
  IN [b \in Accounts |-> IF b = a THEN IF a \in global THEN "bot" ELSE "human"
                         ELSE IF full THEN "unasked" ELSE known[b]]

\* There is room for another name, and somebody to consider.
Selecting == job.step = "select" /\ job.order # <<>> /\ Len(job.named) < Limit

\* The next account in line, by the groups the process knows or asks for.
Consider ==
  /\ Selecting
  /\ LET a == Head(job.order)
     IN /\ known' = IF known[a] = "unasked" THEN Remembered(a) ELSE known
        /\ job' = [job EXCEPT !.order = Tail(@),
                              !.named = IF known'[a] = "human" THEN Append(@, a) ELSE @]
  /\ UNCHANGED <<accounts, attrHistory>>

\* Nobody to name by the text: by the edits.
CloseRanking ==
  /\ job.step = "select" /\ ~Selecting
  /\ job' = IF job.metric = "tokens" /\ job.named = <<>>
            THEN [job EXCEPT !.step = "history", !.metric = "edits", !.counts = NoCounts,
                             !.order = <<>>]
            ELSE [job EXCEPT !.step = "count", !.order = <<>>]
  /\ UNCHANGED <<accounts, known, attrHistory>>

\* One batch of get_editor_history.  Revisions of IP addresses count in no tally.
\* A history that goes on past the limit ranks nobody.
ReadHistory ==
  /\ job.step = "history"
  /\ \E batch \in [Accounts -> 0..MaxCount], others \in 0..MaxCount, more \in BOOLEAN :
       LET counts == [a \in Accounts |-> job.counts[a] + batch[a]]
           revisions == job.revisions + Total(batch) + others
       IN /\ Total(batch) + others <= MaxCount
          /\ more => revisions > job.revisions
          /\ \/ /\ ~more
                /\ \E order \in MostCommon(counts) :
                     job' = [job EXCEPT !.step = "resolve", !.counts = counts,
                                        !.revisions = revisions, !.order = order]
             \/ /\ more /\ revisions < MaxRevisions
                /\ job' = [job EXCEPT !.counts = counts, !.revisions = revisions]
             \/ /\ more /\ revisions >= MaxRevisions
                /\ job' = [job EXCEPT !.step = "count", !.counts = NoCounts,
                                      !.revisions = revisions]
  /\ UNCHANGED <<accounts, known, attrHistory>>

\* The history of a page that is gone has no page: nobody is ranked either.
HistoryGone ==
  /\ job.step = "history"
  /\ job' = [job EXCEPT !.step = "count", !.counts = NoCounts]
  /\ UNCHANGED <<accounts, known, attrHistory>>

\* get_editor_count, get_bot_contributor_count and save_result.
CountAndSave ==
  /\ job.step = "count"
  /\ \E editors, bots \in 0..(Cardinality(Accounts) + 1) :
       job' = [job EXCEPT !.step = "saved", !.counts = NoCounts, !.total = 0,
                 !.revisions = 0, !.distinct = Max({Len(job.named), editors - bots})]
  /\ UNCHANGED <<accounts, known, attrHistory>>

\* RetryableUpstreamError from any request: the job will be tried again.
FailJob ==
  /\ job.step # "idle"
  /\ job' = NoJob
  /\ UNCHANGED <<accounts, known, attrHistory>>

\* The process ends, and its cache with it.
RestartWorker ==
  /\ job' = NoJob
  /\ known' = [a \in Accounts |-> "unasked"]
  /\ passed' = Accounts \ Excluded
  /\ innocent' = Accounts \ global
  /\ suspect' = Excluded \cup global
  /\ UNCHANGED accounts

Attribute ==
  \/ BeginJob \/ FetchTokens \/ Declined \/ ResolveUsers \/ Consider \/ CloseRanking
  \/ ReadHistory \/ HistoryGone \/ CountAndSave \/ FailJob

AttrNext ==
  \/ Attribute
  \/ RestartWorker
  \/ \E a \in Accounts : ChangeAccount(a)

AttrSpec == AttrInit /\ [][AttrNext]_attrVars

-----------------------------------------------------------------------------
(* Properties *)

\* Every variable has its type, the cache keeps to its size, and what is saved is
\* an answer: it counts no fewer people than it names, and names somebody if it
\* says that the text was ranked.
AttrTypeOK ==
  /\ {local, global, gone, passed, innocent, suspect} \subseteq SUBSET Accounts
  /\ known \in [Accounts -> {"unasked", "bot", "human"}]
  /\ Cardinality({a \in Accounts : known[a] # "unasked"}) <= CacheSize
  /\ job.step \in Steps /\ job.metric \in {"tokens", "edits"}
  /\ job.counts \in [Accounts -> Nat]
  /\ {job.total, job.revisions, job.distinct} \subseteq Nat
  /\ ToSet(job.order) \cup ToSet(job.named) \subseteq Accounts
  /\ Len(job.named) <= Limit
  /\ job.step = "saved" =>
       /\ job.distinct >= Len(job.named)
       /\ job.metric = "tokens" => job.named # <<>>
  /\ changes \in 0..MaxChanges

\* Nobody is named who was a bot all along.  An account in an answer could be
\* named, was known to the wiki and in none of its bot groups at some time of the
\* job, and in no global one at some time of the process: the cache may be out of
\* date, it never says of one account what was said of another, and a flag that
\* was there at every moment is never overlooked, on either path.
NamedWereHuman ==
  \A a \in ToSet(job.named) : a \in passed /\ a \in innocent

\* Those who beat every rival for the last place in the pool, and whom nothing ever
\* spoke against while the process ran.
Entitled ==
  {a \in Accounts \ suspect :
     /\ job.counts[a] > 0
     /\ Significant(a)
     /\ Cardinality({b \in Accounts : job.counts[b] >= job.counts[a]}) <= PoolSize}

\* Nobody is passed over.  When a ranking ends, every account that is entitled to
\* be named is, unless all places went to accounts that wrote, or edited, as much.
\* In particular the text is only given up for the edits when it has no such author.
NobodyPassedOver ==
  job.step = "select" /\ ~Selecting =>
    \A a \in Entitled \ ToSet(job.named) :
      /\ Len(job.named) = Limit
      /\ \A b \in ToSet(job.named) : job.counts[b] >= job.counts[a]
=============================================================================
