# WikiPeople in TLA+

WikiPeople answers one question for a MediaWiki gadget: *who wrote most of the text
of this article?* The answer is expensive to compute, so a reader's request never
computes it. The request reads a stored answer or leaves a job in a durable queue;
workers take jobs from the queue, ask MediaWiki and WikiWho, and store answers;
scheduled jobs fill the queue ahead of demand and clean up behind it.

This directory holds TLA+ modules translated from that code, TLC configurations that
model-check them on small instances, and proofs checked by TLAPS. Paths below are
relative to the root of the repository; Python paths are under `src/wikipeople/`.

    tlc -config QueueRaces.cfg MCWorkQueue.tla    # one run
    tlapm WorkQueueProofs.tla                     # the proofs

## 1. The system

| Part | Code | State it keeps | Operations |
| --- | --- | --- | --- |
| Work queue | `repository.py`, `models.py` (`WorkItem`) | `work_queue`: one row per (wiki, page, revision, algorithm), state pending / leased / dead / superseded, priority, attempts, deadlines | `enqueue`, `enqueue_if_stale`, `enqueue_if_revision_changed`, `claim`, `complete`, `supersede`, `fail`, `revive`, `cleanup` |
| Stored results | `repository.py` (`AttributionResult`) | one row per (wiki, page, revision, algorithm), with the time it was computed | `save_result`, `get_result`, `get_latest_result`, `cleanup` |
| Worker | `worker.py`, run by two replicas (`jobs.yaml`) | the lease in its hand | `run_once`, `process`, `attribute` |
| Read endpoints | `app.py` (v1: exact revision, v2: by freshness) | none of their own | one read of the results, revive, enqueue, counters |
| Scheduled enqueuers | `prewarm.py`, `backfill.py`, `recompute.py` | backfill cursors in `app_state` | enqueue at priority 50, 10 and 5 |
| Attribution ladder | `attribution.py`, `policy.py` | none | who may be named, in which order |
| Serving policy | `policy.py`, `app.py`, `onwiki.py` | `wiki_display_policy`, `page_optout` | collected from wiki pages, applied to every answer |
| Standing sync | `standing.py`, `repository.py` | `contributor_standing` | blocks, locks and user pages of named accounts |
| Demand and usage | `pageviews.py`, `repository.py` | `page_demand`, `usage_counters`, `app_state` | count requests and daily views, choose what to backfill |
| Upstream clients | `clients.py`, `replica.py` | none | MediaWiki, WikiWho, view statistics, wiki replicas |
| Gadget | `wikipeople.js` | browser storage, one box on the page, one timer | load the configuration, fetch, retry, settle the placeholder |
| Schema, settings, wiring | `migrate.py`, `db.py`, `config.py`, `runtime.py`, `sites.py` | none that changes | |

Everything meets in the database. Endpoints, two worker replicas and half a dozen
scheduled jobs are separate processes that share its tables and nothing else; each
repository method is one transaction, or a few, and between the transactions of one
process every other process runs.

What makes this hard:

* **Interleaving.** A worker calls `claim`, then several HTTP services, then
  `supersede`, `enqueue`, `save_result`, `complete` or `fail`. Its lease is
  300 seconds; when it takes longer, another replica claims the row, and both go on.
  None of the writes checks that the lease is still held: they go by row id.
* **Stale reads.** The worker decides by a revision it read over HTTP; the article is
  edited, moved, redirected or deleted before it writes that decision down. The
  scheduled jobs enqueue revisions read even longer ago.
* **Partial failure and crashes.** Superseding an outdated job and enqueuing the
  current revision are two transactions; so are saving a result and completing the
  job.
* **Statement-level races.** Two calls of `enqueue` read, insert and update under
  InnoDB snapshots; the loser of the insert takes another path.
* **Retention.** `cleanup` selects rows by age, then deletes them by id, while others
  refresh them.
* **Caches.** A worker remembers who is a bot for as long as it lives; a browser tab
  remembers the configuration, the answer and a refusal; both act on what was so.
* **An event loop.** The gadget's timer, its request, its retries, the visibility of
  the tab and the reader's clicks come in any order.
* **Priorities.** A strict order lets a higher class overtake a lower one for ever;
  within the readers' class nobody should wait for ever.

What makes each part correct:

* Queue: the revision an article shows is never written off; a job does not disappear
  before its page has an answer; a reader's job comes to an end; a returned `enqueue`
  is not lost.
* Results: once a page has an answer it keeps having one, and what is served was
  computed for a revision the page showed when the worker looked.
* Worker: whatever it does late, after its lease, harms none of the above; while the
  lease runs no request, enqueue or cleanup takes the job from it.
* Endpoints: who is told "pending" has an answer, a job or a dead row to be told about,
  until the article is edited.
* Ladder: nobody is named who was a bot all along, and nobody who earned a place is
  passed over.
* Policy: an answer obeys what a wiki has stated once its page was read and stored, and
  what it no longer states is dropped.
* Standing: nobody is made out to be sanctioned, and every named account is looked at
  again.
* Demand: a view or request is counted once, and a page in line is served.
* Backfill: a walk skips no article and ends.
* Gadget: it never goes on loading, and what it leaves on the page is true.

`PROJECT.json` lists these parts with what is modelled of each, and under `hazards`
the places in the code where they could go wrong.

## 2. Modules

### WorkQueue

One wiki, one algorithm version; any set of pages, revisions `1..MaxRevision`, any set
of worker replicas. Its variables are the tables and the program counters:

| Variable | Code |
| --- | --- |
| `current`, `kind`, `deleted` | what MediaWiki answers to `get_page` (external) |
| `work` | `work_queue`; state `"none"` is no row |
| `older` | the order of `created_at`, which `claim` breaks ties by |
| `result` | `attribution_results`, by the age of `computed_at`; 0 is no row |
| `newer` | the order of `computed_at` among the results of a page |
| `selected` | the ids of results `cleanup` has selected and not yet deleted |
| `active` | the row of `active_wikis` |
| `pc`, `lease` | where each replica is in `Worker.process`, and its `WorkLease` |

Each repository method that runs one transaction is one action, with everything it
changes: `Enqueued` is the whole transaction of `enqueue` (insert or boost *and*
supersede the older pending rows). `cleanup` is the exception: its SELECT of obsolete
results reads a snapshot and its DELETE goes by the ids, so it is two, `SelectObsolete`
and `DeleteSelected`, with any steps of the replicas between them. A row that a late
worker has refreshed since goes all the same (`repository.py:1043`), and an older answer
is served again; `QueueRaces` reaches that. The rows of `work_queue` that go are deleted
in the same transaction and are one with the second step; a lease on them then names
nothing. A replica is a sequence of such steps:

    idle --Claim--> claimed --FetchPage--> gone       --FailPermanent-----> idle
                                           rejecting  --SupersedeRejected-> idle
                                           outdated   --SupersedeOutdated-> requeue
                                           attribute  --SaveResult--------> saved
    requeue --EnqueueCurrent--> idle     saved --Complete--> completed --RegisterActiveWiki--> idle

and from everywhere between, `FailTransient` (any other exception, from upstream or
from the database) and `Crash` lead back to idle.

There is no clock. Each deadline is a flag of its row that an action raises: `Elapse`
(`available_at` of a failed row, `lease_until` of a leased one, the day after which a
dead one may be retried), `Outlive` (the 30 days of the queue), `AgeResult` (30 days of
superseded results, then 90 days of freshness). Nothing bounds how late or how early
these happen relative to other steps, so a lease may run out under a worker that is
still busy. The minimum ages of 7 days (`requested_recompute`) and 14 days
(`recompute_min_age`) lie inside the first window and are left open.

Row ids: a `WorkLease` names its row by id and ids are not reused, so
`lease[w].holds` turns false when the row is deleted, and the writes of that worker
match nothing from then on, even if the same key is queued again.

Assumptions about the environment:

* A revision that is asked for, by a reader or a job, exists (it is at most
  `current`); it may be behind.
* Every edit, move and redirect makes a new revision, as it does in MediaWiki; a deleted page
  is restored completely or not at all.
* A result is newer than another when it was saved later. (The code stamps it when it
  builds the values; two replicas computing two revisions of one page in the same
  instant are ordered by the save.)
* `SELECT ... FOR UPDATE SKIP LOCKED` makes two claims take different rows: a claim is
  one step.

### ServedAnswer and WorkQueueRefinement

`ServedAnswer` is the promise to a reader of v2, with neither queue nor leases: a
computation starts for the revision the article shows at that moment; an answer
appears only because a computation finished, and it is served from then on. Stored
answers may be forgotten, the one served among them (`Forget`), but only if another one
computed for the article takes its place. `WorkQueueRefinement` maps the detailed state
onto it: what is served is the row `get_latest_result` returns, `stored` are all the rows
of results, and a computation runs while a worker is between
`get_page` and `save_result`. `KeepsPromise` says that every behaviour of `WorkQueue`
is one of `ServedAnswer`.

### EnqueueRace

`WorkQueue` takes `enqueue` as one step. `EnqueueRace` takes it apart: the look for a
stored result, the snapshot of the two SELECTs, the INSERT or UPDATE that acts on the
rows committed by then, and the second transaction after an `IntegrityError`. Several
calls for different revisions and priorities run against workers that claim rows and
then, each in a transaction of its own and by the id they were given, save, complete and
fail them, whatever has become of the row (`leases`). What a worker supersedes is in
`WorkQueue`. A row deleted between snapshot and flush ends the call with an
error (SQLAlchemy's `StaleDataError`), which the caller sees.

### ReadPath

`WorkQueue` takes a request that finds no usable answer as one step. `ReadPath` extends
it and takes the request apart, against the same workers, jobs, edits, deadlines and
cleanup (`Others`). It is a sequence of transactions, so what one read may be out of date
when the next acts on it.

| Variable | Code |
| --- | --- |
| `at`, `asked` | a request in `app.py`: its next call, what it asks for (v1 by revision, v2 by page), whether it has a stale answer at hand, whether the id `get_work` returned still names a row |
| `promised` | history: the revisions shown that a reader was told "pending" about |

    away --ReadResult--> work --ReadWork--> revive --Revive--> look --LookAgain--> enqueue --EnqueueAsked--> away
                              \--> look, or away with a 503          \--> away, an answer appeared

`BreakOff` is an exception at any of these. Two things the model shows and no property
forbids: a request that read a transient failure may revive a row that has failed for
good since (`app.py:410`), and the older revision of a superseded row is answered 202
without a job (`app.py:428`), which is why a promise lasts only while the article shows the
revision. Entity tags and the 304 are functions of the payload.

### Attribution

What one worker does between `get_page` and `save_result`, request by request: the
tokens of the revision, the users of the candidate pool, each candidate's global
groups, and on the other path the batches of the history. Accounts are flagged, hidden
and restored between any two.

| Variable | Code |
| --- | --- |
| `local`, `global`, `gone` | who is in a bot group of the wiki, in a global one, unknown to the wiki (external) |
| `known` | `_global_users`, the process's cache of global groups |
| `job` | the attribution in progress: path, tally, ranking, names so far |
| `passed`, `innocent`, `suspect` | history: who could have been named during the job, who had no global flag, who was excluded at some time of the process |

`Unnameable` stands for the names `policy.py` recognises by their form. Ties in
`Counter.most_common` are in the order of the text, which the model leaves open.

### Gadget

One browser tab. Everything the script does between two turns of the event loop is
one step; a page that is opened ends what the last one was doing.

| Variable | Code |
| --- | --- |
| `server`, `answer`, `page` | what the API says (200, 202, 404 or nothing), and the wiki's configuration page (external) |
| `saved`, `refused` | session storage (configuration, answer), local storage (this wiki is not served) |
| `visible` | the tab is on screen |
| `tab` | the script: where its main function stands, the box and what it shows, `contributionData` (`request`, `attempt`, `outcome`), the timer of the placeholder |

A write to storage may fail. A configuration request that fails is the default
configuration, and is kept for a day (`wikipeople.js:304`). A retry is due after 3000 ms or
later, the placeholder settles after 2500 ms: `RetryIsDue` waits for the timer, which is
the only use the model makes of those numbers. Skins the gadget does not recognise, and a
page that has a box already, are left out: nothing is drawn on them.

### MCWorkQueue and MCOnWiki, and the proofs

`MCWorkQueue` adds the symmetry of the replicas for TLC, `MCOnWiki` the policies a page
may state. The theorems of section 4 are in `WorkQueueProofs` (`WorkQueue`, its refinement
and `ReadPath`, which share their invariants), `EnqueueRaceProofs`, `DemandProofs`,
`BackfillWalkProofs`, `OnWikiProofs`, `StandingProofs`, `GadgetProofs` and
`AttributionProofs`.

### Demand

`page_demand` of one wiki and everybody who writes to it: readers' requests (the
UPDATE, the INSERT when it matched nothing, the UPDATE again after an
`IntegrityError`), the daily job over the newest dump, the hourly backfill by demand,
and `cleanup`.

| Variable | Code |
| --- | --- |
| `demand` | `page_demand`; `queued` is `queued_at` (null, recent, older than the freshness window), `touched` tells 180 days without a touch from less |
| `asked`, `at` | the calls of `record_page_request` and where each stands |
| `published`, `last` | the dumps, and the day `LAST_DAY_KEY` names |
| `collector` | the daily job in `collect` and `record_page_views` |
| `backfill` | the hourly job in `demand_batch` |
| `offered`, `counted`, `forgotten` | history, for the properties |

`record_page_views` reads a chunk of rows and writes them back in one transaction; its
SELECT reads a snapshot, so it is two steps, `SelectChunk` and `WriteChunk`, and a row
that came or went in between fails the run. A chunk is one page and a dump has one view
of every page: the code treats chunks one after another, and adds numbers. The lookback
of `find_dump` is taken to be longer than the days of the model.

### Standing

One wiki's hourly `sync_wiki` request by request: the stored rows, the blocks, the user
pages, then for each account whose turn it is the lock and, if there is one, its
reason, and at the end `replace_standing`. Administrators, stewards and editors change
what is true between any two of them; every request may fail where the code catches
it, and the run may die. The job is the only writer of the table and one run ends
before the next begins.

| Variable | Code |
| --- | --- |
| `truth`, `reply`, `named` | what the wiki and CentralAuth say of an account, whether the wiki finds it by its id, reports it as missing or leaves it out, whom stored results name |
| `rows` | `contributor_standing`; `checked` is the order of `lock_checked_at` |
| `recent` | rows whose check is younger than `STANDING_LOCK_RECHECK_SECONDS` |
| `run` | the run: the ids and rows it read, whose turn it is, the records so far |
| `ever` | history: who once was sanctioned, had no user page, or was missing |

`fetch_standing` (`clients.py:306-324`) does not look at `missing`, which
`resolve_users` (278) does for the same request. So an account the wiki reports as missing
gets a clean record with its number for a name; the user page and the lock are looked up
under that number, the block is forgotten and the page stored as not there. Only an
account that is not in the answer at all keeps its row, as the comment at `standing.py:87`
means it for both. Nobody's name is taken to be a number.

A reason is the comment of the last entry of the lock log, by what `is_sanction_lock`
makes of it: a sanction or something kinder. A block is one that withholds the name:
partial, short, expired and courtesy blocks are the same as none to `is_nameable_account`.

### OnWiki

One wiki's `onwiki.py` run request by request (the page, the titles, the category),
its two transactions `save_display_policy` and `replace_optout`, and an answer that is
put together from the opt-out, the policy and the standings in three more transactions.
Editors change the page, the category and the articles in between.

| Variable | Code |
| --- | --- |
| `config`, `articles`, `members` | the configuration page, the pages that exist, the category it may list |
| `policy`, `optout` | `wiki_display_policy`, `page_optout` |
| `run` | the sync in progress |
| `facts` | what `contributor_facts` returns |
| `reader` | the request in `_attribution_fields`, with what it has read |
| `steady`, `assured`, `stable` | history: what has been covered or stated without a break |
| `owed` | history: what the page had decided for good, at the request's reads, about the answer in hand |

A page that does not parse raises `ConfigPageError` and ends the run; one that is
missing is an empty page. `Options` are the raw values a page may state, among them
ones `normalize_display_policy` does not understand; `MCOnWiki` gives three. Names that
`is_anonymised_account` recognises are the set `Renamed`. An account is `pageless` when the
sync found no user page; one nobody has looked for is not.

### BackfillWalk

One wiki's hourly `backfill_wiki`: batches of the demand ranking, then the walk by
descending size on the replica, or the walk by title on the Action API where there are
no credentials. Articles are created, deleted and resized between any two steps.

| Variable | Code |
| --- | --- |
| `length` | `page_len` of the articles; 0 is no article |
| `ranking` | how many batches `pending_demand` still fills (`Demand` has its rows) |
| `credentials`, `reachable` | `replica.available()`, and whether the replica answers |
| `cursors` | the two keys of `app_state` |
| `run` | the run: its walk, the batches left, the batch in hand, the next cursor |
| `steady`, `times` | history: articles that stayed where they were, and how often each was enqueued |

Page ids are in the order of the titles; the code compares ids only in one walk and
titles only in the other, so no property depends on that.

## 3. Runs

| Run | Instance | Question | Distinct states |
| --- | --- | --- | --- |
| `QueueRaces.cfg` | 1 page, 2 revisions, 2 replicas, redirects, moves, deletions | Do readers, late workers and cleanup and the two statements of cleanup keep the current revision alive and an answer in place, on verdicts and ids that are out of date too? | 732 k |
| `QueueJobs.cfg` | 1 page, 2 revisions, 1 replica, 2 attempts, all four jobs, 1 crash | Do jobs end with an answer, whoever enqueued them, after a crash too? | 611 k |
| `QueueLiveness.cfg` | 2 pages, 1 replica, 2 attempts, backfill, 1 crash, 1 revival | Is a reader's job overtaken for ever? | 250 k |
| `EnqueueCalls.cfg` | 3 concurrent calls, 2 revisions, 2 priorities | Is a call of `enqueue` lost to a race? | 1.39 M |
| `ReadPath.cfg` | 1 page, 2 revisions, 1 request and 1 replica at a time, 2 revivals, redirects | Is the word given with a 202 kept; does a revival, an enqueue or a cleanup take a running lease? | 806 k |
| `Attribution.cfg` | 3 accounts, a pool of 2, 1 name, a cache of 1, 2 changes of accounts | Is a bot named, or somebody passed over, when flags change under the ladder and its cache? | 610 k |
| `Demand.cfg` | 2 pages, batches of 1, 2 requests of one page, which also comes and goes as an article, 1 day, 1 run that dies or is repeated | Is a count lost, a day added without reason, an article in line passed over? | 623 k |
| `Standing.cfg` | 3 accounts, 1 lock check a run, 2 changes, 1 failure | Is anybody made out to be sanctioned, or a link dropped, without cause; does the table come to say what the wiki says? | 1.16 M |
| `OnWiki.cfg` | 2 pages, a category of 1, 2 accounts, 3 edits, 1 failure | Does an opt-out or a policy disappear while it is stated, or stay when it is not; does an answer obey what the page has decided? | 1.06 M |
| `BackfillWalk.cfg` | 3 pages, 2 sizes, 2 batches of 1 (of 2 by title), 2 edits, 1 failure, 1 restart | Does a walk skip or repeat an article, turn back, or not end? | 590 k |
| `Gadget.cfg` | 2 pages opened, 2 retries, 3 changes of what the API and the wiki say | Does the box go on loading, say something untrue, or lose a retry? | 180 k |

Each run takes about two and a half minutes or less on two cores.

Properties of the passing runs:

* `TypeOK` (`ReadTypeOK`, `AttrTypeOK`, `GadgetTypeOK`): types, and what goes with them: a replica holds a lease
  exactly while it works, a snapshot lives exactly as long as its transaction, the turns
  of a run never exceed the cap, a walk is not fetched without a batch left.
* `SupersededNeverCurrent`: no superseded row is the revision its article shows. A
  superseded row is never claimed and never revived, so this would be a page nobody
  computes until cleanup removes the row a month later.
* `KeepsPromise`: refinement of `ServedAnswer`: an answer comes from a finished computation
  of a revision shown when it began, and one that is taken leaves a computed one to serve.
  It does not forbid that the answer steps back to an older one, which the code does.
* `LiveJobLeavesAnAnswer`: a live job is removed only when its page has an answer.
* `ReaderJobSettles` (liveness): a live job of priority 100 does not stay live for ever.
* `ReturnedCallIsQueued`: once `enqueue` returned, its revision or a later one is
  answered or has a row.
* `OnlyOlderSuperseded`: superseding hits only revisions below one that was asked for.
* `PendingIsKept`: a revision a reader was told "pending" about has an answer, a live job
  or a dead row for as long as the article shows it, whatever was read before the enqueue
  and whoever supersedes, completes, requeues and cleans up afterwards.
* `NeverUnanswered`: a page that has an answer keeps one, though cleanup deletes what it
  selected before a late worker refreshed it. Two replicas compute the older and the newer
  revision at once, which is what it takes.
* `LeaseIsRespected`: no revival of a row read earlier, no enqueue and no cleanup takes a
  job whose lease has not run out. It says nothing of workers: a late one that fails or
  completes by id does take the job of the one that holds it now (see below).
* `NamedWereHuman`: an account that is named was known to the wiki and in none of its bot
  groups at some time of the job, and in no global one at some time of the process.
* `NobodyPassedOver`: who beats every rival for the last place of the pool, is
  significant, and was never suspect, is named, unless as many others with as much are.
* `RestsTruthfully`: when the script is through, no box is left loading, "many people"
  stands only where every retry was told to wait, a failure leaves no trace, and an
  answer that came is the one on display.
* `LoadingEnds`, `ReadyIsShown` (liveness): the loading label ends, in a hidden tab too; a
  retry that waits for the tab is made when the reader comes back.
* `RequestsAreCounted`: every finished request is in the row of its page, or was when
  cleanup dropped it; neither the race of two requests to insert the row nor the daily
  job's insert and write takes one away.
* `ViewsAccumulate`: no views added are lost. It is not an equation: a row that is
  dropped and comes back between the daily job's SELECT and its write gets the old views
  back, and the model shows that.
* `DayCountedPerFailure`: a day is added once, and once more for each run that died or
  was told to count it again.
* `WaitingIsOffered` (liveness): an article in line is handed to the queue, unless it
  stops being one or its row is dropped. `InLine` leaves out one case the code accepts:
  a page that turns into an article again between the replica's answer and
  `mark_demand_queued` is marked without having been offered.
* `WithheldWasSanctioned`: whoever the stored row withholds was sanctioned at some time.
  It holds although a failed second request stores a new lock with an old reason.
* `MissingPageWasMissing`: a link is only taken away after the wiki had no user page, or
  reported the account as missing; never for a failed request or for want of a look.
* `TableConverges` (liveness): with the wiki at rest, and finding every account a
  result names, the table agrees with it from some point on; what was lost of an account
  while it was missing comes back.
* `CoveredStaysOptedOut`, `StatedIsStored`: what an entry has covered since before a run
  that ended stays on the list, and a policy that was stored is kept while it is stated,
  through failed requests and pages that do not parse.
* `TableFollowsPage` (liveness): the list and the policy become what the page states,
  withdrawals included, unless it stays broken.
* `AnswersObeyThePage`: an answer whose reads came after a sync that ended obeys what the
  page has said since before that sync: no names for an article an entry covers, none
  where names are hidden, and nobody withheld where sanctioned accounts are hidden. What
  is owed is taken at each read, because a page that changes its mind in between owes
  nothing. Policy and list are stored in two transactions and read in two: an article that
  is hidden first by the list and then by the policy, or the other way round, may be named
  at the change from one to the other, and the property does not cover that.
* `WalkSkipsNothing`: what a cursor has passed was enqueued, for each article that
  stayed where it was. An article that grows past the cursor is not in its promise.
* `RepeatedOnlyAfterFailure`: nor was it enqueued more often than runs died.
* `EveryBatchMovesOn`: a batch that is queued moves its cursor on, although the articles it
  was cut from have changed since, and nothing but `--restart` moves one back.
* `SizeWalkEnds` (liveness): the demand ranking does not keep the size walk from ending.

One run ends in a counterexample, a disagreement between the code and what a document
and a test say; `PROJECT.json` quotes the lines under `findings`:

* `EnqueuePriority.cfg`, `PriorityIsBoosted`: after an `IntegrityError` the priority is
  overwritten, not raised; a scheduled job that loses the race lowers a reader's 100.

Smaller differences met on the way, which a reading of the lines shows and no run is
spent on:

* `fail` does not check that the lease is still held (`repository.py:343`). Replica 1's
  lease runs out, replica 2 claims the row, finds the page missing and fails the row for
  good; then replica 1 fails with a time-out and writes state pending and
  `is_permanent` false over it. `docs/api.md:205-206` says such a row is not retried.
* An account the wiki reports as missing gets a clean record (`clients.py:306-324`): its
  block is forgotten and its user page, looked up as `User:<number>`, is stored as missing.
  The comment at `standing.py:87` says that what was known is kept "rather than inventing a
  clean slate". `MissingPageWasMissing` names this as its second cause.
* A worker killed between `supersede` and the `enqueue` of the current revision
  (`worker.py:98`) leaves the page without a job, where `docs/architecture.md:168-169` says
  "A lease makes a job recoverable after a worker crash".
* Accounts the wiki leaves out of its answer, or whose lock checks keep failing, keep the
  front of the lock rotation and use up the cap of every run (`standing.py:86`), where `docs/operations.md:143-145` has the
  checks rotate and every lock confirmed within a day.
* `runCountPlaceholder` waits its whole timer (`wikipeople.js:835`), where its comment
  (816-819) says it exits as soon as the answer is there.
* A row that is leased while a newer revision is enqueued is not superseded and pending
  again once it fails, so two revisions of a page can wait at once (`repository.py`,
  `enqueue` and `fail`; `docs/architecture.md` speaks of exactly one).
* Only the newest dump is read and recorded as the last day; a run that fell behind
  does not catch up one day per run, as the docstring of `find_dump` has it.
* Accounts without a row get what accounts with an outdated check leave of the cap; the
  comment in `standing.py` says they jump the queue.
* Only missing credentials lead to the walk by title; a replica that does not answer
  ends the run, where `docs/operations.md` speaks of an unreachable replica.

### Bounds

`MaxRevision = 2` has an older and a newer job, an answer of either, and an edit
between any two steps; the code compares revisions of one page only, and only with
`<` and `#`. One page suffices where pages do not interact: they meet only in the
order of `claim`, which the liveness run checks with two. Two replicas are what is
deployed; each may outlive its lease while the other takes over. `MaxAttempts = 2` has a
retry and an exhaustion; the code only compares the counter with the limit, so the model
stops counting there; `QueueRaces` makes do with one, where every failure is the last. A
crash is a lease that nobody returns to, so none is needed where leases run out under
live workers anyway. A revival needs a day per row in the code; the
liveness run has one, to show what it disturbs, and the theorems cover any number.

`Demand`: two pages and a batch of one, so that one of them waits; two readers' inserts
race with each other and with the daily job's, each may lose, and a day that is read again
meets what the first reading left. The two ask for the same page, where they collide, and
that page is also the one that stops and starts being an article (`AskedPages`,
`Movable`); every page with every freedom has ten times the states, and the theorems have
no such bounds. `Standing`: a cap of one below three accounts
makes the rotation matter; two changes are a sanction and something kinder, or its end,
on either side of a request. `OnWiki`: three edits let a page be stated, broken, and
repaired or withdrawn; a category limit of one below two members truncates; of the two
accounts one has a placeholder for a name. `BackfillWalk`: three pages of two sizes
always have a tie, batches of one end on it, and a last batch is full; two by title is
a short one. Edits and failures are bounded only to keep the state space finite: each
is possible at every step.

`ReadPath`: one request, one cleanup and one replica; two revivals put a row back twice.
Second requests come in as the whole steps of `WorkQueue`, which `Others` keeps. With two
replicas the state space is too large, so what takes two of them, the older revision saved
after the newer one, is not in this run but in `QueueRaces`; the theorems have any number
of requests and replicas.
`Attribution`: of three accounts one is unnameable, a pool of two below them cuts, a
cache of one is emptied by the second answer, and two changes flag an account and
clear it again, or hide another. `Gadget`: two pages are an article and its history, or
the same again with what the first left in storage; three changes let a job end, the answer
change and the wiki be switched off within one page.

### Fairness

`Worker.run_forever` polls and works until it is stopped, and the orchestration
restarts it: weak fairness of `Claim(w) \/ Process(w)` for each replica. Time passes:
weak fairness of `Elapse(k)`. A replica may fail at each step, so fairness does not
promise that a job succeeds, only that the steps go on. Readers, jobs and editors are
not assumed to do anything. Two bounds take part in `ReaderJobSettles`. Crashes: a job
that kills its worker every time is claimed for ever, because attempts are only limited
where a failure is recorded. Revivals: readers may put a dead job back at most once a
day, while a job needs hours to use up its attempts; without a clock only a bound on
their number keeps them from following each other at once.

The scheduled jobs of the other modules run every hour, or every quarter of an hour
(`jobs.yaml`): weak fairness of the steps of a run, from its start to its end. In
`Standing` time passes as well (`GoStale`), so a check that was recent is due again
some day. Failures of a run are bounded; that a wiki or replica
answers again is the premise of `TableConverges`, `TableFollowsPage` and `SizeWalkEnds`,
not part of the fairness. No fairness is assumed of readers, editors, dumps or cleanup.

In `Gadget` the script runs, a request ends, if by its abort after eight seconds, and
timers fire, late in a hidden tab. The reader, the wiki and the API owe nothing; that the
reader keeps coming back to the tab is the premise of `ReadyIsShown`.

## 4. Theorems

Every safety property a passing run checks is a theorem as well, so what the runs show on
their instances holds for every value of the constants, under the assumptions named here.

`WorkQueueProofs` proves for every set of pages and replicas, every number of
revisions, attempts, crashes and revivals, and every subset of jobs and wiki events:

* `TypeCorrect`: `Spec => []TypeOK`.
* `CurrentIsNeverSuperseded`: `Spec => []SupersededNeverCurrent`.

and, about the answers, under the same assumptions:

* `JobsLeaveAnswers`: `Spec => LiveJobLeavesAnAnswer`.
* `NoAnswerIsWithdrawn`: `Spec => NeverUnanswered`.
* `QueueKeepsPromise`: `Spec => KeepsPromise`, the refinement of `ServedAnswer`.

The assumptions are `ConstantsOK`: the bounds are natural numbers and `NoLease` is not
a lease.

`SupersededNeverCurrent` is not inductive: nothing in it stops a row above the current
revision from superseding it, or a worker from superseding on a verdict that was never
true. The invariant `IInv` adds what the code relies on without saying so:

* `QueueSound`: no row is of a revision beyond the current one, and a superseded row is
  older than the current one, or its article was a redirect or elsewhere at it.
* `ResultsExist`: neither is a result.
* `Snapshots`: neither is a lease; a worker about to reject or to supersede as
  outdated saw that at a revision at least its own, and the revision it will enqueue
  instead is one it saw.

The wiki only moves forward, so what a worker saw stays below what is true later; that
is the whole argument, and why stale verdicts are harmless here. There is one lemma
per action; the facts about `Enqueued`, the transaction most actions share, are proved
once.

The answers need more than `IInv`, about the order in which results were computed;
`AnswerInv` adds `AnswersSound`:

* `NewerOrders`, `NewerTransitive`: `newer` orders the results of each page, and only those.
* `NewestExists`: a page with results has a newest one.
* `SavedAnswered`: the page of a worker between `save_result` and `complete` has an
  answer. Cleanup may delete the very result that was saved, but never the last one.
* `SelectedSpared`: each page of a selected result has a result that was not selected.

The last is what the two steps of a cleanup share: at the SELECT the newest result of a
page is such a one, and no worker deletes results, so at the DELETE it is still there,
though a selected one may have become newer. From the finiteness of the revisions and the
transitive order a page that keeps a result has a newest one again, which is the answer.

A live job is removed by `Complete` alone, after `save_result`, because cleanup only
removes finished rows; so `SavedAnswered` is what `JobsLeaveAnswers` needs. The
refinement is shown action by action: `FetchPage` begins a computation, `SaveResult`
publishes its answer, a failure or a crash in between abandons it, `DeleteSelected`
forgets, and every other action leaves both the answers and the computations alone.

`EnqueueRaceProofs`, for any number of concurrent calls, revisions and priorities
(`EnqueueConstants`: revisions start at 1 and priorities are positive):

* `CallsAreQueued`: `Spec => []ReturnedCallIsQueued`.
* `SupersededAreOlder`: `Spec => []OnlyOlderSuperseded`.
* `RaceTypes`: `Spec => []TypeOK`.

`RaceInv` adds to the types and the two properties: every row has an id (`RowsAreNamed`); a
transaction about to write what it read as dead or superseded still finds the row, and
finds it so (`SnapshotsHold`); and a collision was with a row that is there, or answered
since (`CollisionsAreReal`).

About requests `WorkQueueProofs` proves, under `ConstantsOK` and `SomethingToAsk` (there is a page), for any
number of requests at once:

* `ReadTypes`: `ReadSpec => []ReadTypeOK`.
* `WordIsKept`: `ReadSpec => []PendingIsKept`.
* `LeasesAreRespected`: `ReadSpec => LeaseIsRespected`.

`ResultInv` is `AnswerInv`, which a request cut into steps keeps as well, with
`RequestTypes` and `AskedExist` (a request asks for a revision that exists, and an id about
to be revived names a row). A promise starts with an answer or with
`EnqueuedShown`: enqueuing the revision an article shows leaves a row for it, because no
newer row can exist. Such a row is not superseded while the revision is shown
(`QueueSound`), and deleted only by `Complete`, which leaves an answer, or when dead.

`DemandProofs`, for any set of pages, any finite set of calls, any batch size and number of days
(`DemandConstants`):

* `DemandTypes`: `Spec => []TypeOK`, with `RunSound` (the days published are the first ones,
  a run is of one that was not recorded).
* `RequestCounts`: `Spec => []RequestsAreCounted`. `CallsSeeRows` says that a call that
  found no row, or lost the race to insert it, is about a row that is not forgotten before
  the call ends; then the calls that returned are as many as the counts in the row and in
  those cleanup dropped, by counting in each step.
* `DaysCountOnce`: `Spec => []DayCountedPerFailure`, by a budget: the times a day was added
  to a page, and one more while a run still owes it, are at most one more than the
  repetitions (`DayBudget`).
* `ViewsAddUp`: `Spec => []ViewsAccumulate`. Between the SELECT of a chunk and its write the
  views of the row are known, but the row may be dropped, and dropped and asked for again.
  `ViewsInv` says that neither the row there is, nor the row the daily job has read, falls
  short of the views added so far once the forgotten ones are put to it: a row dropped since
  is among those, and nobody else adds views. An inequality is all there is to prove: a row
  that was dropped and comes back gets its old views again.

`BackfillWalkProofs`, for any finite set of pages, any sizes, batches and numbers of
edits, failures and restarts (`BackfillConstants`):

* `WalkTypes`, `NothingIsSkipped` (`[]WalkSkipsNothing`), `RepeatsArePaid`
  (`[]RepeatedOnlyAfterFailure`).
* `BatchesMoveOn`: `Spec => EveryBatchMovesOn`, what liveness rests on here and is within
  reach: among finitely many positions, every batch takes one away.

`WalkInv` says what a walk still owes: an article that stays where it is is in the batch
at hand or ahead of the cursor, never both, or was enqueued (`StillOwed`); and it was
enqueued, with what is owed, at most once more than runs died (`WalkBudget`). The step to the
next batch rests on the lemma that a batch and what is behind its last article divide
what was ahead (`Divides`), which holds because each walk's order is total on the
pages, ties of size included, and a batch takes with an article all before it; that a
batch shorter than the limit is all there is comes from counting ranks. For the same reason
the next cursor is past the one before (`DividingMovesOn`): a page of the batch was ahead of
the old one and is not ahead of the new one. `RunSound` keeps that true until the cursor is
saved, since both are positions and not pages, whatever sizes the pages have by then.

`OnWikiProofs`, for any finite sets of pages and accounts and any statements a page may
make (`OnWikiConstants`):

* `OnWikiTypes`, `OptOutIsKept` (`[]CoveredStaysOptedOut`), `PolicyIsKept`
  (`[]StatedIsStored`), `PageIsObeyed` (`[]AnswersObeyThePage`).

`CoverInv`: what is in the history as covered is covered now; a run in progress began
after everything that is assured, and what is covered since it began is in its hands
(`InHand`) at each of its steps. `PolicyInv`: until it is saved, the policy in a run's hands
is the one stated, if that did not change. `OwedInv` carries what those two give at the
moment of a read to the end of the request: what is owed to the page, the request has in
its hands, as the opt-out it read or the policy it read, and no write after the read takes
it away. The sanction facts are the last read, so whatever they are the answer is cut by
them.

`StandingProofs`, for any finite set of accounts and any cap (`StandingConstants`):

* `StandingTypes`, `WithheldWithCause` (`[]WithheldWasSanctioned`), `UnlinkedWithCause`
  (`[]MissingPageWasMissing`).

`StandingInv`: the history has what is the case (`TruthIsHistory`), and neither a row nor a
record in the hands of a run says of an account what was never true of it (`RowsAreSound`,
`RecordsAreSound`). The reason of a lock counts even where the lock is gone, because the
next lock may be stored with it when the request for its reason fails; without that the
invariant is not inductive. That a run checks no more accounts than the cap is a fact
about the ranks of the accounts that are due.

`GadgetProofs`, for any number of pages opened, of answers and of retries, if there is one
(`GadgetConstantsOK`):

* `GadgetTypes` (`[]GadgetTypeOK`), `WhatStaysIsTrue` (`[]RestsTruthfully`).

`GadgetInv` has four shapes of the script (`TabSound`): nothing was asked or drawn (`Fresh`);
a request is under way, and while the timer runs no retry is due (`Asking`); the answer came
first and the box waits for the timer (`Held`); the script is through (`Through`), and what
it left is true. With an empty list of retries the last shape is not kept: the first "not
yet" would end the request under the running timer, and the timer leave the box as it
stands. `PENDING_RETRY_DELAYS_MS` has two entries; that the code needs one is an assumption
the proof brought to light.

`AttributionProofs`, for any finite set of accounts and any counts, thresholds, sizes of the
pool and the cache (`AttributionConstantsOK`):

* `AttributionTypes` (`[]AttrTypeOK`), `NoBotIsNamed` (`[]NamedWereHuman`),
  `EntitledAreNamed` (`[]NobodyPassedOver`).

`AttrInv`: the cache says of an account only what was so at some time, and the history has
what is the case (`Witnessed`); the ranking in hand is in order, nobody in line wrote more
than somebody named, and who is entitled to a name has one or is in line (`Ranked`); what a
step of the job implies for its metric and names (`Stepwise`). That the pool does not cut
off an entitled account is a fact about the ranking, which ties leave open: the accounts
that wrote as much are no more than the pool holds, and all accounts before it are among
them (`StrongestArePooled`). Sums over accounts are natural numbers by an induction on
the subsets of a finite set.

The folds of the community modules are recursive functions that `CHOOSE` picks: that there
is one to pick has to be shown first (`FoldExists`), and what it adds up to by induction.
The induction theorems of the library take an operator, which the provers cannot
instantiate; `SubsetInduction` takes the property as the set of subsets that have it
instead. With both, the sums of `AttributionProofs` (`TotalIsNat`) and of `DemandProofs`
(`SumGrows`) are proved; both modules state the three lemmas on finite sets, since their
components have no module in common.

Only model-checked: the liveness properties (`ReaderJobSettles`, `WaitingIsOffered`,
`TableConverges`, `TableFollowsPage`, `SizeWalkEnds`, `LoadingEnds`, `ReadyIsShown`), which need
fairness and `ENABLED` and are out of the prover's reach, and `PriorityIsBoosted`, which
the code violates.

## 5. Not modelled

* `usage_counters`: `count_request` is the same increment, insert and increment as
  `record_page_request`, on a row nobody deletes; `RequestCounts` is its theorem. What
  `usage_since` adds up is for a report.
* How prewarm and recompute choose their pages: a list that comes from outside, and a query
  by age and method. What they enqueue is in `WorkQueue` with any choice.
* Caching headers, entity tags and the 304: functions of one answer.
* Patterns on names and reasons in `policy.py`: the models take what they decide as data.
* Paging, parsing and HTTP in the upstream clients, which are modelled by the outcomes of
  their requests.
* Wording, links and layout of the gadget, and content a wiki puts in its place.
* Schema, migration, settings, the list of sites and wiring: no behaviour that changes
  while the system runs.

## 6. Plan

1. A module for the two sweeps, if their choice is to be relied on: which pages prewarm
   asks for after days without a list, and whether recompute reaches every weak answer.
2. `ReadPath` with two requests in TLC, should the workers' part of it be made smaller;
   until then the theorems stand for it.
3. What is provable of the liveness properties: that each step they wait for brings its
   end closer, as action properties, the way `BatchesMoveOn` does for the walks: a job's
   attempts only grow until somebody revives it, the lock rotation starts with the oldest
   check. And
   that the counts of `Demand`, rows and forgotten ones together, never go down.
