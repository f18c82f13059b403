------------------------------ MODULE Standing ------------------------------
(***************************************************************************)
(* The hourly standing sync of one wiki.  It reads what the wiki and       *)
(* CentralAuth say of the accounts the stored results name, one request    *)
(* after another, and replaces contributor_standing with it in one         *)
(* transaction.  Locks cost a request each and are read in rotation.       *)
(*                                                                         *)
(* The job is the only writer of the table, so what it read at the start   *)
(* is what the table still holds at the end.                               *)
(*                                                                         *)
(* An id the wiki reports as missing gets the id as its name, and pages    *)
(* and locks are looked up under it: nobody's name is taken to be a number.*)
(***************************************************************************)
EXTENDS Naturals, FiniteSets, FiniteSetsExt

CONSTANTS
  Accounts,          \* user ids
  LockChecksPerRun,  \* STANDING_LOCK_CHECKS_PER_RUN
  MaxChanges,        \* BOUND: what administrators, stewards and editors do
  MaxFailures        \* BOUND: requests that fail and runs that die

ASSUME StandingConstants ==
  /\ Accounts \subseteq Nat /\ IsFiniteSet(Accounts)
  /\ LockChecksPerRun \in Nat \ {0}
  /\ MaxChanges \in Nat /\ MaxFailures \in Nat

VARIABLES
  named,     \* accounts the stored results name
  reply,     \* reply[a]: what the wiki answers when asked for the id
  truth,     \* truth[a]: what was decided about a
  rows,      \* contributor_standing
  recent,    \* rows whose lock was read within STANDING_LOCK_RECHECK_SECONDS
  run,       \* the run in progress
  ever,      \* history: accounts that once were sanctioned, had no user page, were missing
  changes, failures

world == <<named, reply, truth, ever, changes>>
table == <<rows, recent>>
vars == <<world, table, run, failures>>

\* wording: the comment of the last entry in the log of global locks, by what
\* is_sanction_lock makes of it.  An unlock keeps the wording of the lock.
Clean == [blocked |-> FALSE, locked |-> FALSE, wording |-> "none", page |-> TRUE]
Sanctioned(a) == truth[a].blocked \/ (truth[a].locked /\ truth[a].wording = "sanction")

\* checked orders the rows by lock_checked_at, 0 being null.
Unknown == [tracked |-> FALSE, blocked |-> FALSE, locked |-> FALSE, reason |-> "none",
            page |-> "unknown", checked |-> 0]
Now == Cardinality(Accounts) + 1

\* Mutant: a lock is a lock.
WithheldWhenLocked(row) == row.blocked \/ row.locked

\* is_nameable_account.  A block that is partial, short, over or a courtesy is none.
Withheld(row) == row.blocked \/ (row.locked /\ row.reason = "sanction")

NoRun == [at |-> "idle", ids |-> {}, due |-> {}, answered |-> {}, found |-> {},
          todo |-> {}, records |-> [a \in Accounts |-> Unknown]]

Init ==
  /\ named \in SUBSET Accounts
  /\ reply = [a \in Accounts |-> "found"]
  /\ truth = [a \in Accounts |-> Clean]
  /\ rows = [a \in Accounts |-> Unknown]
  /\ recent = {}
  /\ run = NoRun
  /\ ever = [sanctioned |-> {}, pageless |-> {}, lost |-> {}]
  /\ changes = 0
  /\ failures = 0

-----------------------------------------------------------------------------
(* The world *)

Change ==
  /\ changes < MaxChanges
  /\ changes' = changes + 1
  /\ ever' = [sanctioned |-> ever.sanctioned \cup {a \in Accounts : Sanctioned(a)'},
              pageless |-> ever.pageless \cup {a \in Accounts : ~truth'[a].page},
              lost |-> ever.lost \cup {a \in Accounts : reply'[a] = "missing"}]
  /\ UNCHANGED <<table, run, failures>>

Decide(a) ==
  /\ \/ truth' = [truth EXCEPT ![a].blocked = ~@]
     \/ \E w \in {"memorial", "sanction"} :
          truth' = [truth EXCEPT ![a].locked = TRUE, ![a].wording = w]
     \/ truth[a].locked /\ truth' = [truth EXCEPT ![a].locked = FALSE]
     \/ truth' = [truth EXCEPT ![a].page = ~@]
  /\ UNCHANGED <<named, reply>>
  /\ Change

\* "found" with what the wiki knows of it, "missing" by its id alone, or not at all.
Replies == {"found", "missing", "absent"}

\* A result is saved or dropped; an account is hidden, deleted or back.
Toggle(S, a) == IF a \in S THEN S \ {a} ELSE S \cup {a}

Appear(a) ==
  /\ \/ named' = Toggle(named, a) /\ UNCHANGED reply
     \/ \E r \in Replies \ {reply[a]} : reply' = [reply EXCEPT ![a] = r] /\ UNCHANGED named
  /\ UNCHANGED truth
  /\ Change

\* Time passes for the oldest of the lock checks.
GoStale ==
  /\ recent # {}
  /\ recent' = {a \in recent : \E b \in recent : rows[b].checked < rows[a].checked}
  /\ UNCHANGED <<world, rows, run, failures>>

-----------------------------------------------------------------------------
(* A run *)

\* Mutant: the candidates in the order of their ids.
RotationByAccount(D, candidates) ==
  \A d \in D, c \in candidates \ D : d < c

\* lock_check_candidates: never checked first, then the oldest check.
Rotation(D, candidates) ==
  \A d \in D, c \in candidates \ D : rows[d].checked <= rows[c].checked

\* Mutant: new accounts have a cap of their own.
CapOfItsOwn(D) == LockChecksPerRun

\* What the candidates leave of the cap to accounts without a row.
Left(D) == LockChecksPerRun - Cardinality(D)

\* The candidates within the cap, then accounts without a row, by id.
Due(ids) ==
  LET candidates == {a \in Accounts : rows[a].tracked /\ a \notin recent}
      unseen == {a \in ids : ~rows[a].tracked}
      First(n) == {a \in unseen : Cardinality({b \in unseen : b < a}) < n}
  IN {D \cup First(Left(D)) :
        D \in {D \in SUBSET candidates :
                 /\ Cardinality(D) <= LockChecksPerRun
                 /\ D = candidates \/ Cardinality(D) = LockChecksPerRun
                 /\ Rotation(D, candidates)}}

ReadTables ==
  /\ run.at = "idle"
  /\ \E due \in Due(named) :
       run' = [NoRun EXCEPT !.at = "blocks", !.ids = named, !.due = due, !.records = rows]
  /\ UNCHANGED <<world, table, failures>>

\* Mutant: only what the wiki reports is taken over.
MergedBlock(row, blocked) == [row EXCEPT !.tracked = TRUE, !.blocked = @ \/ blocked]

\* Whatever the wiki says of an account replaces what was known.
Block(row, blocked) == [row EXCEPT !.tracked = TRUE, !.blocked = blocked]

\* fetch_standing.  It does not look at "missing": such an account gets a clean record.
\* One that is not in the answer at all keeps its row, if it has one.
FetchBlocks ==
  LET answered == {a \in run.ids : reply[a] # "absent"}
      found == {a \in run.ids : reply[a] = "found"}
  IN /\ run.at = "blocks"
     /\ run' = [run EXCEPT
          !.at = "pages",
          !.answered = answered,
          !.found = found,
          !.todo = run.due \cap answered,
          !.records = [a \in Accounts |->
             IF a \in answered THEN Block(@[a], a \in found /\ truth[a].blocked)
             ELSE IF a \in run.ids THEN @[a] ELSE Unknown]]
     /\ UNCHANGED <<world, table, failures>>

\* existing_user_pages, of the names the accounts were given.
FetchPages ==
  /\ run.at = "pages"
  /\ run' = [run EXCEPT
       !.at = "locks",
       !.records = [a \in Accounts |->
          IF a \in run.answered
          THEN [@[a] EXCEPT !.page = IF a \in run.found /\ truth[a].page THEN "there"
                                     ELSE "missing"]
          ELSE @[a]]]
  /\ UNCHANGED <<world, table, failures>>

\* Mutant: no answer is an answer without pages.
NoPages == [a \in Accounts |->
              IF a \in run.answered THEN [run.records[a] EXCEPT !.page = "missing"]
              ELSE run.records[a]]

\* The links stay what they were.
SamePages == run.records

PagesFail ==
  /\ run.at = "pages"
  /\ failures < MaxFailures
  /\ failures' = failures + 1
  /\ run' = [run EXCEPT !.at = "locks", !.records = SamePages]
  /\ UNCHANGED <<world, table>>

\* global_user_info.  Only a lock is asked for its reason.
CheckLock ==
  LET a == Min(run.todo)
      unlocked == [run.records[a] EXCEPT !.locked = FALSE, !.reason = "none", !.checked = Now]
      locked == [run.records[a] EXCEPT !.locked = TRUE]
  IN /\ run.at = "locks" /\ run.todo # {}
     /\ run' = IF a \in run.found /\ truth[a].locked
               THEN [run EXCEPT !.at = "reason", !.records[a] = locked]
               ELSE [run EXCEPT !.todo = @ \ {a}, !.records[a] = unlocked]
     /\ UNCHANGED <<world, table, failures>>

\* global_lock_reason
ReadReason ==
  LET a == Min(run.todo)
  IN /\ run.at = "reason"
     /\ run' = [run EXCEPT !.at = "locks", !.todo = @ \ {a},
                  !.records[a] = [@ EXCEPT !.reason = truth[a].wording, !.checked = Now]]
     /\ UNCHANGED <<world, table, failures>>

\* Either request fails: what the other assigned stays, the turn is not over.
LockFails ==
  /\ (run.at = "locks" /\ run.todo # {}) \/ run.at = "reason"
  /\ failures < MaxFailures
  /\ failures' = failures + 1
  /\ run' = [run EXCEPT !.at = "locks", !.todo = @ \ {Min(run.todo)}]
  /\ UNCHANGED <<world, table>>

\* replace_standing
Replace ==
  LET new == run.records
      Rank(a) == Cardinality({new[b].checked : b \in {b \in Accounts :
                   new[b].checked # 0 /\ new[b].checked <= new[a].checked}})
  IN /\ run.at = "locks" /\ run.todo = {}
     /\ rows' = [a \in Accounts |-> [new[a] EXCEPT !.checked = Rank(a)]]
     /\ recent' = {a \in Accounts : new[a].tracked /\ (new[a].checked = Now \/ a \in recent)}
     /\ run' = NoRun
     /\ UNCHANGED <<world, failures>>

\* The wiki cannot be reached, or the run dies: nothing is written.
Abandon ==
  /\ run.at # "idle"
  /\ failures < MaxFailures
  /\ failures' = failures + 1
  /\ run' = NoRun
  /\ UNCHANGED <<world, table>>

-----------------------------------------------------------------------------
Sync == ReadTables \/ FetchBlocks \/ FetchPages \/ CheckLock \/ ReadReason \/ Replace

Next ==
  \/ \E a \in Accounts : Decide(a) \/ Appear(a)
  \/ GoStale
  \/ Sync
  \/ PagesFail \/ LockFails \/ Abandon

Spec == Init /\ [][Next]_vars

\* The job runs every hour, and time passes.
FairSpec == Spec /\ WF_vars(Sync) /\ WF_vars(GoStale)

-----------------------------------------------------------------------------
(* Properties *)

Row == [tracked : BOOLEAN, blocked : BOOLEAN, locked : BOOLEAN,
        reason : {"none", "memorial", "sanction"},
        page : {"unknown", "there", "missing"}, checked : 0..Now]

TypeOK ==
  /\ named \subseteq Accounts
  /\ reply \in [Accounts -> Replies]
  /\ truth \in [Accounts -> [blocked : BOOLEAN, locked : BOOLEAN,
                             wording : {"none", "memorial", "sanction"}, page : BOOLEAN]]
  /\ rows \in [Accounts -> Row]
  /\ \A a \in Accounts : rows[a].tracked \/ rows[a] = Unknown
  /\ \A a \in recent : rows[a].checked # 0
  /\ run \in [at : {"idle", "blocks", "pages", "locks", "reason"}, ids : SUBSET Accounts,
              due : SUBSET Accounts, answered : SUBSET Accounts, found : SUBSET Accounts,
              todo : SUBSET Accounts, records : [Accounts -> Row]]
  /\ Cardinality(run.due) <= LockChecksPerRun
  /\ run.at = "reason" => run.todo # {}
  /\ ever \in [sanctioned : SUBSET Accounts, pageless : SUBSET Accounts, lost : SUBSET Accounts]
  /\ changes \in 0..MaxChanges
  /\ failures \in 0..MaxFailures

\* Nobody is made out to be sanctioned: a name the stored row withholds is of an
\* account that was blocked or locked for a sanction at some time, however the lock
\* and its reason changed between the two requests and whichever of them failed.
WithheldWasSanctioned ==
  \A a \in Accounts : Withheld(rows[a]) => a \in ever.sanctioned

\* A link is only taken away after the wiki had no user page or knew no account by the
\* id, never because a request failed or nobody has looked yet.  The second reason is
\* what the code does: the page of an account reported as missing may well be there.
MissingPageWasMissing ==
  \A a \in Accounts : rows[a].page = "missing" => a \in ever.pageless \cup ever.lost

Agrees(a) ==
  /\ rows[a].tracked
  /\ Withheld(rows[a]) = Sanctioned(a)
  /\ rows[a].page = IF truth[a].page THEN "there" ELSE "missing"

\* Once nothing changes any more, the table says of every account a result names
\* what the wiki says: a ban is applied, a block lifted and a lock reworded are
\* noticed, what an account lost while the wiki did not find it is restored, and the
\* rotation reaches everybody.  As long as the wiki finds them all in the end.
TableConverges ==
  <>[](\A a \in named : reply[a] = "found") => \A a \in Accounts : <>[](a \in named => Agrees(a))
=============================================================================
