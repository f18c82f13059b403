------------------------------- MODULE Gadget -------------------------------
(***************************************************************************)
(* The gadget in one browser tab: the reader opens the article or its      *)
(* history, the script loads the wiki's configuration and asks the API,    *)
(* and a box says what is known.  Everything between two turns of the      *)
(* event loop is one step.                                                 *)
(*                                                                         *)
(* The API is what ReadPath and OnWiki promise a reader: 202 while a job   *)
(* is live, 503 once it is dead, 200 from then on when there is an answer, *)
(* which changes with the policy and with the text; 404 for a wiki that is *)
(* not served.                                                             *)
(***************************************************************************)
EXTENDS Naturals

CONSTANTS
  Retries,    \* the number of PENDING_RETRY_DELAYS_MS (2)
  MaxHuman,   \* BOUND: distinct contributors of an answer
  MaxViews,   \* BOUND: pages opened in the tab
  MaxChanges  \* BOUND: changes to what the API and the configuration page say

ASSUME GadgetConstantsOK ==
  /\ Retries \in Nat \ {0}  \* with none, a box still loading would be left behind
  /\ {MaxHuman, MaxViews, MaxChanges} \subseteq Nat

\* What normalizeContributionData keeps: how many accounts are named, the number of
\* contributors, and whether the metric is the surviving text.
Answers ==
  {a \in [names : 0..1, human : 0..MaxHuman, wroteTheText : BOOLEAN] : a.names <= a.human}
NoAnswer == [names |-> 0, human |-> 0, wroteTheText |-> FALSE, none |-> TRUE]

VARIABLES
  server,   \* what the API knows: "unserved", "none", "pending", "dead", "ready"
  answer,   \* the answer it gives when it is ready
  page,     \* the configuration page: "default", "off", or "custom" content
  saved,    \* session storage: the configuration and the answer, "none" when absent
  refused,  \* local storage: the API does not serve this wiki
  visible,  \* the tab is on screen
  tab,      \* the script in the page that is open
  views, changes

api == <<server, answer, page>>
storage == <<saved, refused>>
gadgetVars == <<api, storage, visible, tab, views, changes>>

\* step: where the main function stands.  request: the state of contributionData.
\* slots: the wiki has content of its own, which may have a place for the count.
\* outcome: "open" until it is done.  timer: the one timer of the placeholder runs.
Tab == [view : {"none", "article", "history"},
        step : {"config", "draw", "await", "over"},
        box : {"none", "loading", "vague", "final", "intro"},
        shown : Answers \cup {NoAnswer},
        request : {"none", "sent", "delayed", "asleep", "done"},
        attempt : 0..Retries,
        slots : BOOLEAN,
        outcome : {"open", "data", "pending", "failed"},
        got : Answers \cup {NoAnswer},
        timer : BOOLEAN]

Closed == [view |-> "none", step |-> "over", box |-> "none", shown |-> NoAnswer,
           request |-> "none", attempt |-> 0, outcome |-> "open", got |-> NoAnswer,
           slots |-> FALSE, timer |-> FALSE]

GadgetInit ==
  /\ server = "none"
  /\ answer = NoAnswer
  /\ page \in {"default", "off", "custom"}
  /\ saved = [page |-> "none", answer |-> NoAnswer]
  /\ refused = FALSE
  /\ visible = TRUE
  /\ tab = Closed
  /\ views = 0
  /\ changes = 0

-----------------------------------------------------------------------------
(* The API, the configuration page, the reader and time (external) *)

Changed ==
  /\ changes < MaxChanges
  /\ changes' = changes + 1
  /\ UNCHANGED <<storage, visible, tab, views>>

\* A job ends, an answer is computed anew or shown differently, the wiki is switched
\* on or off, the page is edited.
JobEnds ==
  /\ server = "pending"
  /\ \/ server' = "dead" /\ UNCHANGED answer
     \/ server' = "ready" /\ answer' \in Answers
  /\ UNCHANGED page
  /\ Changed

AnswerChanges ==
  /\ server = "ready"
  /\ answer' \in Answers \ {answer}
  /\ UNCHANGED <<server, page>>
  /\ Changed

SwitchWiki ==
  /\ server' = IF server # "unserved" THEN "unserved"
               ELSE IF answer = NoAnswer THEN "none" ELSE "ready"
  /\ UNCHANGED <<answer, page>>
  /\ Changed

EditPage ==
  /\ page' \in {"default", "off", "custom"} \ {page}
  /\ UNCHANGED <<server, answer>>
  /\ Changed

\* An entry is too old: readCache drops it.
Expire ==
  /\ \/ saved' \in {[saved EXCEPT !.page = "none"], [saved EXCEPT !.answer = NoAnswer]}
        /\ UNCHANGED refused
     \/ refused' = FALSE /\ UNCHANGED saved
  /\ UNCHANGED <<api, visible, tab, views, changes>>

Hide ==
  /\ visible
  /\ visible' = FALSE
  /\ UNCHANGED <<api, storage, tab, views, changes>>

\* A new page: what the script of the last one was doing is gone.
Open(view) ==
  /\ views < MaxViews
  /\ views' = views + 1
  /\ tab' = [Closed EXCEPT !.view = view, !.step = IF refused THEN "over" ELSE "config"]
  /\ UNCHANGED <<api, storage, visible, changes>>

-----------------------------------------------------------------------------
(* The script.  A write to storage may do nothing: it is switched off, or full. *)

Step(t) ==
  /\ tab' = t
  /\ UNCHANGED <<api, refused, visible, views, changes, saved>>

Rest(t) == [t EXCEPT !.step = "over"]

Sent(t) == [t EXCEPT !.request = "sent"]

\* loadWikiConfig: a page that is missing, or a request that fails, is the default,
\* and is kept as long as the page would be.
LoadWikiConfig ==
  /\ tab.step = "config"
  /\ \E read \in IF saved.page # "none" THEN {saved.page} ELSE {page, "default"} :
       /\ saved' \in {saved, [saved EXCEPT !.page = read]}
       /\ tab' = [tab EXCEPT !.step = IF read = "off" THEN "over" ELSE "draw",
                             !.slots = read = "custom"]
  /\ UNCHANGED <<api, refused, visible, views, changes>>

\* buildArticleSummary, and the two ways it ends.
Summary(t, data) ==
  IF data.human < 1 THEN [t EXCEPT !.box = "none", !.step = "over"]
  ELSE [t EXCEPT !.box = "final", !.shown = data, !.step = "over"]

\* The rest of addArticleSummary, once both promises are kept.
Finished(t) ==
  CASE t.outcome = "failed" -> [t EXCEPT !.box = "none", !.step = "over"]
    [] t.outcome = "pending" -> Rest(t)
    [] t.outcome = "data" -> Summary(t, t.got)

\* addArticleSummary up to its first await.  Left out: a page that has a box already,
\* where it returns, and a skin it does not know, where there is no place for one.
DrawArticle ==
  /\ tab.step = "draw" /\ tab.view = "article"
  /\ Step(IF saved.answer # NoAnswer THEN Summary(tab, saved.answer)
          ELSE [Sent(tab) EXCEPT !.box = "loading", !.timer = TRUE, !.step = "await"])

\* addHistoryIntroduction.  Only custom content may have a place for the count.
DrawHistory ==
  /\ tab.step = "draw" /\ tab.view = "history"
  /\ LET intro == [tab EXCEPT !.box = "intro"]
     IN \/ Step(Rest(tab))
        \/ Step(Rest(intro))
        \/ /\ tab.slots
           /\ Step(IF saved.answer = NoAnswer THEN [Sent(intro) EXCEPT !.step = "await"]
                   ELSE IF saved.answer.human < 1 THEN Rest(intro)
                   ELSE Rest([intro EXCEPT !.shown = saved.answer]))

\* Mutant: addArticleSummary awaits the first of its two promises.
EndedFirst(t) ==
  IF t.view = "history"
  THEN IF t.outcome = "data" /\ t.got.human >= 1 THEN Rest([t EXCEPT !.shown = t.got]) ELSE Rest(t)
  ELSE Finished(t)

\* contributionData is done; who waits for it goes on unless the timer still runs.
Ended(t) ==
  IF t.view = "history"
  THEN IF t.outcome = "data" /\ t.got.human >= 1 THEN Rest([t EXCEPT !.shown = t.got]) ELSE Rest(t)
  ELSE IF t.timer THEN t ELSE Finished(t)

With(outcome, data) ==
  Ended([tab EXCEPT !.request = "done", !.outcome = outcome, !.got = data])

\* No connection, no answer within eight seconds, or a status that says nothing.
RequestFails ==
  /\ tab.request = "sent"
  /\ Step(With("failed", NoAnswer))

Refused ==
  /\ tab.request = "sent" /\ server = "unserved"
  /\ refused' \in {refused, TRUE}
  /\ tab' = With("failed", NoAnswer)
  /\ UNCHANGED <<api, saved, visible, views, changes>>

Answered ==
  /\ tab.request = "sent" /\ server = "ready"
  /\ saved' \in {saved, [saved EXCEPT !.answer = answer]}
  /\ tab' = With("data", answer)
  /\ UNCHANGED <<api, refused, visible, views, changes>>

\* 202: the job is there from now on.  The history asks once, the article again.
Pending ==
  /\ tab.request = "sent" /\ server \in {"none", "pending", "dead"}
  /\ server' = "pending"
  /\ tab' = IF tab.view = "article" /\ tab.attempt < Retries
            THEN [tab EXCEPT !.request = "delayed"]
            ELSE With("pending", NoAnswer)
  /\ UNCHANGED <<answer, page, storage, visible, views, changes>>

Again(t) == [Sent(t) EXCEPT !.attempt = @ + 1]

\* Mutant: the first retry may be due before the placeholder has settled.
RetryAnyTime ==
  /\ tab.request = "delayed"
  /\ Step(IF visible THEN Again(tab) ELSE [tab EXCEPT !.request = "asleep"])

\* A retry is due, no earlier than three seconds after the start, when the timer of
\* the placeholder has fired.  In a hidden tab it waits to be looked at.
RetryIsDue ==
  /\ tab.request = "delayed" /\ ~tab.timer
  /\ Step(IF visible THEN Again(tab) ELSE [tab EXCEPT !.request = "asleep"])

\* Mutant: nobody listens to visibilitychange.
LookOnly ==
  /\ ~visible
  /\ visible' = TRUE
  /\ UNCHANGED <<api, storage, views, changes, tab>>

Look ==
  /\ ~visible
  /\ visible' = TRUE
  /\ tab' = IF tab.request = "asleep" THEN Again(tab) ELSE tab
  /\ UNCHANGED <<api, storage, views, changes>>

\* Mutant: the placeholder only ends with the request.
SettleWhenDone ==
  /\ tab.timer /\ tab.request = "done"
  /\ Step(Finished([tab EXCEPT !.timer = FALSE]))

\* The loop of runCountPlaceholder after its wait.
Settle ==
  /\ tab.timer
  /\ LET t == [tab EXCEPT !.timer = FALSE]
     IN Step(IF t.request = "done" THEN Finished(t) ELSE [t EXCEPT !.box = "vague"])

Script ==
  \/ LoadWikiConfig \/ DrawArticle \/ DrawHistory
  \/ RequestFails \/ Refused \/ Answered \/ Pending
  \/ RetryIsDue \/ Settle

GadgetNext ==
  \/ Script
  \/ Look \/ Hide
  \/ \E view \in {"article", "history"} : Open(view)
  \/ JobEnds \/ AnswerChanges \/ SwitchWiki \/ EditPage \/ Expire

GadgetSpec == GadgetInit /\ [][GadgetNext]_gadgetVars

\* Requests end, if by the abort after eight seconds, and timers fire, in a hidden
\* tab late.  Readers, wikis and the API owe nothing.
GadgetFairness ==
  /\ WF_gadgetVars(LoadWikiConfig \/ DrawArticle \/ DrawHistory)
  /\ WF_gadgetVars(RequestFails \/ Refused \/ Answered \/ Pending)
  /\ WF_gadgetVars(RetryIsDue)
  /\ WF_gadgetVars(Settle)

FairGadget == GadgetSpec /\ GadgetFairness

-----------------------------------------------------------------------------
(* Properties *)

\* Every variable has its type, one timer runs at most, and only while the box is
\* loading; nobody who left the page, or saw it refused or switched off, asks.
GadgetTypeOK ==
  /\ server \in {"unserved", "none", "pending", "dead", "ready"}
  /\ answer \in Answers \cup {NoAnswer}
  /\ page \in {"default", "off", "custom"}
  /\ saved \in [page : {"none", "default", "off", "custom"}, answer : Answers \cup {NoAnswer}]
  /\ tab \in Tab
  /\ tab.timer => tab.box = "loading"
  /\ tab.request \in {"sent", "delayed", "asleep"} => tab.step = "await"
  /\ {refused, visible} \subseteq BOOLEAN
  /\ views \in 0..MaxViews /\ changes \in 0..MaxChanges

\* What is left on the article when the script is through is true, in whatever order
\* the timer, the answers, the retries and the reader came: no box is left loading,
\* "many people" stands only where every retry was told to wait, a failure leaves no
\* trace, and an answer that came is the one on display.
RestsTruthfully ==
  tab.view = "article" /\ tab.step = "over" =>
    /\ tab.box # "loading"
    /\ tab.box = "vague" => tab.outcome = "pending" /\ tab.attempt = Retries
    /\ tab.outcome = "failed" => tab.box = "none"
    /\ tab.outcome = "data" =>
         IF tab.got.human = 0 THEN tab.box = "none"
         ELSE tab.box = "final" /\ tab.shown = tab.got

\* The loading label ends, even in a tab nobody looks at, whose retries wait.
LoadingEnds == tab.box = "loading" ~> tab.box # "loading"

\* An answer that is there while a retry is still to come reaches the reader who
\* comes back to the tab, unless a request fails, the wiki is switched off, or
\* the reader goes elsewhere: a retry that waits for the tab is not lost.
ReadyIsShown ==
  []<>visible =>
    ((tab.request \in {"delayed", "asleep"} /\ server = "ready")
      ~> (tab.box \in {"final", "none"} \/ server # "ready"))
=============================================================================
