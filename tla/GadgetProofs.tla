---------------------------- MODULE GadgetProofs ----------------------------
(***************************************************************************)
(* What the gadget leaves on the page, for any number of retries, views    *)
(* and changes, whatever the order of timers, answers and visits.          *)
(***************************************************************************)
EXTENDS Gadget, TLAPS

-----------------------------------------------------------------------------
(* The inductive invariant: what a tab is, by where its script stands *)

Quiet(t) == ~t.timer /\ t.request = "none" /\ t.outcome = "open" /\ t.attempt = 0

\* Nothing was asked or drawn.
Fresh(t) ==
  /\ t.step \in {"config", "draw"} /\ t.view # "none" /\ t.box = "none"
  /\ Quiet(t)

\* contributionData is under way.  On the article the box is loading until the
\* timer fires, and no retry is due before that; the history asks once.
Asking(t) ==
  /\ t.step = "await" /\ t.outcome = "open"
  /\ t.request \in {"sent", "delayed", "asleep"}
  /\ t.request # "sent" => t.view = "article" /\ t.attempt < Retries
  /\ \/ /\ t.view = "article"
        /\ t.box = IF t.timer THEN "loading" ELSE "vague"
        /\ t.timer => t.attempt = 0 /\ t.request # "asleep"
     \/ t.view = "history" /\ t.box = "intro" /\ ~t.timer /\ t.attempt = 0

\* contributionData was done first, and its first request was the last: the box
\* waits for the timer.
Held(t) ==
  /\ t.step = "await" /\ t.view = "article" /\ t.timer /\ t.box = "loading"
  /\ t.request = "done" /\ t.outcome \in {"data", "failed"}
  /\ t.outcome = "data" => t.got \in Answers

\* RestsTruthfully, of any tab.
Truthful(t) ==
  t.view = "article" =>
    /\ t.box # "loading"
    /\ t.box = "vague" => t.outcome = "pending" /\ t.attempt = Retries
    /\ t.outcome = "failed" => t.box = "none"
    /\ t.outcome = "data" =>
         IF t.got.human = 0 THEN t.box = "none" ELSE t.box = "final" /\ t.shown = t.got

\* The script is through, or never began.
Through(t) ==
  t.step = "over" /\ t.request \in {"none", "done"} /\ ~t.timer /\ Truthful(t)

TabSound(t) == t \in Tab /\ (Fresh(t) \/ Asking(t) \/ Held(t) \/ Through(t))

Saved == [page : {"none", "default", "off", "custom"}, answer : Answers \cup {NoAnswer}]

\* The API only says that it is ready when it has an answer.
Outside ==
  /\ server \in {"unserved", "none", "pending", "dead", "ready"}
  /\ answer \in Answers \cup {NoAnswer}
  /\ server = "ready" => answer \in Answers
  /\ page \in {"default", "off", "custom"}
  /\ saved \in Saved
  /\ refused \in BOOLEAN /\ visible \in BOOLEAN
  /\ views \in 0..MaxViews /\ changes \in 0..MaxChanges

GadgetInv == Outside /\ TabSound(tab)

-----------------------------------------------------------------------------
(* What the script makes of a tab *)

LEMMA AnswerFields ==
  ASSUME NEW data \in Answers
  PROVE  data.human \in Nat /\ (data.human < 1 <=> data.human = 0)
<1>1. data.human \in 0..MaxHuman /\ MaxHuman \in Nat
  BY GadgetConstantsOK DEF Answers
<1> QED BY <1>1

\* buildArticleSummary shows the answer it is given, or nothing.
LEMMA SummarySound ==
  ASSUME NEW t \in Tab, NEW data \in Answers, ~t.timer, t.request \in {"none", "done"},
         t.outcome \in {"open", "data"}, t.outcome = "data" => t.got = data
  PROVE  TabSound(Summary(t, data))
<1> DEFINE u == Summary(t, data)
<1>1. data.human \in Nat /\ (data.human < 1 <=> data.human = 0)
  BY AnswerFields
<1>2. CASE data.human < 1
  <2>1. u = [t EXCEPT !.box = "none", !.step = "over"]
    BY <1>2 DEF Summary
  <2>2. /\ u \in Tab /\ u.step = "over" /\ u.box = "none" /\ u.timer = t.timer
        /\ u.request = t.request /\ u.outcome = t.outcome /\ u.got = t.got
    BY <2>1 DEF Tab
  <2> QED BY <1>1, <1>2, <2>2 DEF TabSound, Through, Truthful
<1>3. CASE ~(data.human < 1)
  <2>1. u = [t EXCEPT !.box = "final", !.shown = data, !.step = "over"]
    BY <1>3 DEF Summary
  <2>2. /\ u \in Tab /\ u.step = "over" /\ u.box = "final" /\ u.timer = t.timer
        /\ u.request = t.request /\ u.outcome = t.outcome /\ u.got = t.got
        /\ u.shown = data
    BY <2>1 DEF Tab
  <2> QED BY <1>1, <1>3, <2>2 DEF TabSound, Through, Truthful
<1> QED BY <1>2, <1>3

\* The rest of addArticleSummary leaves the truth behind.
LEMMA FinishedSound ==
  ASSUME NEW t \in Tab, ~t.timer, t.request = "done",
         t.outcome \in {"data", "pending", "failed"},
         t.outcome = "data" => t.got \in Answers,
         t.outcome = "pending" => t.box = "vague" /\ t.attempt = Retries
  PROVE  TabSound(Finished(t))
<1>1. CASE t.outcome = "failed"
  <2> DEFINE u == [t EXCEPT !.box = "none", !.step = "over"]
  <2>1. Finished(t) = u
    BY <1>1 DEF Finished
  <2>2. /\ u \in Tab /\ u.step = "over" /\ u.box = "none" /\ u.timer = t.timer
        /\ u.request = t.request /\ u.outcome = t.outcome
    BY DEF Tab
  <2> QED BY <1>1, <2>1, <2>2 DEF TabSound, Through, Truthful
<1>2. CASE t.outcome = "pending"
  <2> DEFINE u == Rest(t)
  <2>1. Finished(t) = u
    BY <1>2 DEF Finished
  <2>2. /\ u \in Tab /\ u.step = "over" /\ u.box = t.box /\ u.timer = t.timer
        /\ u.request = t.request /\ u.outcome = t.outcome /\ u.attempt = t.attempt
    BY DEF Rest, Tab
  <2> QED BY <1>2, <2>1, <2>2 DEF TabSound, Through, Truthful
<1>3. CASE t.outcome = "data"
  <2>1. Finished(t) = Summary(t, t.got)
    BY <1>3 DEF Finished
  <2> QED BY <1>3, <2>1, SummarySound
<1> QED BY <1>1, <1>2, <1>3

\* With(outcome, data), of any tab.
Told(t, outcome, data) ==
  Ended([t EXCEPT !.request = "done", !.outcome = outcome, !.got = data])

\* contributionData ends: the script goes on, or waits for its timer.
LEMMA ToldSound ==
  ASSUME NEW t \in Tab, Asking(t), t.request = "sent",
         NEW outcome \in {"data", "pending", "failed"}, NEW data \in Answers \cup {NoAnswer},
         outcome = "data" => data \in Answers,
         outcome = "pending" => t.view = "history" \/ t.attempt = Retries
  PROVE  TabSound(Told(t, outcome, data))
<1> DEFINE u == [t EXCEPT !.request = "done", !.outcome = outcome, !.got = data]
<1>1. /\ u \in Tab /\ u.view = t.view /\ u.step = t.step /\ u.box = t.box
      /\ u.timer = t.timer /\ u.attempt = t.attempt
      /\ u.request = "done" /\ u.outcome = outcome /\ u.got = data
  BY DEF Tab
<1>2. Told(t, outcome, data) = Ended(u)
  BY DEF Told
<1> HIDE DEF u
<1>3. CASE t.view = "history"
  <2> DEFINE v == [u EXCEPT !.shown = u.got]
  <2>1. v \in Tab /\ v.view = u.view /\ v.timer = u.timer /\ v.request = u.request
    BY <1>1 DEF Tab
  <2> HIDE DEF v
  <2>2. ASSUME NEW w \in {u, v} PROVE TabSound(Rest(w))
    <3>1. w \in Tab /\ w.view = "history" /\ ~w.timer /\ w.request = "done"
      BY <1>1, <1>3, <2>1 DEF Asking
    <3> DEFINE x == Rest(w)
    <3>2. /\ x \in Tab /\ x.view = w.view /\ x.step = "over" /\ x.timer = w.timer
          /\ x.request = w.request
      BY <3>1 DEF Rest, Tab
    <3> QED BY <3>1, <3>2 DEF TabSound, Through, Truthful
  <2>3. Ended(u) \in {Rest(u), Rest(v)}
    BY <1>1, <1>3 DEF Ended, v
  <2> QED BY <1>2, <2>2, <2>3
<1>4. CASE t.view = "article" /\ t.timer
  <2>1. t.attempt = 0 /\ t.box = "loading" /\ t.step = "await"
    BY <1>4 DEF Asking
  <2>2. outcome # "pending"
    BY <1>4, <2>1, GadgetConstantsOK
  <2>3. Ended(u) = u
    BY <1>1, <1>4 DEF Ended
  <2>4. Held(u)
    BY <1>1, <1>4, <2>1, <2>2 DEF Held
  <2> QED BY <1>1, <1>2, <2>3, <2>4 DEF TabSound
<1>5. CASE t.view = "article" /\ ~t.timer
  <2>1. t.box = "vague"
    BY <1>5 DEF Asking
  <2>2. Ended(u) = Finished(u)
    BY <1>1, <1>5 DEF Ended
  <2>3. TabSound(Finished(u))
    <3>1. u.outcome = "pending" => u.box = "vague" /\ u.attempt = Retries
      BY <1>1, <1>5, <2>1
    <3>2. ~u.timer /\ u.outcome \in {"data", "pending", "failed"}
      BY <1>1, <1>5
    <3>3. u.outcome = "data" => u.got \in Answers
      BY <1>1
    <3> QED BY <1>1, <3>1, <3>2, <3>3, FinishedSound
  <2> QED BY <1>2, <2>2, <2>3
<1> QED BY <1>3, <1>4, <1>5 DEF Asking

\* The next of the retries.
LEMMA AgainSound ==
  ASSUME NEW t \in Tab, Asking(t), t.request \in {"delayed", "asleep"}, ~t.timer
  PROVE  TabSound(Again(t))
<1>1. t.view = "article" /\ t.attempt < Retries /\ t.box = "vague"
  BY DEF Asking
<1>2. t.attempt \in 0..Retries /\ Retries \in Nat
  BY GadgetConstantsOK DEF Tab
<1>3. t.attempt + 1 \in 0..Retries
  BY <1>1, <1>2
<1> DEFINE s == Sent(t)
           u == [s EXCEPT !.attempt = t.attempt + 1]
<1>4. /\ s \in Tab /\ s.view = t.view /\ s.step = t.step /\ s.box = t.box
      /\ s.timer = t.timer /\ s.request = "sent" /\ s.outcome = t.outcome
      /\ s.attempt = t.attempt
  BY DEF Sent, Tab
<1>5. Again(t) = u
  BY <1>4 DEF Again
<1> HIDE DEF s
<1>6. /\ u \in Tab /\ u.view = s.view /\ u.step = s.step /\ u.box = s.box
      /\ u.timer = s.timer /\ u.request = s.request /\ u.outcome = s.outcome
  BY <1>3, <1>4 DEF Tab
<1> HIDE DEF u
<1>7. Asking(u)
  BY <1>1, <1>4, <1>6 DEF Asking
<1> QED BY <1>5, <1>6, <1>7 DEF TabSound

-----------------------------------------------------------------------------
(* The steps of the script *)

\* A step of the script that leaves storage alone.
LEMMA StepKeeps ==
  ASSUME GadgetInv, NEW t, TabSound(t), Step(t)
  PROVE  GadgetInv'
BY DEF GadgetInv, Outside, Step, api

LEMMA SavedFields ==
  ASSUME NEW s \in Saved
  PROVE  /\ s.page \in {"none", "default", "off", "custom"}
         /\ s.answer \in Answers \cup {NoAnswer}
         /\ \A p \in {"none", "default", "off", "custom"} : [s EXCEPT !.page = p] \in Saved
         /\ \A a \in Answers \cup {NoAnswer} : [s EXCEPT !.answer = a] \in Saved
BY DEF Saved

LEMMA LoadWikiConfigKeeps == GadgetInv /\ LoadWikiConfig => GadgetInv'
<1> SUFFICES ASSUME GadgetInv, LoadWikiConfig PROVE GadgetInv'
  OBVIOUS
<1>1. PICK read \in IF saved.page # "none" THEN {saved.page} ELSE {page, "default"} :
        /\ saved' \in {saved, [saved EXCEPT !.page = read]}
        /\ tab' = [tab EXCEPT !.step = IF read = "off" THEN "over" ELSE "draw",
                              !.slots = read = "custom"]
  BY DEF LoadWikiConfig
<1>2. saved \in Saved /\ page \in {"default", "off", "custom"}
  BY DEF GadgetInv, Outside
<1>3. read \in {"none", "default", "off", "custom"}
  BY <1>1, <1>2, SavedFields
<1>4. saved' \in Saved
  BY <1>1, <1>2, <1>3, SavedFields
<1>5. Outside'
  BY <1>4 DEF GadgetInv, Outside, LoadWikiConfig, api
<1>6. tab \in Tab /\ Fresh(tab)
  BY DEF GadgetInv, TabSound, LoadWikiConfig, Fresh, Asking, Held, Through
<1> DEFINE u == [tab EXCEPT !.step = IF read = "off" THEN "over" ELSE "draw",
                            !.slots = read = "custom"]
<1>7. /\ u \in Tab /\ u.view = tab.view /\ u.box = tab.box /\ u.timer = tab.timer
      /\ u.request = tab.request /\ u.outcome = tab.outcome /\ u.attempt = tab.attempt
      /\ u.step \in {"over", "draw"}
  BY <1>6 DEF Tab
<1>8. tab' = u
  BY <1>1
<1> HIDE DEF u
<1>9. TabSound(u)
  BY <1>6, <1>7 DEF TabSound, Fresh, Quiet, Through, Truthful
<1> QED BY <1>5, <1>8, <1>9 DEF GadgetInv

LEMMA DrawArticleKeeps == GadgetInv /\ DrawArticle => GadgetInv'
<1> SUFFICES ASSUME GadgetInv, DrawArticle PROVE GadgetInv'
  OBVIOUS
<1>1. tab \in Tab /\ Fresh(tab) /\ tab.view = "article"
  BY DEF GadgetInv, TabSound, DrawArticle, Fresh, Asking, Held, Through
<1>2. CASE saved.answer # NoAnswer
  <2>1. saved.answer \in Answers
    BY <1>2, SavedFields DEF GadgetInv, Outside
  <2>2. TabSound(Summary(tab, saved.answer))
    <3>1. ~tab.timer /\ tab.request \in {"none", "done"} /\ tab.outcome = "open"
      BY <1>1 DEF Fresh, Quiet
    <3> QED BY <1>1, <2>1, <3>1, SummarySound
  <2> QED BY <1>2, <2>2, StepKeeps DEF DrawArticle
<1>3. CASE saved.answer = NoAnswer
  <2> DEFINE s == Sent(tab)
             u == [s EXCEPT !.box = "loading", !.timer = TRUE, !.step = "await"]
  <2>1. /\ s \in Tab /\ s.view = tab.view /\ s.request = "sent"
        /\ s.outcome = tab.outcome /\ s.attempt = tab.attempt
    BY <1>1 DEF Sent, Tab
  <2>2. Step(u)
    BY <1>3 DEF DrawArticle
  <2> HIDE DEF s
  <2>3. /\ u \in Tab /\ u.view = s.view /\ u.request = s.request
        /\ u.outcome = s.outcome /\ u.attempt = s.attempt
        /\ u.box = "loading" /\ u.timer /\ u.step = "await"
    BY <2>1 DEF Tab
  <2> HIDE DEF u
  <2>4. TabSound(u)
    BY <1>1, <2>1, <2>3 DEF TabSound, Fresh, Quiet, Asking
  <2> QED BY <2>2, <2>4, StepKeeps
<1> QED BY <1>2, <1>3

LEMMA DrawHistoryKeeps == GadgetInv /\ DrawHistory => GadgetInv'
<1> SUFFICES ASSUME GadgetInv, DrawHistory PROVE GadgetInv'
  OBVIOUS
<1>1. tab \in Tab /\ Fresh(tab) /\ tab.view = "history"
  BY DEF GadgetInv, TabSound, DrawHistory, Fresh, Asking, Held, Through
<1> DEFINE intro == [tab EXCEPT !.box = "intro"]
           shown == [intro EXCEPT !.shown = saved.answer]
           sent == Sent(intro)
           asked == [sent EXCEPT !.step = "await"]
<1>2. \/ Step(Rest(tab)) \/ Step(Rest(intro)) \/ Step(Rest(shown)) \/ Step(asked)
  BY DEF DrawHistory
<1>3. saved.answer \in Answers \cup {NoAnswer}
  BY SavedFields DEF GadgetInv, Outside
<1>4. /\ intro \in Tab /\ intro.view = "history" /\ intro.box = "intro"
      /\ intro.request = "none" /\ ~intro.timer /\ intro.outcome = "open"
      /\ intro.attempt = 0
  BY <1>1 DEF Fresh, Quiet, Tab
<1> HIDE DEF intro
<1>5. shown \in Tab /\ shown.view = "history" /\ shown.request = "none" /\ ~shown.timer
  BY <1>3, <1>4 DEF Tab
<1> HIDE DEF shown
<1>6. /\ sent \in Tab /\ sent.view = "history" /\ sent.box = "intro"
      /\ sent.request = "sent" /\ ~sent.timer /\ sent.outcome = "open"
      /\ sent.attempt = 0
  BY <1>4 DEF Sent, Tab
<1> HIDE DEF sent
<1>7. TabSound(asked)
  <2>1. /\ asked \in Tab /\ asked.view = "history" /\ asked.box = "intro"
        /\ asked.request = "sent" /\ ~asked.timer /\ asked.outcome = "open"
        /\ asked.attempt = 0 /\ asked.step = "await"
    BY <1>6 DEF Tab
  <2> QED BY <2>1 DEF TabSound, Asking
<1>8. ASSUME NEW t \in {tab, intro, shown} PROVE TabSound(Rest(t))
  <2> DEFINE u == Rest(t)
  <2>1. t \in Tab /\ t.view = "history" /\ t.request = "none" /\ ~t.timer
    BY <1>1, <1>4, <1>5 DEF Fresh, Quiet
  <2>2. /\ u \in Tab /\ u.view = t.view /\ u.request = t.request /\ u.timer = t.timer
        /\ u.step = "over"
    BY <2>1 DEF Rest, Tab
  <2> QED BY <2>1, <2>2 DEF TabSound, Through, Truthful
<1> QED BY <1>2, <1>7, <1>8, StepKeeps

LEMMA WhoAsks ==
  ASSUME GadgetInv, tab.request \in {"sent", "delayed", "asleep"}
  PROVE  tab \in Tab /\ Asking(tab)
BY DEF GadgetInv, TabSound, Fresh, Quiet, Held, Through

LEMMA WithSound ==
  ASSUME GadgetInv, tab.request = "sent",
         NEW outcome \in {"data", "pending", "failed"}, NEW data \in Answers \cup {NoAnswer},
         outcome = "data" => data \in Answers,
         outcome = "pending" => tab.view = "history" \/ tab.attempt = Retries
  PROVE  TabSound(With(outcome, data))
<1>1. tab \in Tab /\ Asking(tab)
  BY WhoAsks
<1> QED BY <1>1, ToldSound DEF With, Told

LEMMA RequestEndsKeeps == GadgetInv /\ (RequestFails \/ Refused \/ Answered) => GadgetInv'
<1> SUFFICES ASSUME GadgetInv, RequestFails \/ Refused \/ Answered PROVE GadgetInv'
  OBVIOUS
<1>1. tab.request = "sent"
  BY DEF RequestFails, Refused, Answered
<1>2. TabSound(With("failed", NoAnswer))
  BY <1>1, WithSound
<1>3. CASE RequestFails
  BY <1>2, <1>3, StepKeeps DEF RequestFails
<1>4. CASE Refused
  BY <1>2, <1>4 DEF Refused, GadgetInv, Outside, api
<1>5. CASE Answered
  <2>1. answer \in Answers /\ saved \in Saved
    BY <1>5 DEF Answered, GadgetInv, Outside
  <2>2. TabSound(With("data", answer))
    BY <1>1, <2>1, WithSound
  <2>3. saved' \in Saved
    BY <1>5, <2>1 DEF Answered, Saved
  <2> QED BY <1>5, <2>2, <2>3 DEF Answered, GadgetInv, Outside, api
<1> QED BY <1>3, <1>4, <1>5

LEMMA PendingKeeps == GadgetInv /\ Pending => GadgetInv'
<1> SUFFICES ASSUME GadgetInv, Pending PROVE GadgetInv'
  OBVIOUS
<1>1. tab \in Tab /\ Asking(tab) /\ tab.request = "sent"
  BY WhoAsks DEF Pending
<1>2. Outside'
  BY DEF Pending, GadgetInv, Outside, storage
<1>3. CASE tab.view = "article" /\ tab.attempt < Retries
  <2> DEFINE u == [tab EXCEPT !.request = "delayed"]
  <2>1. /\ u \in Tab /\ u.view = tab.view /\ u.step = tab.step /\ u.box = tab.box
        /\ u.timer = tab.timer /\ u.outcome = tab.outcome /\ u.attempt = tab.attempt
        /\ u.request = "delayed"
    BY <1>1 DEF Tab
  <2>2. tab' = u
    BY <1>3 DEF Pending
  <2> HIDE DEF u
  <2>3. TabSound(u)
    BY <1>1, <1>3, <2>1 DEF TabSound, Asking
  <2> QED BY <1>2, <2>2, <2>3 DEF GadgetInv
<1>4. CASE ~(tab.view = "article" /\ tab.attempt < Retries)
  <2>1. tab.attempt \in 0..Retries /\ Retries \in Nat /\ tab.view \in {"article", "history"}
    BY <1>1, GadgetConstantsOK DEF Tab, Asking
  <2>2. tab.view = "history" \/ tab.attempt = Retries
    BY <1>4, <2>1
  <2>3. TabSound(With("pending", NoAnswer))
    BY <1>1, <2>2, WithSound
  <2> QED BY <1>2, <1>4, <2>3 DEF GadgetInv, Pending
<1> QED BY <1>3, <1>4

LEMMA RetryIsDueKeeps == GadgetInv /\ RetryIsDue => GadgetInv'
<1> SUFFICES ASSUME GadgetInv, RetryIsDue PROVE GadgetInv'
  OBVIOUS
<1>1. tab \in Tab /\ Asking(tab) /\ tab.request = "delayed" /\ ~tab.timer
  BY WhoAsks DEF RetryIsDue
<1>2. CASE visible
  BY <1>1, <1>2, AgainSound, StepKeeps DEF RetryIsDue
<1>3. CASE ~visible
  <2> DEFINE u == [tab EXCEPT !.request = "asleep"]
  <2>1. /\ u \in Tab /\ u.view = tab.view /\ u.step = tab.step /\ u.box = tab.box
        /\ u.timer = tab.timer /\ u.outcome = tab.outcome /\ u.attempt = tab.attempt
        /\ u.request = "asleep"
    BY <1>1 DEF Tab
  <2>2. Step(u)
    BY <1>3 DEF RetryIsDue
  <2> HIDE DEF u
  <2>3. TabSound(u)
    BY <1>1, <2>1 DEF TabSound, Asking
  <2> QED BY <2>2, <2>3, StepKeeps
<1> QED BY <1>2, <1>3

LEMMA SettleKeeps == GadgetInv /\ Settle => GadgetInv'
<1> SUFFICES ASSUME GadgetInv, Settle PROVE GadgetInv'
  OBVIOUS
<1>1. tab \in Tab /\ tab.timer /\ (Asking(tab) \/ Held(tab))
  BY DEF GadgetInv, TabSound, Settle, Fresh, Quiet, Through
<1> DEFINE t == [tab EXCEPT !.timer = FALSE]
<1>2. /\ t \in Tab /\ t.view = tab.view /\ t.step = tab.step /\ t.box = tab.box
      /\ ~t.timer /\ t.outcome = tab.outcome /\ t.attempt = tab.attempt
      /\ t.request = tab.request /\ t.got = tab.got
  BY <1>1 DEF Tab
<1>3. Step(IF t.request = "done" THEN Finished(t) ELSE [t EXCEPT !.box = "vague"])
  BY DEF Settle
<1> HIDE DEF t
<1>4. CASE t.request = "done"
  <2>1. Held(tab)
    BY <1>1, <1>2, <1>4 DEF Asking
  <2>2. TabSound(Finished(t))
    BY <1>2, <1>4, <2>1, FinishedSound DEF Held
  <2> QED BY <1>3, <1>4, <2>2, StepKeeps
<1>5. CASE t.request # "done"
  <2> DEFINE u == [t EXCEPT !.box = "vague"]
  <2>1. Asking(tab)
    BY <1>1, <1>2, <1>5 DEF Held
  <2>2. /\ u \in Tab /\ u.view = t.view /\ u.step = t.step /\ u.box = "vague"
        /\ u.timer = t.timer /\ u.outcome = t.outcome /\ u.attempt = t.attempt
        /\ u.request = t.request
    BY <1>2 DEF Tab
  <2>3. Step(u)
    BY <1>3, <1>5
  <2> HIDE DEF u
  <2>4. TabSound(u)
    BY <1>1, <1>2, <2>1, <2>2 DEF TabSound, Asking
  <2> QED BY <2>3, <2>4, StepKeeps
<1> QED BY <1>4, <1>5

-----------------------------------------------------------------------------
(* The steps of everybody else *)

LEMMA LookKeeps == GadgetInv /\ Look => GadgetInv'
<1> SUFFICES ASSUME GadgetInv, Look PROVE GadgetInv'
  OBVIOUS
<1>1. Outside'
  BY DEF Look, GadgetInv, Outside, api, storage
<1>2. CASE tab.request = "asleep"
  <2>1. tab \in Tab /\ Asking(tab)
    BY <1>2, WhoAsks
  <2>2. ~tab.timer
    BY <1>2, <2>1 DEF Asking
  <2> QED BY <1>1, <1>2, <2>1, <2>2, AgainSound DEF Look, GadgetInv
<1>3. CASE tab.request # "asleep"
  BY <1>1, <1>3 DEF Look, GadgetInv
<1> QED BY <1>2, <1>3

LEMMA ClosedTab ==
  /\ Closed \in Tab
  /\ Closed.box = "none" /\ Closed.request = "none" /\ ~Closed.timer
  /\ Closed.outcome = "open" /\ Closed.attempt = 0 /\ Closed.view = "none"
<1>1. 0 \in 0..Retries
  BY GadgetConstantsOK
<1>2. NoAnswer \in Answers \cup {NoAnswer}
  OBVIOUS
<1> QED BY <1>1, <1>2 DEF Closed, Tab

LEMMA OpenKeeps ==
  ASSUME GadgetInv, NEW view \in {"article", "history"}, Open(view)
  PROVE  GadgetInv'
<1>1. Outside'
  <2>1. views \in 0..MaxViews /\ MaxViews \in Nat /\ views < MaxViews /\ views' = views + 1
    BY GadgetConstantsOK DEF Open, GadgetInv, Outside
  <2>2. views' \in 0..MaxViews
    BY <2>1
  <2> QED BY <2>2 DEF Open, GadgetInv, Outside, api, storage
<1> DEFINE t == [Closed EXCEPT !.view = view, !.step = IF refused THEN "over" ELSE "config"]
<1>2. /\ t \in Tab /\ t.view = view /\ t.step \in {"over", "config"} /\ t.box = "none"
      /\ t.request = "none" /\ ~t.timer /\ t.outcome = "open" /\ t.attempt = 0
  BY ClosedTab DEF Tab
<1>3. tab' = t
  BY DEF Open
<1> HIDE DEF t
<1>4. TabSound(t)
  BY <1>2 DEF TabSound, Fresh, Quiet, Through, Truthful
<1> QED BY <1>1, <1>3, <1>4 DEF GadgetInv

LEMMA ChangedKeeps ==
  ASSUME GadgetInv, Changed,
         server' \in {"unserved", "none", "pending", "dead", "ready"},
         answer' \in Answers \cup {NoAnswer},
         server' = "ready" => answer' \in Answers,
         page' \in {"default", "off", "custom"}
  PROVE  GadgetInv'
<1>1. changes \in 0..MaxChanges /\ MaxChanges \in Nat /\ changes < MaxChanges
      /\ changes' = changes + 1
  BY GadgetConstantsOK DEF Changed, GadgetInv, Outside
<1>2. changes' \in 0..MaxChanges
  BY <1>1
<1> QED BY <1>2 DEF Changed, GadgetInv, Outside, storage

LEMMA OutsideSteps ==
  GadgetInv /\ (JobEnds \/ AnswerChanges \/ SwitchWiki \/ EditPage) => GadgetInv'
<1> SUFFICES ASSUME GadgetInv, JobEnds \/ AnswerChanges \/ SwitchWiki \/ EditPage
             PROVE  GadgetInv'
  OBVIOUS
<1>1. Outside
  BY DEF GadgetInv
<1>2. Changed
  BY DEF JobEnds, AnswerChanges, SwitchWiki, EditPage
<1>3. /\ server' \in {"unserved", "none", "pending", "dead", "ready"}
      /\ answer' \in Answers \cup {NoAnswer}
      /\ server' = "ready" => answer' \in Answers
      /\ page' \in {"default", "off", "custom"}
  BY <1>1 DEF Outside, JobEnds, AnswerChanges, SwitchWiki, EditPage
<1> QED BY <1>2, <1>3, ChangedKeeps

LEMMA ExpireKeeps == GadgetInv /\ Expire => GadgetInv'
<1> SUFFICES ASSUME GadgetInv, Expire PROVE GadgetInv'
  OBVIOUS
<1>1. saved \in Saved
  BY DEF GadgetInv, Outside
<1>2. saved' \in {saved, [saved EXCEPT !.page = "none"], [saved EXCEPT !.answer = NoAnswer]}
  BY DEF Expire
<1>3. saved' \in Saved
  BY <1>1, <1>2 DEF Saved
<1> QED BY <1>3 DEF Expire, GadgetInv, Outside, api

-----------------------------------------------------------------------------
(* The theorems *)

LEMMA GadgetInvInit == GadgetInit => GadgetInv
<1> SUFFICES ASSUME GadgetInit PROVE GadgetInv
  OBVIOUS
<1>1. Outside
  <2>1. 0 \in 0..MaxViews /\ 0 \in 0..MaxChanges
    BY GadgetConstantsOK
  <2>2. [page |-> "none", answer |-> NoAnswer] \in Saved
    BY DEF Saved
  <2> QED BY <2>1, <2>2 DEF GadgetInit, Outside
<1>2. Closed \in Tab
  BY ClosedTab
<1>3. Through(Closed)
  BY DEF Closed, Through, Truthful
<1> QED BY <1>1, <1>2, <1>3 DEF GadgetInit, GadgetInv, TabSound

LEMMA GadgetInvNext == GadgetInv /\ [GadgetNext]_gadgetVars => GadgetInv'
<1> SUFFICES ASSUME GadgetInv, [GadgetNext]_gadgetVars PROVE GadgetInv'
  OBVIOUS
<1>1. CASE Script
  BY <1>1, LoadWikiConfigKeeps, DrawArticleKeeps, DrawHistoryKeeps, RequestEndsKeeps,
     PendingKeeps, RetryIsDueKeeps, SettleKeeps DEF Script
<1>2. CASE Look
  BY <1>2, LookKeeps
<1>3. CASE Hide
  BY <1>3 DEF Hide, GadgetInv, Outside, api, storage
<1>4. CASE \E view \in {"article", "history"} : Open(view)
  BY <1>4, OpenKeeps
<1>5. CASE JobEnds \/ AnswerChanges \/ SwitchWiki \/ EditPage
  BY <1>5, OutsideSteps
<1>6. CASE Expire
  BY <1>6, ExpireKeeps
<1>7. CASE UNCHANGED gadgetVars
  BY <1>7 DEF gadgetVars, GadgetInv, Outside, api, storage
<1> QED BY <1>1, <1>2, <1>3, <1>4, <1>5, <1>6, <1>7 DEF GadgetNext

\* The one timer runs only while the box is loading, and only a script that waits
\* for an answer asks: a page that was left, refused or switched off sends nothing.
THEOREM GadgetTypes == GadgetSpec => []GadgetTypeOK
<1>1. GadgetInv => GadgetTypeOK
  <2> SUFFICES ASSUME GadgetInv PROVE GadgetTypeOK
    OBVIOUS
  <2>1. TabSound(tab) /\ Outside
    BY DEF GadgetInv
  <2>2. /\ tab \in Tab
        /\ tab.timer => tab.box = "loading"
        /\ tab.request \in {"sent", "delayed", "asleep"} => tab.step = "await"
    BY <2>1 DEF TabSound, Fresh, Quiet, Asking, Held, Through
  <2> QED BY <2>1, <2>2 DEF GadgetTypeOK, Outside, Saved
<1> QED BY <1>1, GadgetInvInit, GadgetInvNext, PTL DEF GadgetSpec

\* addArticleSummary: what stays on an article is true, in whatever order the timer of
\* the placeholder, the requests and their retries, and the visits of the reader came.
THEOREM WhatStaysIsTrue == GadgetSpec => []RestsTruthfully
<1>1. GadgetInv => RestsTruthfully
  BY DEF GadgetInv, TabSound, Fresh, Asking, Held, Through, Truthful, RestsTruthfully
<1> QED BY <1>1, GadgetInvInit, GadgetInvNext, PTL DEF GadgetSpec
=============================================================================
