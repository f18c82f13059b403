---------------------------- MODULE ServedAnswer ----------------------------
(***************************************************************************)
(* What a reader of v2 is promised about the stored answers of an article, *)
(* whatever queue, workers and cleanup do to provide them: a computation   *)
(* starts for the revision the article shows at that moment, an answer     *)
(* appears only because a computation finished, and is served from then    *)
(* on.  Answers may be forgotten, the one served among them, but another   *)
(* one computed for the article then takes its place.                      *)
(***************************************************************************)
EXTENDS Naturals

CONSTANTS Pages, MaxRevision

VARIABLES
  current,    \* current[p]: revision the article shows
  computing,  \* <<p, r>> under computation
  stored,     \* <<p, r>> with an answer
  served      \* served[p]: revision of the answer served, 0 before the first

vars == <<current, computing, stored, served>>

Init ==
  /\ current = [p \in Pages |-> 1]
  /\ computing = {}
  /\ stored = {}
  /\ served = [p \in Pages |-> 0]

Edit(p) ==
  /\ current[p] < MaxRevision
  /\ current' = [current EXCEPT ![p] = @ + 1]
  /\ UNCHANGED <<computing, stored, served>>

Begin(p) ==
  /\ computing' = computing \cup {<<p, current[p]>>}
  /\ UNCHANGED <<current, stored, served>>

\* Two workers may compute the same revision: the other one goes on.
Publish(k) ==
  /\ k \in computing
  /\ stored' = stored \cup {k}
  /\ served' = [served EXCEPT ![k[1]] = k[2]]
  /\ computing' \in {computing, computing \ {k}}
  /\ UNCHANGED current

Abandon(k) ==
  /\ k \in computing
  /\ computing' = computing \ {k}
  /\ UNCHANGED <<current, stored, served>>

\* What is left of a page whose answer went has one to serve instead.
Forget(dropped) ==
  /\ stored' = stored \ dropped
  /\ served' \in [Pages -> 0..MaxRevision]
  /\ \A p \in Pages :
       IF <<p, served[p]>> \in dropped
       THEN <<p, served'[p]>> \in stored'
       ELSE served'[p] = served[p]
  /\ UNCHANGED <<current, computing>>

Next ==
  \/ \E p \in Pages : Edit(p) \/ Begin(p)
  \/ \E k \in computing : Publish(k) \/ Abandon(k)
  \/ \E dropped \in SUBSET stored : Forget(dropped)

Spec == Init /\ [][Next]_vars
=============================================================================
