------------------------ MODULE WorkQueueRefinement ------------------------
(***************************************************************************)
(* The queue, the workers and the cleanup keep the promise of              *)
(* ServedAnswer: the answers stored are the rows of attribution_results,   *)
(* the one served is the row get_latest_result returns, and a computation  *)
(* runs while a worker attributes.                                         *)
(***************************************************************************)
EXTENDS WorkQueue

Promise == INSTANCE ServedAnswer WITH
  computing <- {lease[w].key : w \in {v \in Workers : pc[v] = "attribute"}},
  stored <- {k \in Keys : result[k] # NoResult},
  served <- [p \in Pages |-> Latest(p)]

\* Every behaviour of the queue is one of the promise: no claim, crash, late
\* answer or failure changes the answer of a page or shows one that was not
\* computed for a revision the article had when the worker looked, and cleanup,
\* whatever was saved between its SELECT and its DELETE, leaves a page that had
\* an answer with one that was computed.
KeepsPromise == Promise!Spec
=============================================================================
