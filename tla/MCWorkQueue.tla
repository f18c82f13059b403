---------------------------- MODULE MCWorkQueue ----------------------------
(***************************************************************************)
(* Instances of the work queue for TLC.                                    *)
(***************************************************************************)
EXTENDS WorkQueueRefinement, TLC

\* Replicas are interchangeable: sound for the runs that check safety only.
Replicas == Permutations(Workers)
=============================================================================
