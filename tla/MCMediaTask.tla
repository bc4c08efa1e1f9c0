----------------------------- MODULE MCMediaTask -----------------------------
(* MediaTask for TLC: sets of interchangeable calls, and result sets.        *)
EXTENDS MediaTask, TLC

\* The results of a provider that keeps to maxFiles.
BoundedResults == AllResults \ {"overfull"}

\* Calls of one kind are interchangeable: sound for runs without liveness.
Symmetry == Permutations(Creators) \cup Permutations(Cancels)
                \cup Permutations(Webhooks) \cup Permutations(Applies)
=============================================================================
