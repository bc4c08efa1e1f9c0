---------------------------- MODULE MCMediaBudget ----------------------------
(* MediaBudget for TLC: who runs where, and what it costs.                    *)
EXTENDS MediaBudget, FiniteSetsExt, TLC
CONSTANTS i1, i2, c1, c2, c3, c4, c5, k1, k2, k3, k4

\* Two processes over one store: c4 is a retry of c1 in the same process, c3
\* and c5 contend with them from the other one.
Homes == c1 :> i1 @@ c2 :> i1 @@ c3 :> i2 @@ c4 :> i1 @@ c5 :> i2
RequestKeys == c1 :> k1 @@ c2 :> k2 @@ c3 :> k3 @@ c4 :> k1 @@ c5 :> k4

\* Two tasks fit a budget of 3 unless both are dear, and no three do.
Estimate == k1 :> 1 @@ k2 :> 2 @@ k3 :> 2 @@ k4 :> 1
Costs == [S \in SUBSET Keys |-> MapThenSumSet(LAMBDA k : Estimate[k], S)]
=============================================================================
