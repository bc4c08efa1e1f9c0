--------------------------- MODULE MCCacheRuntime ---------------------------
(* Small instances of CacheRuntime: requests, their replicas and their keys. *)
EXTENDS CacheRuntime

CONSTANTS r1, r2, k1, t1, t2, c1, c2, c3, c4, m1, m2, f1, f2

TwoReplicas == [j \in Job |-> IF j \in {c3, m2, f2} THEN r2 ELSE r1]
OneReplica  == [j \in Job |-> r1]
OneKey      == [c \in Reader |-> k1]
OneTag      == [k \in Key |-> {t1}]
TwoTags     == [k \in Key |-> {t1, t2}]
AllWrite    == [m \in Mutation |-> {t1}]
OneEach     == [m \in Mutation |-> IF m = m1 THEN {t1} ELSE {t2}]
=============================================================================
