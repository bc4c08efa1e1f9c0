---------------------------- MODULE FencedCache ----------------------------
(***************************************************************************)
(* What the read cache promises, without epochs, replicas or in-flight      *)
(* reads.  A value is the version of the data under each of its key's tags. *)
(* A write makes new versions; an invalidation of a tag draws a line (the   *)
(* fence) under the current version and drops every entry filed under the   *)
(* tag; from then on only a value at or above the line may be stored.       *)
(***************************************************************************)
EXTENDS Naturals

CONSTANTS Key,      \* cache keys
          Tag,      \* invalidation tags
          TagsOf,   \* the tags each key is stored under
          None      \* the absent value

VARIABLES db,       \* version of the source data under each tag
          fence,    \* db at the last invalidation of each tag
          entries   \* the stored value of each key, or None

vars == <<db, fence, entries>>

Init == /\ db = [t \in Tag |-> 0]
        /\ fence = [t \in Tag |-> 0]
        /\ entries = [k \in Key |-> None]

Write(ts) == /\ db' = [t \in Tag |-> IF t \in ts THEN db[t] + 1 ELSE db[t]]
             /\ UNCHANGED <<fence, entries>>

Invalidate(ts) ==
    /\ fence' = [t \in Tag |-> IF t \in ts THEN db[t] ELSE fence[t]]
    /\ entries' = [k \in Key |-> IF TagsOf[k] \cap ts # {} THEN None ELSE entries[k]]
    /\ UNCHANGED db

Put(k, v) == /\ \A t \in TagsOf[k] : fence[t] <= v[t] /\ v[t] <= db[t]
             /\ entries' = [entries EXCEPT ![k] = v]
             /\ UNCHANGED <<db, fence>>

Drop(k) == /\ entries' = [entries EXCEPT ![k] = None]
           /\ UNCHANGED <<db, fence>>

Next == \/ \E ts \in SUBSET Tag : Write(ts) \/ Invalidate(ts)
        \/ \E k \in Key :
             \/ Drop(k)
             \/ \E v \in [TagsOf[k] -> UNION {fence[t] .. db[t] : t \in TagsOf[k]}] : Put(k, v)

Spec == Init /\ [][Next]_vars
=============================================================================
