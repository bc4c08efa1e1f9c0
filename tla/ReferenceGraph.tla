--------------------------- MODULE ReferenceGraph ---------------------------
(***************************************************************************)
(* Which resources show another one's data, as the server works it out for  *)
(* its caches (core/src/modern-admin.ts) and the browser for its queries    *)
(* (react/src/hooks.ts).  Properties are abstracted to the edges they make. *)
(***************************************************************************)
EXTENDS Naturals, FiniteSets

CONSTANTS Resource,
          Refs,      \* <<r, s>>: a property of r references s
          Through    \* <<r, j>>: an m2m property of r is kept in the rows of j

ASSUME GraphAssumption == /\ IsFiniteSet(Resource)
                          /\ Refs \subseteq Resource \X Resource
                          /\ Through \subseteq Resource \X Resource

Dependents(r) == {d \in Resource \ {r} : <<d, r>> \in Refs \cup Through}

(* The loop over incoming edges: r, what references it, what references that. *)
Upstream(r) ==
    LET reach[n \in 0 .. Cardinality(Resource)] ==
            IF n = 0 THEN {r}
            ELSE reach[n - 1] \cup {d \in Resource : \E t \in reach[n - 1] : <<d, t>> \in Refs}
    IN reach[Cardinality(Resource)]

linkedResourceIds(r) ==
    ({s \in Resource : <<r, s>> \in Refs \/ <<s, r>> \in Refs} \cup Upstream(r)) \ {r}

(* A junction table references the tables it joins.                         *)
JunctionsReference == \A e \in Through : <<e[2], e[1]>> \in Refs

(* Whatever the server drops for a change of a resource, the browser drops   *)
(* too ("both cache layers drop the same scopes on a mutation"), the tables  *)
(* that only an m2m junction connects included.                             *)
LinkedCoversDependents ==
    JunctionsReference => \A r \in Resource : Dependents(r) \subseteq linkedResourceIds(r)
=============================================================================
