------------------------- MODULE MCMutationPipeline -------------------------
(* Posts with tags through a junction, and the roles.                       *)
EXTENDS MutationPipeline, TLC

CONSTANTS posts, tags, links, roles, p, t, l, role, m1, b1

MCResource == {posts, tags, links, roles}
MCRefs == {<<posts, tags>>, <<links, posts>>, <<links, tags>>}
MCThrough == {<<posts, links>>}
MCRecord == {p, t, l, role}
MCResourceOf == (p :> posts @@ t :> tags @@ l :> links @@ role :> roles)
MCJoins == {<<l, p>>, <<l, t>>}
MCView == {p, links}
MCRegistered == <<posts, tags, links, roles>>

Ask(a, r, S, i, k, by) ==
    [action |-> a, resource |-> r, recs |-> S, invalidates |-> i, links |-> k, by |-> by]
editPost(b) == Ask("edit", posts, {p}, {}, TRUE, b)
bulkPost(b) == Ask("bulkDelete", posts, {p}, {}, TRUE, b)
editTag(b) == Ask("edit", tags, {t}, {}, FALSE, b)
customRole(b) == Ask("custom", roles, {role}, {roles}, FALSE, b)

AnyRequest == (m1 :> {editPost(None), editTag(None), editTag(b1), bulkPost(None), customRole(None)})

ASSUME MCDeployment == Declared /\ PlainRelations /\ OpenJunctions
====
