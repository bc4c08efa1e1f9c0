----------------------- MODULE MutationPipelineProofs -----------------------
(* What holds of MutationPipeline for any resources, records, relations,      *)
(* pages and requests: what the server drops the browser drops too, and a     *)
(* read that begins after a write was answered returns that write.            *)
EXTENDS MutationPipeline, TLAPS

(***************************************************************************)
(* Every resource whose caches the server invalidates for a change of r    *)
(* (getCacheDependents) is one whose queries the browser invalidates       *)
(* (linkedResourceIds), if a junction references the tables it joins.      *)
(***************************************************************************)
THEOREM LinkedTables == LinkedCoversDependents
<1> SUFFICES ASSUME JunctionsReference,
                    NEW r \in Resource, NEW d \in Dependents(r)
             PROVE  d \in linkedResourceIds(r)
    BY DEF LinkedCoversDependents
<1>1. d \in Resource /\ d # r /\ (<<d, r>> \in Refs \/ <<d, r>> \in Through)
    BY DEF Dependents
<1>2. CASE <<d, r>> \in Refs
    BY <1>1, <1>2 DEF linkedResourceIds
\* r holds the rows of an m2m property of d, so it references d.
<1>3. CASE <<d, r>> \in Through
    <2>1. <<r, d>> \in Refs
        BY <1>3 DEF JunctionsReference
    <2> QED BY <1>1, <2>1 DEF linkedResourceIds
<1> QED BY <1>1, <1>2, <1>3

-----------------------------------------------------------------------------
(* What a value stored under a key is built from, and the tags it has. *)

Covers(k) == IF k = <<"perms">> THEN {RoleRecord}
             ELSE IF k[1] = "http" THEN Embeds(k[2]) ELSE Own(k[2]) \cup Populated(k[2])

LEMMA Keys ==
    /\ <<"perms">> \in Key
    /\ TagsOf(<<"perms">>) = {<<"perms">>} /\ Covers(<<"perms">>) = {RoleRecord}
    /\ \A v \in View :
         /\ <<"http", v>> \in Key /\ <<"action", v>> \in Key
         /\ <<"http", v>> # <<"action", v>>
         /\ <<"http", v>> # <<"perms">> /\ <<"action", v>> # <<"perms">>
         /\ TagsOf(<<"http", v>>) = ViewTags(v) \cup {<<"perms">>}
         /\ TagsOf(<<"action", v>>) = ViewTags(v)
         /\ Covers(<<"http", v>>) = Embeds(v)
         /\ Covers(<<"action", v>>) = Own(v) \cup Populated(v)
    /\ \A k \in Key : \/ k = <<"perms">>
                      \/ \E v \in View : k \in {<<"http", v>>, <<"action", v>>}
<1>1. <<"perms">> \in Key /\ TagsOf(<<"perms">>) = {<<"perms">>} /\ Covers(<<"perms">>) = {RoleRecord}
  BY DEF Key, TagsOf, Covers
<1>2. ASSUME NEW v \in View, NEW l \in {"http", "action"}
      PROVE  /\ <<l, v>> \in Key /\ <<l, v>> # <<"perms">>
             /\ <<l, v>>[1] = l /\ <<l, v>>[2] = v
  BY DEF Key
<1>3. ASSUME NEW v \in View
      PROVE  /\ TagsOf(<<"http", v>>) = ViewTags(v) \cup {<<"perms">>}
             /\ TagsOf(<<"action", v>>) = ViewTags(v)
             /\ Covers(<<"http", v>>) = Embeds(v)
             /\ Covers(<<"action", v>>) = Own(v) \cup Populated(v)
  BY <1>2 DEF TagsOf, Covers
<1>4. \A k \in Key : \/ k = <<"perms">>
                     \/ \E v \in View : k \in {<<"http", v>>, <<"action", v>>}
  BY DEF Key
<1> QED BY <1>1, <1>2, <1>3, <1>4

LEMMA EmbedsRecords ==
    ASSUME PipelineAssumption, NEW v \in View
    PROVE  /\ Embeds(v) \subseteq Record /\ Own(v) \subseteq Record /\ Populated(v) \subseteq Record
           /\ RoleRecord \in Embeds(v) /\ Own(v) \subseteq Embeds(v)
           /\ Populated(v) \subseteq Embeds(v)
           /\ Junction(v) \subseteq Embeds(v) /\ Named(v) \subseteq Embeds(v)
  BY DEF PipelineAssumption, Embeds, Own, Populated, Junction, Named, Rows

\* The tags of a page that an invalidation of the rows recs of r drops.
LEMMA PagesDropped ==
    ASSUME PipelineAssumption, NEW v \in View, NEW r \in Resource, NEW recs,
           \/ Of(v) \in Dependents(r)
           \/ v = r
           \/ v \in recs /\ v \in Record
           \/ recs = {} /\ Of(v) = r
    PROVE  ViewTags(v) \cap ResourceTags(r, recs) # {}
<1>1. CASE v \in Resource
  <2>1. Of(v) = v /\ ViewTags(v) = {<<"list", v>>} /\ v \notin Record
    BY <1>1 DEF Of, ViewTags, PipelineAssumption
  <2>2. <<"list", v>> \in ResourceTags(r, recs)
    BY <1>1, <2>1 DEF ResourceTags
  <2> QED BY <2>1, <2>2
<1>2. CASE v \notin Resource
  <2>1. v \in Record /\ ViewTags(v) = {<<"record", v>>, <<"records", Of(v)>>}
    BY <1>2 DEF ViewTags, PipelineAssumption
  <2>2. CASE Of(v) \in Dependents(r)
    <3>1. <<"records", Of(v)>> \in ResourceTags(r, recs)
      BY <2>2 DEF ResourceTags
    <3> QED BY <2>1, <3>1
  <2>3. CASE v \in recs
    <3>1. <<"record", v>> \in ResourceTags(r, recs)
      BY <2>3 DEF ResourceTags
    <3> QED BY <2>1, <3>1
  <2>4. CASE recs = {} /\ Of(v) = r
    <3>1. <<"records", r>> \in ResourceTags(r, recs)
      BY <2>4 DEF ResourceTags
    <3> QED BY <2>1, <2>4, <3>1
  <2> QED BY <1>2, <2>2, <2>3, <2>4
<1> QED BY <1>1, <1>2

LinkTags(q) == UNION {ResourceTags(ResourceOf[s], {}) : s \in LinkRows(q)}
TargetTags(q, r) == ResourceTags(r, IF r = q.resource THEN q.recs ELSE {})
RoleTags(q) == IF ResourceOf[RoleRecord] \in Targets(q) THEN {<<"perms">>} ELSE {}

\* What the central invalidation drops for the rows a request names.
LEMMA RecordsDropped ==
    ASSUME PipelineAssumption, Declared, PlainRelations,
           NEW m \in Mutation, NEW q \in Requests[m], NEW s \in q.recs,
           NEW k \in Key, s \in Covers(k)
    PROVE  TagsOf(k) \cap (TargetTags(q, q.resource) \cup RoleTags(q)) # {}
<1> DEFINE r == q.resource
<1>1. /\ s \in Record /\ ResourceOf[s] = r /\ r \in Resource /\ r \in Targets(q)
      /\ TargetTags(q, r) = ResourceTags(r, q.recs)
  BY DEF PipelineAssumption, Declared, Targets, TargetTags
<1>2. s = RoleRecord => <<"perms">> \in RoleTags(q)
  BY <1>1 DEF RoleTags
<1>3. ASSUME NEW v \in View, s \in Own(v) \cup Populated(v)
      PROVE  ViewTags(v) \cap ResourceTags(r, q.recs) # {}
  <2>1. CASE v \in Resource
    <3>1. v = r \/ <<v, r>> \in Refs
      BY <1>1, <1>3, <2>1 DEF Own, Populated, Rows
    <3>2. v = r \/ Of(v) \in Dependents(r)
      BY <2>1, <3>1 DEF Dependents, Of
    <3> QED BY <1>1, <3>2, PagesDropped
  <2>2. CASE v \notin Resource
    <3>1. v = s
      BY <1>3, <2>2 DEF Own, Populated
    <3> QED BY <1>1, <3>1, PagesDropped
  <2> QED BY <2>1, <2>2
<1>4. ASSUME NEW v \in View, s \in Junction(v) \cup Named(v)
      PROVE  ViewTags(v) \cap ResourceTags(r, q.recs) # {}
  <2>0. Of(v) \in Resource
    BY DEF PipelineAssumption, Of
  <2>1. CASE s \in Junction(v)
    <3>1. <<Of(v), r>> \in Through
      BY <1>1, <2>1 DEF Junction
    <3>2. Of(v) # r
      <4>1. <<Of(v), r>>[1] # <<Of(v), r>>[2]
        BY <3>1 DEF PlainRelations
      <4> QED BY <4>1
    <3>3. Of(v) \in Dependents(r)
      BY <2>0, <3>1, <3>2 DEF Dependents
    <3> QED BY <1>1, <3>3, PagesDropped
  <2>2. CASE s \in Named(v)
    <3>1. PICK l \in Junction(v) : <<l, s>> \in Joins
      BY <2>2 DEF Named
    <3>2. <<Of(v), r>> \in Refs
      BY <1>1, <2>2 DEF Named
    <3>3. CASE Of(v) # r
      <4>1. Of(v) \in Dependents(r)
        BY <2>0, <3>2, <3>3 DEF Dependents
      <4> QED BY <1>1, <4>1, PagesDropped
    <3>4. CASE Of(v) = r
      <4>1. CASE v \in Resource
        <5>1. v = r
          BY <3>4, <4>1 DEF Of
        <5> QED BY <1>1, <5>1, PagesDropped
      <4>2. CASE v \notin Resource
        <5>1. v \in Record /\ <<l, v>> \in Joins /\ ResourceOf[v] = r
          BY <3>1, <3>4, <4>2 DEF Junction, Of, PipelineAssumption
        <5>2. <<l, s>>[1] = l /\ <<l, v>>[1] = l /\ <<l, s>>[2] = s /\ <<l, v>>[2] = v
          OBVIOUS
        <5>3. v = s
          BY <1>1, <3>1, <5>1, <5>2 DEF PlainRelations
        <5> QED BY <1>1, <5>1, <5>3, PagesDropped
      <4> QED BY <4>1, <4>2
    <3> QED BY <3>3, <3>4
  <2> QED BY <1>4, <2>1, <2>2
<1> HIDE DEF r
<1>5. CASE k = <<"perms">>
  BY <1>2, <1>5, Keys
<1>6. ASSUME NEW v \in View, k = <<"action", v>>
      PROVE  TagsOf(k) \cap (TargetTags(q, r) \cup RoleTags(q)) # {}
  <2>1. TagsOf(k) = ViewTags(v) /\ s \in Own(v) \cup Populated(v)
    BY <1>6, Keys
  <2> QED BY <1>1, <1>3, <2>1
<1>7. ASSUME NEW v \in View, k = <<"http", v>>
      PROVE  TagsOf(k) \cap (TargetTags(q, r) \cup RoleTags(q)) # {}
  <2>1. TagsOf(k) = ViewTags(v) \cup {<<"perms">>} /\ s \in Embeds(v)
    BY <1>7, Keys
  <2>2. CASE s = RoleRecord
    BY <1>2, <2>1, <2>2
  <2>3. CASE s \in Own(v) \cup Populated(v)
    BY <1>1, <1>3, <2>1, <2>3
  <2>4. CASE s \in Junction(v) \cup Named(v)
    BY <1>1, <1>4, <2>1, <2>4
  <2> QED BY <2>1, <2>2, <2>3, <2>4 DEF Embeds
<1> QED BY <1>5, <1>6, <1>7, Keys DEF r

\* What the m2m hook drops once it has written rows of the junction.
LEMMA LinksDropped ==
    ASSUME PipelineAssumption, PlainRelations,
           NEW m \in Mutation, NEW q \in Requests[m], NEW s \in LinkRows(q),
           NEW k \in Key, s \in Covers(k)
    PROVE  TagsOf(k) \cap LinkTags(q) # {}
<1> DEFINE j == ResourceOf[s]
<1>1. /\ s \in Record /\ j \in Resource /\ <<q.resource, j>> \in Through
      /\ ResourceTags(j, {}) \subseteq LinkTags(q)
  BY DEF PipelineAssumption, LinkRows, LinkTags
<1>2. s # RoleRecord
  <2>1. <<q.resource, j>>[2] # ResourceOf[RoleRecord]
    BY <1>1 DEF PlainRelations
  <2> QED BY <2>1
<1> HIDE DEF j
<1>3. ASSUME NEW v \in View, s \in Embeds(v)
      PROVE  ViewTags(v) \cap LinkTags(q) # {}
  <2>0. Of(v) \in Resource /\ j = ResourceOf[s]
    BY DEF PipelineAssumption, Of, j
  <2>1. \/ Of(v) = j \/ <<Of(v), j>> \in Refs \cup Through
    BY <1>1, <1>2, <1>3, <2>0 DEF Embeds, Own, Populated, Junction, Named, Rows, Of
  <2>2. Of(v) = j \/ Of(v) \in Dependents(j)
    BY <2>0, <2>1 DEF Dependents
  <2>3. ViewTags(v) \cap ResourceTags(j, {}) # {}
    BY <1>1, <2>2, PagesDropped
  <2> QED BY <1>1, <2>3
<1>4. CASE k = <<"perms">>
  BY <1>2, <1>4, Keys
<1>5. ASSUME NEW v \in View, k = <<"action", v>> PROVE TagsOf(k) \cap LinkTags(q) # {}
  <2>1. TagsOf(k) = ViewTags(v) /\ s \in Embeds(v)
    BY <1>5, Keys DEF Embeds
  <2> QED BY <1>3, <2>1
<1>6. ASSUME NEW v \in View, k = <<"http", v>> PROVE TagsOf(k) \cap LinkTags(q) # {}
  <2>1. ViewTags(v) \subseteq TagsOf(k) /\ s \in Embeds(v)
    BY ZenonT(40), <1>6, Keys
  <2> QED BY <1>3, <2>1
<1> QED BY <1>4, <1>5, <1>6, Keys

\* bulkDelete drops the junction's tags before its transaction commits, so
\* after the commit the rows of the junction depend on the central invalidation.
LEMMA BulkLinksDropped ==
    ASSUME PipelineAssumption, Declared, PlainRelations, OpenJunctions,
           NEW m \in Mutation, NEW q \in Requests[m], q.action = "bulkDelete",
           NEW s \in LinkRows(q), NEW k \in Key, s \in Covers(k)
    PROVE  TagsOf(k) \cap TargetTags(q, q.resource) # {}
<1> DEFINE r == q.resource
           j == ResourceOf[s]
<1>1. /\ s \in Record /\ j \in Resource /\ r \in Resource /\ <<r, j>> \in Through
      /\ \E p \in q.recs : <<s, p>> \in Joins
      /\ TargetTags(q, r) = ResourceTags(r, q.recs)
  BY DEF PipelineAssumption, LinkRows, TargetTags
<1>0. <<r, j>>[1] = r /\ <<r, j>>[2] = j
  OBVIOUS
<1>2. /\ s # RoleRecord /\ r # j
      /\ <<j, r>> \in Refs /\ <<r, j>> \notin Refs
      /\ \A d \in Resource : <<d, j>> \in Refs \cup Through => d = r \/ <<d, r>> \in Refs
  BY <1>0, <1>1 DEF PlainRelations, OpenJunctions, JunctionsReference
<1>3. ASSUME NEW v \in View, s \in Embeds(v)
      PROVE  ViewTags(v) \cap ResourceTags(r, q.recs) # {}
  <2>0. Of(v) \in Resource
    BY DEF PipelineAssumption, Of
  <2>1. CASE Of(v) # r
    <3>1. \/ Of(v) = j \/ <<Of(v), j>> \in Refs \cup Through
      BY <1>1, <1>2, <1>3 DEF Embeds, Own, Populated, Junction, Named, Rows, Of
    <3>2. Of(v) \in Dependents(r)
      BY <1>2, <2>0, <2>1, <3>1 DEF Dependents
    <3> QED BY <1>1, <3>2, PagesDropped
  <2>2. CASE Of(v) = r /\ v \in Resource
    BY <1>1, <2>2, PagesDropped DEF Of
  <2>3. CASE Of(v) = r /\ v \notin Resource
    <3>1. v \in Record /\ ResourceOf[v] = r /\ v # s
      BY <1>2, <2>3 DEF PipelineAssumption, Of
    <3>2. s \in Junction(v) \/ s \in Named(v)
      BY <1>2, <1>3, <2>3, <3>1 DEF Embeds, Own, Populated
    <3>3. s \notin Named(v)
      BY <1>2, <2>3 DEF Named
    <3>4. <<s, v>> \in Joins
      BY <2>3, <3>2, <3>3 DEF Junction
    <3>5. PICK p \in q.recs : <<s, p>> \in Joins
      BY <1>1
    <3>6. ResourceOf[p] = r
      BY DEF Declared
    <3>7. <<s, p>>[1] = <<s, v>>[1] /\ <<s, p>>[2] = p /\ <<s, v>>[2] = v
      OBVIOUS
    <3>8. v = p
      BY <3>1, <3>4, <3>5, <3>6, <3>7 DEF PlainRelations
    <3> QED BY <1>1, <3>1, <3>5, <3>8, PagesDropped
  <2> QED BY <2>1, <2>2, <2>3
<1> HIDE DEF r, j
<1>4. CASE k = <<"perms">>
  BY <1>2, <1>4, Keys
<1>5. ASSUME NEW v \in View, k = <<"action", v>> PROVE TagsOf(k) \cap TargetTags(q, r) # {}
  <2>1. TagsOf(k) = ViewTags(v) /\ s \in Embeds(v)
    BY <1>5, Keys DEF Embeds
  <2> QED BY <1>1, <1>3, <2>1
<1>6. ASSUME NEW v \in View, k = <<"http", v>> PROVE TagsOf(k) \cap TargetTags(q, r) # {}
  <2>1. ViewTags(v) \subseteq TagsOf(k) /\ s \in Embeds(v)
    BY ZenonT(40), <1>6, Keys
  <2> QED BY <1>1, <1>3, <2>1
<1> QED BY <1>4, <1>5, <1>6, Keys DEF r

-----------------------------------------------------------------------------
(* The types of what the proofs are about. *)

Versions == [Record -> Nat]
MutationPcs == {"idle", "commit", "hook", "hooked", "central", "publish", "answer", "done", "failed"}
FetchPcs == {"idle", "gate", "gateRead", "gatePut", "handler", "rows", "populate", "put", "junction",
             "named", "annotate", "annotateRead", "annotatePut", "answer"}
Asked == UNION {Requests[m] : m \in Mutation}

TypeInv ==
    /\ db \in Versions /\ acked \in Versions
    /\ entry \in [Key -> Versions \cup {None}]
    /\ fresh \in [Browser -> SUBSET Key]
    /\ mpc \in [Mutation -> MutationPcs] /\ req \in [Mutation -> Asked \cup {None}]
    /\ todo \in [Mutation -> SUBSET Resource] /\ mver \in [Mutation -> Versions]
    /\ view \in [Browser -> View] /\ pc \in [Browser -> FetchPcs]
    /\ val \in [Browser -> Versions] /\ floor \in [Browser -> Versions]

\* A version is never ahead of the database, a floor never of the answers.
Behind ==
    \A s \in Record :
        /\ acked[s] <= db[s]
        /\ \A m \in Mutation : mver[m][s] <= db[s]
        /\ \A b \in Browser : val[b][s] <= db[s] /\ floor[b][s] <= acked[s]
        /\ \A k \in Key : entry[k] # None => entry[k][s] <= db[s]

\* A mutation under way answers one of its requests.
Under(m) ==
    /\ mpc[m] \notin {"idle", "done"} => req[m] \in Requests[m]
    /\ mpc[m] \in {"hook", "hooked", "commit"} => todo[m] = Targets(req[m])
    /\ mpc[m] = "commit" => req[m].action = "bulkDelete"

-----------------------------------------------------------------------------
(* The tags a mutation has still to invalidate, and the versions of s a value  *)
(* under k must not be older than: those answered, and those written by a      *)
(* mutation that will not drop k any more.                                     *)
AllTags(q, targets) == UNION {TargetTags(q, r) : r \in targets}
CentralTags(q, targets) == AllTags(q, targets) \cup RoleTags(q)

Remaining(l, q, targets) ==
    (IF l \in {"hook", "hooked"} THEN LinkTags(q) ELSE {})
    \cup (IF l \in {"commit", "hook", "hooked", "central"} THEN CentralTags(q, targets) ELSE {})

Pending(m) == Remaining(mpc[m], req[m], todo[m])

Passed(m, k) == mpc[m] \notin {"failed", "done"} /\ TagsOf(k) \cap Pending(m) = {}

Due(k, s) == {acked[s]} \cup {mver[m][s] : m \in {n \in Mutation : Passed(n, k)}}

EntriesDue ==
    \A k \in Key : entry[k] # None =>
        \A s \in Covers(k) : \A n \in Due(k, s) : n <= entry[k][s]

(* What a fetch has read: for the page, and for the key of a read of its.      *)
ReadRole == FetchPcs \ {"idle", "gate", "gateRead"}
ReadOwn == ReadRole \ {"gatePut", "handler", "rows"}
ReadPopulated == ReadOwn \ {"populate"}
ReadNamed == {"annotate", "annotateRead", "annotatePut", "answer"}
ReadJunction == ReadNamed \cup {"named"}

Seen(p, v) ==
    {s \in Record :
        \/ s = RoleRecord /\ p \in ReadRole
        \/ s \in Own(v) /\ p \in ReadOwn
        \/ s \in Populated(v) /\ p \in ReadPopulated
        \/ s \in Junction(v) /\ p \in ReadJunction
        \/ s \in Named(v) /\ p \in ReadNamed}

Got(p, v, k) ==
    {s \in Record :
        \/ k = <<"http", v>> /\ s \in Seen(p, v)
        \/ /\ k = <<"action", v>>
           /\ \/ s \in Own(v) /\ p \in {"populate", "put"}
              \/ s \in Populated(v) /\ p = "put"
        \/ k = <<"perms">> /\ s = RoleRecord /\ p \in {"gatePut", "annotatePut"}}

\* The reads under way: a key may be stored only between its miss and its store.
Live(p, v, k) ==
    \/ k = <<"http", v>> /\ p # "idle"
    \/ k = <<"action", v>> /\ p \in {"rows", "populate", "put"}
    \/ k = <<"perms">> /\ p \in {"gateRead", "gatePut", "annotateRead", "annotatePut"}

FetchDue(b) ==
    /\ \A k \in fresh[b] :
         /\ Live(pc[b], view[b], k)
         /\ \A s \in Got(pc[b], view[b], k) : \A n \in Due(k, s) : n <= val[b][s]
    /\ \A s \in Seen(pc[b], view[b]) : floor[b][s] <= val[b][s]

Inv == /\ TypeInv /\ Behind
       /\ \A m \in Mutation : Under(m)
       /\ EntriesDue
       /\ \A b \in Browser : FetchDue(b)

-----------------------------------------------------------------------------
LEMMA GotCovered ==
    ASSUME PipelineAssumption, NEW p, NEW v \in View, NEW k \in Key
    PROVE  /\ Got(p, v, k) \subseteq Covers(k)
           /\ Seen(p, v) \subseteq Embeds(v)
           /\ p = "answer" => Seen(p, v) = Embeds(v)
<1>1. Seen(p, v) \subseteq Embeds(v)
  BY EmbedsRecords DEF Seen
<1>2. p = "answer" => Seen(p, v) = Embeds(v)
  BY EmbedsRecords DEF Seen, ReadRole, ReadOwn, ReadPopulated, ReadJunction, ReadNamed, FetchPcs,
                       Embeds
<1>3. CASE k = <<"perms">>
  BY <1>1, <1>2, <1>3, Keys DEF Got
<1>4. CASE k = <<"http", v>>
  <2>1. Covers(k) = Embeds(v) /\ k # <<"action", v>> /\ k # <<"perms">>
    BY <1>4, Keys
  <2>2. Got(p, v, k) \subseteq Seen(p, v)
    BY <2>1 DEF Got
  <2> QED BY <1>1, <1>2, <2>1, <2>2
<1>5. CASE k = <<"action", v>>
  BY ZenonT(40), <1>1, <1>2, <1>5, Keys DEF Got
<1>6. CASE k \notin {<<"perms">>, <<"http", v>>, <<"action", v>>}
  BY <1>1, <1>2, <1>6 DEF Got
<1> QED BY <1>1, <1>2, <1>3, <1>4, <1>5, <1>6

\* What may be due is in the database by now, so a query reads it.
LEMMA DueBehind ==
    ASSUME TypeInv, Behind, NEW k, NEW s \in Record, NEW n \in Due(k, s)
    PROVE  n \in Nat /\ n <= db[s]
  BY DEF TypeInv, Versions, Behind, Due

\* A page's own cache entry waits for what an inner one does: its tags are more.
LEMMA DueWithin ==
    ASSUME NEW k, NEW h, TagsOf(k) \subseteq TagsOf(h), NEW s
    PROVE  Due(h, s) \subseteq Due(k, s)
<1>1. \A m \in Mutation : Passed(m, h) => Passed(m, k)
  BY DEF Passed
<1> QED BY <1>1 DEF Due

\* A step of a mutation that drops the tags ts, or none: what is kept, in the
\* caches and in the fetches under way, is still as recent as it has to be.
LEMMA DropKeeps ==
    ASSUME PipelineAssumption, Inv, NEW ts,
           \A k \in Key : entry'[k] = None \/ (entry'[k] = entry[k] /\ TagsOf(k) \cap ts = {}),
           \A b \in Browser : \A k \in fresh'[b] : k \in fresh[b] /\ TagsOf(k) \cap ts = {},
           UNCHANGED <<pc, val, floor, view>>,
           \A k \in Key : TagsOf(k) \cap ts = {} =>
               \A s \in Covers(k) : Due(k, s)' \subseteq Due(k, s)
    PROVE  EntriesDue' /\ \A b \in Browser : FetchDue(b)'
<1>1. EntriesDue'
  BY DEF Inv, EntriesDue
<1>2. ASSUME NEW b \in Browser PROVE FetchDue(b)'
  <2>1. FetchDue(b) /\ fresh[b] \subseteq Key /\ view[b] \in View
    BY DEF Inv, TypeInv
  <2>2. \A k \in fresh'[b] : \A s \in Got(pc[b], view[b], k) : Due(k, s)' \subseteq Due(k, s)
    BY <2>1, GotCovered
  <2> QED BY <2>1, <2>2 DEF FetchDue
<1> QED BY <1>1, <1>2

\* The step of m adds nothing to what is due under keys whose tags it drops not.
LEMMA DueShrinks ==
    ASSUME NEW m \in Mutation, NEW k, NEW s, NEW ts, TagsOf(k) \cap ts = {},
           UNCHANGED acked,
           \A n \in Mutation \ {m} : mpc'[n] = mpc[n] /\ req'[n] = req[n] /\ todo'[n] = todo[n]
                                     /\ mver'[n] = mver[n],
           Passed(m, k)' => Passed(m, k) /\ mver'[m][s] = mver[m][s]
    PROVE  Due(k, s)' \subseteq Due(k, s)
<1>1. \A n \in Mutation \ {m} : Pending(n)' = Pending(n)
  BY DEF Pending
<1>2. \A n \in Mutation \ {m} : Passed(n, k)' => Passed(n, k) /\ mver'[n] = mver[n]
  BY <1>1 DEF Passed
<1> QED BY <1>2 DEF Due

\* Write changes the versions of S only, and they grow.
LEMMA WriteGrows ==
    ASSUME TypeInv, Behind, NEW m \in Mutation, NEW S \in SUBSET Record, Write(m, S)
    PROVE  /\ db' \in Versions /\ mver' \in [Mutation -> Versions]
           /\ \A s \in Record : /\ db[s] <= db'[s]
                                /\ s \notin S => mver'[m][s] = mver[m][s]
           /\ \A n \in Mutation \ {m} : mver'[n] = mver[n]
           /\ \A n \in Mutation, s \in Record : mver'[n][s] <= db'[s]
<1> DEFINE w == [s \in Record |-> IF s \in S THEN db'[s] ELSE mver[m][s]]
<1>0. db \in Versions /\ mver \in [Mutation -> Versions]
  BY DEF TypeInv
<1>1. /\ db' = [s \in Record |-> IF s \in S THEN db[s] + 1 ELSE db[s]]
      /\ mver' = [mver EXCEPT ![m] = w]
  BY DEF Write
<1>2. db' \in Versions /\ \A s \in Record : db[s] \in Nat /\ db'[s] \in Nat /\ db[s] <= db'[s]
  BY <1>0, <1>1 DEF Versions
<1>3. w \in Versions
  BY <1>0, <1>2 DEF Versions
<1>4. /\ mver' \in [Mutation -> Versions] /\ mver'[m] = w
      /\ \A n \in Mutation \ {m} : mver'[n] = mver[n]
  <2> HIDE DEF w
  <2> QED BY <1>0, <1>1, <1>3
<1>5. \A n \in Mutation, s \in Record : mver[n][s] \in Nat /\ mver[n][s] <= db[s]
  BY <1>0 DEF Versions, Behind
<1>6. \A n \in Mutation, s \in Record : mver'[n][s] <= db'[s]
  BY <1>2, <1>4, <1>5
<1>7. \A s \in Record : s \notin S => mver'[m][s] = mver[m][s]
  BY <1>4
<1> QED BY <1>2, <1>4, <1>6, <1>7

\* The caches after an invalidation.
LEMMA InvalidatedTags ==
    ASSUME TypeInv, Behind, NEW ts, invalidateTags(ts)
    PROVE  /\ entry' \in [Key -> Versions \cup {None}]
           /\ fresh' \in [Browser -> SUBSET Key]
           /\ \A k \in Key : entry'[k] = None \/ (entry'[k] = entry[k] /\ TagsOf(k) \cap ts = {})
           /\ \A b \in Browser : \A k \in fresh'[b] : k \in fresh[b] /\ TagsOf(k) \cap ts = {}
  BY DEF TypeInv, invalidateTags

-----------------------------------------------------------------------------
(* The steps of invoke() of a mutation. *)

Others(m) ==
    \A n \in Mutation \ {m} : mpc'[n] = mpc[n] /\ req'[n] = req[n] /\ todo'[n] = todo[n]
                              /\ mver'[n] = mver[n]

\* What every step of m but its answer has to show: the types, and that m is
\* past a key only if it was before and has not written what the key covers.
LEMMA MutationKeeps ==
    ASSUME PipelineAssumption, Inv, NEW m \in Mutation, NEW ts,
           TypeInv', Behind', Under(m)', Others(m), UNCHANGED <<acked, pc, val, floor, view>>,
           \A k \in Key : entry'[k] = None \/ (entry'[k] = entry[k] /\ TagsOf(k) \cap ts = {}),
           \A b \in Browser : \A k \in fresh'[b] : k \in fresh[b] /\ TagsOf(k) \cap ts = {},
           \A k \in Key : TagsOf(k) \cap ts = {} /\ Passed(m, k)' =>
               Passed(m, k) /\ \A s \in Covers(k) : mver'[m][s] = mver[m][s]
    PROVE  Inv'
<1>1. \A k \in Key : TagsOf(k) \cap ts = {} =>
          \A s \in Covers(k) : Due(k, s)' \subseteq Due(k, s)
  BY ZenonT(40), DueShrinks DEF Others
<1>2. EntriesDue' /\ \A b \in Browser : FetchDue(b)'
  BY <1>1, DropKeeps
<1>3. \A n \in Mutation : Under(n)'
  BY DEF Inv, Others, Under
<1> QED BY <1>2, <1>3 DEF Inv

\* The same for a step that leaves the caches alone.
LEMMA QuietStepKeeps ==
    ASSUME PipelineAssumption, Inv, NEW m \in Mutation,
           TypeInv', Behind', Under(m)', Others(m),
           UNCHANGED <<entry, fresh, acked, pc, val, floor, view>>,
           \A k \in Key : Passed(m, k)' =>
               Passed(m, k) /\ \A s \in Covers(k) : mver'[m][s] = mver[m][s]
    PROVE  Inv'
<1>1. PICK ts : ts = {}
  OBVIOUS
<1>2. \A k : TagsOf(k) \cap ts = {}
  BY <1>1
<1>3. UNCHANGED <<acked, pc, val, floor, view>>
  OBVIOUS
<1>4. /\ \A k \in Key : entry'[k] = None \/ (entry'[k] = entry[k] /\ TagsOf(k) \cap ts = {})
      /\ \A b \in Browser : \A k \in fresh'[b] : k \in fresh[b] /\ TagsOf(k) \cap ts = {}
  BY <1>2
<1>5. \A k \in Key : TagsOf(k) \cap ts = {} /\ Passed(m, k)' =>
         Passed(m, k) /\ \A s \in Covers(k) : mver'[m][s] = mver[m][s]
  OBVIOUS
<1> QED BY <1>3, <1>4, <1>5, MutationKeeps

LEMMA CoversRecords ==
    ASSUME PipelineAssumption, NEW k \in Key
    PROVE  Covers(k) \subseteq Record
<1>1. CASE k = <<"perms">>
  BY <1>1, Keys DEF PipelineAssumption
<1>2. ASSUME NEW v \in View, k \in {<<"http", v>>, <<"action", v>>} PROVE Covers(k) \subseteq Record
  <2>1. Covers(k) = Embeds(v) \/ Covers(k) = Own(v) \cup Populated(v)
    BY <1>2, Keys
  <2> QED BY <2>1, EmbedsRecords
<1> QED BY <1>1, <1>2, Keys

\* What m has still to invalidate, once its request and targets are known.
LEMMA RemainingTargets ==
    ASSUME NEW l \in {"commit", "hook", "hooked", "central"}, NEW q, NEW targets, NEW r \in targets
    PROVE  TargetTags(q, r) \cup RoleTags(q) \subseteq Remaining(l, q, targets)
<1>1. TargetTags(q, r) \cup RoleTags(q) \subseteq CentralTags(q, targets)
  <2>1. TargetTags(q, r) \subseteq AllTags(q, targets)
    BY DEF AllTags
  <2> QED BY <2>1 DEF CentralTags
<1>2. CentralTags(q, targets) \subseteq Remaining(l, q, targets)
  BY DEF Remaining
<1> QED BY <1>1, <1>2

\* After a write: nothing is ahead of the database.
LEMMA WriteBehind ==
    ASSUME TypeInv, Behind, NEW m \in Mutation, NEW S \in SUBSET Record, Write(m, S),
           UNCHANGED <<entry, acked, val, floor>>
    PROVE  Behind'
<1>1. /\ \A s \in Record : db[s] \in Nat /\ db'[s] \in Nat /\ db[s] <= db'[s]
      /\ \A n \in Mutation, s \in Record : mver'[n][s] <= db'[s]
  BY WriteGrows DEF TypeInv, Versions
<1>2. ASSUME NEW s \in Record
      PROVE  /\ acked[s] <= db'[s]
             /\ \A b \in Browser : val[b][s] <= db'[s] /\ floor[b][s] <= acked[s]
             /\ \A k \in Key : entry[k] # None => entry[k][s] <= db'[s]
  <2>1. acked[s] \in Nat /\ \A b \in Browser : val[b][s] \in Nat
    BY DEF TypeInv, Versions
  <2>2. \A k \in Key : entry[k] # None => entry[k][s] \in Nat
    BY DEF TypeInv, Versions
  <2>3. /\ acked[s] <= db[s]
        /\ \A b \in Browser : val[b][s] <= db[s] /\ floor[b][s] <= acked[s]
        /\ \A k \in Key : entry[k] # None => entry[k][s] <= db[s]
    BY DEF Behind
  <2> QED BY <1>1, <2>1, <2>2, <2>3
<1> QED BY <1>1, <1>2 DEF Behind

\* Types of the locals of m.
LEMMA MutationTypes ==
    ASSUME TypeInv, NEW m \in Mutation, NEW l \in MutationPcs, Goto(m, l)
    PROVE  /\ mpc' \in [Mutation -> MutationPcs] /\ mpc'[m] = l
           /\ \A n \in Mutation \ {m} : mpc'[n] = mpc[n]
  BY DEF TypeInv, Goto

LEMMA TargetsKnown ==
    ASSUME PipelineAssumption, NEW m \in Mutation, NEW q \in Requests[m]
    PROVE  /\ q \in Asked /\ Targets(q) \in SUBSET Resource /\ q.recs \in SUBSET Record
           /\ LinkRows(q) \in SUBSET Record /\ q.resource \in Resource
  BY DEF PipelineAssumption, Asked, Targets, LinkRows

LEMMA HandleKeeps ==
    ASSUME PipelineAssumption, Declared, PlainRelations, Inv,
           NEW m \in Mutation, NEW q \in Requests[m], Handle(m, q)
    PROVE  Inv'
<1>0. TypeInv /\ Behind
  BY DEF Inv
<1>1. /\ mpc[m] = "idle" /\ q.action # "bulkDelete"
      /\ req' = [req EXCEPT ![m] = q] /\ todo' = [todo EXCEPT ![m] = Targets(q)]
      /\ Write(m, q.recs)
      /\ UNCHANGED <<entry, fresh, acked, pc, val, floor, view>>
  BY DEF Handle, fetching, page
<1>2. PICK l \in {"hook", "central"} : Goto(m, l)
  BY DEF Handle
<1>3. /\ mpc' \in [Mutation -> MutationPcs] /\ mpc'[m] = l
      /\ \A n \in Mutation \ {m} : mpc'[n] = mpc[n]
  BY <1>0, <1>2, MutationTypes DEF MutationPcs
<1>4. /\ req' \in [Mutation -> Asked \cup {None}] /\ req'[m] = q
      /\ todo' \in [Mutation -> SUBSET Resource] /\ todo'[m] = Targets(q)
      /\ \A n \in Mutation \ {m} : req'[n] = req[n] /\ todo'[n] = todo[n]
  BY <1>0, <1>1, TargetsKnown DEF TypeInv
<1>5. /\ db' \in Versions /\ mver' \in [Mutation -> Versions]
      /\ \A s \in Record : s \notin q.recs => mver'[m][s] = mver[m][s]
      /\ \A n \in Mutation \ {m} : mver'[n] = mver[n]
  BY <1>0, <1>1, TargetsKnown, WriteGrows
<1>6. TypeInv'
  BY <1>0, <1>1, <1>3, <1>4, <1>5 DEF TypeInv
<1>7. Behind'
  BY <1>0, <1>1, TargetsKnown, WriteBehind
<1>8. Under(m)'
  BY <1>3, <1>4 DEF Under
<1>9. Others(m)
  BY <1>3, <1>4, <1>5 DEF Others
<1>10. TargetTags(q, q.resource) \cup RoleTags(q) \subseteq Pending(m)'
  <2>1. q.resource \in Targets(q)
    BY DEF Declared, Targets
  <2>2. mpc'[m] \in {"commit", "hook", "hooked", "central"} /\ q.resource \in todo'[m]
    BY <1>3, <1>4, <2>1
  <2>3. TargetTags(q, q.resource) \cup RoleTags(q) \subseteq Remaining(mpc'[m], q, todo'[m])
    BY <2>2, RemainingTargets
  <2> QED BY <1>4, <2>3 DEF Pending
<1>11. ASSUME NEW k \in Key, Passed(m, k)'
       PROVE  Passed(m, k) /\ \A s \in Covers(k) : mver'[m][s] = mver[m][s]
  <2>1. Passed(m, k)
    BY <1>1 DEF Passed, Pending, Remaining
  <2>2. \A s \in Covers(k) : s \notin q.recs
    BY <1>10, <1>11, RecordsDropped DEF Passed
  <2>3. Covers(k) \subseteq Record
    BY CoversRecords
  <2> QED BY <1>5, <2>1, <2>2, <2>3
<1> QED BY <1>1, <1>6, <1>7, <1>8, <1>9, <1>11, QuietStepKeeps

LEMMA BulkKeeps ==
    ASSUME PipelineAssumption, Inv, NEW m \in Mutation, NEW q \in Requests[m], BeginBulk(m, q)
    PROVE  Inv'
<1>0. TypeInv /\ Behind
  BY DEF Inv
<1>1. /\ mpc[m] = "idle" /\ q.action = "bulkDelete"
      /\ req' = [req EXCEPT ![m] = q] /\ todo' = [todo EXCEPT ![m] = Targets(q)]
      /\ Goto(m, "commit")
      /\ UNCHANGED <<db, mver, acked, pc, val, floor, view>>
  BY DEF BeginBulk, fetching, page
<1>2. /\ mpc' \in [Mutation -> MutationPcs] /\ mpc'[m] = "commit"
      /\ \A n \in Mutation \ {m} : mpc'[n] = mpc[n]
  BY <1>0, <1>1, MutationTypes DEF MutationPcs
<1>3. /\ req' \in [Mutation -> Asked \cup {None}] /\ req'[m] = q
      /\ todo' \in [Mutation -> SUBSET Resource] /\ todo'[m] = Targets(q)
      /\ \A n \in Mutation \ {m} : req'[n] = req[n] /\ todo'[n] = todo[n]
  BY <1>0, <1>1, TargetsKnown DEF TypeInv
<1> DEFINE ts == IF LinkRows(q) # {} THEN LinkTags(q) ELSE {}
<1>4. /\ entry' \in [Key -> Versions \cup {None}] /\ fresh' \in [Browser -> SUBSET Key]
      /\ \A k \in Key : entry'[k] = None \/ (entry'[k] = entry[k] /\ TagsOf(k) \cap ts = {})
      /\ \A b \in Browser : \A k \in fresh'[b] : k \in fresh[b] /\ TagsOf(k) \cap ts = {}
  <2>1. CASE LinkRows(q) # {}
    <3>1. invalidateTags(ts)
      BY <2>1 DEF BeginBulk, LinkTags
    <3> HIDE DEF ts
    <3> QED BY <1>0, <3>1, InvalidatedTags
  <2>2. CASE LinkRows(q) = {}
    BY <1>0, <2>2 DEF TypeInv, BeginBulk
  <2> QED BY <2>1, <2>2
<1> HIDE DEF ts
<1>5. TypeInv'
  BY <1>0, <1>1, <1>2, <1>3, <1>4 DEF TypeInv
<1>6. Behind'
  BY <1>0, <1>1, <1>4 DEF Behind
<1>7. Under(m)' /\ Others(m)
  BY <1>1, <1>2, <1>3 DEF Under, Others
<1>8. \A k \in Key : Passed(m, k)
  BY <1>1 DEF Passed, Pending, Remaining
<1> QED BY <1>1, <1>4, <1>5, <1>6, <1>7, <1>8, MutationKeeps


LEMMA CommitKeeps ==
    ASSUME PipelineAssumption, Declared, PlainRelations, OpenJunctions, Inv,
           NEW m \in Mutation, CommitBulk(m)
    PROVE  Inv'
<1>0. TypeInv /\ Behind /\ Under(m)
  BY DEF Inv
<1>1. /\ mpc[m] = "commit" /\ Goto(m, "central")
      /\ Write(m, req[m].recs \cup LinkRows(req[m]))
      /\ UNCHANGED <<entry, fresh, req, todo, acked, pc, val, floor, view>>
  BY DEF CommitBulk, fetching, page
<1>2. PICK q \in Requests[m] : q = req[m] /\ todo[m] = Targets(q) /\ q.action = "bulkDelete"
  BY <1>0, <1>1 DEF Under
<1>3. PICK S \in SUBSET Record : S = q.recs \cup LinkRows(q)
  BY <1>2, TargetsKnown
<1>4. Write(m, S)
  BY <1>1, <1>2, <1>3
<1>5. /\ mpc' \in [Mutation -> MutationPcs] /\ mpc'[m] = "central"
      /\ \A n \in Mutation \ {m} : mpc'[n] = mpc[n]
  BY <1>0, <1>1, MutationTypes DEF MutationPcs
<1>6. /\ db' \in Versions /\ mver' \in [Mutation -> Versions]
      /\ \A s \in Record : s \notin S => mver'[m][s] = mver[m][s]
      /\ \A n \in Mutation \ {m} : mver'[n] = mver[n]
  BY <1>0, <1>4, WriteGrows
<1>7. TypeInv'
  BY <1>0, <1>1, <1>5, <1>6 DEF TypeInv
<1>8. Behind'
  BY <1>0, <1>1, <1>4, WriteBehind
<1>9. Under(m)' /\ Others(m)
  BY <1>1, <1>2, <1>5, <1>6 DEF Under, Others
<1>10. TargetTags(q, q.resource) \cup RoleTags(q) \subseteq Pending(m) \cap Pending(m)'
  <2>1. q.resource \in Targets(q)
    BY DEF Declared, Targets
  <2>2. TargetTags(q, q.resource) \cup RoleTags(q) \subseteq Remaining("commit", q, todo[m])
    BY <1>2, <2>1, RemainingTargets
  <2>3. TargetTags(q, q.resource) \cup RoleTags(q) \subseteq Remaining("central", q, todo[m])
    BY <1>2, <2>1, RemainingTargets
  <2> QED BY <1>1, <1>2, <1>5, <2>2, <2>3 DEF Pending
<1>11. ASSUME NEW k \in Key, Passed(m, k)'
       PROVE  Passed(m, k) /\ \A s \in Covers(k) : mver'[m][s] = mver[m][s]
  <2>1. Passed(m, k)
    <3>1. Pending(m)' = Pending(m)
      BY <1>1, <1>5 DEF Pending, Remaining
    <3> QED BY <1>1, <1>11, <3>1 DEF Passed
  <2>2. \A s \in Covers(k) : s \notin q.recs
    BY <1>10, <1>11, RecordsDropped DEF Passed
  <2>3. \A s \in Covers(k) : s \notin LinkRows(q)
    BY <1>2, <1>10, <1>11, BulkLinksDropped DEF Passed
  <2>4. Covers(k) \subseteq Record
    BY CoversRecords
  <2> QED BY <1>3, <1>6, <2>1, <2>2, <2>3, <2>4
<1> QED BY <1>1, <1>7, <1>8, <1>9, <1>11, QuietStepKeeps

LEMMA WriteHookKeeps ==
    ASSUME PipelineAssumption, PlainRelations, Inv, NEW m \in Mutation, WriteHook(m)
    PROVE  Inv'
<1>0. TypeInv /\ Behind /\ Under(m)
  BY DEF Inv
<1>1. /\ mpc[m] = "hook"
      /\ UNCHANGED <<entry, fresh, req, todo, acked, pc, val, floor, view>>
  BY DEF WriteHook, fetching, page
<1>2. PICK q \in Requests[m] : q = req[m] /\ todo[m] = Targets(q)
  BY <1>0, <1>1 DEF Under
<1>3. CASE Write(m, LinkRows(req[m])) /\ Goto(m, "hooked")
  <2>1. PICK S \in SUBSET Record : S = LinkRows(q)
    BY <1>2, TargetsKnown
  <2>2. Write(m, S)
    BY <1>2, <1>3, <2>1
  <2>3. /\ mpc' \in [Mutation -> MutationPcs] /\ mpc'[m] = "hooked"
        /\ \A n \in Mutation \ {m} : mpc'[n] = mpc[n]
    BY <1>0, <1>3, MutationTypes DEF MutationPcs
  <2>4. /\ db' \in Versions /\ mver' \in [Mutation -> Versions]
        /\ \A s \in Record : s \notin S => mver'[m][s] = mver[m][s]
        /\ \A n \in Mutation \ {m} : mver'[n] = mver[n]
    BY <1>0, <2>2, WriteGrows
  <2>5. TypeInv'
    BY <1>0, <1>1, <2>3, <2>4 DEF TypeInv
  <2>6. Behind'
    BY <1>0, <1>1, <2>2, WriteBehind
  <2>7. Under(m)' /\ Others(m)
    BY <1>1, <1>2, <2>3, <2>4 DEF Under, Others
  <2>8. Pending(m)' = Pending(m) /\ LinkTags(q) \subseteq Pending(m)
    BY <1>1, <1>2, <2>3 DEF Pending, Remaining
  <2>9. ASSUME NEW k \in Key, Passed(m, k)'
        PROVE  Passed(m, k) /\ \A s \in Covers(k) : mver'[m][s] = mver[m][s]
    <3>1. Passed(m, k)
      BY <1>1, <2>8, <2>9 DEF Passed
    <3>2. TagsOf(k) \cap LinkTags(q) = {}
      BY <2>8, <3>1 DEF Passed
    <3>3. \A s \in Covers(k) : s \notin S
      BY <2>1, <3>2, LinksDropped
    <3> QED BY <2>4, <3>1, <3>3, CoversRecords
  <2> QED BY <1>1, <2>5, <2>6, <2>7, <2>9, QuietStepKeeps
<1>4. CASE Goto(m, "failed") /\ UNCHANGED <<db, mver>>
  <2>1. /\ mpc' \in [Mutation -> MutationPcs] /\ mpc'[m] = "failed"
        /\ \A n \in Mutation \ {m} : mpc'[n] = mpc[n]
    BY <1>0, <1>4, MutationTypes DEF MutationPcs
  <2>2. TypeInv'
    BY <1>0, <1>1, <1>4, <2>1 DEF TypeInv
  <2>3. Behind'
    BY <1>0, <1>1, <1>4 DEF Behind
  <2>4. Under(m)' /\ Others(m)
    BY <1>1, <1>2, <1>4, <2>1 DEF Under, Others
  <2>5. \A k \in Key : ~Passed(m, k)'
    BY <2>1 DEF Passed
  <2> QED BY <1>1, <2>2, <2>3, <2>4, <2>5, QuietStepKeeps
<1> QED BY <1>3, <1>4 DEF WriteHook

\* A step that invalidates ts and leaves the data alone: m is past what ts has.
LEMMA InvalidationKeeps ==
    ASSUME PipelineAssumption, Inv, NEW m \in Mutation, NEW ts,
           mpc[m] \notin {"failed", "done"},
           mpc' \in [Mutation -> MutationPcs], todo' \in [Mutation -> SUBSET Resource],
           Under(m)', Others(m), UNCHANGED <<db, req, mver, acked, pc, val, floor, view>>,
           entry' \in [Key -> Versions \cup {None}], fresh' \in [Browser -> SUBSET Key],
           \A k \in Key : entry'[k] = None \/ (entry'[k] = entry[k] /\ TagsOf(k) \cap ts = {}),
           \A b \in Browser : \A k \in fresh'[b] : k \in fresh[b] /\ TagsOf(k) \cap ts = {},
           Pending(m) \subseteq ts \cup Pending(m)'
    PROVE  Inv'
<1>1. TypeInv'
  BY DEF Inv, TypeInv
<1>2. Behind'
  BY DEF Inv, Behind
<1>3. ASSUME NEW k \in Key, TagsOf(k) \cap ts = {}, Passed(m, k)'
      PROVE  Passed(m, k) /\ \A s \in Covers(k) : mver'[m][s] = mver[m][s]
  BY <1>3 DEF Passed
<1>4. UNCHANGED <<acked, pc, val, floor, view>>
  OBVIOUS
<1> QED BY <1>1, <1>2, <1>3, <1>4, MutationKeeps

LEMMA HookInvalidateKeeps ==
    ASSUME PipelineAssumption, Inv, NEW m \in Mutation, HookInvalidate(m)
    PROVE  Inv'
<1>0. TypeInv /\ Behind /\ Under(m)
  BY DEF Inv
<1>1. /\ mpc[m] = "hooked" /\ Goto(m, "central")
      /\ UNCHANGED <<db, req, mver, acked, pc, val, floor, view>> /\ UNCHANGED todo
  BY DEF HookInvalidate, fetching, page
<1>2. PICK q \in Requests[m] : q = req[m] /\ todo[m] = Targets(q)
  BY <1>0, <1>1 DEF Under
<1>3. PICK ts : ts = LinkTags(q)
  OBVIOUS
<1>4. invalidateTags(ts)
  BY <1>2, <1>3 DEF HookInvalidate, LinkTags
<1>5. /\ entry' \in [Key -> Versions \cup {None}] /\ fresh' \in [Browser -> SUBSET Key]
      /\ \A k \in Key : entry'[k] = None \/ (entry'[k] = entry[k] /\ TagsOf(k) \cap ts = {})
      /\ \A b \in Browser : \A k \in fresh'[b] : k \in fresh[b] /\ TagsOf(k) \cap ts = {}
  BY <1>0, <1>4, InvalidatedTags
<1>6. /\ mpc' \in [Mutation -> MutationPcs] /\ mpc'[m] = "central"
      /\ \A n \in Mutation \ {m} : mpc'[n] = mpc[n]
  BY <1>0, <1>1, MutationTypes DEF MutationPcs
<1>7. Under(m)' /\ Others(m)
  BY <1>1, <1>2, <1>6 DEF Under, Others
<1>8. Pending(m) \subseteq ts \cup Pending(m)'
  BY <1>1, <1>2, <1>3, <1>6 DEF Pending, Remaining
<1>9. todo' \in [Mutation -> SUBSET Resource] /\ mpc[m] \notin {"failed", "done"}
  BY <1>0, <1>1 DEF TypeInv
<1> QED BY <1>1, <1>5, <1>6, <1>7, <1>8, <1>9, InvalidationKeeps

LEMMA InvalidateTargetKeeps ==
    ASSUME PipelineAssumption, Inv, NEW m \in Mutation, NEW r \in Resource, InvalidateTarget(m, r)
    PROVE  Inv'
<1>0. TypeInv /\ Behind /\ Under(m)
  BY DEF Inv
<1>1. /\ mpc[m] = "central" /\ r \in todo[m]
      /\ todo' = [todo EXCEPT ![m] = @ \ {r}]
      /\ UNCHANGED <<db, req, mver, acked, pc, val, floor, view>> /\ UNCHANGED mpc
  BY DEF InvalidateTarget, fetching, page
<1>2. PICK q \in Requests[m] : q = req[m]
  BY <1>0, <1>1 DEF Under
<1>3. PICK ts : ts = TargetTags(q, r)
  OBVIOUS
<1>4. invalidateTags(ts)
  BY <1>2, <1>3 DEF InvalidateTarget, TargetTags
<1>5. /\ entry' \in [Key -> Versions \cup {None}] /\ fresh' \in [Browser -> SUBSET Key]
      /\ \A k \in Key : entry'[k] = None \/ (entry'[k] = entry[k] /\ TagsOf(k) \cap ts = {})
      /\ \A b \in Browser : \A k \in fresh'[b] : k \in fresh[b] /\ TagsOf(k) \cap ts = {}
  BY <1>0, <1>4, InvalidatedTags
<1>6. /\ todo' \in [Mutation -> SUBSET Resource] /\ todo'[m] = todo[m] \ {r}
      /\ \A n \in Mutation \ {m} : todo'[n] = todo[n]
  BY <1>0, <1>1 DEF TypeInv
<1>7. Under(m)' /\ Others(m)
  BY <1>1, <1>2, <1>6 DEF Under, Others
<1>8. Pending(m) \subseteq ts \cup Pending(m)'
  <2>1. Pending(m) = CentralTags(q, todo[m]) /\ Pending(m)' = CentralTags(q, todo[m] \ {r})
    BY <1>1, <1>2, <1>6 DEF Pending, Remaining
  <2>2. CentralTags(q, todo[m]) \subseteq ts \cup CentralTags(q, todo[m] \ {r})
    <3>1. AllTags(q, todo[m]) \subseteq ts \cup AllTags(q, todo[m] \ {r})
      BY <1>3 DEF AllTags
    <3> QED BY <3>1 DEF CentralTags
  <2> QED BY <2>1, <2>2
<1>9. mpc' \in [Mutation -> MutationPcs] /\ mpc[m] \notin {"failed", "done"}
  BY <1>0, <1>1 DEF TypeInv
<1> QED BY <1>1, <1>5, <1>6, <1>7, <1>8, <1>9, InvalidationKeeps

LEMMA InvalidateRolesKeeps ==
    ASSUME PipelineAssumption, Inv, NEW m \in Mutation, InvalidateRoles(m)
    PROVE  Inv'
<1>0. TypeInv /\ Behind /\ Under(m)
  BY DEF Inv
<1>1. /\ mpc[m] = "central" /\ todo[m] = {}
      /\ UNCHANGED <<db, req, mver, acked, pc, val, floor, view>> /\ UNCHANGED todo
  BY DEF InvalidateRoles, fetching, page
<1>2. PICK q \in Requests[m] : q = req[m]
  BY <1>0, <1>1 DEF Under
<1>3. PICK ts : ts = RoleTags(q)
  OBVIOUS
<1>4. /\ entry' \in [Key -> Versions \cup {None}] /\ fresh' \in [Browser -> SUBSET Key]
      /\ \A k \in Key : entry'[k] = None \/ (entry'[k] = entry[k] /\ TagsOf(k) \cap ts = {})
      /\ \A b \in Browser : \A k \in fresh'[b] : k \in fresh[b] /\ TagsOf(k) \cap ts = {}
  <2>1. CASE ResourceOf[RoleRecord] \in Targets(q)
    <3>1. invalidateTags(ts)
      BY <1>2, <1>3, <2>1 DEF InvalidateRoles, RoleTags
    <3> QED BY <1>0, <3>1, InvalidatedTags
  <2>2. CASE ResourceOf[RoleRecord] \notin Targets(q)
    <3>1. ts = {} /\ UNCHANGED <<entry, fresh>>
      BY <1>2, <1>3, <2>2 DEF InvalidateRoles, RoleTags
    <3> QED BY <1>0, <3>1 DEF TypeInv
  <2> QED BY <2>1, <2>2
<1>5. PICK l \in {"publish", "answer"} : Goto(m, l)
  BY DEF InvalidateRoles
<1>6. /\ mpc' \in [Mutation -> MutationPcs] /\ mpc'[m] = l
      /\ \A n \in Mutation \ {m} : mpc'[n] = mpc[n]
  BY <1>0, <1>5, MutationTypes DEF MutationPcs
<1>7. Under(m)' /\ Others(m)
  BY <1>1, <1>2, <1>6 DEF Under, Others
<1>8. Pending(m) \subseteq ts \cup Pending(m)'
  <2>1. Pending(m) = CentralTags(q, {})
    BY <1>1, <1>2 DEF Pending, Remaining
  <2>2. CentralTags(q, {}) = RoleTags(q)
    <3>1. AllTags(q, {}) = {}
      BY DEF AllTags
    <3> QED BY <3>1 DEF CentralTags
  <2> QED BY <1>3, <2>1, <2>2
<1>9. todo' \in [Mutation -> SUBSET Resource] /\ mpc[m] \notin {"failed", "done"}
  BY <1>0, <1>1 DEF TypeInv
<1> QED BY <1>1, <1>4, <1>6, <1>7, <1>8, <1>9, InvalidationKeeps

LEMMA PublishKeeps ==
    ASSUME PipelineAssumption, Inv, NEW m \in Mutation, Publish(m)
    PROVE  Inv'
<1>0. TypeInv /\ Behind /\ Under(m)
  BY DEF Inv
<1>1. /\ mpc[m] = "publish" /\ Goto(m, "answer")
      /\ UNCHANGED <<db, req, mver, acked, pc, val, floor, view>> /\ UNCHANGED <<entry, fresh, todo>>
  BY DEF Publish, fetching, page
<1>2. PICK ts : ts = {}
  OBVIOUS
<1>3. /\ entry' \in [Key -> Versions \cup {None}] /\ fresh' \in [Browser -> SUBSET Key]
      /\ \A k \in Key : entry'[k] = None \/ (entry'[k] = entry[k] /\ TagsOf(k) \cap ts = {})
      /\ \A b \in Browser : \A k \in fresh'[b] : k \in fresh[b] /\ TagsOf(k) \cap ts = {}
  BY <1>0, <1>1, <1>2 DEF TypeInv
<1>4. /\ mpc' \in [Mutation -> MutationPcs] /\ mpc'[m] = "answer"
      /\ \A n \in Mutation \ {m} : mpc'[n] = mpc[n]
  BY <1>0, <1>1, MutationTypes DEF MutationPcs
<1>5. Under(m)' /\ Others(m)
  BY <1>0, <1>1, <1>4 DEF Under, Others
<1>6. Pending(m) \subseteq ts \cup Pending(m)'
  BY <1>1 DEF Pending, Remaining
<1>7. todo' \in [Mutation -> SUBSET Resource] /\ mpc[m] \notin {"failed", "done"}
  BY <1>0, <1>1 DEF TypeInv
<1> QED BY <1>1, <1>3, <1>4, <1>5, <1>6, <1>7, InvalidationKeeps


\* The answer: what m wrote is due to everybody now, and m is past every key.
LEMMA AnswerKeeps ==
    ASSUME PipelineAssumption, Inv, NEW m \in Mutation, Answer(m)
    PROVE  Inv'
<1>0. TypeInv /\ Behind
  BY DEF Inv
<1>1. /\ mpc[m] = "answer" /\ Goto(m, "done")
      /\ acked' = Later(acked, mver[m])
      /\ req' = [req EXCEPT ![m] = None] /\ mver' = [mver EXCEPT ![m] = Zero]
      /\ UNCHANGED <<db, entry, fresh, todo, pc, val, floor, view>>
  BY DEF Answer, fetching
<1>2. /\ mpc' \in [Mutation -> MutationPcs] /\ mpc'[m] = "done"
      /\ \A n \in Mutation \ {m} : mpc'[n] = mpc[n]
  BY <1>0, <1>1, MutationTypes DEF MutationPcs
<1>3. /\ req' \in [Mutation -> Asked \cup {None}]
      /\ \A n \in Mutation \ {m} : req'[n] = req[n]
  BY <1>0, <1>1 DEF TypeInv
<1>4. /\ mver' \in [Mutation -> Versions] /\ mver'[m] = Zero
      /\ \A n \in Mutation \ {m} : mver'[n] = mver[n]
  <2>1. Zero \in Versions
    BY DEF Zero, Versions
  <2> QED BY <1>0, <1>1, <2>1 DEF TypeInv
<1>5. \A s \in Record : /\ db[s] \in Nat /\ acked[s] \in Nat /\ mver[m][s] \in Nat
                        /\ acked[s] <= db[s] /\ mver[m][s] <= db[s]
  BY <1>0 DEF TypeInv, Versions, Behind
<1>6. /\ acked' \in Versions
      /\ \A s \in Record : /\ acked'[s] \in {acked[s], mver[m][s]}
                           /\ acked[s] <= acked'[s] /\ acked'[s] <= db[s]
  BY <1>1, <1>5 DEF Later, Versions
<1>7. TypeInv'
  BY <1>0, <1>1, <1>2, <1>3, <1>4, <1>6 DEF TypeInv
<1>8. Behind'
  <2>1. \A n \in Mutation, s \in Record : mver'[n][s] <= db[s]
    BY <1>0, <1>4, <1>5 DEF Behind, Zero
  <2>2. \A b \in Browser, s \in Record : val[b][s] <= db[s] /\ floor[b][s] <= acked'[s]
    <3>1. \A b \in Browser, s \in Record :
            floor[b][s] \in Nat /\ floor[b][s] <= acked[s] /\ val[b][s] <= db[s]
      BY <1>0 DEF TypeInv, Versions, Behind
    <3>2. \A s \in Record : acked'[s] \in Nat
      BY <1>6 DEF Versions
    <3> QED BY <1>5, <1>6, <3>1, <3>2
  <2> QED BY <1>0, <1>1, <1>6, <2>1, <2>2 DEF Behind
<1>9. \A n \in Mutation : Under(n)'
  <2>1. Under(m)'
    BY <1>2 DEF Under
  <2>2. \A n \in Mutation \ {m} : Under(n)'
    BY <1>1, <1>2, <1>3 DEF Inv, Under
  <2> QED BY <2>1, <2>2
<1>10. ASSUME NEW k \in Key, NEW s \in Covers(k) PROVE Due(k, s)' \subseteq Due(k, s)
  <2>1. Pending(m) = {} /\ Passed(m, k)
    BY <1>1 DEF Passed, Pending, Remaining
  <2>2. acked'[s] \in Due(k, s)
    BY <1>6, <2>1, CoversRecords DEF Due
  <2>3. ~Passed(m, k)'
    BY <1>2 DEF Passed
  <2>4. \A n \in Mutation \ {m} : Pending(n)' = Pending(n)
    BY <1>1, <1>2, <1>3 DEF Pending
  <2>5. \A n \in Mutation \ {m} : Passed(n, k)' => Passed(n, k) /\ mver'[n] = mver[n]
    BY <1>2, <1>4, <2>4 DEF Passed
  <2> QED BY <2>2, <2>3, <2>5 DEF Due
<1>11. EntriesDue' /\ \A b \in Browser : FetchDue(b)'
  <2>1. PICK ts : ts = {}
    OBVIOUS
  <2>2. /\ \A k \in Key : entry'[k] = None \/ (entry'[k] = entry[k] /\ TagsOf(k) \cap ts = {})
        /\ \A b \in Browser : \A k \in fresh'[b] : k \in fresh[b] /\ TagsOf(k) \cap ts = {}
    BY <1>1, <2>1
  <2>3. UNCHANGED <<pc, val, floor, view>>
    BY <1>1
  <2>4. \A k \in Key : TagsOf(k) \cap ts = {} => \A s \in Covers(k) : Due(k, s)' \subseteq Due(k, s)
    BY <1>10
  <2> QED BY <2>2, <2>3, <2>4, DropKeeps
<1> QED BY <1>7, <1>8, <1>9, <1>11 DEF Inv

LEMMA MutationStepKeeps ==
    ASSUME PipelineAssumption, Declared, PlainRelations, OpenJunctions, Inv,
           NEW m \in Mutation, MutationStep(m)
    PROVE  Inv'
  BY HandleKeeps, BulkKeeps, CommitKeeps, WriteHookKeeps, HookInvalidateKeeps,
     InvalidateTargetKeeps, InvalidateRolesKeeps, PublishKeeps, AnswerKeeps DEF MutationStep

-----------------------------------------------------------------------------
(* The steps of a fetch. *)

\* No mutation moves: what is due stays.
LEMMA DueSame ==
    ASSUME UNCHANGED mutating
    PROVE  /\ \A k, s : Due(k, s)' = Due(k, s)
           /\ \A m : Under(m)' <=> Under(m)
<1>1. \A m : Pending(m)' = Pending(m)
  BY DEF Pending, mutating
<1>2. \A m, k : Passed(m, k)' <=> Passed(m, k)
  BY <1>1 DEF Passed, mutating
<1> QED BY <1>2 DEF Due, Under, mutating

\* The fetches of the other pages.
Elsewhere(b) ==
    \A c \in Browser \ {b} : /\ fresh'[c] = fresh[c] /\ pc'[c] = pc[c] /\ view'[c] = view[c]
                             /\ val'[c] = val[c] /\ floor'[c] = floor[c]

LEMMA PageKeeps ==
    ASSUME Inv, NEW b \in Browser, UNCHANGED <<db, mutating>>, Elsewhere(b),
           TypeInv', EntriesDue', FetchDue(b)',
           \A s \in Record : /\ val'[b][s] <= db[s] /\ floor'[b][s] <= acked[s]
                             /\ \A k \in Key : entry'[k] # None => entry'[k][s] <= db[s]
    PROVE  Inv'
<1>1. Behind'
  BY DEF Inv, Behind, Elsewhere, mutating
<1>2. \A m \in Mutation : Under(m)'
  BY DueSame DEF Inv
<1>3. ASSUME NEW c \in Browser \ {b} PROVE FetchDue(c)'
  <2>1. FetchDue(c)
    BY DEF Inv
  <2> QED BY <2>1, DueSame DEF FetchDue, Elsewhere
<1> QED BY <1>1, <1>2, <1>3 DEF Inv

\* From p to q the fetch of v has read S: a read that may still be stored may
\* be at q, and what has been read by then was read at p or is in S.
Advances(p, q, v, S) ==
    /\ Seen(q, v) \subseteq Seen(p, v) \cup S
    /\ \A k \in Key : Live(p, v, k) => Live(q, v, k) /\ Got(q, v, k) \subseteq Got(p, v, k) \cup S

\* A read of S brings x, which is as recent as a read of S has to be.
LEMMA ReadKeeps ==
    ASSUME PipelineAssumption, Inv, NEW b \in Browser, NEW S \in SUBSET Record, NEW x \in Versions,
           NEW p \in FetchPcs, Step(b, p), See(b, S, x), Advances(pc[b], p, view[b], S),
           UNCHANGED <<db, mutating, entry, fresh, floor, view>>,
           \A s \in Record : x[s] <= db[s],
           \A s \in S : /\ floor[b][s] <= x[s]
                        /\ \A k \in fresh[b] : \A n \in Due(k, s) : n <= x[s]
    PROVE  Inv'
<1>0. TypeInv /\ FetchDue(b)
  BY DEF Inv
<1>1. pc' \in [Browser -> FetchPcs] /\ pc'[b] = p /\ \A c \in Browser \ {b} : pc'[c] = pc[c]
  BY <1>0 DEF TypeInv, Step
<1> DEFINE w == [s \in Record |-> IF s \in S THEN x[s] ELSE val[b][s]]
<1>2. val' = [val EXCEPT ![b] = w]
  BY DEF See
<1>3. w \in Versions
  BY <1>0 DEF TypeInv, Versions
<1>4. \A s \in Record : w[s] = IF s \in S THEN x[s] ELSE val[b][s]
  OBVIOUS
<1> HIDE DEF w
<1>5. val' \in [Browser -> Versions] /\ val'[b] = w /\ \A c \in Browser \ {b} : val'[c] = val[c]
  BY <1>0, <1>2, <1>3 DEF TypeInv
<1>6. TypeInv'
  BY <1>0, <1>1, <1>5 DEF TypeInv, mutating
<1>7. EntriesDue'
  BY DueSame DEF Inv, EntriesDue
<1>8. \A s \in Record : val'[b][s] <= db[s] /\ floor'[b][s] <= acked[s]
  BY <1>4, <1>5 DEF Inv, Behind
<1>9. FetchDue(b)'
  <2>1. ASSUME NEW k \in fresh[b]
        PROVE  /\ Live(p, view[b], k)
               /\ \A s \in Got(p, view[b], k) : \A n \in Due(k, s) : n <= w[s]
    <3>1. k \in Key /\ Live(pc[b], view[b], k)
      BY <1>0 DEF TypeInv, FetchDue
    <3>2. Live(p, view[b], k) /\ Got(p, view[b], k) \subseteq Got(pc[b], view[b], k) \cup S
      BY <3>1 DEF Advances
    <3>3. \A s \in Got(p, view[b], k) : s \in Record
      BY DEF Got
    <3> QED BY <1>0, <1>4, <3>2, <3>3 DEF FetchDue
  <2>2. \A s \in Seen(p, view[b]) : floor[b][s] <= w[s]
    <3>1. \A s \in Seen(p, view[b]) : s \in Record /\ s \in Seen(pc[b], view[b]) \cup S
      BY DEF Advances, Seen
    <3> QED BY <1>0, <1>4, <3>1 DEF FetchDue
  <2> QED BY <1>1, <1>5, <2>1, <2>2, DueSame DEF FetchDue
<1>10. Elsewhere(b)
  BY <1>1, <1>5 DEF Elsewhere
<1>11. \A s \in Record : \A k \in Key : entry'[k] # None => entry'[k][s] <= db[s]
  BY DEF Inv, Behind
<1> QED BY <1>6, <1>7, <1>8, <1>9, <1>10, <1>11, PageKeeps

LEMMA QueryKeeps ==
    ASSUME PipelineAssumption, Inv, NEW b \in Browser, NEW at, NEW S \in SUBSET Record,
           NEW next \in FetchPcs, Query(b, at, S, next), Advances(at, next, view[b], S)
    PROVE  Inv'
<1>1. /\ pc[b] = at /\ Step(b, next) /\ See(b, S, db)
      /\ UNCHANGED <<db, mutating, entry, fresh, floor, view>>
  BY DEF Query, page
<1>2. db \in Versions /\ \A s \in Record : db[s] \in Nat /\ db[s] <= db[s]
  BY DEF Inv, TypeInv, Versions
<1>3. ASSUME NEW s \in S
      PROVE  /\ floor[b][s] <= db[s]
             /\ \A k \in fresh[b] : \A n \in Due(k, s) : n <= db[s]
  <2>1. floor[b][s] \in Nat /\ acked[s] \in Nat /\ floor[b][s] <= acked[s] /\ acked[s] <= db[s]
    BY DEF Inv, TypeInv, Versions, Behind
  <2>2. \A k \in fresh[b] : \A n \in Due(k, s) : n <= db[s]
    BY DueBehind DEF Inv
  <2> QED BY <1>2, <2>1, <2>2
<1> QED BY <1>1, <1>2, <1>3, ReadKeeps

\* A cached value of k brings what k covers of S; the tags of k are among those
\* of every read under way.
LEMMA HitKeeps ==
    ASSUME PipelineAssumption, Inv, NEW b \in Browser, NEW k \in Key, entry[k] # None,
           NEW S \in SUBSET Record, S \subseteq Covers(k), NEW next \in FetchPcs,
           Step(b, next), See(b, S, entry[k]), Advances(pc[b], next, view[b], S),
           \A h \in Key : Live(pc[b], view[b], h) => TagsOf(k) \subseteq TagsOf(h),
           UNCHANGED <<db, mutating, entry, fresh, floor, view>>
    PROVE  Inv'
<1>1. entry[k] \in Versions /\ \A s \in Record : entry[k][s] <= db[s]
  BY DEF Inv, TypeInv, Behind
<1>2. ASSUME NEW s \in S
      PROVE  /\ floor[b][s] <= entry[k][s]
             /\ \A h \in fresh[b] : \A n \in Due(h, s) : n <= entry[k][s]
  <2>1. \A n \in Due(k, s) : n <= entry[k][s]
    BY DEF Inv, EntriesDue
  <2>2. floor[b][s] <= entry[k][s]
    <3>1. floor[b][s] \in Nat /\ acked[s] \in Nat /\ entry[k][s] \in Nat /\ floor[b][s] <= acked[s]
      BY <1>1 DEF Inv, TypeInv, Versions, Behind
    <3>2. acked[s] <= entry[k][s]
      BY <2>1 DEF Due
    <3> QED BY <3>1, <3>2
  <2>3. \A h \in fresh[b] : TagsOf(k) \subseteq TagsOf(h)
    BY DEF Inv, TypeInv, FetchDue
  <2>4. \A h \in fresh[b] : Due(h, s) \subseteq Due(k, s)
    BY <2>3, DueWithin
  <2> QED BY <2>1, <2>2, <2>4
<1> QED BY <1>1, <1>2, ReadKeeps

\* A miss begins a read of k.
LEMMA MissKeeps ==
    ASSUME PipelineAssumption, Inv, NEW b \in Browser, NEW k \in Key, NEW next \in FetchPcs,
           Step(b, next), fresh' = [fresh EXCEPT ![b] = @ \cup {k}],
           Advances(pc[b], next, view[b], {}), Live(next, view[b], k), Got(next, view[b], k) = {},
           UNCHANGED <<db, mutating, entry, val, floor, view>>
    PROVE  Inv'
<1>0. TypeInv /\ FetchDue(b)
  BY DEF Inv
<1>1. pc' \in [Browser -> FetchPcs] /\ pc'[b] = next /\ \A c \in Browser \ {b} : pc'[c] = pc[c]
  BY <1>0 DEF TypeInv, Step
<1>2. /\ fresh' \in [Browser -> SUBSET Key] /\ fresh'[b] = fresh[b] \cup {k}
      /\ \A c \in Browser \ {b} : fresh'[c] = fresh[c]
  BY <1>0 DEF TypeInv
<1>3. TypeInv'
  BY <1>0, <1>1, <1>2 DEF TypeInv, mutating
<1>4. EntriesDue'
  BY DueSame DEF Inv, EntriesDue
<1>5. FetchDue(b)'
  <2>1. \A h \in fresh[b] : /\ Live(next, view[b], h)
                            /\ Got(next, view[b], h) \subseteq Got(pc[b], view[b], h)
    BY <1>0 DEF TypeInv, FetchDue, Advances
  <2>2. Seen(next, view[b]) \subseteq Seen(pc[b], view[b])
    BY DEF Advances
  <2> QED BY <1>0, <1>1, <1>2, <2>1, <2>2, DueSame DEF FetchDue
<1>6. Elsewhere(b)
  BY <1>1, <1>2 DEF Elsewhere
<1>7. \A s \in Record : /\ val'[b][s] <= db[s] /\ floor'[b][s] <= acked[s]
                        /\ \A h \in Key : entry'[h] # None => entry'[h][s] <= db[s]
  BY DEF Inv, Behind
<1> QED BY <1>3, <1>4, <1>5, <1>6, <1>7, PageKeeps

\* The end of a read of k, by when it has all that k covers.
LEMMA StoreTypes ==
    ASSUME Inv, NEW b \in Browser, NEW k \in Key, Store(b, k), UNCHANGED <<db, mutating>>,
           Covers(k) \subseteq Got(pc[b], view[b], k)
    PROVE  /\ entry' \in [Key -> Versions \cup {None}] /\ EntriesDue'
           /\ \A s \in Record : \A h \in Key : entry'[h] # None => entry'[h][s] <= db[s]
           /\ fresh' \in [Browser -> SUBSET Key] /\ fresh'[b] = fresh[b] \ {k}
           /\ \A c \in Browser \ {b} : fresh'[c] = fresh[c]
<1>0. TypeInv /\ Behind /\ EntriesDue /\ FetchDue(b)
  BY DEF Inv
<1>1. CASE k \in fresh[b]
  <2>1. entry' = [entry EXCEPT ![k] = val[b]]
    BY <1>1 DEF Store
  <2>2. /\ entry' \in [Key -> Versions \cup {None}] /\ entry'[k] = val[b]
        /\ \A h \in Key \ {k} : entry'[h] = entry[h]
    BY <1>0, <2>1 DEF TypeInv
  <2>3. \A s \in Covers(k) : \A n \in Due(k, s) : n <= val[b][s]
    BY <1>0, <1>1 DEF FetchDue
  <2>4. EntriesDue'
    BY <1>0, <2>2, <2>3, DueSame DEF EntriesDue
  <2>5. \A s \in Record : \A h \in Key : entry'[h] # None => entry'[h][s] <= db[s]
    BY <1>0, <2>2 DEF Behind
  <2> QED BY <1>0, <2>2, <2>4, <2>5 DEF Store, TypeInv
<1>2. CASE k \notin fresh[b]
  <2>1. entry' = entry
    BY <1>2 DEF Store
  <2>2. EntriesDue'
    BY <1>0, <2>1, DueSame DEF EntriesDue
  <2>3. \A s \in Record : \A h \in Key : entry'[h] # None => entry'[h][s] <= db[s]
    BY <1>0, <2>1 DEF Behind
  <2> QED BY <1>0, <2>1, <2>2, <2>3 DEF Store, TypeInv
<1> QED BY <1>1, <1>2

LEMMA PutKeeps ==
    ASSUME PipelineAssumption, Inv, NEW b \in Browser, NEW at, NEW k \in Key, NEW next \in FetchPcs,
           Put(b, at, k, next), Covers(k) \subseteq Got(at, view[b], k),
           Seen(next, view[b]) \subseteq Seen(at, view[b]),
           \A h \in Key \ {k} : Live(at, view[b], h) =>
               Live(next, view[b], h) /\ Got(next, view[b], h) \subseteq Got(at, view[b], h)
    PROVE  Inv'
<1>0. TypeInv /\ FetchDue(b)
  BY DEF Inv
<1>1. /\ pc[b] = at /\ Store(b, k) /\ Step(b, next)
      /\ UNCHANGED <<db, mutating, val, floor, view>>
  BY DEF Put, page
<1>2. pc' \in [Browser -> FetchPcs] /\ pc'[b] = next /\ \A c \in Browser \ {b} : pc'[c] = pc[c]
  BY <1>0, <1>1 DEF TypeInv, Step
<1>3. /\ entry' \in [Key -> Versions \cup {None}] /\ EntriesDue'
      /\ \A s \in Record : \A h \in Key : entry'[h] # None => entry'[h][s] <= db[s]
      /\ fresh' \in [Browser -> SUBSET Key] /\ fresh'[b] = fresh[b] \ {k}
      /\ \A c \in Browser \ {b} : fresh'[c] = fresh[c]
  BY <1>1, StoreTypes
<1>4. TypeInv'
  BY <1>0, <1>1, <1>2, <1>3 DEF TypeInv, mutating
<1>5. FetchDue(b)'
  <2>1. \A h \in fresh'[b] : /\ h \in fresh[b] /\ Live(next, view[b], h)
                             /\ Got(next, view[b], h) \subseteq Got(at, view[b], h)
    BY <1>0, <1>1, <1>3 DEF TypeInv, FetchDue
  <2> QED BY <1>0, <1>1, <1>2, <2>1, DueSame DEF FetchDue
<1>6. Elsewhere(b)
  BY <1>1, <1>2, <1>3 DEF Elsewhere
<1>7. \A s \in Record : val'[b][s] <= db[s] /\ floor'[b][s] <= acked[s]
  BY <1>1 DEF Inv, Behind
<1> QED BY <1>1, <1>3, <1>4, <1>5, <1>6, <1>7, PageKeeps

\* The keys a fetch may be reading, and what it has read for each, place by place.
LEMMA Reading ==
    ASSUME PipelineAssumption, NEW v \in View, NEW k \in Key, NEW p \in FetchPcs, Live(p, v, k)
    PROVE  /\ p # "idle"
           /\ \/ k = <<"http", v>> /\ Got(p, v, k) = Seen(p, v)
              \/ k = <<"action", v>> /\ p \in {"rows", "populate", "put"}
              \/ k = <<"perms">> /\ p \in {"gateRead", "gatePut", "annotateRead", "annotatePut"}
<1>1. CASE k = <<"http", v>>
  <2>1. k # <<"action", v>> /\ k # <<"perms">>
    BY <1>1, Keys
  <2>2. Got(p, v, k) = Seen(p, v)
    BY <1>1, <2>1 DEF Got, Seen
  <2> QED BY <1>1, <2>1, <2>2 DEF Live
<1>2. CASE k # <<"http", v>>
  BY <1>2 DEF Live
<1> QED BY <1>1, <1>2

\* While only the page's own key is read, what advances the page advances the read.
LEMMA AdvancesPage ==
    ASSUME PipelineAssumption, NEW v \in View, NEW S, NEW q \in FetchPcs \ {"idle"},
           NEW p \in FetchPcs \ {"rows", "populate", "put", "gateRead", "gatePut", "annotateRead",
                                 "annotatePut"},
           Seen(q, v) \subseteq Seen(p, v) \cup S
    PROVE  Advances(p, q, v, S)
<1>1. ASSUME NEW k \in Key, Live(p, v, k)
      PROVE  Live(q, v, k) /\ Got(q, v, k) \subseteq Got(p, v, k) \cup S
  <2>1. k = <<"http", v>> /\ Got(p, v, k) = Seen(p, v)
    BY <1>1, Reading
  <2>2. Live(q, v, k)
    BY <2>1 DEF Live
  <2>3. Got(q, v, k) = Seen(q, v)
    BY <2>1, <2>2, Reading, Keys
  <2> QED BY <2>1, <2>2, <2>3
<1> QED BY <1>1 DEF Advances

\* The places of a fetch, in what it has seen.
LEMMA SeenGrows ==
    ASSUME PipelineAssumption, NEW v \in View
    PROVE  /\ Seen("idle", v) = {} /\ Seen("gate", v) = {} /\ Seen("gateRead", v) = {}
           /\ \A p \in {"gatePut", "handler", "rows"} : Seen(p, v) = {RoleRecord}
           /\ Seen("populate", v) = {RoleRecord} \cup Own(v)
           /\ Seen("put", v) = {RoleRecord} \cup Own(v) \cup Populated(v)
           /\ Seen("junction", v) = {RoleRecord} \cup Own(v) \cup Populated(v)
           /\ Seen("named", v) = {RoleRecord} \cup Own(v) \cup Populated(v) \cup Junction(v)
           /\ \A p \in ReadNamed : Seen(p, v) = Embeds(v)
<1>1. /\ RoleRecord \in Record /\ Own(v) \subseteq Record /\ Populated(v) \subseteq Record
      /\ Junction(v) \subseteq Record /\ Named(v) \subseteq Record
  BY EmbedsRecords DEF PipelineAssumption
<1> USE <1>1 DEF Seen, ReadRole, ReadOwn, ReadPopulated, ReadJunction, ReadNamed, FetchPcs
<1>2. Seen("idle", v) = {} /\ Seen("gate", v) = {} /\ Seen("gateRead", v) = {}
  OBVIOUS
<1>3. \A p \in {"gatePut", "handler", "rows"} : Seen(p, v) = {RoleRecord}
  OBVIOUS
<1>4. Seen("populate", v) = {RoleRecord} \cup Own(v)
  OBVIOUS
<1>5. /\ Seen("put", v) = {RoleRecord} \cup Own(v) \cup Populated(v)
      /\ Seen("junction", v) = {RoleRecord} \cup Own(v) \cup Populated(v)
  OBVIOUS
<1>6. Seen("named", v) = {RoleRecord} \cup Own(v) \cup Populated(v) \cup Junction(v)
  OBVIOUS
<1>7. \A p \in ReadNamed : Seen(p, v) = Embeds(v)
  BY DEF Embeds
<1> QED BY <1>2, <1>3, <1>4, <1>5, <1>6, <1>7

\* Without rows of a junction there are none they name.
LEMMA AfterHandlerSeen ==
    ASSUME PipelineAssumption, NEW v \in View
    PROVE  /\ AfterHandler(v) \in {"annotate", "junction"}
           /\ Seen(AfterHandler(v), v) = {RoleRecord} \cup Own(v) \cup Populated(v)
<1>1. CASE Junction(v) = {}
  <2>1. AfterHandler(v) = "annotate" /\ Named(v) = {}
    BY <1>1 DEF AfterHandler, Named
  <2>2. Seen("annotate", v) = Embeds(v)
    BY SeenGrows DEF ReadNamed
  <2> QED BY <1>1, <2>1, <2>2 DEF Embeds
<1>2. CASE Junction(v) # {}
  <2>1. AfterHandler(v) = "junction"
    BY <1>2 DEF AfterHandler
  <2> QED BY <2>1, SeenGrows
<1> QED BY <1>1, <1>2

\* An access check that finds the role's permissions cached, or not.
LEMMA GateKeeps ==
    ASSUME PipelineAssumption, Inv, NEW b \in Browser, NEW at, NEW hit, NEW miss,
           <<at, hit, miss>> \in {<<"gate", "handler", "gateRead">>,
                                  <<"annotate", "answer", "annotateRead">>},
           Gate(b, at, hit, miss)
    PROVE  Inv'
<1> DEFINE v == view[b]
           k == <<"perms">>
<1>1. /\ pc[b] = at /\ Lookup(b, k, {RoleRecord}, hit, miss)
      /\ UNCHANGED <<db, mutating, entry, floor, view>>
  BY DEF Gate, page
<1>2. v \in View /\ k \in Key /\ RoleRecord \in Record
      /\ Covers(k) = {RoleRecord} /\ TagsOf(k) = {<<"perms">>}
  BY Keys DEF Inv, TypeInv, PipelineAssumption
<1>3. \/ at = "gate" /\ hit = "handler" /\ miss = "gateRead"
      \/ at = "annotate" /\ hit = "answer" /\ miss = "annotateRead"
  OBVIOUS
<1>4. at \in FetchPcs /\ hit \in FetchPcs \ {"idle"} /\ miss \in FetchPcs \ {"idle"}
      /\ at \notin {"rows", "populate", "put", "gateRead", "gatePut", "annotateRead", "annotatePut"}
  BY <1>3 DEF FetchPcs
<1>5. /\ Seen(hit, v) \subseteq Seen(at, v) \cup {RoleRecord}
      /\ Seen(miss, v) \subseteq Seen(at, v) \cup {}
  BY <1>2, <1>3, SeenGrows DEF ReadNamed
<1>6. Advances(at, hit, v, {RoleRecord}) /\ Advances(at, miss, v, {})
  BY <1>2, <1>4, <1>5, AdvancesPage
<1>7. \A h \in Key : Live(at, v, h) => TagsOf(k) \subseteq TagsOf(h)
  <2>1. \A h \in Key : Live(at, v, h) => h = <<"http", v>>
    BY <1>2, <1>4, Reading
  <2> QED BY ZenonT(40), <1>2, <2>1, Keys
<1>8. Live(miss, v, k) /\ Got(miss, v, k) = {}
  <2>1. k # <<"http", v>> /\ k # <<"action", v>>
    BY <1>2, Keys
  <2> QED BY <1>3, <2>1 DEF Live, Got
<1> HIDE DEF k
<1>9. CASE entry[k] # None
  <2>1. See(b, {RoleRecord}, entry[k]) /\ Step(b, hit) /\ UNCHANGED fresh
    BY <1>1, <1>9 DEF Lookup
  <2>2. PICK S \in SUBSET Record : S = {RoleRecord}
    BY <1>2
  <2> QED BY <1>1, <1>2, <1>4, <1>6, <1>7, <1>9, <2>1, <2>2, HitKeeps
<1>10. CASE entry[k] = None
  <2>1. fresh' = [fresh EXCEPT ![b] = @ \cup {k}] /\ Step(b, miss) /\ UNCHANGED val
    BY <1>1, <1>10 DEF Lookup
  <2> QED BY <1>1, <1>2, <1>4, <1>6, <1>8, <2>1, MissKeeps
<1> QED BY <1>9, <1>10

LEMMA ActionKeeps ==
    ASSUME PipelineAssumption, Inv, NEW b \in Browser, Action(b)
    PROVE  Inv'
<1> DEFINE v == view[b]
           k == <<"action", v>>
           S == Own(v) \cup Populated(v)
<1>1. /\ pc[b] = "handler" /\ Lookup(b, k, S, AfterHandler(v), "rows")
      /\ UNCHANGED <<db, mutating, entry, floor, view>>
  BY DEF Action, page
<1>2. v \in View
  BY DEF Inv, TypeInv
<1>3. k \in Key /\ Covers(k) = S /\ TagsOf(k) = ViewTags(v) /\ S \in SUBSET Record
  BY <1>2, Keys, EmbedsRecords
<1>4. AfterHandler(v) \in FetchPcs \ {"idle"}
  BY <1>2, AfterHandlerSeen DEF FetchPcs
<1>5. /\ Seen(AfterHandler(v), v) \subseteq Seen("handler", v) \cup S
      /\ Seen("rows", v) \subseteq Seen("handler", v) \cup {}
  BY <1>2, AfterHandlerSeen, SeenGrows
<1> HIDE DEF S
<1>6. Advances("handler", AfterHandler(v), v, S) /\ Advances("handler", "rows", v, {})
  BY <1>2, <1>4, <1>5, AdvancesPage DEF FetchPcs
<1>7. \A h \in Key : Live("handler", v, h) => TagsOf(k) \subseteq TagsOf(h)
  <2>1. \A h \in Key : Live("handler", v, h) => h = <<"http", v>>
    BY <1>2, Reading DEF FetchPcs
  <2> QED BY <1>2, <1>3, <2>1, Keys
<1>8. Live("rows", v, k) /\ Got("rows", v, k) = {}
  <2>1. k # <<"http", v>> /\ k # <<"perms">>
    BY <1>2, Keys
  <2> QED BY <2>1 DEF Live, Got
<1> HIDE DEF k
<1>9. CASE entry[k] # None
  <2>1. See(b, S, entry[k]) /\ Step(b, AfterHandler(v)) /\ UNCHANGED fresh
    BY <1>1, <1>9 DEF Lookup
  <2> QED BY SMTT(30), <1>1, <1>3, <1>4, <1>6, <1>7, <1>9, <2>1, HitKeeps
<1>10. CASE entry[k] = None
  <2>1. fresh' = [fresh EXCEPT ![b] = @ \cup {k}] /\ Step(b, "rows") /\ UNCHANGED val
    BY <1>1, <1>10 DEF Lookup
  <2>2. "rows" \in FetchPcs
    BY DEF FetchPcs
  <2> QED BY <1>1, <1>3, <1>6, <1>8, <2>1, <2>2, MissKeeps
<1> QED BY <1>9, <1>10

\* Every query of a fetch reads what the place after it has seen.
LEMMA AdvancesQuery ==
    ASSUME PipelineAssumption, NEW v \in View
    PROVE  /\ Advances("gateRead", "gatePut", v, {RoleRecord})
           /\ Advances("annotateRead", "annotatePut", v, {RoleRecord})
           /\ Advances("rows", IF Populated(v) = {} THEN "put" ELSE "populate", v, Own(v))
           /\ Advances("populate", "put", v, Populated(v))
           /\ Advances("junction", "named", v, Junction(v))
           /\ Advances("named", "annotate", v, Named(v))
<1>0. /\ <<"http", v>> # <<"action", v>> /\ <<"http", v>> # <<"perms">> /\ <<"action", v>> # <<"perms">>
      /\ RoleRecord \in Record
  BY Keys DEF PipelineAssumption
<1>1. ASSUME NEW p \in {"gateRead", "annotateRead"}, NEW q \in {"gatePut", "annotatePut"},
             p = "gateRead" <=> q = "gatePut"
      PROVE  Advances(p, q, v, {RoleRecord})
  <2>1. /\ p \in {"gateRead", "annotateRead"} /\ q \in {"gatePut", "annotatePut"}
        /\ p \in FetchPcs /\ q \in FetchPcs
        /\ \/ p = "gateRead" /\ q = "gatePut"
           \/ p = "annotateRead" /\ q = "annotatePut"
    BY <1>1 DEF FetchPcs
  <2>2. Seen(q, v) \subseteq Seen(p, v) \cup {RoleRecord}
    BY <2>1, SeenGrows DEF ReadNamed
  <2>3. ASSUME NEW k \in Key, Live(p, v, k)
        PROVE  Live(q, v, k) /\ Got(q, v, k) \subseteq Got(p, v, k) \cup {RoleRecord}
    <3>1. \/ k = <<"http", v>> /\ Got(p, v, k) = Seen(p, v)
          \/ k = <<"perms">>
      BY <2>1, <2>3, Reading
    <3>2. CASE k = <<"http", v>> /\ Got(p, v, k) = Seen(p, v)
      <4>1. Live(q, v, k)
        BY <2>1, <3>2 DEF Live
      <4>2. Got(q, v, k) = Seen(q, v)
        BY <1>0, <2>1, <3>2, <4>1, Reading
      <4> QED BY <2>2, <3>2, <4>1, <4>2
    <3>3. CASE k = <<"perms">>
      BY <1>0, <2>1, <3>3 DEF Live, Got
    <3> QED BY <3>1, <3>2, <3>3
  <2> QED BY <2>2, <2>3 DEF Advances
<1>2. ASSUME NEW p \in {"rows", "populate"}, NEW q \in {"populate", "put"}, NEW S \in SUBSET Record,
             /\ Seen(q, v) \subseteq Seen(p, v) \cup S
             /\ \/ S = Own(v) /\ p = "rows" /\ (q = "populate" \/ Populated(v) = {})
                \/ S = Populated(v) /\ p = "populate" /\ q = "put"
      PROVE  Advances(p, q, v, S)
  <2>1. p \in FetchPcs /\ q \in FetchPcs
    BY DEF FetchPcs
  <2>2. ASSUME NEW k \in Key, Live(p, v, k)
        PROVE  Live(q, v, k) /\ Got(q, v, k) \subseteq Got(p, v, k) \cup S
    <3>1. \/ k = <<"http", v>> /\ Got(p, v, k) = Seen(p, v)
          \/ k = <<"action", v>>
      BY <2>1, <2>2, Reading
    <3>2. CASE k = <<"http", v>> /\ Got(p, v, k) = Seen(p, v)
      <4>1. Live(q, v, k)
        BY <3>2 DEF Live
      <4>2. Got(q, v, k) = Seen(q, v)
        BY <1>0, <2>1, <3>2, <4>1, Reading
      <4> QED BY <1>2, <3>2, <4>1, <4>2
    <3>3. CASE k = <<"action", v>>
      BY <1>0, <1>2, <3>3 DEF Live, Got
    <3> QED BY <3>1, <3>2, <3>3
  <2> QED BY <1>2, <2>2 DEF Advances
<1>3. Advances("rows", IF Populated(v) = {} THEN "put" ELSE "populate", v, Own(v))
  <2>1. PICK q \in {"populate", "put"} : /\ q = IF Populated(v) = {} THEN "put" ELSE "populate"
                                         /\ q = "populate" \/ Populated(v) = {}
    OBVIOUS
  <2>2. Seen(q, v) \subseteq Seen("rows", v) \cup Own(v)
    BY <2>1, SeenGrows
  <2>3. Own(v) \in SUBSET Record
    BY EmbedsRecords
  <2>4. Advances("rows", q, v, Own(v))
    BY <1>2, <2>1, <2>2, <2>3
  <2> QED BY <2>1, <2>4
<1>4. Advances("populate", "put", v, Populated(v))
  <2>1. Seen("put", v) \subseteq Seen("populate", v) \cup Populated(v)
    BY SeenGrows
  <2>2. Populated(v) \in SUBSET Record
    BY EmbedsRecords
  <2> QED BY <1>2, <2>1, <2>2
<1>5. Advances("junction", "named", v, Junction(v))
  <2>1. Seen("named", v) \subseteq Seen("junction", v) \cup Junction(v)
    BY SeenGrows
  <2> QED BY <2>1, AdvancesPage DEF FetchPcs
<1>6. Advances("named", "annotate", v, Named(v))
  <2>1. Seen("annotate", v) \subseteq Seen("named", v) \cup Named(v)
    BY SeenGrows DEF Embeds, ReadNamed
  <2>2. /\ "named" \in FetchPcs \ {"rows", "populate", "put", "gateRead", "gatePut", "annotateRead",
                                  "annotatePut"}
        /\ "annotate" \in FetchPcs \ {"idle"}
    BY DEF FetchPcs
  <2> QED BY <2>1, <2>2, AdvancesPage
<1>7. Advances("gateRead", "gatePut", v, {RoleRecord})
  BY <1>1
<1>8. Advances("annotateRead", "annotatePut", v, {RoleRecord})
  BY <1>1
<1> QED BY <1>3, <1>4, <1>5, <1>6, <1>7, <1>8

\* A value computed for the role's permissions is put.
LEMMA PutPermsKeeps ==
    ASSUME PipelineAssumption, Inv, NEW b \in Browser, NEW at, NEW next,
           <<at, next>> \in {<<"gatePut", "handler">>, <<"annotatePut", "answer">>},
           Put(b, at, <<"perms">>, next)
    PROVE  Inv'
<1> DEFINE v == view[b]
           k == <<"perms">>
<1>1. v \in View /\ k \in Key /\ RoleRecord \in Record /\ Covers(k) = {RoleRecord}
      /\ k # <<"http", v>> /\ k # <<"action", v>>
  BY Keys DEF Inv, TypeInv, PipelineAssumption
<1>2. /\ \/ at = "gatePut" /\ next = "handler"
         \/ at = "annotatePut" /\ next = "answer"
      /\ at \in FetchPcs /\ next \in FetchPcs
  BY DEF FetchPcs
<1>3. Covers(k) \subseteq Got(at, v, k)
  BY <1>1, <1>2 DEF Got
<1>4. Seen(next, v) \subseteq Seen(at, v)
  BY <1>1, <1>2, SeenGrows DEF ReadNamed
<1>5. ASSUME NEW h \in Key \ {k}, Live(at, v, h)
      PROVE  Live(next, v, h) /\ Got(next, v, h) \subseteq Got(at, v, h)
  <2>1. h = <<"http", v>> /\ Got(at, v, h) = Seen(at, v)
    BY <1>1, <1>2, <1>5, Reading
  <2>2. Live(next, v, h)
    BY <1>2, <2>1 DEF Live
  <2>3. Got(next, v, h) = Seen(next, v)
    BY <1>1, <1>2, <2>1, <2>2, Reading, Keys
  <2> QED BY <1>4, <2>1, <2>2, <2>3
<1> QED BY <1>1, <1>2, <1>3, <1>4, <1>5, PutKeeps

LEMMA PutActionKeeps ==
    ASSUME PipelineAssumption, Inv, NEW b \in Browser,
           Put(b, "put", <<"action", view[b]>>, AfterHandler(view[b]))
    PROVE  Inv'
<1> DEFINE v == view[b]
           k == <<"action", v>>
<1>1. v \in View
  BY DEF Inv, TypeInv
<1>2. /\ k \in Key /\ Covers(k) = Own(v) \cup Populated(v) /\ k # <<"http", v>>
      /\ <<"http", v>> # <<"perms">>
      /\ Own(v) \subseteq Record /\ Populated(v) \subseteq Record
  BY <1>1, Keys, EmbedsRecords
<1>3. AfterHandler(v) \in FetchPcs \ {"idle", "rows", "populate", "put"} /\ "put" \in FetchPcs
  BY <1>1, AfterHandlerSeen DEF FetchPcs
<1>4. Covers(k) \subseteq Got("put", v, k)
  BY <1>2 DEF Got
<1>5. Seen(AfterHandler(v), v) \subseteq Seen("put", v)
  BY <1>1, AfterHandlerSeen, SeenGrows
<1>6. ASSUME NEW h \in Key \ {k}, Live("put", v, h)
      PROVE  /\ Live(AfterHandler(v), v, h)
             /\ Got(AfterHandler(v), v, h) \subseteq Got("put", v, h)
  <2>1. h = <<"http", v>> /\ Got("put", v, h) = Seen("put", v)
    BY <1>1, <1>3, <1>6, Reading
  <2>2. Live(AfterHandler(v), v, h)
    BY <1>3, <2>1 DEF Live
  <2>3. Got(AfterHandler(v), v, h) = Seen(AfterHandler(v), v)
    BY <1>1, <1>2, <1>3, <2>1, <2>2, Reading
  <2> QED BY <1>5, <2>1, <2>2, <2>3
<1> HIDE DEF k
<1>7. Put(b, "put", k, AfterHandler(v))
  BY DEF k
<1> QED BY <1>2, <1>3, <1>4, <1>5, <1>6, <1>7, PutKeeps

\* Idle, or just asking: nothing is read yet.
LEMMA IdleReadsNothing ==
    ASSUME Inv, NEW b \in Browser, pc[b] = "idle"
    PROVE  fresh[b] = {}
<1>1. \A k \in fresh[b] : Live("idle", view[b], k)
  BY DEF Inv, FetchDue
<1> QED BY <1>1 DEF Live

LEMMA FetchKeeps ==
    ASSUME PipelineAssumption, Inv, NEW b \in Browser, Fetch(b)
    PROVE  Inv'
<1> DEFINE v == view[b]
           k == <<"http", v>>
<1>0. TypeInv /\ Behind /\ EntriesDue
  BY DEF Inv
<1>1. /\ pc[b] = "idle" /\ floor' = [floor EXCEPT ![b] = acked]
      /\ Lookup(b, k, Record, "answer", "gate")
      /\ UNCHANGED <<db, mutating, entry, view>>
  BY DEF Fetch
<1>2. v \in View /\ k \in Key /\ Covers(k) = Embeds(v) /\ fresh[b] = {}
  BY <1>0, <1>1, Keys, IdleReadsNothing DEF TypeInv
<1>3. /\ floor' \in [Browser -> Versions] /\ floor'[b] = acked
      /\ \A c \in Browser \ {b} : floor'[c] = floor[c]
  BY <1>0, <1>1 DEF TypeInv
<1>4. EntriesDue'
  BY <1>0, <1>1, DueSame DEF EntriesDue
<1>5. \A s \in Record : acked[s] \in Nat /\ acked[s] <= acked[s]
  BY <1>0 DEF TypeInv, Versions
<1> HIDE DEF k
<1>6. CASE entry[k] # None
  <2>1. See(b, Record, entry[k]) /\ Step(b, "answer") /\ UNCHANGED fresh
    BY <1>1, <1>6 DEF Lookup
  <2>2. /\ pc' \in [Browser -> FetchPcs] /\ pc'[b] = "answer"
        /\ \A c \in Browser \ {b} : pc'[c] = pc[c]
    BY <1>0, <2>1 DEF TypeInv, Step, FetchPcs
  <2>3. entry[k] \in Versions
    BY <1>0, <1>2, <1>6 DEF TypeInv
  <2>4. /\ val' \in [Browser -> Versions] /\ \A s \in Record : val'[b][s] = entry[k][s]
        /\ \A c \in Browser \ {b} : val'[c] = val[c]
    BY <1>0, <2>1, <2>3 DEF TypeInv, See, Versions
  <2>5. TypeInv'
    BY <1>0, <1>1, <1>3, <2>1, <2>2, <2>4 DEF TypeInv, mutating
  <2>6. FetchDue(b)'
    <3>1. \A s \in Embeds(v) : s \in Record /\ acked[s] <= entry[k][s]
      BY <1>0, <1>2, <1>6, EmbedsRecords DEF EntriesDue, Due
    <3>2. Seen("answer", v) = Embeds(v)
      BY <1>2, SeenGrows DEF ReadNamed
    <3> QED BY <1>1, <1>2, <1>3, <2>1, <2>2, <2>4, <3>1, <3>2 DEF FetchDue
  <2>7. Elsewhere(b)
    BY <1>1, <1>3, <2>1, <2>2, <2>4 DEF Elsewhere
  <2>8. \A s \in Record : /\ val'[b][s] <= db[s] /\ floor'[b][s] <= acked[s]
                          /\ \A h \in Key : entry'[h] # None => entry'[h][s] <= db[s]
    BY <1>0, <1>1, <1>2, <1>3, <1>5, <1>6, <2>4 DEF Behind
  <2> QED BY <1>1, <1>4, <2>5, <2>6, <2>7, <2>8, PageKeeps
<1>7. CASE entry[k] = None
  <2>1. fresh' = [fresh EXCEPT ![b] = @ \cup {k}] /\ Step(b, "gate") /\ UNCHANGED val
    BY <1>1, <1>7 DEF Lookup
  <2>2. /\ pc' \in [Browser -> FetchPcs] /\ pc'[b] = "gate"
        /\ \A c \in Browser \ {b} : pc'[c] = pc[c]
    BY <1>0, <2>1 DEF TypeInv, Step, FetchPcs
  <2>3. /\ fresh' \in [Browser -> SUBSET Key] /\ fresh'[b] = {k}
        /\ \A c \in Browser \ {b} : fresh'[c] = fresh[c]
    BY <1>0, <1>2, <2>1 DEF TypeInv
  <2>4. TypeInv'
    BY <1>0, <1>1, <1>3, <2>1, <2>2, <2>3 DEF TypeInv, mutating
  <2>5. FetchDue(b)'
    <3>1. Live("gate", v, k)
      BY DEF Live, k
    <3>2. Seen("gate", v) = {} /\ Got("gate", v, k) = {}
      BY <1>2, <3>1, SeenGrows, Reading, Keys DEF FetchPcs
    <3> QED BY <1>1, <2>2, <2>3, <3>1, <3>2 DEF FetchDue
  <2>6. Elsewhere(b)
    BY <1>1, <1>3, <2>1, <2>2, <2>3 DEF Elsewhere
  <2>7. \A s \in Record : /\ val'[b][s] <= db[s] /\ floor'[b][s] <= acked[s]
                          /\ \A h \in Key : entry'[h] # None => entry'[h][s] <= db[s]
    BY <1>0, <1>1, <1>3, <1>5, <2>1 DEF Behind
  <2> QED BY <1>1, <1>4, <2>4, <2>5, <2>6, <2>7, PageKeeps
<1> QED BY <1>6, <1>7

LEMMA RenderKeeps ==
    ASSUME PipelineAssumption, Inv, NEW b \in Browser, Render(b)
    PROVE  Inv'
<1> DEFINE v == view[b]
           k == <<"http", v>>
<1>0. TypeInv /\ Behind /\ FetchDue(b)
  BY DEF Inv
<1>1. /\ pc[b] = "answer" /\ Store(b, k) /\ Step(b, "idle")
      /\ val' = [val EXCEPT ![b] = Zero] /\ floor' = [floor EXCEPT ![b] = Zero]
      /\ UNCHANGED <<db, mutating, view>>
  BY DEF Render
<1>2. v \in View /\ k \in Key /\ Covers(k) = Embeds(v) /\ k # <<"action", v>> /\ k # <<"perms">>
  BY <1>0, Keys DEF TypeInv
<1>3. \A h \in fresh[b] : h = k
  BY <1>0, <1>1, <1>2, Reading DEF TypeInv, FetchDue
<1>4. Covers(k) \subseteq Got("answer", v, k)
  <2>1. Live("answer", v, k)
    BY DEF Live
  <2>2. Got("answer", v, k) = Seen("answer", v)
    BY <1>2, <2>1, Reading DEF FetchPcs
  <2> QED BY <1>2, <2>2, SeenGrows DEF ReadNamed
<1> HIDE DEF k
<1>5. /\ entry' \in [Key -> Versions \cup {None}] /\ EntriesDue'
      /\ \A s \in Record : \A h \in Key : entry'[h] # None => entry'[h][s] <= db[s]
      /\ fresh' \in [Browser -> SUBSET Key] /\ fresh'[b] = fresh[b] \ {k}
      /\ \A c \in Browser \ {b} : fresh'[c] = fresh[c]
  BY <1>1, <1>2, <1>4, StoreTypes
<1>6. /\ pc' \in [Browser -> FetchPcs] /\ pc'[b] = "idle"
      /\ \A c \in Browser \ {b} : pc'[c] = pc[c]
  BY <1>0, <1>1 DEF TypeInv, Step, FetchPcs
<1>7. /\ val' \in [Browser -> Versions] /\ floor' \in [Browser -> Versions]
      /\ val'[b] = Zero /\ floor'[b] = Zero
      /\ \A c \in Browser \ {b} : val'[c] = val[c] /\ floor'[c] = floor[c]
  <2>1. Zero \in Versions
    BY DEF Zero, Versions
  <2> QED BY <1>0, <1>1, <2>1 DEF TypeInv
<1>8. TypeInv'
  BY <1>0, <1>1, <1>5, <1>6, <1>7 DEF TypeInv, mutating
<1>9. FetchDue(b)'
  <2>1. fresh'[b] = {}
    BY <1>3, <1>5
  <2>2. Seen("idle", v) = {}
    BY <1>2, SeenGrows
  <2> QED BY <1>1, <1>6, <2>1, <2>2 DEF FetchDue
<1>10. Elsewhere(b)
  BY <1>1, <1>5, <1>6, <1>7 DEF Elsewhere
<1>11. \A s \in Record : val'[b][s] <= db[s] /\ floor'[b][s] <= acked[s]
  BY <1>0, <1>7 DEF TypeInv, Versions, Zero
<1> QED BY <1>1, <1>5, <1>8, <1>9, <1>10, <1>11, PageKeeps

LEMMA VisitKeeps ==
    ASSUME PipelineAssumption, Inv, NEW b \in Browser, NEW v \in View, Visit(b, v)
    PROVE  Inv'
<1>0. TypeInv /\ Behind /\ EntriesDue
  BY DEF Inv
<1>1. /\ pc[b] = "idle" /\ view' = [view EXCEPT ![b] = v]
      /\ UNCHANGED <<db, mutating, entry, fresh, pc, val, floor>>
  BY DEF Visit, fetching
<1>2. /\ view' \in [Browser -> View] /\ view'[b] = v
      /\ \A c \in Browser \ {b} : view'[c] = view[c]
  BY <1>0, <1>1 DEF TypeInv
<1>3. TypeInv'
  BY <1>0, <1>1, <1>2 DEF TypeInv, mutating
<1>4. EntriesDue'
  BY <1>0, <1>1, DueSame DEF EntriesDue
<1>5. FetchDue(b)'
  BY <1>1, <1>2, IdleReadsNothing, SeenGrows DEF FetchDue
<1>6. Elsewhere(b)
  BY <1>1, <1>2 DEF Elsewhere
<1>7. \A s \in Record : /\ val'[b][s] <= db[s] /\ floor'[b][s] <= acked[s]
                        /\ \A h \in Key : entry'[h] # None => entry'[h][s] <= db[s]
  BY <1>0, <1>1 DEF Behind
<1> QED BY <1>1, <1>3, <1>4, <1>5, <1>6, <1>7, PageKeeps

LEMMA FetchStepKeeps ==
    ASSUME PipelineAssumption, Inv, NEW b \in Browser, FetchStep(b)
    PROVE  Inv'
<1>1. PICK v \in View : v = view[b]
  BY DEF Inv, TypeInv
<1>2. /\ {RoleRecord} \in SUBSET Record /\ Own(v) \in SUBSET Record /\ Populated(v) \in SUBSET Record
      /\ Junction(v) \in SUBSET Record /\ Named(v) \in SUBSET Record
  BY EmbedsRecords DEF PipelineAssumption
<1>3. /\ {"gatePut", "annotatePut", "put", "populate", "named", "annotate"} \subseteq FetchPcs
      /\ (IF Populated(v) = {} THEN "put" ELSE "populate") \in FetchPcs
  BY DEF FetchPcs
<1>4. CASE Fetch(b)
  BY <1>4, FetchKeeps
<1>5. CASE Gate(b, "gate", "handler", "gateRead") \/ Gate(b, "annotate", "answer", "annotateRead")
  BY <1>5, GateKeeps
<1>6. CASE \/ Query(b, "gateRead", {RoleRecord}, "gatePut")
           \/ Query(b, "annotateRead", {RoleRecord}, "annotatePut")
  BY <1>1, <1>2, <1>3, <1>6, AdvancesQuery, QueryKeeps
<1>7. CASE Query(b, "rows", Own(v), IF Populated(v) = {} THEN "put" ELSE "populate")
  BY <1>1, <1>2, <1>3, <1>7, AdvancesQuery, QueryKeeps
<1>8. CASE \/ Query(b, "populate", Populated(v), "put")
           \/ Query(b, "junction", Junction(v), "named")
           \/ Query(b, "named", Named(v), "annotate")
  BY <1>1, <1>2, <1>3, <1>8, AdvancesQuery, QueryKeeps
<1>9. CASE \/ Put(b, "gatePut", <<"perms">>, "handler")
           \/ Put(b, "annotatePut", <<"perms">>, "answer")
  BY <1>9, PutPermsKeeps
<1>10. CASE Put(b, "put", <<"action", v>>, AfterHandler(v))
  BY <1>1, <1>10, PutActionKeeps
<1>11. CASE Action(b)
  BY <1>11, ActionKeeps
<1>12. CASE Render(b)
  BY <1>12, RenderKeeps
<1> QED BY <1>1, <1>4, <1>5, <1>6, <1>7, <1>8, <1>9, <1>10, <1>11, <1>12 DEF FetchStep

\* The socket, and what only the page's query sees.
LEMMA SocketStepKeeps ==
    ASSUME Inv, UNCHANGED <<db, entry, fresh, mutating, pc, val, floor, view>>
    PROVE  Inv'
<1>1. TypeInv'
  BY DEF Inv, TypeInv, mutating
<1>2. Behind'
  BY DEF Inv, Behind, mutating
<1>3. EntriesDue'
  BY DueSame DEF Inv, EntriesDue
<1>4. ASSUME NEW b \in Browser PROVE FetchDue(b)'
  <2>1. FetchDue(b)
    BY DEF Inv
  <2> QED BY <2>1, DueSame DEF FetchDue
<1>5. \A m \in Mutation : Under(m)'
  BY DueSame DEF Inv
<1> QED BY <1>1, <1>2, <1>3, <1>4, <1>5 DEF Inv

LEMMA InitInv ==
    ASSUME PipelineAssumption, Init
    PROVE  Inv
<1>1. TypeInv
  BY DEF Init, TypeInv, Versions, Zero, MutationPcs, FetchPcs
<1>2. Behind
  BY DEF Init, Behind, Zero
<1>3. \A m \in Mutation : Under(m)
  BY DEF Init, Under
<1>4. EntriesDue
  BY DEF Init, EntriesDue
<1>5. ASSUME NEW b \in Browser PROVE FetchDue(b)
  <2>1. fresh[b] = {} /\ pc[b] = "idle" /\ view[b] \in View
    BY DEF Init
  <2> QED BY <2>1, SeenGrows DEF FetchDue
<1> QED BY <1>1, <1>2, <1>3, <1>4, <1>5 DEF Inv

LEMMA StepInv ==
    ASSUME PipelineAssumption, Declared, PlainRelations, OpenJunctions, Inv, [Next]_vars
    PROVE  Inv'
<1>1. ASSUME NEW m \in Mutation, MutationStep(m) PROVE Inv'
  BY <1>1, MutationStepKeeps
<1>2. ASSUME NEW b \in Browser, NEW v \in View, Visit(b, v) PROVE Inv'
  BY <1>2, VisitKeeps
<1>3. ASSUME NEW b \in Browser, FetchStep(b) PROVE Inv'
  BY <1>3, FetchStepKeeps
<1>4. ASSUME NEW b \in Browser,
             \/ Remount(b) \/ Connect(b) \/ Disconnect(b)
             \/ \E r \in Resource : JoinRoom(b, r) \/ Deliver(b, r)
      PROVE  Inv'
  <2>1. UNCHANGED <<db, entry, fresh, mutating, pc, val, floor, view>>
    BY <1>4 DEF Remount, Connect, Disconnect, JoinRoom, Deliver, fetching, page
  <2> QED BY <2>1, SocketStepKeeps
<1>5. CASE UNCHANGED vars
  BY <1>5, SocketStepKeeps DEF vars, fetching, page
<1> QED BY <1>1, <1>2, <1>3, <1>4, <1>5 DEF Next

-----------------------------------------------------------------------------
(***************************************************************************)
(* A read that begins after a write was answered returns that write: for    *)
(* every page, whichever caches it hits, whatever else is written, dropped  *)
(* or computed meanwhile, in a deployment that declares what its requests   *)
(* change and whose m2m relations are plain.                                *)
(***************************************************************************)
THEOREM AnswersAreSeen ==
    ASSUME Declared, PlainRelations, OpenJunctions
    PROVE  Spec => []ReadYourWrites
<1>1. Init => Inv
  BY InitInv, PipelineAssumption
<1>2. Inv /\ [Next]_vars => Inv'
  BY StepInv, PipelineAssumption
<1>3. Inv => ReadYourWrites
  <2> SUFFICES ASSUME Inv, NEW b \in Browser, pc[b] = "answer", NEW s \in Embeds(view[b])
               PROVE  val[b][s] >= floor[b][s]
    BY DEF ReadYourWrites
  <2>1. view[b] \in View /\ FetchDue(b)
    BY DEF Inv, TypeInv
  <2>2. s \in Seen(pc[b], view[b]) /\ s \in Record
    BY <2>1, SeenGrows, EmbedsRecords, PipelineAssumption DEF ReadNamed
  <2>3. floor[b][s] <= val[b][s] /\ floor[b][s] \in Nat /\ val[b][s] \in Nat
    BY <2>1, <2>2 DEF FetchDue, Inv, TypeInv, Versions
  <2> QED BY <2>3
<1> QED BY <1>1, <1>2, <1>3, PTL DEF Spec

-----------------------------------------------------------------------------
(* The sockets: only a connected page is in rooms. *)

SocketInv ==
    /\ rooms \in [Browser -> SUBSET Resource] /\ inbox \in [Browser -> SUBSET Resource]
    /\ connected \in [Browser -> BOOLEAN]
    /\ \A b \in Browser : rooms[b] # {} => connected[b]

LEMMA SocketStep ==
    ASSUME SocketInv, [Next]_vars
    PROVE  SocketInv'
<1>1. ASSUME NEW m \in Mutation, Publish(m) PROVE SocketInv'
  <2>1. UNCHANGED <<rooms, connected>>
    BY <1>1 DEF Publish
  <2>2. inbox' \in [Browser -> SUBSET Resource]
    BY <1>1 DEF Publish, SocketInv
  <2> QED BY <2>1, <2>2 DEF SocketInv
<1>2. ASSUME NEW m \in Mutation, MutationStep(m), ~Publish(m) PROVE UNCHANGED socket
  BY <1>2 DEF MutationStep, Handle, BeginBulk, CommitBulk, WriteHook, HookInvalidate,
              InvalidateTarget, InvalidateRoles, Answer
<1>3. ASSUME NEW b \in Browser,
             FetchStep(b) \/ Remount(b) \/ \E v \in View : Visit(b, v)
      PROVE  UNCHANGED socket
  BY <1>3 DEF FetchStep, Fetch, Gate, Action, Query, Put, Render, Visit, Remount, page
<1>4. ASSUME NEW b \in Browser, Connect(b) PROVE SocketInv'
  BY <1>4 DEF Connect, SocketInv
<1>5. ASSUME NEW b \in Browser, NEW r \in Resource, JoinRoom(b, r) PROVE SocketInv'
  BY <1>5 DEF JoinRoom, SocketInv
<1>6. ASSUME NEW b \in Browser, Disconnect(b) PROVE SocketInv'
  BY <1>6 DEF Disconnect, SocketInv
<1>7. ASSUME NEW b \in Browser, NEW r \in Resource, Deliver(b, r) PROVE SocketInv'
  BY <1>7 DEF Deliver, SocketInv
<1>8. CASE UNCHANGED socket
  BY <1>8 DEF SocketInv, socket
<1> QED BY <1>1, <1>2, <1>3, <1>4, <1>5, <1>6, <1>7, <1>8 DEF Next, vars

(***************************************************************************)
(* The types, with what only the reachable states have: no value is ahead  *)
(* of the database, an idle page reads nothing, rooms are of connected     *)
(* pages.                                                                  *)
(***************************************************************************)
THEOREM TypeCorrect ==
    ASSUME Declared, PlainRelations, OpenJunctions
    PROVE  Spec => []TypeOK
<1>1. Init => Inv /\ SocketInv
  <2>1. Init => SocketInv
    BY DEF Init, SocketInv
  <2> QED BY <2>1, InitInv, PipelineAssumption
<1>2. Inv /\ SocketInv /\ [Next]_vars => Inv' /\ SocketInv'
  BY StepInv, SocketStep, PipelineAssumption
<1>3. Inv /\ SocketInv => TypeOK
  <2> SUFFICES ASSUME Inv, SocketInv PROVE TypeOK
    OBVIOUS
  <2>1. \A k \in Key : entry[k] = None \/ \A s \in Record : entry[k][s] <= db[s]
    BY DEF Inv, Behind
  <2>2. ASSUME NEW b \in Browser
        PROVE  /\ fresh[b] \subseteq Key
               /\ pc[b] = "idle" => fresh[b] = {}
               /\ rooms[b] # {} => connected[b]
               /\ inbox[b] \subseteq Resource
               /\ \A s \in Record : val[b][s] <= db[s]
    BY IdleReadsNothing DEF Inv, TypeInv, Behind, SocketInv
  <2> QED BY <2>1, <2>2 DEF TypeOK
<1> QED BY <1>1, <1>2, <1>3, PTL DEF Spec
=============================================================================
