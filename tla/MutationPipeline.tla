-------------------------- MODULE MutationPipeline --------------------------
(***************************************************************************)
(* A write from the request to the other users' screens: the handler and    *)
(* hooks of ModernAdmin.invoke, the invalidations, the realtime event, the  *)
(* gateway's rooms, and the browsers that refetch through the HTTP cache,   *)
(* the cached permissions of the role and the action cache.                 *)
(*                                                                         *)
(* Data is the version of each record.  A cache entry is the versions its   *)
(* value was built from.  The read caches behave as FencedCache says: a     *)
(* value is stored if no tag of its key was invalidated since the read of   *)
(* it began; fresh[b] holds the keys of which this is still true.           *)
(***************************************************************************)
EXTENDS ReferenceGraph, Sequences

CONSTANTS Record, ResourceOf,
          Joins,         \* <<l, s>>: the junction row l holds the key of the record s
          RoleRecord,    \* the row of the browsers' role
          Browser,       \* open pages of one principal
          Online,        \* the browsers whose deployment has realtime
          View,          \* lists (a resource) and show pages (a record)
          Mutation,
          Requests,      \* Mutation -> the requests it may make, each by a page or an API client (None)
          Registered,    \* the resources in the order of their registration
          MaxDrops,      \* bound: connections lost
          None

ASSUME PipelineAssumption ==
    /\ ResourceOf \in [Record -> Resource] /\ RoleRecord \in Record
    /\ View \subseteq Resource \cup Record /\ Resource \cap Record = {}
    /\ Joins \subseteq Record \X Record
    /\ None \notin Browser /\ MaxDrops \in Nat
    /\ \A m \in Mutation : \A q \in Requests[m] :
         /\ q.recs \subseteq Record /\ q.resource \in Resource
         /\ q.invalidates \subseteq Resource /\ q.by \in Browser \cup {None}
         /\ q.links \in BOOLEAN

VARIABLES
    db,                               \* version of each record
    entry, fresh,                     \* cached values, reads that may still store
    mpc, req, todo, mver,             \* invoke() of a mutation, its locals
    acked, announced, own,            \* history: versions answered, published, answered to a page
    view, pc, val, stale, shown,      \* a page, its fetch, its query
    floor,                            \* history: what the fetch has to see
    rooms, connected, inbox,          \* its socket
    early, covered,                   \* history: rooms joined when the fetch began
    overtaken,                        \* history: a first load that an invalidation overtook
    drops

mutating == <<mpc, req, todo, mver, acked, announced, own>>
fetching == <<pc, val, floor, early>>
page     == <<view, stale, shown, covered, overtaken>>
socket   == <<rooms, connected, inbox, drops>>
vars == <<db, entry, fresh, mutating, fetching, page, socket>>

Later(a, b) == [s \in Record |-> IF a[s] < b[s] THEN b[s] ELSE a[s]]
Zero == [s \in Record |-> 0]

-----------------------------------------------------------------------------
(* Views, keys and tags. *)

Of(v) == IF v \in Resource THEN v ELSE ResourceOf[v]
Rows(R) == {s \in Record : ResourceOf[s] \in R}

Own(v) == IF v \in Resource THEN Rows({v}) ELSE {v}
(* populateReferences: scalar references, of a list only.                   *)
Populated(v) == IF v \in Resource
                THEN Rows({s \in Resource : <<v, s>> \in Refs}) ELSE {}
(* The m2m read hook: the junction's rows that hold the key of a record      *)
(* shown, then the records they name.                                       *)
Junction(v) == {l \in Record : /\ <<Of(v), ResourceOf[l]>> \in Through
                               /\ v \in Resource \/ <<l, v>> \in Joins}
Named(v) == {s \in Record : /\ <<Of(v), ResourceOf[s]>> \in Refs
                            /\ \E l \in Junction(v) : <<l, s>> \in Joins}
Embeds(v) == Own(v) \cup Populated(v) \cup Junction(v) \cup Named(v) \cup {RoleRecord}

Key == {<<"perms">>} \cup ({"http", "action"} \X View)

ViewTags(v) == IF v \in Resource THEN {<<"list", v>>}
               ELSE {<<"record", v>>, <<"records", Of(v)>>}
TagsOf(k) == IF k = <<"perms">> THEN {<<"perms">>}
             ELSE ViewTags(k[2]) \cup (IF k[1] = "http" THEN {<<"perms">>} ELSE {})

invalidateTags(ts) ==
    /\ entry' = [k \in Key |-> IF TagsOf(k) \cap ts # {} THEN None ELSE entry[k]]
    /\ fresh' = [b \in Browser |-> {k \in fresh[b] : TagsOf(k) \cap ts = {}}]

(* Mutant: other resources' pages are forgotten.                            *)
ResourceTagsAlone(r, recs) ==
    {<<"list", r>>}
    \cup (IF recs = {} THEN {<<"records", r>>} ELSE {<<"record", s>> : s \in recs})

(* invalidateResourceCaches: of the rows named, or of all.                  *)
ResourceTags(r, recs) ==
    {<<"list", r>>}
    \cup (IF recs = {} THEN {<<"records", r>>} ELSE {<<"record", s>> : s \in recs})
    \cup {<<l, d>> : l \in {"list", "records"}, d \in Dependents(r)}

Init ==
    /\ db = Zero /\ acked = Zero /\ announced = Zero
    /\ entry = [k \in Key |-> None] /\ fresh = [b \in Browser |-> {}]
    /\ mpc = [m \in Mutation |-> "idle"] /\ req = [m \in Mutation |-> None]
    /\ todo = [m \in Mutation |-> {}] /\ mver = [m \in Mutation |-> Zero]
    /\ view \in [Browser -> View]
    /\ own = [b \in Browser |-> Zero]
    /\ pc = [b \in Browser |-> "idle"]
    /\ val = [b \in Browser |-> Zero] /\ floor = [b \in Browser |-> Zero]
    /\ stale = [b \in Browser |-> TRUE] /\ shown = [b \in Browser |-> None]
    /\ rooms = [b \in Browser |-> {}] /\ connected = [b \in Browser |-> FALSE]
    /\ inbox = [b \in Browser |-> {}] /\ drops = 0
    /\ early = [b \in Browser |-> TRUE] /\ covered = [b \in Browser |-> FALSE]
    /\ overtaken = [b \in Browser |-> FALSE]

-----------------------------------------------------------------------------
(* invoke() of a mutation. *)

BuiltIn(q) == q.action # "custom"
Targets(q) == (IF BuiltIn(q) THEN {q.resource} ELSE {}) \cup q.invalidates
(* Rows the m2m write or delete hook changes.                               *)
LinkRows(q) == {l \in Record : /\ q.links /\ <<q.resource, ResourceOf[l]>> \in Through
                               /\ \E s \in q.recs : <<l, s>> \in Joins}

(* Mutant: linked resources' queries are forgotten.                         *)
InvalidatedAlone(b, r) == [stale EXCEPT ![b] = @ \/ Of(view[b]) = r]

(* invalidateResourceData: the page's query is stale if it shows the resource *)
(* or a linked one.                                                         *)
Invalidated(b, r) ==
    [stale EXCEPT ![b] = @ \/ Of(view[b]) \in {r} \cup linkedResourceIds(r)]

Goto(m, l) == mpc' = [mpc EXCEPT ![m] = l]

Write(m, S) == /\ db' = [s \in Record |-> IF s \in S THEN db[s] + 1 ELSE db[s]]
               /\ mver' = [mver EXCEPT ![m] = [s \in Record |-> IF s \in S THEN db'[s] ELSE @[s]]]

(* The handlers of new, edit, delete and of a custom action write at once.  *)
Handle(m, q) ==
    /\ mpc[m] = "idle"
    /\ q.action # "bulkDelete"
    /\ req' = [req EXCEPT ![m] = q]
    /\ Write(m, q.recs)
    /\ Goto(m, IF LinkRows(q) # {} THEN "hook" ELSE "central")
    /\ todo' = [todo EXCEPT ![m] = Targets(q)]
    /\ UNCHANGED <<entry, fresh, acked, announced, own, fetching, page, socket>>

(* bulkDelete runs the delete hooks in its transaction: the junction's       *)
(* caches are dropped before the rows are gone for others.                  *)
BeginBulk(m, q) ==
    /\ mpc[m] = "idle"
    /\ q.action = "bulkDelete"
    /\ req' = [req EXCEPT ![m] = q]
    /\ todo' = [todo EXCEPT ![m] = Targets(q)]
    /\ Goto(m, "commit")
    /\ IF LinkRows(q) # {}
       THEN invalidateTags(UNION {ResourceTags(ResourceOf[s], {}) : s \in LinkRows(q)})
       ELSE UNCHANGED <<entry, fresh>>
    /\ UNCHANGED <<db, mver, acked, announced, own, fetching, page, socket>>

CommitBulk(m) ==
    /\ mpc[m] = "commit"
    /\ Write(m, req[m].recs \cup LinkRows(req[m]))
    /\ Goto(m, "central")
    /\ UNCHANGED <<entry, fresh, req, todo, acked, announced, own, fetching, page, socket>>

(* The m2m hook's transaction, then its invalidation of the junction.  A     *)
(* hook that throws fails the request: nothing after it runs.               *)
WriteHook(m) ==
    /\ mpc[m] = "hook"
    /\ \/ Write(m, LinkRows(req[m])) /\ Goto(m, "hooked")
       \/ Goto(m, "failed") /\ UNCHANGED <<db, mver>>
    /\ UNCHANGED <<entry, fresh, req, todo, acked, announced, own, fetching, page, socket>>

HookInvalidate(m) ==
    /\ mpc[m] = "hooked"
    /\ invalidateTags(UNION {ResourceTags(ResourceOf[s], {}) : s \in LinkRows(req[m])})
    /\ Goto(m, "central")
    /\ UNCHANGED <<db, req, todo, mver, acked, announced, own, fetching, page, socket>>

(* invalidateMutationCaches: one target after the other, then the roles.    *)
InvalidateTarget(m, r) ==
    /\ mpc[m] = "central" /\ r \in todo[m]
    /\ invalidateTags(ResourceTags(r, IF r = req[m].resource THEN req[m].recs ELSE {}))
    /\ todo' = [todo EXCEPT ![m] = @ \ {r}]
    /\ UNCHANGED <<db, mpc, req, mver, acked, announced, own, fetching, page, socket>>

InvalidateRoles(m) ==
    /\ mpc[m] = "central" /\ todo[m] = {}
    /\ IF ResourceOf[RoleRecord] \in Targets(req[m])
       THEN invalidateTags({<<"perms">>})
       ELSE UNCHANGED <<entry, fresh>>
    /\ Goto(m, IF BuiltIn(req[m]) THEN "publish" ELSE "answer")
    /\ UNCHANGED <<db, req, todo, mver, acked, announced, own, fetching, page, socket>>

(* emitMutationEvents and the gateway's broadcast.  An error of the bus is   *)
(* swallowed; bulkDelete's events, one per record, count as one.            *)
Publish(m) ==
    /\ mpc[m] = "publish"
    /\ \/ /\ inbox' = [b \in Browser |-> IF req[m].resource \in rooms[b]
                                         THEN inbox[b] \cup {req[m].resource} ELSE inbox[b]]
          /\ announced' = Later(announced, mver[m])
       \/ UNCHANGED <<inbox, announced>>
    /\ Goto(m, "answer")
    /\ UNCHANGED <<db, entry, fresh, req, todo, mver, acked, own, fetching, page,
                   rooms, connected, drops>>

(* The response; the hooks of the page that asked invalidate its queries.   *)
Answer(m) ==
    /\ mpc[m] = "answer"
    /\ acked' = Later(acked, mver[m])
    /\ Goto(m, "done")
    /\ req' = [req EXCEPT ![m] = None] /\ mver' = [mver EXCEPT ![m] = Zero]
    /\ LET b == req[m].by IN
       IF b = None THEN UNCHANGED <<own, stale>>
       ELSE /\ own' = [own EXCEPT ![b] = Later(@, mver[m])]
            /\ stale' = Invalidated(b, req[m].resource)
    /\ UNCHANGED <<db, entry, fresh, todo, announced, fetching, view, shown, covered, overtaken,
                   socket>>

-----------------------------------------------------------------------------
(* A fetch: the HTTP interceptor around invoke(list) or invoke(show). *)

Step(b, l) == pc' = [pc EXCEPT ![b] = l]
See(b, S, v) == val' = [val EXCEPT ![b] = [s \in Record |-> IF s \in S THEN v[s] ELSE @[s]]]

(* A lookup of key k: a hit brings the versions of S, a miss starts a read   *)
(* that may be stored as long as none of k's tags is invalidated.           *)
Lookup(b, k, S, hit, miss) ==
    IF entry[k] # None
    THEN See(b, S, entry[k]) /\ Step(b, hit) /\ UNCHANGED fresh
    ELSE fresh' = [fresh EXCEPT ![b] = @ \cup {k}] /\ Step(b, miss) /\ UNCHANGED val

(* Mutant: the snapshot outlives the computation.                           *)
StoreAndKeep(b, k) ==
    /\ entry' = IF k \in fresh[b] THEN [entry EXCEPT ![k] = val[b]] ELSE entry
    /\ UNCHANGED fresh

Store(b, k) ==
    /\ entry' = IF k \in fresh[b] THEN [entry EXCEPT ![k] = val[b]] ELSE entry
    /\ fresh' = [fresh EXCEPT ![b] = @ \ {k}]

Fetch(b) ==
    /\ pc[b] = "idle" /\ stale[b]
    /\ stale' = [stale EXCEPT ![b] = FALSE]
    /\ floor' = [floor EXCEPT ![b] = acked]
    /\ early' = [early EXCEPT ![b] = rooms[b] # Resource]
    /\ Lookup(b, <<"http", view[b]>>, Record, "answer", "gate")
    /\ UNCHANGED <<db, entry, mutating, view, shown, covered, overtaken, socket>>

(* getRolePermissions, for the access check and again for the row actions.  *)
Gate(b, at, hit, miss) ==
    /\ pc[b] = at
    /\ Lookup(b, <<"perms">>, {RoleRecord}, hit, miss)
    /\ UNCHANGED <<db, entry, mutating, floor, early, page, socket>>

AfterHandler(v) == IF Junction(v) = {} THEN "annotate" ELSE "junction"

Action(b) ==
    /\ pc[b] = "handler"
    /\ LET v == view[b] IN Lookup(b, <<"action", v>>, Own(v) \cup Populated(v), AfterHandler(v), "rows")
    /\ UNCHANGED <<db, entry, mutating, floor, early, page, socket>>

(* One query of the database.                                               *)
Query(b, at, S, next) ==
    /\ pc[b] = at
    /\ See(b, S, db)
    /\ Step(b, next)
    /\ UNCHANGED <<db, entry, fresh, mutating, floor, early, page, socket>>

Put(b, at, k, next) ==
    /\ pc[b] = at
    /\ Store(b, k)
    /\ Step(b, next)
    /\ UNCHANGED <<db, mutating, val, floor, early, page, socket>>

(* The response is stored and shown.  An invalidation during a refetch has   *)
(* cancelled it: it is fetched again.  A first load has no data yet and is   *)
(* not cancelled: the invalidation waits for it too, and its success clears  *)
(* the mark.                                                                *)
Render(b) ==
    /\ pc[b] = "answer"
    /\ Store(b, <<"http", view[b]>>)
    /\ Step(b, "idle")
    /\ IF stale[b] /\ shown[b] # None
       THEN UNCHANGED <<stale, shown, covered, overtaken>>
       ELSE /\ shown' = [shown EXCEPT ![b] = val[b]]
            /\ stale' = [stale EXCEPT ![b] = FALSE]
            /\ covered' = [covered EXCEPT ![b] = ~early[b]]
            /\ overtaken' = [overtaken EXCEPT ![b] = stale[b]]
    /\ val' = [val EXCEPT ![b] = Zero] /\ floor' = [floor EXCEPT ![b] = Zero]
    /\ early' = [early EXCEPT ![b] = TRUE]
    /\ UNCHANGED <<db, mutating, view, socket>>

(* Another page, of which the query cache has no data.                      *)
Visit(b, v) ==
    /\ pc[b] = "idle" /\ shown[b] # None
    /\ view' = [view EXCEPT ![b] = v]
    /\ stale' = [stale EXCEPT ![b] = TRUE]
    /\ shown' = [shown EXCEPT ![b] = None] /\ covered' = [covered EXCEPT ![b] = FALSE]
    /\ overtaken' = [overtaken EXCEPT ![b] = FALSE]
    /\ UNCHANGED <<db, entry, fresh, mutating, fetching, socket>>

(* The same page mounted again with its data still there, older than         *)
(* staleTime: it is fetched once more.                                      *)
Remount(b) ==
    /\ pc[b] = "idle" /\ shown[b] # None
    /\ stale' = [stale EXCEPT ![b] = TRUE]
    /\ UNCHANGED <<db, entry, fresh, mutating, fetching, view, shown, covered, overtaken, socket>>

FetchStep(b) ==
    LET v == view[b] IN
    \/ Fetch(b)
    \/ Gate(b, "gate", "handler", "gateRead")
    \/ Query(b, "gateRead", {RoleRecord}, "gatePut")
    \/ Put(b, "gatePut", <<"perms">>, "handler")
    \/ Action(b)
    \/ Query(b, "rows", Own(v), IF Populated(v) = {} THEN "put" ELSE "populate")
    \/ Query(b, "populate", Populated(v), "put")
    \/ Put(b, "put", <<"action", v>>, AfterHandler(v))
    \/ Query(b, "junction", Junction(v), "named")
    \/ Query(b, "named", Named(v), "annotate")
    \/ Gate(b, "annotate", "answer", "annotateRead")
    \/ Query(b, "annotateRead", {RoleRecord}, "annotatePut")
    \/ Put(b, "annotatePut", <<"perms">>, "answer")
    \/ Render(b)

-----------------------------------------------------------------------------
(* The socket. *)

Connect(b) ==
    /\ b \in Online /\ ~connected[b]
    /\ connected' = [connected EXCEPT ![b] = TRUE]
    /\ UNCHANGED <<db, entry, fresh, mutating, fetching, page, rooms, inbox, drops>>

(* handleSubscribe({all}): one room after another, an access check before it. *)
JoinRoom(b, r) ==
    /\ connected[b]
    /\ \E i \in DOMAIN Registered : /\ r = Registered[i]
                                    /\ rooms[b] = {Registered[j] : j \in 1 .. (i - 1)}
    /\ rooms' = [rooms EXCEPT ![b] = @ \cup {r}]
    /\ UNCHANGED <<db, entry, fresh, mutating, fetching, page, connected, inbox, drops>>

Disconnect(b) ==
    /\ connected[b] /\ drops < MaxDrops
    /\ drops' = drops + 1
    /\ connected' = [connected EXCEPT ![b] = FALSE]
    /\ rooms' = [rooms EXCEPT ![b] = {}] /\ inbox' = [inbox EXCEPT ![b] = {}]
    /\ early' = [early EXCEPT ![b] = TRUE]
    /\ covered' = [covered EXCEPT ![b] = FALSE]
    /\ UNCHANGED <<db, entry, fresh, mutating, pc, val, floor, view, stale, shown, overtaken>>

(* Mutant: a fetch under way is taken for the refetch.                      *)
DeliverWhenIdle(b, r) ==
    /\ r \in inbox[b]
    /\ inbox' = [inbox EXCEPT ![b] = @ \ {r}]
    /\ stale' = IF pc[b] = "idle" THEN Invalidated(b, r) ELSE stale
    /\ UNCHANGED <<db, entry, fresh, mutating, fetching, view, shown, covered, overtaken,
                   rooms, connected, drops>>

(* useRealtimeInvalidation: invalidateResourceData for the event's resource. *)
Deliver(b, r) ==
    /\ r \in inbox[b]
    /\ inbox' = [inbox EXCEPT ![b] = @ \ {r}]
    /\ stale' = Invalidated(b, r)
    /\ UNCHANGED <<db, entry, fresh, mutating, fetching, view, shown, covered, overtaken,
                   rooms, connected, drops>>

MutationStep(m) ==
    \/ \E q \in Requests[m] : Handle(m, q) \/ BeginBulk(m, q)
    \/ CommitBulk(m) \/ WriteHook(m) \/ HookInvalidate(m)
    \/ \E r \in Resource : InvalidateTarget(m, r)
    \/ InvalidateRoles(m) \/ Publish(m) \/ Answer(m)

Next ==
    \/ \E m \in Mutation : MutationStep(m)
    \/ \E b \in Browser :
         \/ \E v \in View : Visit(b, v)
         \/ Remount(b) \/ FetchStep(b) \/ Connect(b) \/ Disconnect(b)
         \/ \E r \in Resource : JoinRoom(b, r) \/ Deliver(b, r)

Fairness ==
    /\ WF_vars(\E m \in Mutation : mpc[m] # "idle" /\ MutationStep(m))
    /\ \A b \in Browser : /\ WF_vars(FetchStep(b))
                          /\ WF_vars(\E r \in Resource : Deliver(b, r))

Spec == Init /\ [][Next]_vars /\ Fairness

-----------------------------------------------------------------------------
(* Types of the state: versions count writes, a stored or shown value is     *)
(* never ahead of the database, and only what is read may be stored.        *)
TypeOK ==
    /\ \A k \in Key : entry[k] = None \/ \A s \in Record : entry[k][s] <= db[s]
    /\ \A b \in Browser : /\ fresh[b] \subseteq Key
                          /\ pc[b] = "idle" => fresh[b] = {}
                          /\ rooms[b] # {} => connected[b]
                          /\ inbox[b] \subseteq Resource
                          /\ \A s \in Record : val[b][s] <= db[s]

(* What ReadYourWrites needs of a deployment (README, D21 and D22).           *)

\* A request names rows of its resource, and a custom action declares it.
Declared ==
    \A m \in Mutation : \A q \in Requests[m] :
        /\ \A s \in q.recs : ResourceOf[s] = q.resource
        /\ BuiltIn(q) \/ q.resource \in q.invalidates

\* A junction is a table of its own, not the roles', and joins different tables.
PlainRelations ==
    /\ \A e \in Through : e[1] # e[2] /\ e[2] # ResourceOf[RoleRecord]
    /\ \A x, y \in Joins : x[1] = y[1] /\ ResourceOf[x[2]] = ResourceOf[y[2]] => x[2] = y[2]

\* If rows are deleted in bulk: who shows a junction's rows shows the tables it
\* joins too.
OpenJunctions ==
    (\E m \in Mutation : \E q \in Requests[m] : q.action = "bulkDelete") =>
        /\ JunctionsReference
        /\ \A e \in Through :
             /\ e \notin Refs
             /\ \A r \in Resource : <<r, e[2]>> \in Refs \cup Through => r = e[1] \/ <<r, e[1]>> \in Refs

(* A read that begins after a write was answered returns that write,         *)
(* whichever of the pages that embed the record it is for and whichever      *)
(* cache it hits: the list, the show page, a populated reference, an m2m     *)
(* property, the row actions of the role.                                   *)
ReadYourWrites ==
    \A b \in Browser : pc[b] = "answer" =>
        \A s \in Embeds(view[b]) : val[b][s] >= floor[b][s]

(* A page fetched after its socket joined the rooms, and connected since,    *)
(* comes to show every write that was published, although the event may      *)
(* arrive during a refetch and races the caches' invalidation; but for a     *)
(* first load that an invalidation overtook, until it is fetched again.      *)
ViewsConverge ==
    \A b \in Browser :
        <>[](covered[b] /\ ~overtaken[b] =>
                 \A s \in Embeds(view[b]) \ {RoleRecord} : shown[b][s] >= announced[s])

(* The page that made a write comes to show it, with or without a socket,    *)
(* but for a first load that an invalidation overtook.  (The rows' actions,  *)
(* which follow the role, are refetched only with them.)                    *)
OwnWritesShown ==
    \A b \in Browser :
        <>[](shown[b] # None /\ ~overtaken[b] =>
                 \A s \in Embeds(view[b]) \ {RoleRecord} : shown[b][s] >= own[b][s])
=============================================================================
