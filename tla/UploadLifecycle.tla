--------------------------- MODULE UploadLifecycle ---------------------------
(***************************************************************************)
(* The life of an uploaded file: stored and tracked as pending by the       *)
(* upload controller, held by the edit page and its draft, confirmed or     *)
(* removed by the after-hooks of uploadFeature, cancelled by the page, or   *)
(* swept when its time is over.  One file property of one resource.         *)
(*                                                                         *)
(* happened records the circumstances the code does not guard against; each *)
(* property names the ones it does not survive.                             *)
(***************************************************************************)
EXTENDS Naturals, FiniteSets

CONSTANTS IsArray,      \* the property holds several files
          Openings,     \* bound: edit pages opened
          Uploads,      \* bound: files uploaded
          MaxMishaps    \* bound: kinds of circumstances in one behaviour

ASSUME UploadAssumption == /\ IsArray \in BOOLEAN
                           /\ Openings \in Nat \ {0} /\ Uploads \in Nat /\ MaxMishaps \in Nat

(* Openings of the edit page, in their order.  A record is named for the    *)
(* new form that creates it.                                                *)
Form == 1 .. Openings
Record == Form

(* Storage keys, in the order in which the uploads mint them.               *)
Key == 1 .. Uploads

VARIABLES
    stored, deleting,        \* the provider: files, delete() calls under way
    pending,                 \* PendingUploadsRegistry
    db, present,             \* the file property of each record, the records
    up, by,                  \* the upload of each key minted, the form it is for
    page, target,            \* a form, the record it edits: its own if it is new
    value, mine,             \* its file keys, its pendingKeysRef
    draft,                   \* the file keys in the new form's stored draft
    cancels,                 \* cancelUpload requests under way
    call,                    \* a form's save or delete on the server
    happened

storage == <<stored, deleting, pending>>
records == <<db, present>>
uploads == <<up, by>>
form    == <<page, target, value, mine, draft, cancels>>
vars == <<storage, records, uploads, form, call, happened>>

Idle == [pc |-> "idle", kind |-> "save", old |-> {}, new |-> {}]
Working(f) == call[f].pc # "idle"
New(f) == target[f] = f
Live(f) == page[f] \in {"open", "busy"}

Mishap(S) == /\ happened' = happened \cup S
             /\ Cardinality(happened') <= MaxMishaps
If(condition, what) == IF condition THEN {what} ELSE {}

(* A page, its request, the reply of an upload or the draft may still save  *)
(* the file.                                                                *)
Holds(f, k) == \/ Live(f) /\ k \in value[f]
               \/ Working(f) /\ k \in call[f].new
Held(k) == k \in draft \/ up[k] = "stored" \/ \E f \in Form : Holds(f, k)
InUse(k) == Held(k) \/ \E r \in Record : k \in db[r]

-----------------------------------------------------------------------------
(* The edit page. *)

(* The form watches its values while it is mounted.                         *)
Persist(f, v) == draft' = IF New(f) /\ page[f] # "closed" THEN v ELSE draft

(* A new form restores the draft, unless the user undoes it; two pages may   *)
(* then hold one file.  An edit form hydrates once.  Assumed: nobody opens a *)
(* record while somebody else edits it.                                     *)
Open(f) ==
    /\ page[f] = "unopened" /\ \A g \in 1 .. f - 1 : page[g] # "unopened"
    /\ page' = [page EXCEPT ![f] = "open"]
    /\ \/ /\ \E v \in {draft, {}} :
                /\ value' = [value EXCEPT ![f] = v] /\ draft' = v
                /\ Mishap(If(\E g \in Form \ {f}, k \in v : Holds(g, k), "shared"))
          /\ UNCHANGED target
       \/ \E r \in present :
          /\ \A g \in Form : target[g] = r => ~Live(g) /\ ~Working(g)
          /\ target' = [target EXCEPT ![f] = r]
          /\ value' = [value EXCEPT ![f] = db[r]]
          /\ UNCHANGED <<draft, happened>>
    /\ UNCHANGED <<storage, records, uploads, mine, cancels, call>>

(* cancelIfPending: only what this page uploaded is cancelled.              *)
Drop(f, S, v) ==
    /\ cancels' = cancels \cup (S \cap mine[f])
    /\ value' = [value EXCEPT ![f] = v]
    /\ Persist(f, v)

(* onItemComplete, and onItemError when the reply is an error or lost.  It  *)
(* runs on while the form is being saved and after the page is gone.        *)
Uploaded(k) ==
    LET f == by[k]
        replaced == IF IsArray THEN {} ELSE value[f] IN
    /\ up[k] = "stored"
    /\ up' = [up EXCEPT ![k] = "done"]
    /\ \/ /\ Drop(f, replaced, (value[f] \ replaced) \cup {k})
          /\ mine' = [mine EXCEPT ![f] = (@ \ replaced) \cup {k}]
          /\ Mishap(If(page[f] # "open" /\ replaced \cap mine[f] # {}, "outlived"))
       \/ UNCHANGED <<value, mine, draft, cancels, happened>>
    /\ UNCHANGED <<storage, records, by, page, target, call>>

Remove(f, k) ==
    /\ page[f] = "open" /\ k \in value[f]
    /\ Drop(f, {k}, value[f] \ {k})
    /\ mine' = [mine EXCEPT ![f] = @ \ {k}]
    /\ UNCHANGED <<storage, records, uploads, page, target, call, happened>>

(* onSubmit and handleDelete: one request, of the form's whole value.       *)
Submit(f, kind) ==
    /\ page[f] = "open" /\ ~Working(f)
    /\ kind = "delete" => ~New(f)
    /\ page' = [page EXCEPT ![f] = "busy"]
    /\ call' = [call EXCEPT ![f] = [pc |-> "sent", kind |-> kind, old |-> {},
                                    new |-> IF kind = "save" THEN value[f] ELSE {}]]
    /\ UNCHANGED <<storage, records, uploads, target, value, mine, draft, cancels, happened>>

Leave(f) ==
    /\ Live(f)
    /\ page' = [page EXCEPT ![f] = "closed"]
    /\ UNCHANGED <<storage, records, uploads, target, value, mine, draft, cancels, call, happened>>

(* The reply: a success leads away and drops the draft, whoever wrote it;   *)
(* an error, or a reply that is lost, leaves the form open.                 *)
Replied(f, ok) ==
    /\ call' = [call EXCEPT ![f] = Idle]
    /\ \/ /\ ok /\ page' = [page EXCEPT ![f] = "closed"]
          /\ draft' = IF New(f) THEN {} ELSE draft
          /\ UNCHANGED happened
       \/ /\ page' = [page EXCEPT ![f] = IF @ = "busy" THEN "open" ELSE @]
          /\ Mishap(If(ok /\ New(f), "unanswered"))
          /\ UNCHANGED draft

-----------------------------------------------------------------------------
(* invoke() of new, edit and delete. *)

(* The record as context.record: what the after-hook takes for the old keys. *)
Begin(f) ==
    /\ call[f].pc = "sent"
    /\ call' = [call EXCEPT ![f] = [pc |-> "begun", kind |-> call[f].kind, new |-> call[f].new,
                                    old |-> IF New(f) THEN {} ELSE db[target[f]]]]
    /\ UNCHANGED <<storage, records, uploads, form, happened>>

(* The handler.  Another record may hold one of the files.                  *)
Write(f) ==
    LET r == target[f] IN
    /\ call[f].pc = "begun" /\ (New(f) <=> r \notin present)
    /\ call' = [call EXCEPT ![f].pc = "written"]
    /\ IF call[f].kind = "delete"
       THEN present' = present \ {r} ELSE present' = present \cup {r}
    /\ db' = [db EXCEPT ![r] = call[f].new]
    /\ Mishap(If(\E q \in present \ {r} : db[q] \cap call[f].new # {}, "shared"))
    /\ UNCHANGED <<storage, uploads, form>>

(* Validation, a missing record, or a before-hook.                          *)
Refuse(f) ==
    /\ call[f].pc = "begun"
    /\ Replied(f, FALSE)
    /\ UNCHANGED <<storage, records, uploads, target, value, mine, cancels>>

NothingConfirmed(f) == {}

Confirmed(f) == call[f].new
(* Keys that were in the record and are gone.                               *)
Replaced(f) == call[f].old \ call[f].new

(* newAfterHook, editAfterHook, deleteAfterHook.                            *)
AfterHook(f) ==
    /\ call[f].pc = "written"
    /\ pending' = pending \ Confirmed(f)
    /\ deleting' = deleting \cup Replaced(f)
    /\ call' = [call EXCEPT ![f].pc = "hooked"]
    /\ UNCHANGED <<stored, records, uploads, form, happened>>

(* The hook of another feature runs before: if it throws, those of the      *)
(* upload do not run, and the answer is an error.                           *)
HookThrows(f) ==
    /\ call[f].pc = "written"
    /\ call' = [call EXCEPT ![f] = Idle]
    /\ page' = [page EXCEPT ![f] = IF @ = "busy" THEN "open" ELSE @]
    /\ Mishap({"unhooked"})
    /\ UNCHANGED <<storage, records, uploads, target, value, mine, draft, cancels>>

(* The hook awaits its deletes.                                             *)
Answer(f) ==
    /\ call[f].pc = "hooked" /\ Replaced(f) \cap deleting = {}
    /\ Replied(f, TRUE)
    /\ UNCHANGED <<storage, records, uploads, target, value, mine, cancels>>

(* bulkDelete, to which uploadFeature adds no hook.                         *)
BulkDelete(r) ==
    /\ r \in present
    /\ present' = present \ {r} /\ db' = [db EXCEPT ![r] = {}]
    /\ Mishap({"bulkDelete"})
    /\ UNCHANGED <<storage, uploads, form, call>>

-----------------------------------------------------------------------------
(* The upload controller, the registry and the provider. *)

(* A picked file: stored, and tracked as pending before the reply.          *)
Upload(f, k) ==
    /\ page[f] = "open" /\ up[k] = "none" /\ \A q \in 1 .. k - 1 : up[q] # "none"
    /\ up' = [up EXCEPT ![k] = "stored"] /\ by' = [by EXCEPT ![k] = f]
    /\ stored' = stored \cup {k} /\ pending' = pending \cup {k}
    /\ UNCHANGED <<deleting, records, form, call, happened>>

(* A key that is not pending any more is answered 404.                      *)
Cancellable(k) == k \in pending

Cancel(k) ==
    /\ k \in cancels
    /\ cancels' = cancels \ {k}
    /\ IF Cancellable(k) THEN pending' = pending \ {k} /\ deleting' = deleting \cup {k}
       ELSE UNCHANGED <<pending, deleting>>
    /\ UNCHANGED <<stored, records, uploads, page, target, value, mine, draft, call, happened>>

SweepsNothing(k) == FALSE
Sweepable(k) == k \in pending

(* The time of a pending file is over.                                      *)
Sweep(k) ==
    /\ Sweepable(k)
    /\ pending' = pending \ {k} /\ deleting' = deleting \cup {k}
    /\ Mishap(If(Held(k), "expired"))
    /\ UNCHANGED <<stored, records, uploads, form, call>>

(* provider.delete; a failure is swallowed.                                 *)
Delete(k) ==
    /\ k \in deleting
    /\ deleting' = deleting \ {k}
    /\ \/ stored' = stored \ {k} /\ UNCHANGED happened
       \/ Mishap({"undeleted"}) /\ UNCHANGED stored
    /\ UNCHANGED <<pending, records, uploads, form, call>>

(* The registry is a Map of the process.                                    *)
Restart ==
    /\ "restart" \notin happened
    /\ Mishap({"restart"} \cup If(\E f \in Form : New(f) /\ call[f].pc \in {"written", "hooked"},
                                  "unanswered"))
    /\ pending' = {} /\ deleting' = {} /\ cancels' = {}
    /\ up' = [k \in Key |-> IF up[k] = "none" THEN "none" ELSE "done"]
    /\ call' = [f \in Form |-> Idle]
    /\ page' = [f \in Form |-> IF page[f] = "busy" THEN "open" ELSE page[f]]
    /\ UNCHANGED <<stored, records, by, target, value, mine, draft>>

-----------------------------------------------------------------------------
Init ==
    /\ stored = {} /\ deleting = {} /\ pending = {}
    /\ db = [r \in Record |-> {}] /\ present = {}
    /\ up = [k \in Key |-> "none"] /\ by = [k \in Key |-> 1]
    /\ page = [f \in Form |-> "unopened"] /\ target = [f \in Form |-> f]
    /\ value = [f \in Form |-> {}] /\ mine = [f \in Form |-> {}]
    /\ draft = {} /\ cancels = {}
    /\ call = [f \in Form |-> Idle] /\ happened = {}

Server(f) == \/ Begin(f) \/ Write(f) \/ Refuse(f)
             \/ HookThrows(f) \/ AfterHook(f) \/ Answer(f)
User(f) == \/ Open(f) \/ Leave(f) \/ \E kind \in {"save", "delete"} : Submit(f, kind)
           \/ \E k \in Key : Upload(f, k) \/ Remove(f, k)

Next == \/ \E f \in Form : User(f) \/ Server(f)
        \/ \E k \in Key : Uploaded(k) \/ Cancel(k) \/ Sweep(k) \/ Delete(k)
        \/ \E r \in Record : BulkDelete(r)
        \/ Restart

Spec == Init /\ [][Next]_vars

(* Requests are served, replies arrive and deletes return; the sweeper's timer fires again  *)
(* and again, and the time of a file that nobody holds is over some day.    *)
FairSpec == /\ Spec
            /\ \A f \in Form : WF_vars(Server(f))
            /\ \A k \in Key : /\ WF_vars(Uploaded(k)) /\ WF_vars(Delete(k))
                              /\ WF_vars(Sweep(k) /\ ~InUse(k))

-----------------------------------------------------------------------------
(* What is stored, pending or held was uploaded; a page takes for pending   *)
(* only what it uploaded itself.                                            *)
TypeOK ==
    /\ stored \cup deleting \cup pending \subseteq {k \in Key : up[k] \in {"stored", "done"}}
    /\ present \subseteq Record /\ \A f \in Form : value[f] \subseteq Key
    /\ \A f \in Form : mine[f] \subseteq {k \in Key : by[k] = f /\ up[k] = "done"}

(* The files of a record are in storage and nobody is deleting them: no      *)
(* cancellation, sweep or hook takes a saved file, restarts, lost replies    *)
(* and failed deletes included.  This does not survive a file held by two    *)
(* pages or records, a create whose answer is lost, an upload that outlives  *)
(* the form it belongs to, a form or draft kept beyond the file's time, and  *)
(* another feature's hook that throws: what is saved stays pending then.     *)
SavedFilesExist ==
    happened \cap {"shared", "unanswered", "outlived", "expired", "unhooked"} = {} =>
        \A r \in Record : db[r] \subseteq stored \ deleting

(* A file that nobody refers to leaves storage, abandoned forms, expired     *)
(* drafts and late uploads included; unless the process restarts, a delete   *)
(* fails, another feature's hook throws before the one that deletes, or      *)
(* records are deleted in bulk.                                             *)
NoOrphans ==
    \A k \in Key :
        []<>(\/ k \notin stored \/ InUse(k)
             \/ happened \cap {"restart", "undeleted", "bulkDelete", "unhooked"} # {})
=============================================================================
