------------------------ MODULE UploadLifecycleProofs ------------------------
(***************************************************************************)
(* Proofs about UploadLifecycle, for any number of pages and uploads:       *)
(* TypeOK, and SavedFilesExist by the inductive invariant Inv.              *)
(***************************************************************************)
EXTENDS UploadLifecycle, TLAPS

(* None of the circumstances that SavedFilesExist excuses has happened.     *)
Good == happened \cap {"shared", "unanswered", "outlived", "expired", "unhooked"} = {}

Minted(k) == up[k] # "none"
Ready(S) == \A k \in S : up[k] = "done"

-----------------------------------------------------------------------------
(* What holds whatever happens. *)

CallStates == [pc : {"idle", "sent", "begun", "written", "hooked"}, kind : {"save", "delete"},
               old : SUBSET Key, new : SUBSET Key]

StorageTyped == /\ stored \subseteq Key /\ deleting \subseteq Key /\ pending \subseteq Key
                /\ \A k \in stored \cup deleting \cup pending : Minted(k)

UploadsTyped == up \in [Key -> {"none", "stored", "done"}] /\ by \in [Key -> Form]

RecordsTyped == /\ db \in [Record -> SUBSET Key] /\ present \subseteq Record
                /\ \A r \in Record : Ready(db[r])

PagesTyped == /\ page \in [Form -> {"unopened", "open", "busy", "closed"}]
              /\ target \in [Form -> Record]

ValuesTyped == /\ value \in [Form -> SUBSET Key] /\ mine \in [Form -> SUBSET Key]
               /\ draft \subseteq Key /\ cancels \subseteq Key
               /\ Ready(draft) /\ Ready(cancels)
               /\ \A f \in Form : Ready(value[f])

CallsTyped == /\ call \in [Form -> CallStates]
              /\ \A f \in Form : Ready(call[f].old) /\ Ready(call[f].new)

(* What a page takes for pending it uploaded itself, and holds.             *)
MineIsHeld == \A f \in Form : \A k \in mine[f] : by[k] = f /\ k \in value[f]

(* A page not opened yet has neither value nor uploads; a page waits        *)
(* exactly while its call is under way and nobody has left it.              *)
Pages ==
    /\ \A k \in Key : Minted(k) => page[by[k]] # "unopened"
    /\ \A f \in Form : page[f] = "unopened" => value[f] = {} /\ target[f] = f
    /\ \A f \in Form : Working(f) => page[f] \in {"busy", "closed"}
    /\ \A f \in Form : page[f] = "busy" => Working(f)

Deletions == \A f \in Form : Working(f) /\ call[f].kind = "delete" => call[f].new = {} /\ ~New(f)

Types == StorageTyped /\ UploadsTyped /\ RecordsTyped /\ PagesTyped /\ ValuesTyped /\ CallsTyped
Base == Types /\ MineIsHeld /\ Pages /\ Deletions

-----------------------------------------------------------------------------
(* What holds while none of the circumstances has happened. *)

Asks(f) == call[f].pc \in {"sent", "begun"}
Wrote(f) == call[f].pc \in {"written", "hooked"}

(* The form may still write the file.                                       *)
Carries(f, k) == \/ Live(f) /\ k \in value[f]
                 \/ Asks(f) /\ k \in call[f].new

Absent == \A r \in Record : r \notin present => db[r] = {}

(* A record present was written by its own form, which is over or about to  *)
(* be answered.                                                             *)
Created == \A r \in present : /\ New(r) /\ page[r] \in {"busy", "closed"}
                              /\ Working(r) => Wrote(r)

Once == \A f \in Form : target[f] # f => page[target[f]] = "closed" /\ ~Working(target[f])

OneEditor == \A f, g \in Form : (Live(f) \/ Working(f)) /\ (Live(g) \/ Working(g))
                                    /\ target[f] = target[g] => f = g

DraftsAreNew == /\ \A k \in draft : New(by[k])
                /\ \A f \in Form : New(f) => \A k \in value[f] : New(by[k])

DraftCarriers == \A f \in Form : \A k \in draft : Carries(f, k) => New(f)

OneRecord == \A r, q \in Record : \A k \in db[r] \cap db[q] : r = q

CarriedByEditor == \A r \in Record, f \in Form : \A k \in db[r] : Carries(f, k) => target[f] = r

OneCarrier == \A f, g \in Form, k \in Key : Carries(f, k) /\ Carries(g, k) => f = g

Written == \A f \in Form : Wrote(f) => db[target[f]] \subseteq call[f].new

DraftWritten == \A r \in Record : \A k \in db[r] \cap draft : Wrote(r) /\ New(r)

PendingWritten == \A r \in Record : \A k \in db[r] \cap pending :
                     \E f \in Form : target[f] = r /\ call[f].pc = "written" /\ k \in call[f].new

OldIsStored == \A f \in Form : call[f].pc = "begun" /\ ~New(f) /\ target[f] \in present
                  => call[f].old = db[target[f]]

NewHasNoOld == \A f \in Form : New(f) => call[f].old = {}

Keeps == \A f \in Form : Asks(f) /\ call[f].kind = "save"
            => value[f] \cap db[target[f]] \subseteq call[f].new

(* Somebody may still come to save the file, or has saved it.               *)
Wanted(k) == \/ k \in draft \/ up[k] = "stored"
             \/ \E r \in Record : k \in db[r]
             \/ \E f \in Form : (New(f) \/ target[f] \in present) /\ Carries(f, k)

(* The file is gone, or something under way will delete it.                 *)
Doomed(k) == \/ k \notin stored \/ k \in deleting \/ k \in cancels \cap pending
             \/ \E f \in Form : call[f].pc = "written" /\ k \in Replaced(f)

DoomedUnwanted == \A k \in Key : Minted(k) /\ Doomed(k) => ~Wanted(k)

Careful == /\ Absent /\ Created /\ Once /\ OneEditor /\ DraftsAreNew /\ DraftCarriers
           /\ OneRecord /\ CarriedByEditor /\ OneCarrier /\ Written /\ DraftWritten
           /\ PendingWritten /\ OldIsStored /\ NewHasNoOld /\ Keeps /\ DoomedUnwanted

Inv == Base /\ (Good => Careful)

-----------------------------------------------------------------------------
(* What the longer actions do. *)

(* Opening a page: a new form takes the draft or nothing, an edit form the  *)
(* files of a record nobody else edits.                                     *)
Opens(f, v) ==
    /\ page[f] = "unopened" /\ page' = [page EXCEPT ![f] = "open"]
    /\ value' = [value EXCEPT ![f] = v]
    /\ \/ /\ v \in {draft, {}} /\ draft' = v /\ UNCHANGED target
          /\ Mishap(If(\E g \in Form \ {f}, k \in v : Holds(g, k), "shared"))
       \/ \E r \in present :
          /\ \A g \in Form : target[g] = r => ~Live(g) /\ ~Working(g)
          /\ target' = [target EXCEPT ![f] = r] /\ v = db[r]
          /\ UNCHANGED <<draft, happened>>
    /\ UNCHANGED <<storage, records, uploads, mine, cancels, call>>

LEMMA OpenEffect ==
    ASSUME NEW f \in Form, Open(f) PROVE \E v : Opens(f, v)
BY DEF Open, Opens

(* The reply of an upload: the key joins the value of its form, which drops *)
(* what it replaces.                                                        *)
Adds(k, f, replaced) ==
    /\ replaced \in {{}, value[f]}
    /\ value' = [value EXCEPT ![f] = (value[f] \ replaced) \cup {k}]
    /\ mine' = [mine EXCEPT ![f] = (mine[f] \ replaced) \cup {k}]
    /\ cancels' = cancels \cup (replaced \cap mine[f])
    /\ Persist(f, (value[f] \ replaced) \cup {k})
    /\ Mishap(If(page[f] # "open" /\ replaced \cap mine[f] # {}, "outlived"))

Replies(k, f) ==
    /\ f = by[k] /\ up[k] = "stored" /\ up' = [up EXCEPT ![k] = "done"]
    /\ UNCHANGED <<storage, records, by, page, target, call>>
    /\ \/ \E replaced : Adds(k, f, replaced)
       \/ UNCHANGED <<value, mine, draft, cancels, happened>>

LEMMA UploadedEffect ==
    ASSUME NEW k \in Key, Types, Uploaded(k) PROVE \E f \in Form : Replies(k, f)
<1> DEFINE f == by[k]
           replaced == IF IsArray THEN {} ELSE value[f]
<1>1. f \in Form
  BY DEF Types, UploadsTyped
<1>2. CASE UNCHANGED <<value, mine, draft, cancels, happened>>
  BY <1>1, <1>2 DEF Uploaded, Replies
<1>3. CASE ~UNCHANGED <<value, mine, draft, cancels, happened>>
  <2>1. replaced \in {{}, value[f]}
    OBVIOUS
  <2>2. Adds(k, f, replaced)
    BY <1>3, <2>1 DEF Uploaded, Drop, Adds
  <2>3. \E x : Adds(k, f, x)
    BY <2>2
  <2> QED
    BY <1>1, <2>3 DEF Uploaded, Replies
<1> QED
  BY <1>2, <1>3

(* A call moves on, with what its form asked for.                           *)
Moves(f, pc, old) ==
    \E c \in CallStates :
        /\ call' = [call EXCEPT ![f] = c]
        /\ c.pc = pc /\ c.kind = call[f].kind /\ c.old = old /\ c.new = call[f].new

LEMMA BeginEffect ==
    ASSUME NEW f \in Form, Types, Begin(f)
    PROVE  Moves(f, "begun", IF New(f) THEN {} ELSE db[target[f]])
<1>1. call[f] \in CallStates /\ db[target[f]] \in SUBSET Key
  BY DEF Types, CallsTyped, PagesTyped, RecordsTyped
<1>2. call[f].kind \in {"save", "delete"} /\ call[f].new \in SUBSET Key
  BY <1>1 DEF CallStates
<1> DEFINE o == IF New(f) THEN {} ELSE db[target[f]]
           d == [pc |-> "begun", kind |-> call[f].kind, new |-> call[f].new, old |-> o]
<1>3. d \in CallStates
  BY <1>1, <1>2 DEF CallStates
<1>4. call' = [call EXCEPT ![f] = d]
  BY DEF Begin
<1>5. d.pc = "begun" /\ d.kind = call[f].kind /\ d.old = o /\ d.new = call[f].new
  OBVIOUS
<1> HIDE DEF d
<1> QED
  BY <1>3, <1>4, <1>5 DEF Moves

LEMMA StepEffect ==
    ASSUME NEW f \in Form, Types, NEW pc \in {"written", "hooked"},
           call' = [call EXCEPT ![f].pc = pc]
    PROVE  Moves(f, pc, call[f].old)
<1>1. call[f] \in CallStates
  BY DEF Types, CallsTyped
<1> DEFINE d == [call[f] EXCEPT !.pc = pc]
<1>2. d \in CallStates /\ d.pc = pc /\ d.kind = call[f].kind /\ d.old = call[f].old
                       /\ d.new = call[f].new
  BY <1>1 DEF CallStates
<1>3. call' = [call EXCEPT ![f] = d]
  OBVIOUS
<1> HIDE DEF d
<1> QED
  BY <1>2, <1>3 DEF Moves

Writes(f) ==
    /\ Moves(f, "written", call[f].old)
    /\ call[f].pc = "begun" /\ (New(f) <=> target[f] \notin present)
    /\ present' = IF call[f].kind = "delete" THEN present \ {target[f]}
                                             ELSE present \cup {target[f]}
    /\ db' = [db EXCEPT ![target[f]] = call[f].new]
    /\ Mishap(If(\E q \in present \ {target[f]} : db[q] \cap call[f].new # {}, "shared"))
    /\ UNCHANGED <<storage, uploads, form>>

LEMMA WriteEffect ==
    ASSUME NEW f \in Form, Types, Write(f) PROVE Writes(f)
BY StepEffect DEF Write, Writes

Hooks(f) ==
    /\ Moves(f, "hooked", call[f].old)
    /\ call[f].pc = "written"
    /\ pending' = pending \ call[f].new /\ deleting' = deleting \cup Replaced(f)
    /\ UNCHANGED <<stored, records, uploads, form, happened>>

LEMMA AfterHookEffect ==
    ASSUME NEW f \in Form, Types, AfterHook(f) PROVE Hooks(f)
BY StepEffect DEF AfterHook, Hooks, Confirmed

(* The end of a call: the page closes, or stays and is open again.          *)
Ends(f) ==
    /\ call[f].pc \in {"begun", "written", "hooked"} /\ call' = [call EXCEPT ![f] = Idle]
    /\ call[f].pc = "written" => ~Good'
    /\ \E p \in {"open", "closed"} :
          /\ page' = [page EXCEPT ![f] = p]
          /\ p = "open" => page[f] = "busy"
          /\ Wrote(f) /\ New(f) /\ Good' => p = "closed" /\ draft' = {}
    /\ draft' # draft => New(f) /\ draft' = {}
    /\ UNCHANGED <<storage, records, uploads, target, value, mine, cancels>>

LEMMA EndEffect ==
    ASSUME NEW f \in Form, Types, Pages, Refuse(f) \/ HookThrows(f) \/ Answer(f)
    PROVE  Ends(f)
<1>1. UNCHANGED <<storage, records, uploads, target, value, mine, cancels>>
  BY DEF Refuse, HookThrows, Answer
<1>2. page[f] \in {"busy", "closed"}
  BY DEF Refuse, HookThrows, Answer, Pages, Working
<1> DEFINE p == IF page[f] = "busy" THEN "open" ELSE page[f]
<1>3. /\ p \in {"open", "closed"} /\ (p = "open" => page[f] = "busy")
      /\ [page EXCEPT ![f] = p] = [page EXCEPT ![f] = IF @ = "busy" THEN "open" ELSE @]
  BY <1>2
<1> HIDE DEF p
<1>4. ASSUME HookThrows(f) PROVE Ends(f)
  <2>1. /\ call[f].pc = "written" /\ call' = [call EXCEPT ![f] = Idle]
        /\ page' = [page EXCEPT ![f] = p] /\ draft' = draft
    BY <1>3, <1>4 DEF HookThrows
  <2>2. ~Good'
    BY <1>4 DEF HookThrows, Mishap, Good
  <2> QED
    BY <1>1, <1>3, <2>1, <2>2 DEF Ends
<1>5. ASSUME Refuse(f) \/ Answer(f) PROVE Ends(f)
  <2>1. call[f].pc \in {"begun", "hooked"} /\ (Wrote(f) => Answer(f))
    BY <1>5 DEF Refuse, Answer, Wrote
  <2>2. PICK ok \in BOOLEAN : Replied(f, ok) /\ (Wrote(f) => ok)
    BY <1>5, <2>1 DEF Refuse, Answer, Wrote
  <2>3. call' = [call EXCEPT ![f] = Idle]
    BY <2>2 DEF Replied
  <2>4. CASE page' = [page EXCEPT ![f] = "closed"] /\ draft' = IF New(f) THEN {} ELSE draft
    BY <1>1, <2>1, <2>3, <2>4 DEF Ends
  <2>5. CASE /\ page' = [page EXCEPT ![f] = IF @ = "busy" THEN "open" ELSE @]
             /\ Mishap(If(ok /\ New(f), "unanswered")) /\ draft' = draft
    <3>1. ~(Wrote(f) /\ New(f) /\ Good')
      BY <2>2, <2>5 DEF Mishap, If, Good
    <3>2. page' = [page EXCEPT ![f] = p]
      BY <1>3, <2>5
    <3> QED
      BY <1>1, <1>3, <2>1, <2>3, <2>5, <3>1, <3>2 DEF Ends
  <2> QED
    BY <2>2, <2>4, <2>5 DEF Replied
<1> QED
  BY <1>4, <1>5

(* The same, form by form, in terms of what holds before.                   *)
Opened(f, v) ==
    /\ page[f] = "unopened" /\ ~Working(f) /\ target[f] = f
    /\ page'[f] = "open" /\ value'[f] = v
    /\ \A g \in Form \ {f} : page'[g] = page[g] /\ target'[g] = target[g] /\ value'[g] = value[g]
    /\ \/ /\ target'[f] = f /\ v \in {draft, {}} /\ draft' = v
          /\ Good' => \A g \in Form \ {f}, k \in v : ~Holds(g, k)
       \/ /\ target'[f] \in present /\ v = db[target'[f]] /\ draft' = draft
          /\ \A g \in Form : target[g] = target'[f] => ~Live(g) /\ ~Working(g)
    /\ UNCHANGED <<storage, records, uploads, cancels, call>>

LEMMA OpenedEffect ==
    ASSUME NEW f \in Form, Types, Pages, Open(f) PROVE \E v : Opened(f, v)
<1>1. PICK v : Opens(f, v)
  BY OpenEffect
<1>2. page[f] = "unopened" /\ ~Working(f) /\ target[f] = f
  BY <1>1 DEF Opens, Pages
<1>3. /\ page \in [Form -> {"unopened", "open", "busy", "closed"}] /\ target \in [Form -> Record]
      /\ value \in [Form -> SUBSET Key]
  BY DEF Types, PagesTyped, ValuesTyped
<1>4. /\ page'[f] = "open" /\ value'[f] = v
      /\ \A g \in Form \ {f} : page'[g] = page[g] /\ value'[g] = value[g]
      /\ UNCHANGED <<storage, records, uploads, cancels, call>>
  BY <1>1, <1>3 DEF Opens
<1> DEFINE Restores == /\ v \in {draft, {}} /\ draft' = v /\ UNCHANGED target
                       /\ Mishap(If(\E g \in Form \ {f}, k \in v : Holds(g, k), "shared"))
           Edits(r) == /\ \A g \in Form : target[g] = r => ~Live(g) /\ ~Working(g)
                       /\ target' = [target EXCEPT ![f] = r] /\ v = db[r]
                       /\ UNCHANGED <<draft, happened>>
<1>5. Restores \/ \E r \in present : Edits(r)
  BY <1>1 DEF Opens
<1>6. ASSUME Restores PROVE Opened(f, v)
  <2>1. Good' => \A g \in Form \ {f}, k \in v : ~Holds(g, k)
    BY <1>6 DEF Mishap, If, Good
  <2> QED
    BY <1>2, <1>4, <1>6, <2>1 DEF Opened
<1>7. ASSUME NEW r \in present, Edits(r) PROVE Opened(f, v)
  <2>1. target'[f] = r /\ \A g \in Form \ {f} : target'[g] = target[g]
    BY <1>3, <1>7
  <2> QED
    BY <1>2, <1>4, <1>7, <2>1 DEF Opened
<1> HIDE DEF Restores, Edits
<1>8. Opened(f, v)
  BY <1>5, <1>6, <1>7
<1> QED
  BY <1>8

-----------------------------------------------------------------------------
(* Base is inductive. *)

LEMMA StorageTypedKept == ASSUME Base, Next PROVE StorageTyped'
<1>0. Types /\ Pages /\ StorageTyped /\ UploadsTyped /\ ValuesTyped /\ CallsTyped
  BY DEF Base, Types
<1> USE <1>0 DEF storage, records, uploads, form, Form, Record, Key, StorageTyped, UploadsTyped,
   ValuesTyped, CallsTyped, Minted, Ready, Replaced
<1>1. ASSUME NEW f \in Form, NEW k \in Key, Upload(f, k) PROVE StorageTyped'
  BY <1>1 DEF Upload
<1>2. ASSUME NEW f \in Form, AfterHook(f) PROVE StorageTyped'
  <2>1. Hooks(f)
    BY <1>2, AfterHookEffect
  <2>2. call[f].old \subseteq Key
    BY DEF CallStates
  <2> QED
    BY <2>1, <2>2 DEF Hooks
<1>3. ASSUME NEW k \in Key, Uploaded(k) PROVE StorageTyped'
  <2>1. PICK f \in Form : Replies(k, f)
    BY <1>3, UploadedEffect
  <2> QED
    BY <2>1 DEF Replies, Adds, Persist
<1>4. ASSUME NEW k \in Key, Cancel(k) PROVE StorageTyped'
  BY <1>4 DEF Cancel, Cancellable
<1>5. ASSUME NEW k \in Key, Sweep(k) PROVE StorageTyped'
  BY <1>5 DEF Sweep, Sweepable
<1>6. ASSUME NEW k \in Key, Delete(k) PROVE StorageTyped'
  BY <1>6 DEF Delete
<1>7. ASSUME Restart PROVE StorageTyped'
  BY <1>7 DEF Restart
<1>8. CASE UNCHANGED <<stored, deleting, pending, up>>
  BY <1>8
<1> QED
  BY <1>1, <1>2, <1>3, <1>4, <1>5, <1>6, <1>7, <1>8 DEF Next, User, Server, Open, Leave, Submit,
     Remove, Begin, Write, Refuse, HookThrows, Answer, BulkDelete, vars

LEMMA UploadsTypedKept == ASSUME Base, Next PROVE UploadsTyped'
<1>0. Types /\ Pages /\ UploadsTyped
  BY DEF Base, Types
<1> USE <1>0 DEF storage, records, uploads, form, Form, Record, Key, UploadsTyped
<1>1. ASSUME NEW f \in Form, NEW k \in Key, Upload(f, k) PROVE UploadsTyped'
  BY <1>1 DEF Upload
<1>2. ASSUME NEW k \in Key, Uploaded(k) PROVE UploadsTyped'
  <2>1. PICK f \in Form : Replies(k, f)
    BY <1>2, UploadedEffect
  <2> QED
    BY <2>1 DEF Replies, Adds, Persist
<1>3. ASSUME Restart PROVE UploadsTyped'
  BY <1>3 DEF Restart
<1>4. CASE UNCHANGED <<up, by>>
  BY <1>4
<1> QED
  BY <1>1, <1>2, <1>3, <1>4 DEF Next, User, Server, Open, Leave, Submit, Remove, Begin, Write,
     Refuse, HookThrows, AfterHook, Answer, Cancel, Sweep, Delete, BulkDelete, vars

LEMMA RecordsTypedKept == ASSUME Base, Next PROVE RecordsTyped'
<1>0. Types /\ Pages /\ RecordsTyped /\ UploadsTyped /\ CallsTyped /\ PagesTyped
  BY DEF Base, Types
<1> USE <1>0 DEF storage, records, uploads, form, Form, Record, Key, RecordsTyped, UploadsTyped,
   CallsTyped, PagesTyped, Ready
<1>1. ASSUME NEW f \in Form, NEW k \in Key, Upload(f, k) PROVE RecordsTyped'
  BY <1>1 DEF Upload
<1>2. ASSUME NEW f \in Form, Write(f) PROVE RecordsTyped'
  <2>1. Writes(f)
    BY <1>2, WriteEffect
  <2>2. call[f].new \subseteq Key /\ Ready(call[f].new)
    BY DEF CallStates
  <2>3. target[f] \in Record /\ up' = up /\ db' = [db EXCEPT ![target[f]] = call[f].new]
    BY <2>1 DEF Writes
  <2>4. present' \in {present \ {target[f]}, present \cup {target[f]}}
    BY <2>1 DEF Writes
  <2> QED
    BY <2>2, <2>3, <2>4
<1>3. ASSUME NEW k \in Key, Uploaded(k) PROVE RecordsTyped'
  <2>1. PICK f \in Form : Replies(k, f)
    BY <1>3, UploadedEffect
  <2> QED
    BY <2>1 DEF Replies, Adds, Persist
<1>4. ASSUME NEW r \in Record, BulkDelete(r) PROVE RecordsTyped'
  BY <1>4 DEF BulkDelete
<1>5. ASSUME Restart PROVE RecordsTyped'
  BY <1>5 DEF Restart
<1>6. CASE UNCHANGED <<db, present, up>>
  BY <1>6
<1> QED
  BY <1>1, <1>2, <1>3, <1>4, <1>5, <1>6 DEF Next, User, Server, Open, Leave, Submit, Remove, Begin,
     Refuse, HookThrows, AfterHook, Answer, Cancel, Sweep, Delete, vars

LEMMA PagesTypedKept == ASSUME Base, Next PROVE PagesTyped'
<1>0. Types /\ Pages /\ PagesTyped /\ RecordsTyped
  BY DEF Base, Types
<1> USE <1>0 DEF storage, records, uploads, form, Form, Record, Key, PagesTyped, RecordsTyped,
   Record
<1>1. ASSUME NEW f \in Form, Open(f) PROVE PagesTyped'
  <2>1. PICK v : Opens(f, v)
    BY <1>1, OpenEffect
  <2> QED
    BY <2>1 DEF Opens
<1>2. ASSUME NEW f \in Form, Leave(f) PROVE PagesTyped'
  BY <1>2 DEF Leave
<1>3. ASSUME NEW f \in Form, NEW kind \in {"save", "delete"}, Submit(f, kind) PROVE PagesTyped'
  BY <1>3 DEF Submit
<1>4. ASSUME NEW f \in Form, Refuse(f) \/ HookThrows(f) PROVE PagesTyped'
  <2>1. Ends(f)
    BY <1>4, EndEffect
  <2> QED
    BY <2>1 DEF Ends, Idle
<1>5. ASSUME NEW f \in Form, Answer(f) PROVE PagesTyped'
  <2>1. Ends(f)
    BY <1>5, EndEffect
  <2> QED
    BY <2>1 DEF Ends, Idle
<1>6. ASSUME Restart PROVE PagesTyped'
  BY <1>6 DEF Restart
<1>7. CASE UNCHANGED <<page, target>>
  BY <1>7
<1> QED
  BY <1>1, <1>2, <1>3, <1>4, <1>5, <1>6, <1>7 DEF Next, User, Server, Upload, Remove, Begin, Write,
     AfterHook, Uploaded, Cancel, Sweep, Delete, BulkDelete, vars

LEMMA ValuesTypedKept == ASSUME Base, Next PROVE ValuesTyped'
<1>0. Types /\ Pages /\ ValuesTyped /\ UploadsTyped /\ RecordsTyped
  BY DEF Base, Types
<1> USE <1>0 DEF storage, records, uploads, form, Form, Record, Key, ValuesTyped, UploadsTyped,
   RecordsTyped, Ready
<1>1. ASSUME NEW f \in Form, Open(f) PROVE ValuesTyped'
  <2>1. PICK v : Opens(f, v)
    BY <1>1, OpenEffect
  <2> QED
    BY <2>1 DEF Opens
<1>2. ASSUME NEW f \in Form, NEW k \in Key, Upload(f, k) PROVE ValuesTyped'
  BY <1>2 DEF Upload
<1>3. ASSUME NEW f \in Form, NEW k \in Key, Remove(f, k) PROVE ValuesTyped'
  BY <1>3 DEF Remove, Drop, Persist
<1>4. ASSUME NEW f \in Form, Refuse(f) \/ HookThrows(f) PROVE ValuesTyped'
  <2>1. Ends(f)
    BY <1>4, EndEffect
  <2> QED
    BY <2>1 DEF Ends, Idle
<1>5. ASSUME NEW f \in Form, Answer(f) PROVE ValuesTyped'
  <2>1. Ends(f)
    BY <1>5, EndEffect
  <2> QED
    BY <2>1 DEF Ends, Idle
<1>6. ASSUME NEW k \in Key, Uploaded(k) PROVE ValuesTyped'
  <2>1. PICK f \in Form : Replies(k, f)
    BY <1>6, UploadedEffect
  <2>2. CASE UNCHANGED <<value, mine, draft, cancels, happened>>
    BY <2>1, <2>2 DEF Replies
  <2>3. ASSUME NEW replaced, Adds(k, f, replaced) PROVE ValuesTyped'
    <3>1. /\ value' = [value EXCEPT ![f] = (value[f] \ replaced) \cup {k}]
          /\ mine' = [mine EXCEPT ![f] = (mine[f] \ replaced) \cup {k}]
          /\ cancels' = cancels \cup (replaced \cap mine[f]) /\ replaced \in {{}, value[f]}
          /\ draft' \in {draft, (value[f] \ replaced) \cup {k}}
      BY <2>3 DEF Adds, Persist
    <3>2. \A q \in Key : up'[q] = "done" <=> up[q] = "done" \/ q = k
      BY <2>1 DEF Replies
    <3> QED
      BY <3>1, <3>2
  <2> QED
    BY <2>1, <2>2, <2>3 DEF Replies
<1>7. ASSUME NEW k \in Key, Cancel(k) PROVE ValuesTyped'
  BY <1>7 DEF Cancel, Cancellable
<1>8. ASSUME Restart PROVE ValuesTyped'
  BY <1>8 DEF Restart
<1>9. CASE UNCHANGED <<value, mine, draft, cancels, up>>
  BY <1>9
<1> QED
  BY <1>1, <1>2, <1>3, <1>4, <1>5, <1>6, <1>7, <1>8, <1>9 DEF Next, User, Server, Leave, Submit,
     Begin, Write, AfterHook, Sweep, Delete, BulkDelete, vars

LEMMA CallsTypedKept == ASSUME Base, Next PROVE CallsTyped'
<1>0. Types /\ Pages /\ CallsTyped /\ UploadsTyped /\ ValuesTyped /\ RecordsTyped /\ PagesTyped
  BY DEF Base, Types
<1> USE <1>0 DEF storage, records, uploads, form, Form, Record, Key, CallsTyped, UploadsTyped,
   ValuesTyped, RecordsTyped, PagesTyped, Ready
<1>1. ASSUME NEW f \in Form, NEW kind \in {"save", "delete"}, Submit(f, kind) PROVE CallsTyped'
  BY <1>1 DEF Submit, CallStates
<1>2. ASSUME NEW f \in Form, NEW k \in Key, Upload(f, k) PROVE CallsTyped'
  BY <1>2 DEF Upload
<1>3. ASSUME NEW f \in Form, Begin(f) PROVE CallsTyped'
  <2>1. Moves(f, "begun", IF New(f) THEN {} ELSE db[target[f]]) /\ up' = up
    BY <1>3, BeginEffect DEF Begin
  <2>2. Ready(IF New(f) THEN {} ELSE db[target[f]])
    OBVIOUS
  <2> QED
    BY <2>1, <2>2 DEF Moves
<1>4. ASSUME NEW f \in Form, Write(f) PROVE CallsTyped'
  <2>1. Writes(f)
    BY <1>4, WriteEffect
  <2> QED
    BY <2>1 DEF Writes, Moves
<1>5. ASSUME NEW f \in Form, Refuse(f) \/ HookThrows(f) PROVE CallsTyped'
  <2>1. Ends(f)
    BY <1>5, EndEffect
  <2> QED
    BY <2>1 DEF Ends, Idle, CallStates
<1>6. ASSUME NEW f \in Form, AfterHook(f) PROVE CallsTyped'
  <2>1. Hooks(f)
    BY <1>6, AfterHookEffect
  <2> QED
    BY <2>1 DEF Hooks, Moves
<1>7. ASSUME NEW f \in Form, Answer(f) PROVE CallsTyped'
  <2>1. Ends(f)
    BY <1>7, EndEffect
  <2> QED
    BY <2>1 DEF Ends, Idle, CallStates
<1>8. ASSUME NEW k \in Key, Uploaded(k) PROVE CallsTyped'
  <2>1. PICK f \in Form : Replies(k, f)
    BY <1>8, UploadedEffect
  <2> QED
    BY <2>1 DEF Replies, Adds, Persist
<1>9. ASSUME Restart PROVE CallsTyped'
  BY <1>9 DEF Restart, CallStates, Idle
<1>10. CASE UNCHANGED <<call, up>>
  BY <1>10
<1> QED
  BY <1>1, <1>2, <1>3, <1>4, <1>5, <1>6, <1>7, <1>8, <1>9, <1>10 DEF Next, User, Server, Open,
     Leave, Remove, Cancel, Sweep, Delete, BulkDelete, vars

LEMMA MineIsHeldKept == ASSUME Base, Next PROVE MineIsHeld'
<1>0. Types /\ Pages /\ MineIsHeld /\ UploadsTyped /\ ValuesTyped
  BY DEF Base, Types
<1> USE <1>0 DEF storage, records, uploads, form, Form, Record, Key, MineIsHeld, UploadsTyped,
   ValuesTyped, Pages, Ready
<1>1. ASSUME NEW f \in Form, Open(f) PROVE MineIsHeld'
  <2>1. PICK v : Opens(f, v)
    BY <1>1, OpenEffect
  <2>2. mine[f] = {}
    BY <2>1 DEF Opens
  <2> QED
    BY <2>1, <2>2 DEF Opens
<1>2. ASSUME NEW f \in Form, NEW k \in Key, Upload(f, k) PROVE MineIsHeld'
  BY <1>2 DEF Upload
<1>3. ASSUME NEW f \in Form, NEW k \in Key, Remove(f, k) PROVE MineIsHeld'
  BY <1>3 DEF Remove, Drop, Persist
<1>4. ASSUME NEW k \in Key, Uploaded(k) PROVE MineIsHeld'
  <2>1. PICK f \in Form : Replies(k, f)
    BY <1>4, UploadedEffect
  <2>2. CASE UNCHANGED <<value, mine, draft, cancels, happened>>
    BY <2>1, <2>2 DEF Replies
  <2>3. ASSUME NEW replaced, Adds(k, f, replaced) PROVE MineIsHeld'
    <3>1. /\ value' = [value EXCEPT ![f] = (value[f] \ replaced) \cup {k}]
          /\ mine' = [mine EXCEPT ![f] = (mine[f] \ replaced) \cup {k}]
          /\ by' = by /\ f = by[k]
      BY <2>1, <2>3 DEF Adds, Replies
    <3> QED
      BY <3>1
  <2> QED
    BY <2>1, <2>2, <2>3 DEF Replies
<1>5. ASSUME Restart PROVE MineIsHeld'
  BY <1>5 DEF Restart
<1>6. CASE UNCHANGED <<mine, by, value, up>>
  BY <1>6
<1> HIDE <1>0 DEF MineIsHeld
<1> QED
  BY <1>1, <1>2, <1>3, <1>4, <1>5, <1>6 DEF Next, User, Server, Leave, Submit, Begin, Write, Refuse,
     HookThrows, AfterHook, Answer, Cancel, Sweep, Delete, BulkDelete, vars

LEMMA PagesKept == ASSUME Base, Next PROVE Pages'
<1>0. Types /\ Pages /\ UploadsTyped /\ PagesTyped /\ ValuesTyped /\ CallsTyped
  BY DEF Base, Types
<1> USE <1>0 DEF storage, records, uploads, form, Form, Record, Key, Pages, UploadsTyped,
   PagesTyped, ValuesTyped, CallsTyped, Minted, Ready, Working, Live, New
<1>1. ASSUME NEW f \in Form, Open(f) PROVE Pages'
  <2>1. PICK v : Opens(f, v)
    BY <1>1, OpenEffect
  <2>2. ~Working(f)
    BY <2>1 DEF Opens
  <2>3. /\ page' = [page EXCEPT ![f] = "open"] /\ value' = [value EXCEPT ![f] = v]
        /\ \A g \in Form \ {f} : target'[g] = target[g]
        /\ UNCHANGED <<call, uploads>>
    BY <2>1 DEF Opens
  <2> QED
    BY <2>2, <2>3
<1>2. ASSUME NEW f \in Form, Leave(f) PROVE Pages'
  BY <1>2 DEF Leave
<1>3. ASSUME NEW f \in Form, NEW kind \in {"save", "delete"}, Submit(f, kind) PROVE Pages'
  BY <1>3 DEF Submit
<1>4. ASSUME NEW f \in Form, NEW k \in Key, Upload(f, k) PROVE Pages'
  BY <1>4 DEF Upload
<1>5. ASSUME NEW f \in Form, NEW k \in Key, Remove(f, k) PROVE Pages'
  BY <1>5 DEF Remove, Drop, Persist
<1>6. ASSUME NEW f \in Form, Begin(f) PROVE Pages'
  <2>1. Moves(f, "begun", IF New(f) THEN {} ELSE db[target[f]])
    BY <1>6, BeginEffect
  <2> QED
    BY <1>6, <2>1 DEF Begin, Moves
<1>7. ASSUME NEW f \in Form, Write(f) PROVE Pages'
  <2>1. Writes(f)
    BY <1>7, WriteEffect
  <2> QED
    BY <2>1 DEF Writes, Moves
<1>8. ASSUME NEW f \in Form, Refuse(f) \/ HookThrows(f) PROVE Pages'
  <2>1. Ends(f)
    BY <1>8, EndEffect
  <2> QED
    BY <2>1 DEF Ends, Idle
<1>9. ASSUME NEW f \in Form, AfterHook(f) PROVE Pages'
  <2>1. Hooks(f)
    BY <1>9, AfterHookEffect
  <2> QED
    BY <2>1 DEF Hooks, Moves
<1>10. ASSUME NEW f \in Form, Answer(f) PROVE Pages'
  <2>1. Ends(f)
    BY <1>10, EndEffect
  <2> QED
    BY <2>1 DEF Ends, Idle
<1>11. ASSUME NEW k \in Key, Uploaded(k) PROVE Pages'
  <2>1. PICK f \in Form : Replies(k, f)
    BY <1>11, UploadedEffect
  <2>2. CASE UNCHANGED <<value, mine, draft, cancels, happened>>
    BY <2>1, <2>2 DEF Replies
  <2>3. ASSUME NEW replaced, Adds(k, f, replaced) PROVE Pages'
    <3>1. /\ value' = [value EXCEPT ![f] = (value[f] \ replaced) \cup {k}]
          /\ up' = [up EXCEPT ![k] = "done"] /\ by' = by /\ f = by[k] /\ up[k] = "stored"
          /\ UNCHANGED <<page, target, call>>
      BY <2>1, <2>3 DEF Adds, Replies
    <3>2. page[f] # "unopened"
      BY <3>1
    <3> QED
      BY <3>1, <3>2
  <2> QED
    BY <2>1, <2>2, <2>3 DEF Replies
<1>12. ASSUME Restart PROVE Pages'
  BY <1>12 DEF Restart, Idle
<1>13. CASE UNCHANGED <<up, by, page, value, target, call>>
  BY <1>13
<1> HIDE <1>0 DEF Pages
<1> QED
  BY <1>1, <1>2, <1>3, <1>4, <1>5, <1>6, <1>7, <1>8, <1>9, <1>10, <1>11, <1>12, <1>13 DEF Next,
     User, Server, Cancel, Sweep, Delete, BulkDelete, vars

LEMMA DeletionsKept == ASSUME Base, Next PROVE Deletions'
<1>0. Types /\ Pages /\ Deletions /\ PagesTyped /\ CallsTyped
  BY DEF Base, Types
<1> USE <1>0 DEF storage, records, uploads, form, Form, Record, Key, Deletions, PagesTyped,
   CallsTyped, Pages, Working, New
<1>1. ASSUME NEW f \in Form, Open(f) PROVE Deletions'
  <2>1. PICK v : Opens(f, v)
    BY <1>1, OpenEffect
  <2> QED
    BY <2>1 DEF Opens
<1>2. ASSUME NEW f \in Form, NEW kind \in {"save", "delete"}, Submit(f, kind) PROVE Deletions'
  BY <1>2 DEF Submit
<1>3. ASSUME NEW f \in Form, Begin(f) PROVE Deletions'
  <2>1. Moves(f, "begun", IF New(f) THEN {} ELSE db[target[f]])
    BY <1>3, BeginEffect
  <2> QED
    BY <1>3, <2>1 DEF Begin, Moves
<1>4. ASSUME NEW f \in Form, Write(f) PROVE Deletions'
  <2>1. Writes(f)
    BY <1>4, WriteEffect
  <2> QED
    BY <2>1 DEF Writes, Moves
<1>5. ASSUME NEW f \in Form, Refuse(f) \/ HookThrows(f) PROVE Deletions'
  <2>1. Ends(f)
    BY <1>5, EndEffect
  <2> QED
    BY <2>1 DEF Ends, Idle
<1>6. ASSUME NEW f \in Form, AfterHook(f) PROVE Deletions'
  <2>1. Hooks(f)
    BY <1>6, AfterHookEffect
  <2> QED
    BY <2>1 DEF Hooks, Moves
<1>7. ASSUME NEW f \in Form, Answer(f) PROVE Deletions'
  <2>1. Ends(f)
    BY <1>7, EndEffect
  <2> QED
    BY <2>1 DEF Ends, Idle
<1>8. ASSUME Restart PROVE Deletions'
  BY <1>8 DEF Restart, Idle
<1>9. CASE UNCHANGED <<call, target>>
  BY <1>9
<1> HIDE <1>0 DEF Deletions
<1> QED
  BY <1>1, <1>2, <1>3, <1>4, <1>5, <1>6, <1>7, <1>8, <1>9 DEF Next, User, Server, Leave, Upload,
     Remove, Uploaded, Cancel, Sweep, Delete, BulkDelete, vars

LEMMA BaseKept == ASSUME Base, Next PROVE Base'
BY StorageTypedKept, UploadsTypedKept, RecordsTypedKept, PagesTypedKept, ValuesTypedKept,
   CallsTypedKept, MineIsHeldKept, PagesKept, DeletionsKept DEF Base, Types

-----------------------------------------------------------------------------
(* Where what matters to a file can come from. *)

LEMMA DbGrows ==
    ASSUME Base, Next, NEW r \in Record, NEW k \in Key, k \in db'[r]
    PROVE  k \in db[r] \/ \E f \in Form : Writes(f) /\ target[f] = r /\ k \in call[f].new
<1>0. Types /\ RecordsTyped /\ PagesTyped
  BY DEF Base, Types
<1> USE <1>0 DEF storage, records, uploads, form, Form, Record, Key, RecordsTyped, PagesTyped
<1>1. CASE \E g \in Form : Write(g)
  <2>1. PICK g \in Form : Writes(g)
    BY <1>1, WriteEffect
  <2> QED
    BY <2>1 DEF Writes
<1>2. CASE \E q \in Record : BulkDelete(q)
  BY <1>2 DEF BulkDelete
<1>3. CASE UNCHANGED db
  BY <1>3
<1> HIDE <1>0
<1> QED
  BY <1>1, <1>2, <1>3 DEF Next, User, Server, Open, Leave, Submit, Upload, Remove, Begin, Refuse,
     HookThrows, AfterHook, Answer, Uploaded, Cancel, Sweep, Delete, Restart, vars

LEMMA PresentGrows ==
    ASSUME Base, Next, NEW r \in Record, r \in present'
    PROVE  r \in present \/ \E f \in Form : Writes(f) /\ target[f] = r
<1>0. Types /\ RecordsTyped /\ PagesTyped
  BY DEF Base, Types
<1> USE <1>0 DEF storage, records, uploads, form, Form, Record, Key, RecordsTyped, PagesTyped
<1>1. CASE \E g \in Form : Write(g)
  <2>1. PICK g \in Form : Writes(g)
    BY <1>1, WriteEffect
  <2> QED
    BY <2>1 DEF Writes
<1>2. CASE \E q \in Record : BulkDelete(q)
  BY <1>2 DEF BulkDelete
<1>3. CASE UNCHANGED present
  BY <1>3
<1> HIDE <1>0
<1> QED
  BY <1>1, <1>2, <1>3 DEF Next, User, Server, Open, Leave, Submit, Upload, Remove, Begin, Refuse,
     HookThrows, AfterHook, Answer, Uploaded, Cancel, Sweep, Delete, Restart, vars

LEMMA TargetKept ==
    ASSUME Base, Next, NEW f \in Form, page[f] # "unopened"
    PROVE  target'[f] = target[f]
<1>0. Types /\ Pages /\ PagesTyped
  BY DEF Base, Types
<1> USE <1>0 DEF storage, records, uploads, form, Form, Record, Key, PagesTyped
<1>1. CASE \E g \in Form : Open(g)
  <2>1. PICK g \in Form : \E v : Opened(g, v)
    BY <1>1, OpenedEffect
  <2> QED
    BY <2>1 DEF Opened
<1>2. CASE UNCHANGED target
  BY <1>2
<1> HIDE <1>0
<1> QED
  BY <1>1, <1>2 DEF Next, User, Server, Leave, Submit, Upload, Remove, Begin, Write, Refuse,
     HookThrows, AfterHook, Answer, Uploaded, Cancel, Sweep, Delete, BulkDelete, Restart, vars

(* The draft takes files from new forms that are open, and from replies.    *)
DraftFrom(f, k) == /\ New(f) /\ ((Live(f) /\ k \in value[f]) \/ Replies(k, f))
                   /\ UNCHANGED <<db, target, page, call>>

LEMMA DraftGrows ==
    ASSUME Base, Next, NEW k \in Key, k \in draft'
    PROVE  k \in draft \/ \E f \in Form : DraftFrom(f, k)
<1>0. Types /\ Pages /\ PagesTyped /\ ValuesTyped /\ UploadsTyped
  BY DEF Base, Types
<1> USE <1>0 DEF storage, records, uploads, form, Form, Record, Key, Pages, PagesTyped,
   ValuesTyped, UploadsTyped
<1>1. CASE \E g \in Form : Open(g)
  <2>1. PICK g \in Form : \E v : Opened(g, v)
    BY <1>1, OpenedEffect
  <2> QED
    BY <2>1 DEF Opened
<1>2. CASE \E g \in Form, q \in Key : Remove(g, q)
  <2>1. PICK g \in Form, q \in Key : Remove(g, q)
    BY <1>2
  <2>2. page[g] = "open" /\ UNCHANGED <<db, target, page, call>>
    BY <2>1 DEF Remove
  <2>3. \/ draft' = draft
        \/ New(g) /\ draft' = value[g] \ {q}
    BY <2>1 DEF Remove, Drop, Persist
  <2> QED
    BY <2>2, <2>3 DEF DraftFrom, Live
<1>3. CASE \E g \in Form : Refuse(g) \/ HookThrows(g)
  <2>1. PICK g \in Form : Ends(g)
    BY <1>3, EndEffect
  <2> QED
    BY <2>1 DEF Ends, Idle, Asks, Live
<1>4. CASE \E g \in Form : Answer(g)
  <2>1. PICK g \in Form : Ends(g)
    BY <1>4, EndEffect
  <2> QED
    BY <2>1 DEF Ends, Idle, Asks, Live
<1>5. CASE \E q \in Key : Uploaded(q)
  <2>1. PICK q \in Key, g \in Form : Replies(q, g)
    BY <1>5, UploadedEffect
  <2>2. page[g] # "unopened" /\ UNCHANGED <<db, target, page, call>>
    BY <2>1 DEF Replies, Minted
  <2>3. \/ draft' = draft
        \/ New(g) /\ page[g] # "closed" /\ draft' \subseteq value[g] \cup {q}
    BY <2>1 DEF Replies, Adds, Persist
  <2> QED
    BY <2>1, <2>2, <2>3 DEF DraftFrom, Live
<1>6. CASE UNCHANGED draft
  BY <1>6
<1> HIDE <1>0
<1> QED
  BY <1>1, <1>2, <1>3, <1>4, <1>5, <1>6 DEF Next, User, Server, Leave, Submit, Upload, Begin, Write,
     AfterHook, Cancel, Sweep, Delete, BulkDelete, Restart, vars

LEMMA Carriers ==
    ASSUME Base, Next, NEW f \in Form, NEW k \in Key, Carries(f, k)'
    PROVE  Carries(f, k) \/ (\E v : Opened(f, v) /\ k \in v) \/ Replies(k, f)
<1>0. Types /\ Pages /\ PagesTyped /\ ValuesTyped /\ CallsTyped
  BY DEF Base, Types
<1> USE <1>0 DEF storage, records, uploads, form, Form, Record, Key, Pages, PagesTyped,
   ValuesTyped, CallsTyped, Carries, Live, Asks
<1>1. CASE \E g \in Form : Open(g)
  <2>1. PICK g \in Form : \E v : Opened(g, v)
    BY <1>1, OpenedEffect
  <2> QED
    BY <2>1 DEF Opened
<1>2. CASE \E g \in Form : Leave(g)
  BY <1>2 DEF Leave, Live, Asks
<1>3. CASE \E g \in Form, kind \in {"save", "delete"} : Submit(g, kind)
  BY <1>3 DEF Submit, Live, Asks
<1>4. CASE \E g \in Form, q \in Key : Remove(g, q)
  BY <1>4 DEF Remove, Live, Asks, Drop, Persist
<1>5. CASE \E g \in Form : Begin(g)
  <2>1. PICK g \in Form : Moves(g, "begun", IF New(g) THEN {} ELSE db[target[g]]) /\ Begin(g)
    BY <1>5, BeginEffect
  <2> QED
    BY <2>1 DEF Begin, Moves, Asks
<1>6. CASE \E g \in Form : Write(g)
  <2>1. PICK g \in Form : Writes(g)
    BY <1>6, WriteEffect
  <2> QED
    BY <2>1 DEF Writes, Moves
<1>7. CASE \E g \in Form : Refuse(g) \/ HookThrows(g)
  <2>1. PICK g \in Form : Ends(g)
    BY <1>7, EndEffect
  <2> QED
    BY <2>1 DEF Ends, Idle, Asks, Live
<1>8. CASE \E g \in Form : AfterHook(g)
  <2>1. PICK g \in Form : Hooks(g)
    BY <1>8, AfterHookEffect
  <2> QED
    BY <2>1 DEF Hooks, Moves, Asks
<1>9. CASE \E g \in Form : Answer(g)
  <2>1. PICK g \in Form : Ends(g)
    BY <1>9, EndEffect
  <2> QED
    BY <2>1 DEF Ends, Idle, Asks, Live
<1>10. CASE \E q \in Key : Uploaded(q)
  <2>1. PICK q \in Key, g \in Form : Replies(q, g)
    BY <1>10, UploadedEffect
  <2>2. UNCHANGED <<page, call>>
    BY <2>1 DEF Replies
  <2>3. CASE UNCHANGED <<value, mine, draft, cancels, happened>>
    BY <2>2, <2>3
  <2>4. ASSUME NEW replaced, Adds(q, g, replaced) 
        PROVE  k \in value'[f] => k \in value[f] \/ (f = g /\ k = q)
    <3>1. value' = [value EXCEPT ![g] = (value[g] \ replaced) \cup {q}]
      BY <2>4 DEF Adds
    <3> QED
      BY <3>1
  <2>5. CASE \E replaced : Adds(q, g, replaced)
    BY <2>1, <2>2, <2>4, <2>5
  <2> QED
    BY <2>1, <2>3, <2>5 DEF Replies
<1>11. CASE Restart
  BY <1>11 DEF Restart, Idle, Asks, Live
<1>12. CASE UNCHANGED <<page, value, call>>
  BY <1>12
<1> HIDE <1>0
<1> QED
  BY <1>1, <1>2, <1>3, <1>4, <1>5, <1>6, <1>7, <1>8, <1>9, <1>10, <1>11, <1>12 DEF Next, User,
     Server, Upload, Cancel, Sweep, Delete, BulkDelete, vars

-----------------------------------------------------------------------------
(* The plain parts of Careful. *)

LEMMA AbsentKept == ASSUME Base, Careful, Good', Next PROVE Absent'
<1>0. Types /\ Pages /\ Absent /\ CallsTyped /\ PagesTyped /\ RecordsTyped /\ Deletions
  BY DEF Base, Types, Careful
<1> USE <1>0 DEF storage, records, uploads, form, Form, Record, Key, Pages, Absent, CallsTyped,
   PagesTyped, RecordsTyped, Deletions, Working
<1>1. ASSUME NEW f \in Form, Write(f) PROVE Absent'
  <2>1. Writes(f)
    BY <1>1, WriteEffect
  <2> QED
    BY <2>1 DEF Writes, Moves
<1>2. ASSUME NEW r \in Record, BulkDelete(r) PROVE Absent'
  BY <1>2 DEF BulkDelete
<1>3. CASE UNCHANGED <<present, db>>
  BY <1>3
<1> HIDE <1>0 DEF Absent
<1> QED
  BY <1>1, <1>2, <1>3 DEF Next, User, Server, Open, Leave, Submit, Upload, Remove, Begin, Refuse,
     HookThrows, AfterHook, Answer, Uploaded, Cancel, Sweep, Delete, Restart, vars

LEMMA CreatedKept == ASSUME Base, Careful, Good', Next PROVE Created'
<1>0. Types /\ Pages /\ Created /\ PagesTyped /\ CallsTyped /\ RecordsTyped /\ Deletions
  BY DEF Base, Types, Careful
<1> USE <1>0 DEF storage, records, uploads, form, Form, Record, Key, Pages, Created, PagesTyped,
   CallsTyped, RecordsTyped, Deletions, Working, New, Wrote
<1>1. ASSUME NEW f \in Form, Open(f) PROVE Created'
  <2>1. PICK v : Opened(f, v)
    BY <1>1, OpenedEffect
  <2>2. f \notin present
    BY <2>1 DEF Opened
  <2>3. /\ \A r \in present : page'[r] = page[r] /\ target'[r] = target[r]
        /\ UNCHANGED <<present, call>>
    BY <2>1, <2>2 DEF Opened
  <2> QED
    BY <2>3
<1>2. ASSUME NEW f \in Form, Leave(f) PROVE Created'
  BY <1>2 DEF Leave
<1>3. ASSUME NEW f \in Form, NEW kind \in {"save", "delete"}, Submit(f, kind) PROVE Created'
  BY <1>3 DEF Submit
<1>4. ASSUME NEW f \in Form, Begin(f) PROVE Created'
  <2>1. Moves(f, "begun", IF New(f) THEN {} ELSE db[target[f]])
    BY <1>4, BeginEffect
  <2> QED
    BY <1>4, <2>1 DEF Begin, Moves
<1>5. ASSUME NEW f \in Form, Write(f) PROVE Created'
  <2>1. Writes(f)
    BY <1>5, WriteEffect
  <2>2. call'[f].pc = "written" /\ \A g \in Form \ {f} : call'[g] = call[g]
    BY <2>1 DEF Writes, Moves
  <2>3. /\ present' \subseteq present \cup {target[f]} /\ UNCHANGED <<page, target>>
        /\ call[f].pc = "begun" /\ (New(f) <=> target[f] \notin present)
    BY <2>1 DEF Writes
  <2> QED
    BY <2>2, <2>3
<1>6. ASSUME NEW f \in Form, Refuse(f) \/ HookThrows(f) PROVE Created'
  <2>1. Ends(f)
    BY <1>6, EndEffect
  <2>2. call[f].pc \in {"begun", "hooked"}
    BY <2>1 DEF Ends
  <2> QED
    BY <2>1, <2>2 DEF Ends, Idle
<1>7. ASSUME NEW f \in Form, AfterHook(f) PROVE Created'
  <2>1. Hooks(f)
    BY <1>7, AfterHookEffect
  <2>2. call'[f].pc = "hooked" /\ \A g \in Form \ {f} : call'[g] = call[g]
    BY SMTT(40), <2>1 DEF Hooks, Moves
  <2>3. UNCHANGED <<present, target, page>>
    BY <2>1 DEF Hooks
  <2>4. \A r \in present : call[r].pc \in {"idle", "written", "hooked"}
    OBVIOUS
  <2>5. \A r \in present : call'[r].pc \in {"idle", "written", "hooked"}
    BY <2>2, <2>4
  <2> QED
    BY <2>3, <2>5
<1>8. ASSUME NEW f \in Form, Answer(f) PROVE Created'
  <2>1. Ends(f)
    BY <1>8, EndEffect
  <2>2. call[f].pc = "hooked"
    BY <1>8 DEF Answer
  <2> QED
    BY <2>1, <2>2 DEF Ends, Idle
<1>9. ASSUME NEW r \in Record, BulkDelete(r) PROVE Created'
  BY <1>9 DEF BulkDelete
<1>10. ASSUME Restart PROVE Created'
  <2>1. \A f \in Form : New(f) => ~Wrote(f)
    BY <1>10 DEF Restart, Good, Mishap, If
  <2>2. \A r \in present : page[r] = "closed"
    BY <2>1
  <2>3. /\ \A f \in Form : page[f] = "closed" => page'[f] = "closed"
        /\ \A f \in Form : call'[f].pc = "idle"
        /\ UNCHANGED <<present, target>>
    BY <1>10 DEF Restart, Idle
  <2> QED
    BY <2>2, <2>3
<1>11. CASE UNCHANGED <<present, target, page, call>>
  BY <1>11
<1> HIDE <1>0 DEF Created
<1> QED
  BY <1>1, <1>2, <1>3, <1>4, <1>5, <1>6, <1>7, <1>8, <1>9, <1>10, <1>11 DEF Next, User, Server,
     Upload, Remove, Uploaded, Cancel, Sweep, Delete, vars

LEMMA OnceKept == ASSUME Base, Careful, Good', Next PROVE Once'
<1>0. Types /\ Pages /\ Once /\ Created /\ PagesTyped /\ CallsTyped /\ RecordsTyped
  BY DEF Base, Types, Careful
<1> USE <1>0 DEF storage, records, uploads, form, Form, Record, Key, Pages, Once, Created,
   PagesTyped, CallsTyped, RecordsTyped, Working, New, Live
<1>1. ASSUME NEW f \in Form, Open(f) PROVE Once'
  <2>1. PICK v : Opened(f, v)
    BY <1>1, OpenedEffect
  <2>2. /\ page[f] = "unopened" /\ UNCHANGED call
        /\ \A g \in Form \ {f} : page'[g] = page[g] /\ target'[g] = target[g]
    BY <2>1 DEF Opened
  <2>3. target'[f] # f => page[target'[f]] = "closed" /\ ~Working(target'[f]) /\ target'[f] # f
    BY <2>1 DEF Opened
  <2>4. \A g \in Form : page[g] = "closed" => page'[g] = "closed"
    BY <2>2
  <2>5. ASSUME NEW g \in Form, target'[g] # g
        PROVE  page'[target'[g]] = "closed" /\ call'[target'[g]].pc = "idle"
    <3>1. target'[g] \in Form
      BY PagesTypedKept DEF Base
    <3>2. CASE g = f
      BY <2>2, <2>3, <2>4, <2>5, <3>1, <3>2
    <3>3. CASE g # f
      <4>1. target'[g] = target[g] /\ page[target[g]] = "closed" /\ ~Working(target[g])
        BY <2>2, <2>5, <3>3
      <4> QED
        BY <2>2, <2>4, <3>1, <4>1
    <3> QED
      BY <3>2, <3>3
  <2>6. \A g \in Form :
           target'[g] # g => page'[target'[g]] = "closed" /\ call'[target'[g]].pc = "idle"
    BY <2>5
  <2> QED
    BY <2>6
<1>2. ASSUME NEW f \in Form, Leave(f) PROVE Once'
  BY <1>2 DEF Leave
<1>3. ASSUME NEW f \in Form, NEW kind \in {"save", "delete"}, Submit(f, kind) PROVE Once'
  BY <1>3 DEF Submit
<1>4. ASSUME NEW f \in Form, Begin(f) PROVE Once'
  <2>1. Moves(f, "begun", IF New(f) THEN {} ELSE db[target[f]])
    BY <1>4, BeginEffect
  <2> QED
    BY <1>4, <2>1 DEF Begin, Moves
<1>5. ASSUME NEW f \in Form, Write(f) PROVE Once'
  <2>1. Writes(f)
    BY <1>5, WriteEffect
  <2> QED
    BY <2>1 DEF Writes, Moves
<1>6. ASSUME NEW f \in Form, Refuse(f) \/ HookThrows(f) PROVE Once'
  <2>1. Ends(f)
    BY <1>6, EndEffect
  <2> QED
    BY <2>1 DEF Ends, Idle
<1>7. ASSUME NEW f \in Form, AfterHook(f) PROVE Once'
  <2>1. Hooks(f)
    BY <1>7, AfterHookEffect
  <2> QED
    BY <2>1 DEF Hooks, Moves
<1>8. ASSUME NEW f \in Form, Answer(f) PROVE Once'
  <2>1. Ends(f)
    BY <1>8, EndEffect
  <2> QED
    BY <2>1 DEF Ends, Idle
<1>9. ASSUME Restart PROVE Once'
  BY <1>9 DEF Restart, Idle
<1>10. CASE UNCHANGED <<target, page, call>>
  BY <1>10
<1> HIDE <1>0 DEF Once
<1> QED
  BY <1>1, <1>2, <1>3, <1>4, <1>5, <1>6, <1>7, <1>8, <1>9, <1>10 DEF Next, User, Server, Upload,
     Remove, Uploaded, Cancel, Sweep, Delete, BulkDelete, vars

LEMMA OneEditorKept == ASSUME Base, Careful, Good', Next PROVE OneEditor'
<1>0. Types /\ Pages /\ OneEditor /\ Once /\ PagesTyped /\ CallsTyped
  BY DEF Base, Types, Careful
<1> USE <1>0 DEF storage, records, uploads, form, Form, Record, Key, Pages, OneEditor, Once,
   PagesTyped, CallsTyped, Working, Live
<1>1. ASSUME NEW f \in Form, Open(f) PROVE OneEditor'
  <2>1. PICK v : Opened(f, v)
    BY <1>1, OpenedEffect
  <2> QED
    BY <2>1 DEF Opened
<1>2. ASSUME NEW f \in Form, Leave(f) PROVE OneEditor'
  BY <1>2 DEF Leave
<1>3. ASSUME NEW f \in Form, NEW kind \in {"save", "delete"}, Submit(f, kind) PROVE OneEditor'
  BY <1>3 DEF Submit
<1>4. ASSUME NEW f \in Form, Begin(f) PROVE OneEditor'
  <2>1. Moves(f, "begun", IF New(f) THEN {} ELSE db[target[f]])
    BY <1>4, BeginEffect
  <2> QED
    BY <1>4, <2>1 DEF Begin, Moves
<1>5. ASSUME NEW f \in Form, Write(f) PROVE OneEditor'
  <2>1. Writes(f)
    BY <1>5, WriteEffect
  <2> QED
    BY <2>1 DEF Writes, Moves
<1>6. ASSUME NEW f \in Form, Refuse(f) \/ HookThrows(f) PROVE OneEditor'
  <2>1. Ends(f)
    BY <1>6, EndEffect
  <2> QED
    BY <2>1 DEF Ends, Idle
<1>7. ASSUME NEW f \in Form, AfterHook(f) PROVE OneEditor'
  <2>1. Hooks(f)
    BY <1>7, AfterHookEffect
  <2> QED
    BY <2>1 DEF Hooks, Moves
<1>8. ASSUME NEW f \in Form, Answer(f) PROVE OneEditor'
  <2>1. Ends(f)
    BY <1>8, EndEffect
  <2> QED
    BY <2>1 DEF Ends, Idle
<1>9. ASSUME Restart PROVE OneEditor'
  BY <1>9 DEF Restart, Idle
<1>10. CASE UNCHANGED <<page, call, target>>
  BY <1>10
<1> HIDE <1>0 DEF OneEditor
<1> QED
  BY <1>1, <1>2, <1>3, <1>4, <1>5, <1>6, <1>7, <1>8, <1>9, <1>10 DEF Next, User, Server, Upload,
     Remove, Uploaded, Cancel, Sweep, Delete, BulkDelete, vars

LEMMA DraftsAreNewKept == ASSUME Base, Careful, Good', Next PROVE DraftsAreNew'
<1>0. Types /\ Pages /\ Created /\ DraftsAreNew /\ RecordsTyped /\ PagesTyped /\ UploadsTyped
      /\ ValuesTyped
  BY DEF Base, Types, Careful
<1> USE <1>0 DEF storage, records, uploads, form, Form, Record, Key, Pages, DraftsAreNew,
   RecordsTyped, PagesTyped, UploadsTyped, ValuesTyped, New, Ready, Minted
<1>1. ASSUME NEW f \in Form, Open(f) PROVE DraftsAreNew'
  <2>1. PICK v : Opened(f, v)
    BY <1>1, OpenedEffect
  <2>2. \A k \in Key : up[k] = "done" => by[k] # f
    BY <2>1 DEF Opened
  <2>3. /\ by' = by /\ draft' \subseteq draft /\ value'[f] = v
        /\ \A g \in Form \ {f} : target'[g] = target[g] /\ value'[g] = value[g]
        /\ target'[f] = f => v \subseteq draft
    BY <2>1 DEF Opened, Created
  <2>4. \A k \in Key : up[k] = "done" /\ target[by[k]] = by[k] => target'[by'[k]] = by'[k]
    BY <2>2, <2>3
  <2>5. \A k \in draft' : target'[by'[k]] = by'[k]
    BY <2>3, <2>4
  <2>6. ASSUME NEW g \in Form, target'[g] = g, NEW k \in value'[g]
        PROVE  target'[by'[k]] = by'[k]
    <3>1. CASE g = f
      BY <2>3, <2>4, <2>6, <3>1
    <3>2. CASE g # f
      BY <2>3, <2>4, <2>6, <3>2
    <3> QED
      BY <3>1, <3>2
  <2> QED
    BY <2>5, <2>6
<1>2. ASSUME NEW f \in Form, NEW k \in Key, Upload(f, k) PROVE DraftsAreNew'
  BY <1>2 DEF Upload
<1>3. ASSUME NEW f \in Form, NEW k \in Key, Remove(f, k) PROVE DraftsAreNew'
  BY <1>3 DEF Remove, Drop, Persist
<1>4. ASSUME NEW f \in Form, Refuse(f) \/ HookThrows(f) PROVE DraftsAreNew'
  <2>1. Ends(f)
    BY <1>4, EndEffect
  <2> QED
    BY ZenonT(40), <2>1 DEF Ends, Idle
<1>5. ASSUME NEW f \in Form, Answer(f) PROVE DraftsAreNew'
  <2>1. Ends(f)
    BY <1>5, EndEffect
  <2> QED
    BY ZenonT(40), <2>1 DEF Ends, Idle
<1>6. ASSUME NEW k \in Key, Uploaded(k) PROVE DraftsAreNew'
  <2>1. PICK f \in Form : Replies(k, f)
    BY <1>6, UploadedEffect
  <2>2. CASE UNCHANGED <<value, mine, draft, cancels, happened>>
    BY <2>1, <2>2 DEF Replies
  <2>3. ASSUME NEW replaced, Adds(k, f, replaced) PROVE DraftsAreNew'
    <3>1. /\ value' = [value EXCEPT ![f] = (value[f] \ replaced) \cup {k}]
          /\ by' = by /\ f = by[k] /\ target' = target
      BY <2>1, <2>3 DEF Adds, Replies
    <3>2. draft' = IF target[f] = f /\ page[f] # "closed" THEN (value[f] \ replaced) \cup {k} ELSE draft
      BY <2>3 DEF Adds, Persist
    <3> QED
      BY <3>1, <3>2
  <2> QED
    BY <2>1, <2>2, <2>3 DEF Replies
<1>7. CASE UNCHANGED <<draft, by, target, value>>
  BY <1>7
<1> HIDE <1>0 DEF DraftsAreNew
<1> QED
  BY <1>1, <1>2, <1>3, <1>4, <1>5, <1>6, <1>7 DEF Next, User, Server, Leave, Submit, Begin, Write,
     AfterHook, Cancel, Sweep, Delete, BulkDelete, Restart, vars

LEMMA OneRecordKept == ASSUME Base, Careful, Good', Next PROVE OneRecord'
<1>0. Types /\ Pages /\ OneRecord /\ Absent /\ RecordsTyped /\ CallsTyped /\ PagesTyped
  BY DEF Base, Types, Careful
<1> USE <1>0 DEF storage, records, uploads, form, Form, Record, Key, Pages, OneRecord, Absent,
   RecordsTyped, CallsTyped, PagesTyped
<1>1. ASSUME NEW f \in Form, Write(f) PROVE OneRecord'
  <2>1. Writes(f)
    BY <1>1, WriteEffect
  <2>2. \A q \in present \ {target[f]} : db[q] \cap call[f].new = {}
    BY <2>1 DEF Writes, Mishap, If, Good
  <2> QED
    BY <2>1, <2>2 DEF Writes
<1>2. ASSUME NEW r \in Record, BulkDelete(r) PROVE OneRecord'
  BY <1>2 DEF BulkDelete
<1>3. CASE UNCHANGED <<db>>
  BY <1>3
<1> HIDE <1>0 DEF OneRecord
<1> QED
  BY <1>1, <1>2, <1>3 DEF Next, User, Server, Open, Leave, Submit, Upload, Remove, Begin, Refuse,
     HookThrows, AfterHook, Answer, Uploaded, Cancel, Sweep, Delete, Restart, vars

LEMMA WrittenKept == ASSUME Base, Careful, Good', Next PROVE Written'
<1>0. Types /\ Pages /\ Written /\ OneEditor /\ CallsTyped /\ PagesTyped /\ RecordsTyped
  BY DEF Base, Types, Careful
<1> USE <1>0 DEF storage, records, uploads, form, Form, Record, Key, Pages, Written, OneEditor,
   CallsTyped, PagesTyped, RecordsTyped, Wrote, Working
<1>1. ASSUME NEW f \in Form, Open(f) PROVE Written'
  <2>1. PICK v : Opened(f, v)
    BY <1>1, OpenedEffect
  <2> QED
    BY <2>1 DEF Opened
<1>2. ASSUME NEW f \in Form, NEW kind \in {"save", "delete"}, Submit(f, kind) PROVE Written'
  BY <1>2 DEF Submit
<1>3. ASSUME NEW f \in Form, Begin(f) PROVE Written'
  <2>1. Moves(f, "begun", IF New(f) THEN {} ELSE db[target[f]])
    BY <1>3, BeginEffect
  <2> QED
    BY <1>3, <2>1 DEF Begin, Moves
<1>4. ASSUME NEW f \in Form, Write(f) PROVE Written'
  <2>1. Writes(f)
    BY <1>4, WriteEffect
  <2> QED
    BY <2>1 DEF Writes, Moves
<1>5. ASSUME NEW f \in Form, Refuse(f) \/ HookThrows(f) PROVE Written'
  <2>1. Ends(f)
    BY <1>5, EndEffect
  <2> QED
    BY <2>1 DEF Ends, Idle
<1>6. ASSUME NEW f \in Form, AfterHook(f) PROVE Written'
  <2>1. Hooks(f)
    BY <1>6, AfterHookEffect
  <2> QED
    BY <2>1 DEF Hooks, Moves
<1>7. ASSUME NEW f \in Form, Answer(f) PROVE Written'
  <2>1. Ends(f)
    BY <1>7, EndEffect
  <2> QED
    BY <2>1 DEF Ends, Idle
<1>8. ASSUME NEW r \in Record, BulkDelete(r) PROVE Written'
  BY <1>8 DEF BulkDelete
<1>9. ASSUME Restart PROVE Written'
  BY <1>9 DEF Restart, Idle
<1>10. CASE UNCHANGED <<call, db, target>>
  BY <1>10
<1> HIDE <1>0 DEF Written
<1> QED
  BY <1>1, <1>2, <1>3, <1>4, <1>5, <1>6, <1>7, <1>8, <1>9, <1>10 DEF Next, User, Server, Leave,
     Upload, Remove, Uploaded, Cancel, Sweep, Delete, vars

LEMMA PendingWrittenKept == ASSUME Base, Careful, Good', Next PROVE PendingWritten'
<1>0. Types /\ Pages /\ UploadsTyped /\ PendingWritten /\ CallsTyped /\ PagesTyped /\ RecordsTyped
  BY DEF Base, Types, Careful
<1> USE <1>0 DEF storage, records, uploads, form, Form, Record, Key, Pages, PendingWritten,
   CallsTyped, PagesTyped, RecordsTyped
<1>1. ASSUME NEW f \in Form, Open(f) PROVE PendingWritten'
  <2>1. PICK v : Opened(f, v)
    BY <1>1, OpenedEffect
  <2>2. /\ call[f].pc # "written" /\ \A g \in Form \ {f} : target'[g] = target[g]
        /\ UNCHANGED <<db, pending, call>>
    BY <2>1 DEF Opened, Working
  <2> QED
    BY <2>2
<1>2. ASSUME NEW f \in Form, NEW kind \in {"save", "delete"}, Submit(f, kind) PROVE PendingWritten'
  <2>1. /\ call[f].pc # "written" /\ \A g \in Form \ {f} : call'[g] = call[g]
        /\ UNCHANGED <<db, pending, target>>
    BY <1>2 DEF Submit, Working
  <2> QED
    BY <2>1
<1>3. ASSUME NEW f \in Form, NEW k \in Key, Upload(f, k) PROVE PendingWritten'
  <2>1. \A r \in Record : k \notin db[r]
    BY <1>3 DEF Upload, Ready
  <2>2. pending' = pending \cup {k} /\ UNCHANGED <<db, target, call>>
    BY <1>3 DEF Upload
  <2> QED
    BY <2>1, <2>2
<1>4. ASSUME NEW f \in Form, Begin(f) PROVE PendingWritten'
  <2>1. Moves(f, "begun", IF New(f) THEN {} ELSE db[target[f]])
    BY <1>4, BeginEffect
  <2> QED
    BY <1>4, <2>1 DEF Begin, Moves
<1>5. ASSUME NEW f \in Form, Write(f) PROVE PendingWritten'
  <2>1. Writes(f)
    BY <1>5, WriteEffect
  <2> QED
    BY <2>1 DEF Writes, Moves
<1>6. ASSUME NEW f \in Form, Refuse(f) \/ HookThrows(f) PROVE PendingWritten'
  <2>1. Ends(f)
    BY <1>6, EndEffect
  <2> QED
    BY <2>1 DEF Ends, Idle
<1>7. ASSUME NEW f \in Form, AfterHook(f) PROVE PendingWritten'
  <2>1. Hooks(f)
    BY <1>7, AfterHookEffect
  <2> QED
    BY <2>1 DEF Hooks, Moves
<1>8. ASSUME NEW f \in Form, Answer(f) PROVE PendingWritten'
  <2>1. Ends(f)
    BY <1>8, EndEffect
  <2> QED
    BY <2>1 DEF Ends, Idle
<1>9. ASSUME NEW k \in Key, Cancel(k) PROVE PendingWritten'
  BY <1>9 DEF Cancel, Cancellable
<1>10. ASSUME NEW k \in Key, Sweep(k) PROVE PendingWritten'
  BY <1>10 DEF Sweep, Sweepable
<1>11. ASSUME NEW r \in Record, BulkDelete(r) PROVE PendingWritten'
  BY <1>11 DEF BulkDelete
<1>12. ASSUME Restart PROVE PendingWritten'
  BY <1>12 DEF Restart, Idle
<1>13. CASE UNCHANGED <<db, pending, target, call>>
  BY <1>13
<1> HIDE <1>0 DEF PendingWritten
<1> QED
  BY <1>1, <1>2, <1>3, <1>4, <1>5, <1>6, <1>7, <1>8, <1>9, <1>10, <1>11, <1>12, <1>13 DEF Next,
     User, Server, Leave, Remove, Uploaded, Delete, vars

LEMMA OldIsStoredKept == ASSUME Base, Careful, Good', Next PROVE OldIsStored'
<1>0. Types /\ Pages /\ OldIsStored /\ OneEditor /\ CallsTyped /\ PagesTyped /\ RecordsTyped
  BY DEF Base, Types, Careful
<1> USE <1>0 DEF storage, records, uploads, form, Form, Record, Key, Pages, OldIsStored,
   OneEditor, CallsTyped, PagesTyped, RecordsTyped, New, Working
<1>1. ASSUME NEW f \in Form, Open(f) PROVE OldIsStored'
  <2>1. PICK v : Opened(f, v)
    BY <1>1, OpenedEffect
  <2> QED
    BY <2>1 DEF Opened
<1>2. ASSUME NEW f \in Form, NEW kind \in {"save", "delete"}, Submit(f, kind) PROVE OldIsStored'
  BY <1>2 DEF Submit
<1>3. ASSUME NEW f \in Form, Begin(f) PROVE OldIsStored'
  <2>1. Moves(f, "begun", IF New(f) THEN {} ELSE db[target[f]])
    BY <1>3, BeginEffect
  <2> QED
    BY <1>3, <2>1 DEF Begin, Moves
<1>4. ASSUME NEW f \in Form, Write(f) PROVE OldIsStored'
  <2>1. Writes(f)
    BY <1>4, WriteEffect
  <2> QED
    BY <2>1 DEF Writes, Moves
<1>5. ASSUME NEW f \in Form, Refuse(f) \/ HookThrows(f) PROVE OldIsStored'
  <2>1. Ends(f)
    BY <1>5, EndEffect
  <2> QED
    BY <2>1 DEF Ends, Idle
<1>6. ASSUME NEW f \in Form, AfterHook(f) PROVE OldIsStored'
  <2>1. Hooks(f)
    BY <1>6, AfterHookEffect
  <2> QED
    BY <2>1 DEF Hooks, Moves
<1>7. ASSUME NEW f \in Form, Answer(f) PROVE OldIsStored'
  <2>1. Ends(f)
    BY <1>7, EndEffect
  <2> QED
    BY <2>1 DEF Ends, Idle
<1>8. ASSUME NEW r \in Record, BulkDelete(r) PROVE OldIsStored'
  BY <1>8 DEF BulkDelete
<1>9. ASSUME Restart PROVE OldIsStored'
  BY <1>9 DEF Restart, Idle
<1>10. CASE UNCHANGED <<call, target, present, db>>
  BY <1>10
<1> HIDE <1>0 DEF OldIsStored
<1> QED
  BY <1>1, <1>2, <1>3, <1>4, <1>5, <1>6, <1>7, <1>8, <1>9, <1>10 DEF Next, User, Server, Leave,
     Upload, Remove, Uploaded, Cancel, Sweep, Delete, vars

LEMMA NewHasNoOldKept == ASSUME Base, Careful, Good', Next PROVE NewHasNoOld'
<1>0. Types /\ Pages /\ NewHasNoOld /\ CallsTyped /\ PagesTyped
  BY DEF Base, Types, Careful
<1> USE <1>0 DEF storage, records, uploads, form, Form, Record, Key, Pages, NewHasNoOld,
   CallsTyped, PagesTyped, New, Working
<1>1. ASSUME NEW f \in Form, Open(f) PROVE NewHasNoOld'
  <2>1. PICK v : Opened(f, v)
    BY <1>1, OpenedEffect
  <2> QED
    BY <2>1 DEF Opened
<1>2. ASSUME NEW f \in Form, NEW kind \in {"save", "delete"}, Submit(f, kind) PROVE NewHasNoOld'
  BY <1>2 DEF Submit
<1>3. ASSUME NEW f \in Form, Begin(f) PROVE NewHasNoOld'
  <2>1. Moves(f, "begun", IF New(f) THEN {} ELSE db[target[f]])
    BY <1>3, BeginEffect
  <2> QED
    BY <1>3, <2>1 DEF Begin, Moves
<1>4. ASSUME NEW f \in Form, Write(f) PROVE NewHasNoOld'
  <2>1. Writes(f)
    BY <1>4, WriteEffect
  <2> QED
    BY <2>1 DEF Writes, Moves
<1>5. ASSUME NEW f \in Form, Refuse(f) \/ HookThrows(f) PROVE NewHasNoOld'
  <2>1. Ends(f)
    BY <1>5, EndEffect
  <2> QED
    BY <2>1 DEF Ends, Idle
<1>6. ASSUME NEW f \in Form, AfterHook(f) PROVE NewHasNoOld'
  <2>1. Hooks(f)
    BY <1>6, AfterHookEffect
  <2> QED
    BY <2>1 DEF Hooks, Moves
<1>7. ASSUME NEW f \in Form, Answer(f) PROVE NewHasNoOld'
  <2>1. Ends(f)
    BY <1>7, EndEffect
  <2> QED
    BY <2>1 DEF Ends, Idle
<1>8. ASSUME Restart PROVE NewHasNoOld'
  BY <1>8 DEF Restart, Idle
<1>9. CASE UNCHANGED <<target, call>>
  BY <1>9
<1> HIDE <1>0 DEF NewHasNoOld
<1> QED
  BY <1>1, <1>2, <1>3, <1>4, <1>5, <1>6, <1>7, <1>8, <1>9 DEF Next, User, Server, Leave, Upload,
     Remove, Uploaded, Cancel, Sweep, Delete, BulkDelete, vars

LEMMA KeepsKept == ASSUME Base, Careful, Good', Next PROVE Keeps'
<1>0. Types /\ Pages /\ Keeps /\ OneEditor /\ CallsTyped /\ PagesTyped /\ RecordsTyped
      /\ ValuesTyped /\ UploadsTyped
  BY DEF Base, Types, Careful
<1> USE <1>0 DEF storage, records, uploads, form, Form, Record, Key, Pages, Keeps, OneEditor,
   CallsTyped, PagesTyped, RecordsTyped, ValuesTyped, UploadsTyped, Asks, Ready, Working, Live
<1>1. ASSUME NEW f \in Form, Open(f) PROVE Keeps'
  <2>1. PICK v : Opened(f, v)
    BY <1>1, OpenedEffect
  <2> QED
    BY <2>1 DEF Opened
<1>2. ASSUME NEW f \in Form, NEW kind \in {"save", "delete"}, Submit(f, kind) PROVE Keeps'
  BY <1>2 DEF Submit
<1>3. ASSUME NEW f \in Form, NEW k \in Key, Remove(f, k) PROVE Keeps'
  BY <1>3 DEF Remove, Drop, Persist
<1>4. ASSUME NEW f \in Form, Begin(f) PROVE Keeps'
  <2>1. Moves(f, "begun", IF New(f) THEN {} ELSE db[target[f]])
    BY <1>4, BeginEffect
  <2> QED
    BY <1>4, <2>1 DEF Begin, Moves
<1>5. ASSUME NEW f \in Form, Write(f) PROVE Keeps'
  <2>1. Writes(f)
    BY <1>5, WriteEffect
  <2> QED
    BY <2>1 DEF Writes, Moves
<1>6. ASSUME NEW f \in Form, Refuse(f) \/ HookThrows(f) PROVE Keeps'
  <2>1. Ends(f)
    BY <1>6, EndEffect
  <2> QED
    BY <2>1 DEF Ends, Idle
<1>7. ASSUME NEW f \in Form, AfterHook(f) PROVE Keeps'
  <2>1. Hooks(f)
    BY <1>7, AfterHookEffect
  <2> QED
    BY <2>1 DEF Hooks, Moves
<1>8. ASSUME NEW f \in Form, Answer(f) PROVE Keeps'
  <2>1. Ends(f)
    BY <1>8, EndEffect
  <2> QED
    BY <2>1 DEF Ends, Idle
<1>9. ASSUME NEW k \in Key, Uploaded(k) PROVE Keeps'
  <2>1. PICK f \in Form : Replies(k, f)
    BY <1>9, UploadedEffect
  <2>2. CASE UNCHANGED <<value, mine, draft, cancels, happened>>
    BY <2>1, <2>2 DEF Replies
  <2>3. ASSUME NEW replaced, Adds(k, f, replaced) PROVE Keeps'
    <3>1. /\ \A g \in Form : value'[g] \subseteq value[g] \cup {k}
          /\ UNCHANGED <<db, target, call>>
      BY <2>1, <2>3 DEF Adds, Replies
    <3>2. \A r \in Record : k \notin db[r]
      BY <2>1 DEF Replies
    <3> QED
      BY SMTT(30), <3>1, <3>2
  <2> QED
    BY <2>1, <2>2, <2>3 DEF Replies
<1>10. ASSUME NEW r \in Record, BulkDelete(r) PROVE Keeps'
  BY <1>10 DEF BulkDelete
<1>11. ASSUME Restart PROVE Keeps'
  BY <1>11 DEF Restart, Idle
<1>12. CASE UNCHANGED <<call, value, db, target>>
  BY <1>12
<1> HIDE <1>0 DEF Keeps
<1> QED
  BY <1>1, <1>2, <1>3, <1>4, <1>5, <1>6, <1>7, <1>8, <1>9, <1>10, <1>11, <1>12 DEF Next, User,
     Server, Leave, Upload, Cancel, Sweep, Delete, vars

-----------------------------------------------------------------------------
(* Who may hold a file. *)

(* A form that may write a file was opened, and its target stays.           *)
LEMMA CarriersStay ==
    ASSUME Base, Next, NEW f \in Form, NEW k \in Key, Carries(f, k)
    PROVE  /\ page[f] # "unopened" /\ target'[f] = target[f] /\ up[k] = "done"
           /\ (Live(f) \/ Working(f))
<1>1. page[f] # "unopened" /\ (Live(f) \/ Working(f))
  BY DEF Base, Pages, Carries, Live, Asks, Working
<1>2. up[k] = "done"
  BY DEF Base, Types, ValuesTyped, CallsTyped, Carries, Ready
<1> QED
  BY <1>1, <1>2, TargetKept

(* A key that is being answered is nowhere yet.                             *)
LEMMA FreshKey ==
    ASSUME Base, NEW k \in Key, NEW f \in Form, Replies(k, f)
    PROVE  /\ k \notin draft /\ \A r \in Record : k \notin db[r]
           /\ \A g \in Form : ~Carries(g, k) /\ k \notin call[g].new
BY DEF Base, Types, RecordsTyped, ValuesTyped, CallsTyped, Ready, Carries, Replies

LEMMA OneCarrierKept ==
    ASSUME Base, Careful, Good', Next PROVE OneCarrier'
<1>1. OneCarrier /\ CarriedByEditor
  BY DEF Careful
<1>2. ASSUME NEW f \in Form, NEW g \in Form, f # g, NEW k \in Key, NEW v,
             Opened(f, v), k \in v, Carries(g, k)'
      PROVE  FALSE
  <2>1. Carries(g, k)
    BY <1>2 DEF Opened, Carries, Live, Asks
  <2>2. Live(g) \/ Working(g)
    BY <2>1, CarriersStay
  <2>3. Holds(g, k)
    BY <2>1 DEF Carries, Holds, Asks, Working
  <2>4. target'[f] \in present /\ v = db[target'[f]]
    BY <1>2, <2>3 DEF Opened
  <2>5. target'[f] \in Record
    BY <2>4 DEF Base, Types, RecordsTyped
  <2>6. target[g] = target'[f]
    BY <1>1, <1>2, <2>1, <2>4, <2>5 DEF CarriedByEditor
  <2>7. CASE target'[f] # f
    BY <1>2, <2>2, <2>6, <2>7 DEF Opened
  <2>8. CASE target'[f] = f
    BY <1>2, <2>4, <2>8 DEF Careful, Created, Opened
  <2> QED
    BY <2>7, <2>8
<1>3. ASSUME NEW f \in Form, NEW g \in Form, f # g, NEW k \in Key,
             Replies(k, f), Carries(g, k)'
      PROVE  FALSE
  <2>1. Carries(g, k) \/ (\E v : Opened(g, v) /\ k \in v) \/ Replies(k, g)
    BY <1>3, Carriers
  <2>2. ~Carries(g, k)
    BY <1>3, FreshKey
  <2>3. ~\E v : Opened(g, v)
    BY <1>3 DEF Replies, Opened
  <2> QED
    BY <1>3, <2>1, <2>2, <2>3 DEF Replies
<1> SUFFICES ASSUME NEW f \in Form, NEW g \in Form, NEW k \in Key,
                    Carries(f, k)', Carries(g, k)', f # g
             PROVE  FALSE
  BY DEF OneCarrier
<1>4. Carries(f, k) \/ (\E v : Opened(f, v) /\ k \in v) \/ Replies(k, f)
  BY Carriers
<1>5. Carries(g, k) \/ (\E v : Opened(g, v) /\ k \in v) \/ Replies(k, g)
  BY Carriers
<1>6. ~(Carries(f, k) /\ Carries(g, k))
  BY <1>1 DEF OneCarrier
<1> QED
  BY <1>2, <1>3, <1>4, <1>5, <1>6

LEMMA CarriedByEditorKept ==
    ASSUME Base, Careful, Good', Next PROVE CarriedByEditor'
<1>1. OneCarrier /\ CarriedByEditor /\ OneRecord /\ DraftWritten /\ Written
  BY DEF Careful
<1> SUFFICES ASSUME NEW r \in Record, NEW f \in Form, NEW k \in db'[r], Carries(f, k)'
             PROVE  target'[f] = r
  BY DEF CarriedByEditor
<1>0. k \in Key
  BY RecordsTypedKept DEF RecordsTyped
<1>2. k \in db[r] \/ \E g \in Form : Writes(g) /\ target[g] = r /\ k \in call[g].new
  BY <1>0, DbGrows
<1>3. Carries(f, k) \/ (\E v : Opened(f, v) /\ k \in v) \/ Replies(k, f)
  BY <1>0, Carriers
<1>4. CASE k \in db[r] /\ Carries(f, k)
  BY <1>0, <1>1, <1>4, CarriersStay DEF CarriedByEditor
<1>5. ASSUME k \in db[r], NEW v, Opened(f, v), k \in v PROVE target'[f] = r
  <2>1. CASE target'[f] \in present /\ v = db[target'[f]]
    BY <1>1, <1>5, <2>1 DEF OneRecord, Base, Types, RecordsTyped
  <2>2. CASE v \in {draft, {}} /\ \A g \in Form \ {f}, q \in v : ~Holds(g, q)
    <3>1. k \in draft
      BY <1>5, <2>2
    <3>2. Wrote(r) /\ New(r)
      BY <1>1, <1>5, <3>1 DEF DraftWritten
    <3>3. k \in call[r].new /\ Working(r)
      BY <1>1, <1>5, <3>2 DEF Written, Wrote, Working, New, Record
    <3>4. Holds(r, k) /\ r # f
      BY <1>5, <3>3 DEF Holds, Opened
    <3> QED
      BY <1>5, <2>2, <3>4 DEF Record
  <2> QED
    BY <1>5, <2>1, <2>2 DEF Opened
<1>6. CASE k \in db[r] /\ Replies(k, f)
  BY <1>0, <1>6, FreshKey
<1>7. ASSUME NEW g \in Form, Writes(g), target[g] = r, k \in call[g].new PROVE target'[f] = r
  <2>1. Carries(g, k) /\ UNCHANGED <<page, target>>
    BY <1>7 DEF Writes, Carries, Asks, form
  <2>2. ~Replies(k, f)
    BY <1>0, <1>7, FreshKey
  <2>3. ~\E v : Opened(f, v)
    BY <2>1 DEF Opened
  <2> QED
    BY <1>0, <1>1, <1>3, <1>7, <2>1, <2>2, <2>3 DEF OneCarrier
<1> QED
  BY <1>2, <1>3, <1>4, <1>5, <1>6, <1>7

LEMMA DraftCarriersKept ==
    ASSUME Base, Careful, Good', Next PROVE DraftCarriers'
<1>1. DraftCarriers /\ OneCarrier /\ DraftWritten
  BY DEF Careful
<1> SUFFICES ASSUME NEW f \in Form, NEW k \in draft', Carries(f, k)'
             PROVE  target'[f] = f
  BY DEF DraftCarriers, New
<1>0. k \in Key
  BY ValuesTypedKept DEF ValuesTyped
<1>2. k \in draft \/ \E g \in Form : DraftFrom(g, k)
  BY <1>0, DraftGrows
<1>3. Carries(f, k) \/ (\E v : Opened(f, v) /\ k \in v) \/ Replies(k, f)
  BY <1>0, Carriers
<1>4. CASE k \in draft /\ Carries(f, k)
  BY <1>0, <1>1, <1>4, CarriersStay DEF DraftCarriers, New
<1>5. ASSUME k \in draft, NEW v, Opened(f, v), k \in v PROVE target'[f] = f
  <2>1. CASE /\ target'[f] \in present /\ v = db[target'[f]]
             /\ \A g \in Form : target[g] = target'[f] => ~Live(g) /\ ~Working(g)
    <3> DEFINE r == target'[f]
    <3>1. r \in Record
      BY <2>1 DEF Base, Types, RecordsTyped
    <3>2. Wrote(r) /\ target[r] = r
      BY <1>1, <1>5, <2>1, <3>1 DEF DraftWritten, New
    <3> QED
      BY <2>1, <3>1, <3>2 DEF Wrote, Working, Record
  <2> QED
    BY <1>5, <2>1 DEF Opened
<1>6. CASE k \in draft /\ Replies(k, f)
  BY <1>0, <1>6, FreshKey
<1>7. ASSUME NEW g \in Form, DraftFrom(g, k) PROVE target'[f] = f
  <2>1. New(g) /\ UNCHANGED <<db, target, page, call>>
    BY <1>7 DEF DraftFrom
  <2>2. ~\E v : Opened(f, v)
    BY <2>1 DEF Opened
  <2>3. CASE Replies(k, g)
    BY <1>0, <1>3, <2>1, <2>2, <2>3, FreshKey DEF Replies, New
  <2>4. CASE Carries(g, k)
    <3>1. ~Replies(k, f)
      BY <1>0, <2>4, FreshKey
    <3> QED
      BY <1>0, <1>1, <1>3, <2>1, <2>2, <2>4, <3>1 DEF OneCarrier, New
  <2> QED
    BY <1>7, <2>3, <2>4 DEF DraftFrom, Carries
<1> QED
  BY <1>2, <1>3, <1>4, <1>5, <1>6, <1>7

(* The call of a new form that wrote its record stays known to have done so, *)
(* until its answer drops the draft.                                        *)
LEMMA WroteStays ==
    ASSUME Base, Good', Next, NEW r \in Form, New(r), Wrote(r)
    PROVE  call'[r].pc \in {"written", "hooked"} \/ draft' = {}
<1>0. Types /\ Pages /\ CallsTyped
  BY DEF Base, Types
<1> USE <1>0 DEF storage, records, uploads, form, CallsTyped, Wrote
<1>1. CASE \E f \in Form, kind \in {"save", "delete"} : Submit(f, kind)
  BY <1>1 DEF Submit, Working
<1>2. CASE \E f \in Form : Begin(f)
  BY <1>2 DEF Begin
<1>3. CASE \E f \in Form : Write(f)
  BY <1>3 DEF Write
<1>4. CASE \E f \in Form : Refuse(f) \/ HookThrows(f) \/ Answer(f)
  <2>1. PICK f \in Form : Ends(f)
    BY <1>4, EndEffect
  <2>2. CASE f = r
    BY <2>1, <2>2 DEF Ends
  <2>3. CASE f # r
    BY <2>1, <2>3 DEF Ends
  <2> QED
    BY <2>2, <2>3
<1>5. CASE \E f \in Form : AfterHook(f)
  BY <1>5 DEF AfterHook
<1>6. CASE Restart
  BY <1>6 DEF Restart, Mishap, If, Good
<1>7. CASE UNCHANGED call
  BY <1>7
<1> HIDE <1>0
<1> QED
  BY <1>1, <1>2, <1>3, <1>4, <1>5, <1>6, <1>7
  DEF Next, User, Server, Open, Leave, Upload, Remove, Uploaded, Cancel, Sweep, Delete,
      BulkDelete, vars

LEMMA DraftWrittenKept ==
    ASSUME Base, Careful, Good', Next PROVE DraftWritten'
<1>1. DraftWritten /\ DraftCarriers /\ CarriedByEditor /\ Created /\ Absent
  BY DEF Careful
<1> SUFFICES ASSUME NEW r \in Record, NEW k \in db'[r], k \in draft'
             PROVE  call'[r].pc \in {"written", "hooked"} /\ target'[r] = r
  BY DEF DraftWritten, Wrote, New
<1>0. k \in Key /\ r \in Form
  BY RecordsTypedKept DEF RecordsTyped, Record
<1>2. k \in db[r] \/ \E g \in Form : Writes(g) /\ target[g] = r /\ k \in call[g].new
  BY <1>0, DbGrows
<1>3. k \in draft \/ \E g \in Form : DraftFrom(g, k)
  BY <1>0, DraftGrows
<1>4. CASE k \in db[r] /\ k \in draft
  <2>1. Wrote(r) /\ New(r)
    BY <1>1, <1>4 DEF DraftWritten
  <2>2. page[r] # "unopened"
    BY <1>0, <2>1 DEF Base, Pages, Wrote, Working
  <2> QED
    BY <1>0, <2>1, <2>2, WroteStays, TargetKept DEF New
<1>5. ASSUME k \in db[r], NEW g \in Form, DraftFrom(g, k)
      PROVE  call'[r].pc \in {"written", "hooked"} /\ target'[r] = r
  <2>1. New(g) /\ Live(g) /\ k \in value[g] /\ UNCHANGED <<target, call>>
    BY <1>0, <1>5, FreshKey DEF DraftFrom
  <2>2. target[g] = r
    BY <1>1, <1>5, <2>1 DEF CarriedByEditor, Carries
  <2>3. g = r /\ r \in present
    BY <1>1, <1>5, <2>1, <2>2 DEF New, Absent
  <2>4. page[r] = "busy"
    BY <1>1, <2>1, <2>3 DEF Created, Live
  <2>5. Wrote(r)
    BY <1>0, <1>1, <2>3, <2>4 DEF Created, Base, Pages
  <2> QED
    BY <2>1, <2>3, <2>5 DEF Wrote, New
<1>6. ASSUME NEW g \in Form, Writes(g), target[g] = r, k \in call[g].new
      PROVE  call'[r].pc \in {"written", "hooked"} /\ target'[r] = r
  <2>1. k \in draft /\ Carries(g, k) /\ target' = target
    BY <1>6 DEF Writes, Carries, Asks, form
  <2>2. g = r
    BY <1>1, <1>6, <2>1 DEF DraftCarriers, New
  <2>3. call'[g].pc = "written"
    BY <1>6 DEF Writes, Moves, Base, Types, CallsTyped
  <2> QED
    BY <1>6, <2>1, <2>2, <2>3
<1> QED
  BY <1>2, <1>3, <1>4, <1>5, <1>6

-----------------------------------------------------------------------------
(* No file is wanted that is doomed. *)

(* Nothing is wanted that was not before, but what is uploaded now.         *)
LEMMA WantedShrinks ==
    ASSUME Base, Careful, Next, NEW k \in Key, Minted(k), Wanted(k)' PROVE Wanted(k)
<1>1. CASE k \in draft'
  <2>1. CASE k \in draft
    BY <2>1 DEF Wanted
  <2>2. ASSUME NEW g \in Form, DraftFrom(g, k) PROVE Wanted(k)
    BY <2>2 DEF DraftFrom, Wanted, Carries, Replies
  <2> QED
    BY <1>1, <2>1, <2>2, DraftGrows
<1>2. CASE up'[k] = "stored"
  <2>1. up[k] = "stored"
    BY <1>2 DEF Base, Types, UploadsTyped, Minted, Next, User, Server, Open, Leave, Submit, Upload,
       Remove, Begin, Write, Refuse, HookThrows, AfterHook, Answer, Uploaded, Cancel, Sweep, Delete,
       BulkDelete, Restart, uploads
  <2> QED
    BY <2>1 DEF Wanted
<1>3. ASSUME NEW r \in Record, k \in db'[r] PROVE Wanted(k)
  <2>1. ASSUME NEW g \in Form, Writes(g), k \in call[g].new PROVE Wanted(k)
    BY <2>1 DEF Writes, Carries, Asks, Wanted
  <2> QED
    BY <1>3, <2>1, DbGrows DEF Wanted
<1>4. ASSUME NEW f \in Form, target'[f] = f \/ target'[f] \in present', Carries(f, k)'
      PROVE  Wanted(k)
  <2>1. CASE Carries(f, k)
    <3>1. target'[f] = target[f] /\ target[f] \in Record /\ (Live(f) \/ Working(f))
      BY <2>1, CarriersStay DEF Base, Types, PagesTyped
    <3>2. target[f] = f \/ target[f] \in present \/ \E g \in Form : Writes(g) /\ target[g] = target[f]
      BY <1>4, <3>1, PresentGrows
    <3>3. ASSUME NEW g \in Form, Writes(g), target[g] = target[f]
          PROVE  target[f] = f \/ target[f] \in present
      <4>1. Working(g) /\ (New(g) <=> target[g] \notin present)
        BY <3>3 DEF Writes, Working
      <4>2. f = g
        BY <3>1, <3>3, <4>1 DEF Careful, OneEditor
      <4> QED
        BY <4>1, <4>2 DEF New
    <3> QED
      BY <2>1, <3>2, <3>3 DEF Wanted, New
  <2>2. ASSUME NEW v, Opened(f, v), k \in v PROVE Wanted(k)
    <3>1. k \in draft \/ \E r \in present : k \in db[r]
      BY <2>2 DEF Opened
    <3>2. present \subseteq Record
      BY DEF Base, Types, RecordsTyped
    <3> QED
      BY <3>1, <3>2 DEF Wanted
  <2>3. CASE Replies(k, f)
    BY <2>3 DEF Replies, Wanted
  <2> QED
    BY <1>4, <2>1, <2>2, <2>3, Carriers
<1> QED
  BY <1>1, <1>2, <1>3, <1>4 DEF Wanted, New

(* A page gives up a file that it uploaded: it removed or replaced it.      *)
GivesUp(f, k) ==
    /\ page[f] = "open" /\ k \in mine[f] /\ k \notin value'[f]
    /\ New(f) => k \notin draft'
    /\ ~New(f) => draft' = draft
    /\ \A g \in Form \ {f} : value'[g] = value[g]
    /\ UNCHANGED <<db, target, page, call>>

LEMMA RemoveGivesUp ==
    ASSUME Base, NEW f \in Form, NEW k \in Key, Remove(f, k)
    PROVE  cancels' = cancels \/ (cancels' = cancels \cup {k} /\ GivesUp(f, k))
<1>1. /\ value \in [Form -> SUBSET Key] /\ page[f] = "open"
      /\ value' = [value EXCEPT ![f] = value[f] \ {k}]
      /\ cancels' = cancels \cup ({k} \cap mine[f])
      /\ UNCHANGED <<db, target, page, call>>
  BY DEF Base, Types, ValuesTyped, Remove, Drop, records
<1>2. draft' = IF New(f) THEN value[f] \ {k} ELSE draft
  BY DEF Remove, Drop, Persist
<1>3. CASE k \in mine[f]
  BY <1>1, <1>2, <1>3 DEF GivesUp
<1>4. CASE k \notin mine[f]
  BY <1>1, <1>4
<1> QED
  BY <1>3, <1>4

LEMMA ReplyGivesUp ==
    ASSUME Base, Good', NEW q \in Key, NEW f \in Form, Replies(q, f),
           NEW k \in Key, k \in cancels', k \notin cancels
    PROVE  GivesUp(f, k)
<1>1. PICK replaced : Adds(q, f, replaced)
  BY DEF Replies
<1>2. k \in replaced /\ k \in mine[f] /\ replaced = value[f]
  BY <1>1 DEF Adds
<1>3. page[f] = "open"
  BY <1>1, <1>2 DEF Adds, Mishap, If, Good
<1>4. k # q
  BY <1>2 DEF Base, Types, ValuesTyped, Ready, Replies
<1>5. /\ value' = [value EXCEPT ![f] = {q}] /\ UNCHANGED <<db, target, page, call>>
  BY <1>1, <1>2 DEF Adds, Replies, records
<1>6. draft' = IF New(f) THEN {q} ELSE draft
  BY <1>1, <1>2, <1>3 DEF Adds, Persist
<1> QED
  BY <1>2, <1>3, <1>4, <1>5, <1>6 DEF GivesUp, Base, Types, ValuesTyped

(* What may doom a file: its time is over, its page gives it up while it is *)
(* pending, or a record is written without it.                              *)
LEMMA DoomedGrows ==
    ASSUME Base, Good', Next, NEW k \in Key, Minted(k), Doomed(k)'
    PROVE  \/ Doomed(k) \/ Sweep(k)
           \/ k \in pending /\ \E f \in Form : GivesUp(f, k)
           \/ \E f \in Form : Writes(f) /\ k \in call[f].old \ call[f].new
<1> DEFINE Grown == \/ Doomed(k) \/ Sweep(k)
                    \/ k \in pending /\ \E f \in Form : GivesUp(f, k)
                    \/ \E f \in Form : Writes(f) /\ k \in call[f].old \ call[f].new
<1>0. Types /\ Pages /\ StorageTyped /\ CallsTyped
  BY DEF Base, Types
<1>1. ASSUME NEW f \in Form, Open(f) \/ Leave(f) PROVE Grown
  BY <1>1 DEF Open, Leave, Doomed, Replaced, storage
<1>2. ASSUME NEW f \in Form, NEW kind \in {"save", "delete"}, Submit(f, kind) PROVE Grown
  BY <1>0, <1>2 DEF Submit, Doomed, Replaced, storage, form, CallsTyped
<1>3. ASSUME NEW f \in Form, NEW q \in Key, Upload(f, q) PROVE Grown
  BY <1>3 DEF Upload, Doomed, Replaced, form, Minted
<1>4. ASSUME NEW f \in Form, NEW q \in Key, Remove(f, q) PROVE Grown
  BY <1>4, RemoveGivesUp DEF Remove, Doomed, Replaced, storage
<1>5. ASSUME NEW f \in Form, Begin(f) PROVE Grown
  <2>1. Moves(f, "begun", IF New(f) THEN {} ELSE db[target[f]])
    BY <1>0, <1>5, BeginEffect
  <2> QED
    BY <1>0, <1>5, <2>1 DEF Begin, Moves, Doomed, Replaced, storage, form, CallsTyped
<1>6. ASSUME NEW f \in Form, Write(f) PROVE Grown
  <2>1. Writes(f)
    BY <1>0, <1>6, WriteEffect
  <2> QED
    BY <1>0, <2>1 DEF Writes, Moves, Doomed, Replaced, storage, form, CallsTyped
<1>7. ASSUME NEW f \in Form, Refuse(f) \/ HookThrows(f) \/ Answer(f) PROVE Grown
  <2>1. Ends(f)
    BY <1>0, <1>7, EndEffect
  <2> QED
    BY <1>0, <2>1 DEF Ends, Idle, Doomed, Replaced, storage, CallsTyped
<1>8. ASSUME NEW f \in Form, AfterHook(f) PROVE Grown
  <2>1. Hooks(f)
    BY <1>0, <1>8, AfterHookEffect
  <2> QED
    BY <1>0, <2>1 DEF Hooks, Moves, Doomed, Replaced, form, CallsTyped
<1>9. ASSUME NEW q \in Key, Uploaded(q) PROVE Grown
  <2>1. PICK f \in Form : Replies(q, f)
    BY <1>0, <1>9, UploadedEffect
  <2>2. CASE k \in cancels' /\ k \notin cancels
    BY <2>1, <2>2, ReplyGivesUp DEF Replies, Doomed, Replaced, storage
  <2>3. CASE ~(k \in cancels' /\ k \notin cancels)
    BY <2>1, <2>3 DEF Replies, Doomed, Replaced, storage
  <2> QED
    BY <2>2, <2>3
<1>10. ASSUME NEW q \in Key, Cancel(q) PROVE Grown
  BY <1>10 DEF Cancel, Cancellable, Doomed, Replaced
<1>11. ASSUME NEW q \in Key, Sweep(q) PROVE Grown
  BY <1>11 DEF Sweep, Doomed, Replaced, form
<1>12. ASSUME NEW q \in Key, Delete(q) PROVE Grown
  BY <1>12 DEF Delete, Doomed, Replaced, form
<1>13. ASSUME NEW r \in Record, BulkDelete(r) PROVE Grown
  BY <1>13 DEF BulkDelete, Doomed, Replaced, storage, form
<1>14. ASSUME Restart PROVE Grown
  BY <1>14 DEF Restart, Idle, Doomed, Replaced
<1> HIDE DEF Grown
<1>15. Grown
  BY <1>1, <1>2, <1>3, <1>4, <1>5, <1>6, <1>7, <1>8, <1>9, <1>10, <1>11, <1>12, <1>13, <1>14
  DEF Next, User, Server
<1> QED
  BY <1>15 DEF Grown

LEMMA DoomedUnwantedKept ==
    ASSUME Base, Careful, Good', Next PROVE DoomedUnwanted'
<1>0. /\ OneRecord /\ CarriedByEditor /\ OneCarrier /\ OneEditor /\ DraftsAreNew /\ DraftWritten
      /\ PendingWritten /\ OldIsStored /\ NewHasNoOld /\ Keeps /\ DoomedUnwanted
  BY DEF Careful
<1> SUFFICES ASSUME NEW k \in Key, Minted(k)', Doomed(k)', Wanted(k)' PROVE FALSE
  BY DEF DoomedUnwanted
<1>1. CASE ~Minted(k)
  <2>0. up \in [Key -> {"none", "stored", "done"}] /\ up'[k] # up[k]
    BY <1>1 DEF Base, Types, UploadsTyped, Minted
  <2>a. \/ UNCHANGED up \/ Restart
        \/ \E q \in Key : Uploaded(q) \/ \E f \in Form : Upload(f, q)
    BY DEF Next, User, Server, Open, Leave, Submit, Remove, Begin, Write, Refuse, HookThrows,
       AfterHook, Answer, Cancel, Sweep, Delete, BulkDelete, uploads
  <2>1. PICK f \in Form : Upload(f, k)
    BY <1>1, <2>0, <2>a DEF Minted, Upload, Uploaded, Restart
  <2>2. k \notin deleting /\ k \notin cancels /\ \A g \in Form : k \notin call[g].old
    BY <1>1 DEF Base, Types, StorageTyped, ValuesTyped, CallsTyped, Ready, Minted
  <2> QED
    BY <2>1, <2>2 DEF Upload, Doomed, Replaced, form
<1> SUFFICES ASSUME Minted(k) PROVE FALSE
  BY <1>1
<1>2. Wanted(k)
  BY WantedShrinks
<1>3. ~Doomed(k)
  BY <1>0, <1>2 DEF DoomedUnwanted
(* A file that is pending and in a record is held by the call that wrote it. *)
<1>4. ASSUME k \in pending, NEW r \in Record, k \in db[r]
      PROVE  \E f \in Form : target[f] = r /\ Working(f) /\ k \in call[f].new
  BY <1>0, <1>4 DEF PendingWritten, Working
<1>5. CASE Sweep(k)
  <2>1. k \in pending /\ ~Held(k)
    BY <1>5 DEF Sweep, Sweepable, Mishap, If, Good
  <2> QED
    BY <1>2, <1>4, <2>1 DEF Held, Holds, Wanted, Carries, Asks, Working
<1>6. ASSUME k \in pending, NEW f \in Form, GivesUp(f, k) PROVE FALSE
  <2>1. /\ page[f] = "open" /\ by[k] = f /\ k \in value[f] /\ up[k] = "done" /\ Live(f)
        /\ ~Working(f) /\ ~Asks(f)
    BY <1>6 DEF GivesUp, Base, MineIsHeld, Pages, Types, ValuesTyped, Ready, Live, Asks, Working
  <2>2. Carries(f, k)
    BY <2>1 DEF Carries
  <2>3. k \notin draft'
    BY <1>0, <1>6, <2>1 DEF GivesUp, DraftsAreNew
  <2>4. ASSUME NEW r \in Record, k \in db[r] PROVE FALSE
    <3>1. PICK g \in Form : target[g] = r /\ Working(g)
      BY <1>4, <1>6, <2>4
    <3>2. target[f] = r
      BY <1>0, <2>2, <2>4 DEF CarriedByEditor
    <3> QED
      BY <1>0, <2>1, <3>1, <3>2 DEF OneEditor
  <2>5. ASSUME NEW g \in Form, Carries(g, k)' PROVE FALSE
    <3>1. CASE g = f
      BY <1>6, <2>1, <2>5, <3>1 DEF GivesUp, Carries, Asks
    <3>2. CASE g # f
      <4>1. Carries(g, k)
        BY <1>6, <2>5, <3>2 DEF GivesUp, Carries, Live, Asks
      <4> QED
        BY <1>0, <2>2, <3>2, <4>1 DEF OneCarrier
    <3> QED
      BY <3>1, <3>2
  <2>6. up'[k] # "stored"
    BY <2>1 DEF Base, Types, UploadsTyped, Next, User, Server, Open, Leave, Submit, Upload, Remove,
       Begin, Write, Refuse, HookThrows, AfterHook, Answer, Uploaded, Cancel, Sweep, Delete,
       BulkDelete, Restart, uploads
  <2>7. db' = db
    BY <1>6 DEF GivesUp
  <2> QED
    BY <2>3, <2>4, <2>5, <2>6, <2>7 DEF Wanted
<1>7. ASSUME NEW f \in Form, Writes(f), k \in call[f].old \ call[f].new PROVE FALSE
  <2> DEFINE r == target[f]
  <2>1. /\ call[f].pc = "begun" /\ (New(f) <=> r \notin present) /\ Working(f) /\ ~Wrote(f)
        /\ db' = [db EXCEPT ![r] = call[f].new] /\ UNCHANGED <<uploads, form>>
    BY <1>7 DEF Writes, Working, Wrote
  <2>2. ~New(f) /\ r \in present /\ call[f].old = db[r] /\ r \in Record
    BY <1>0, <1>7, <2>1 DEF NewHasNoOld, OldIsStored, Base, Types, PagesTyped
  <2>3. k \in db[r] /\ up[k] = "done"
    BY <1>7, <2>2 DEF Base, Types, RecordsTyped, Ready
  <2>4. ASSUME k \in draft PROVE FALSE
    <3>1. Wrote(r) /\ New(r)
      BY <1>0, <2>2, <2>3, <2>4 DEF DraftWritten
    <3>2. f = r
      BY <1>0, <2>1, <2>2, <3>1 DEF OneEditor, New, Wrote, Working, Record
    <3> QED
      BY <2>1, <3>1, <3>2
  <2>5. ASSUME NEW q \in Record, k \in db'[q] PROVE FALSE
    <3>1. k \in db[q] /\ q # r
      BY <1>7, <2>1, <2>2, <2>5 DEF Base, Types, RecordsTyped
    <3> QED
      BY <1>0, <2>2, <2>3, <3>1 DEF OneRecord
  <2>6. ASSUME NEW g \in Form, target'[g] = g \/ target'[g] \in present', Carries(g, k)'
        PROVE  FALSE
    <3>1. Carries(g, k)
      BY <1>7, <2>6 DEF Writes, Carries, Live, Asks, Moves, Base, Types, CallsTyped, form
    <3>2. target[g] = r /\ (Live(g) \/ Working(g))
      BY <1>0, <2>2, <2>3, <3>1, CarriersStay DEF CarriedByEditor
    <3>3. g = f
      BY <1>0, <2>1, <3>2 DEF OneEditor
    <3>4. call'[f].pc = "written"
      BY <1>7 DEF Writes, Moves, Base, Types, CallsTyped
    <3>5. Live(f) /\ k \in value[f]
      BY <2>1, <2>6, <3>3, <3>4 DEF Carries, Asks, Live, form
    <3>6. CASE call[f].kind = "delete"
      BY <1>7, <2>1, <2>2, <2>6, <3>3, <3>6 DEF Writes, New, form
    <3>7. CASE call[f].kind = "save"
      BY <1>0, <1>7, <2>1, <2>3, <3>5, <3>7 DEF Keeps, Asks
    <3> QED
      BY <3>6, <3>7 DEF Base, Types, CallsTyped, CallStates
  <2> QED
    BY <2>1, <2>3, <2>4, <2>5, <2>6 DEF Wanted, uploads, form, New
<1> QED
  BY <1>3, <1>5, <1>6, <1>7, DoomedGrows

-----------------------------------------------------------------------------
(* The theorems. *)

LEMMA CarefulKept == ASSUME Base, Careful, Good', Next PROVE Careful'
BY AbsentKept, CreatedKept, OnceKept, OneEditorKept, DraftsAreNewKept, DraftCarriersKept,
   OneRecordKept, CarriedByEditorKept, OneCarrierKept, WrittenKept, DraftWrittenKept,
   PendingWrittenKept, OldIsStoredKept, NewHasNoOldKept, KeepsKept, DoomedUnwantedKept
DEF Careful

(* What has happened stays so.                                              *)
LEMMA GoodBefore == ASSUME Next, Good' PROVE Good
<1>1. CASE UNCHANGED happened
  BY <1>1 DEF Good
<1>2. CASE \E S : Mishap(S)
  BY <1>2 DEF Mishap, Good
<1>3. CASE \E f \in Form : User(f) \/ Server(f)
  BY <1>1, <1>2, <1>3 DEF User, Server, Open, Leave, Submit, Upload, Remove, Begin, Write, Refuse,
     HookThrows, AfterHook, Answer, Replied
<1>4. CASE \E k \in Key : Uploaded(k) \/ Cancel(k) \/ Sweep(k) \/ Delete(k)
  BY <1>1, <1>2, <1>4 DEF Uploaded, Cancel, Sweep, Delete
<1>5. CASE (\E r \in Record : BulkDelete(r)) \/ Restart
  BY <1>2, <1>5 DEF BulkDelete, Restart
<1> QED
  BY <1>3, <1>4, <1>5 DEF Next

LEMMA InvInit == Init => Inv
<1> SUFFICES ASSUME Init PROVE Inv
  OBVIOUS
<1> USE UploadAssumption DEF Init, Form, Record, Key, Ready, Minted, Idle, Working, New, Live, Asks,
    Wrote, Carries
<1>1. Types
  BY DEF Types, StorageTyped, UploadsTyped, RecordsTyped, PagesTyped, ValuesTyped, CallsTyped,
     CallStates
<1>2. MineIsHeld /\ Pages /\ Deletions
  BY DEF MineIsHeld, Pages, Deletions
<1>3. /\ Absent /\ Created /\ Once /\ OneEditor /\ DraftsAreNew /\ DraftCarriers
      /\ OneRecord /\ CarriedByEditor /\ OneCarrier /\ Written /\ DraftWritten
  BY DEF Absent, Created, Once, OneEditor, DraftsAreNew, DraftCarriers, OneRecord, CarriedByEditor,
     OneCarrier, Written, DraftWritten
<1>4. PendingWritten /\ OldIsStored /\ NewHasNoOld /\ Keeps /\ DoomedUnwanted
  BY DEF PendingWritten, OldIsStored, NewHasNoOld, Keeps, DoomedUnwanted
<1> QED
  BY <1>1, <1>2, <1>3, <1>4 DEF Inv, Base, Careful

LEMMA InvStep == Inv /\ [Next]_vars => Inv'
<1> SUFFICES ASSUME Inv, [Next]_vars PROVE Inv'
  OBVIOUS
<1>1. CASE Next
  <2>1. Base'
    BY <1>1, BaseKept DEF Inv
  <2>2. ASSUME Good' PROVE Careful'
    BY <1>1, <2>2, GoodBefore, CarefulKept DEF Inv
  <2> QED
    BY <2>1, <2>2 DEF Inv
<1>2. CASE UNCHANGED vars
  BY <1>2 DEF vars, storage, records, uploads, form, Inv, Base, Types, StorageTyped, UploadsTyped,
     RecordsTyped, PagesTyped, ValuesTyped, CallsTyped, MineIsHeld, Pages, Deletions, Careful, Good,
     Absent, Created, Once, OneEditor, DraftsAreNew, DraftCarriers, OneRecord, CarriedByEditor,
     OneCarrier, Written, DraftWritten, PendingWritten, OldIsStored, NewHasNoOld, Keeps,
     DoomedUnwanted, Minted, Ready, Working, New, Live, Asks, Wrote, Carries, Wanted, Doomed,
     Replaced
<1> QED
  BY <1>1, <1>2

LEMMA InvAlways == Spec => []Inv
BY InvInit, InvStep, PTL DEF Spec

(* Only files that were uploaded are stored, pending or about to be deleted, *)
(* and a page takes for pending only what it uploaded itself                 *)
(* (pendingKeysRef of property-renderer.tsx), whatever happens.              *)
THEOREM TypeCorrect == Spec => []TypeOK
<1>1. Inv => TypeOK
  <2> SUFFICES ASSUME Inv PROVE TypeOK
    OBVIOUS
  <2>1. \A k \in stored \cup deleting \cup pending : k \in Key /\ up[k] \in {"stored", "done"}
    BY DEF Inv, Base, Types, StorageTyped, UploadsTyped, Minted
  <2>2. present \subseteq Record /\ \A f \in Form : value[f] \subseteq Key
    BY DEF Inv, Base, Types, RecordsTyped, ValuesTyped
  <2>3. \A f \in Form : mine[f] \subseteq {k \in Key : by[k] = f /\ up[k] = "done"}
    BY DEF Inv, Base, Types, ValuesTyped, MineIsHeld, Ready
  <2> QED
    BY <2>1, <2>2, <2>3 DEF TypeOK
<1> QED
  BY <1>1, InvAlways, PTL

(* The files of a record are in storage and nobody is deleting them, for     *)
(* any number of pages and uploads: neither the cancellation of a pending    *)
(* file, nor the sweep, nor the after-hooks of uploadFeature take a file     *)
(* that a record holds, unless one of the circumstances of the statement     *)
(* has happened.                                                             *)
THEOREM SavedFilesAreKept == Spec => []SavedFilesExist
<1>1. Inv => SavedFilesExist
  <2> SUFFICES ASSUME Inv, Good, NEW r \in Record, NEW k \in db[r]
               PROVE  k \in stored \ deleting
    BY DEF SavedFilesExist, Good
  <2>1. k \in Key /\ Minted(k)
    BY DEF Inv, Base, Types, RecordsTyped, Ready, Minted
  <2>2. Wanted(k)
    BY DEF Wanted
  <2>3. ~Doomed(k)
    BY <2>1, <2>2 DEF Inv, Careful, DoomedUnwanted
  <2> QED
    BY <2>3 DEF Doomed
<1> QED
  BY <1>1, InvAlways, PTL
=============================================================================
