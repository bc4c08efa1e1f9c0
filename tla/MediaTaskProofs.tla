--------------------------- MODULE MediaTaskProofs ---------------------------
(* The safety of a media task for every number of calls, deliveries, results  *)
(* and crashes: one provider job, files with every success, one upload, no    *)
(* unwatched task and no overwritten cancellation.  Each theorem names the    *)
(* faults it excludes.                                                        *)
EXTENDS MediaTask, FiniteSetTheorems, TLAPS

\* The call went past its claim of the row.
Claimed(c) ==
    \/ creator[c].pc \in {"submit", "submitted", "recheck", "finalize", "catch", "threw"}
    \/ jobs[c] # "none"

\* One call at most goes past the claim ...
OneWinner == \A c, d \in Creators : Claimed(c) /\ Claimed(d) => c = d

\* ... and from then on the row cannot be claimed again.
NeverClaimableAgain ==
    \A c \in Creators : Claimed(c) => row.status \notin {"absent", "pending"}

Working == {"record", "upload", "edit", "undo", "mark"}

\* An apply call works only while it is at the head of the chain.
WorksAtHead ==
    \A a \in Applies : applier[a].pc \in Working => chain # <<>> /\ Head(chain) = a

\* A job id that some call holds is one the provider has given out.
HasJob(j) == j \in Creators /\ jobs[j] # "none"

JobsExist ==
    /\ \A c \in Creators :
           creator[c].pc \in {"start", "enqueue", "claim", "submit"} => jobs[c] = "none"
    /\ \A c \in Creators : creator[c].pc \in {"submitted", "recheck", "finalize"} => HasJob(c)
    /\ \A w \in Webhooks :
           webhook[w].pc \in {"status", "recheck", "finalize"} => HasJob(webhook[w].job)
    /\ poller.pc # "idle" => HasJob(poller.job)
    /\ row.output.job # None => HasJob(row.output.job)
    /\ \A k \in Cancels : canceller[k].output.job # None => HasJob(canceller[k].output.job)
    /\ \A a \in Applies : applier[a].output.job # None => HasJob(applier[a].output.job)

IInv == TypeOK /\ JobsExist /\ WorksAtHead

\* The status written for a result is that of a claimed row.
LEMMA StatusOfResult ==
    ASSUME NEW r \in AllResults
    PROVE  /\ StatusOf(r) \in Statuses
           /\ StatusOf(r) \notin {"absent", "pending"}
BY DEF AllResults, StatusOf, Statuses

\* Merging a result into an output gives an output.
LEMMA ResultOutputType ==
    ASSUME NEW o \in Outputs, NEW j \in Creators, NEW r \in AllResults
    PROVE  ResultOutput(o, j, r) \in Outputs
<1>1. (r \in {"finished", "overfull"}) \in BOOLEAN
    OBVIOUS
<1>2. o.applied \in Applies \cup {None}
    BY DEF Outputs
<1>3. \A b \in BOOLEAN : [job |-> j, files |-> b, applied |-> o.applied] \in Outputs
    BY <1>2 DEF Outputs
<1>. QED BY <1>1, <1>3, Zenon DEF ResultOutput

LEMMA NoOutputType == NoOutput \in Outputs
BY DEF Outputs, NoOutput

LEMMA InitType == Init => IInv
<1> SUFFICES ASSUME Init PROVE IInv
    OBVIOUS
<1>1. TypeOK
    <2>. USE NoOutputType DEF Init, AllResults
    <2>1. row \in [status : Statuses, output : Outputs]  BY DEF Statuses
    <2>2. jobs \in [Creators -> AllResults \cup {"none"}]  OBVIOUS
    <2>3. creator \in [Creators -> [pc : CreatorPcs, result : AllResults]]  BY DEF CreatorPcs
    <2>4. canceller \in [Cancels -> [pc : {"start", "write", "done", "lost"}, output : Outputs]]
        OBVIOUS
    <2>5. webhook \in [Webhooks -> [pc : WebhookPcs, job : Creators \cup {None}, result : AllResults]]
        BY DEF WebhookPcs
    <2>6. poller \in [pc : PollerPcs, job : Creators \cup {None}, result : AllResults]
        BY DEF PollerPcs
    <2>a. {} \in FieldValues
        BY DEF FieldValues
    <2>7. applier \in [Applies -> [pc : ApplierPcs, output : Outputs, value : FieldValues]]
        BY <2>a DEF ApplierPcs
    <2>8. /\ chain \in Seq(Applies) /\ field \in FieldValues
          /\ uploads \in SUBSET Applies /\ torn \in SUBSET Applies
        BY <2>a
    <2>9. known \in BOOLEAN /\ up \in BOOLEAN /\ crashes \in Nat
        OBVIOUS
    <2>. QED BY <2>1, <2>2, <2>3, <2>4, <2>5, <2>6, <2>7, <2>8, <2>9, Zenon DEF TypeOK
<1>2. WorksAtHead /\ JobsExist
    BY DEF Init, WorksAtHead, Working, JobsExist, NoOutput
<1>. QED BY <1>1, <1>2 DEF IInv

\* A createTask call moves on, alone.
LEMMA CreatorMoveType ==
    ASSUME TypeOK, NEW c \in Creators, NEW pc \in CreatorPcs, CreatorMove(c, pc)
    PROVE  /\ creator' \in [Creators -> [pc : CreatorPcs, result : AllResults]]
           /\ creator'[c].pc = pc
           /\ \A d \in Creators : d # c => creator'[d] = creator[d]
BY DEF TypeOK, CreatorMove, CreatorStep

LEMMA CreateType ==
    ASSUME IInv, NEW c \in Creators, CreateStep(c)
    PROVE  TypeOK'
<1>. USE NoOutputType, StatusOfResult, ResultOutputType
<1>. USE DEF IInv, TypeOK, targetVars, hostVars, CreatorAt, CreatorMove, CreatorStep
<1>1. CASE Lookup(c)   BY <1>1 DEF Lookup, CreatorPcs
<1>2. CASE Enqueue(c)  BY <1>2 DEF Enqueue, StoreEnqueue, CreatorPcs, Statuses
<1>3. CASE Claim(c)    BY <1>3 DEF Claim, CreatorPcs, Statuses
<1>4. CASE Submit(c)   BY <1>4, ConstantsAssumption DEF Submit, CreatorPcs, ConstantsAssumption
<1>5. CASE SubmitFails(c)
    <2>1. PICK r \in {"none", "processing"} : jobs' = [jobs EXCEPT ![c] = r]
        BY <1>5 DEF SubmitFails
    <2>2. jobs' \in [Creators -> AllResults \cup {"none"}]
        BY <2>1 DEF AllResults
    <2>3. creator' \in [Creators -> [pc : CreatorPcs, result : AllResults]]
        BY <1>5 DEF SubmitFails, CreatorPcs
    <2>. QED BY <1>5, <2>2, <2>3 DEF SubmitFails
<1>6. CASE Submitted(c)
    <2>1. ResultOutput(NoOutput, c, creator[c].result) \in Outputs
        OBVIOUS
    <2>2. row' \in [status : Statuses, output : Outputs]
        BY <1>6, <2>1 DEF Submitted, Write, Statuses
    <2>3. creator' \in [Creators -> [pc : CreatorPcs, result : AllResults]]
        <3>. HIDE DEF IInv, TypeOK, CreatorMove
        <3>1. \E pc \in {"returned", "catch", "recheck"} : CreatorMove(c, pc)
            BY <1>6 DEF Submitted
        <3>2. {"returned", "catch", "recheck"} \subseteq CreatorPcs
            BY DEF CreatorPcs
        <3>. QED BY <3>1, <3>2, CreatorMoveType DEF IInv
    <2>4. poller' \in [pc : PollerPcs, job : Creators \cup {None}, result : AllResults]
        BY <1>6 DEF Submitted, PollerPcs
    <2>5. known' \in BOOLEAN
        <3>1. CASE UNCHANGED known  BY <3>1, Zenon
        <3>2. CASE known' = (known \/ creator[c].result = "processing")  BY <3>2, Zenon
        <3>. QED BY <1>6, <3>1, <3>2 DEF Submitted
    <2>. QED BY <1>6, <2>2, <2>3, <2>4, <2>5 DEF Submitted
<1>7. CASE CreatorRecheck(c)  BY <1>7 DEF CreatorRecheck, CreatorPcs
<1>8. CASE CreatorFinalize(c)
    <2>1. row' \in [status : Statuses, output : Outputs]
        BY <1>8 DEF CreatorFinalize, GuardedWrite
    <2>2. creator' \in [Creators -> [pc : CreatorPcs, result : AllResults]]
        <3>. HIDE DEF IInv, TypeOK, CreatorMove
        <3>1. CreatorMove(c, "returned") \/ CreatorMove(c, "catch")
            BY <1>8 DEF CreatorFinalize
        <3>2. {"returned", "catch"} \subseteq CreatorPcs
            BY DEF CreatorPcs
        <3>. QED BY <3>1, <3>2, CreatorMoveType DEF IInv
    <2>3. known' \in BOOLEAN
        BY <1>8, Zenon DEF CreatorFinalize
    <2>. QED BY <1>8, <2>1, <2>2, <2>3 DEF CreatorFinalize
<1>9. CASE CreatorCatch(c)    BY <1>9 DEF CreatorCatch, CreatorPcs, Write, Statuses
<1>. QED BY <1>1, <1>2, <1>3, <1>4, <1>5, <1>6, <1>7, <1>8, <1>9 DEF CreateStep

\* A delivery moves on with the result it was given.
LEMMA WebhookType ==
    ASSUME NEW w \in Webhooks, NEW p \in WebhookPcs, NEW r \in AllResults,
           webhook \in [Webhooks -> [pc : WebhookPcs, job : Creators \cup {None}, result : AllResults]],
           webhook' = [webhook EXCEPT ![w].pc = p, ![w].result = r]
    PROVE  webhook' \in [Webhooks -> [pc : WebhookPcs, job : Creators \cup {None}, result : AllResults]]
OBVIOUS

LEMMA CancelAndWebhookType ==
    ASSUME IInv,
           \/ \E k \in Cancels : CancelStep(k)
           \/ \E w \in Webhooks : WebhookStep(w)
           \/ \E j \in Creators : ProviderStep(j)
    PROVE  TypeOK'
<1>. USE StatusOfResult, ResultOutputType
<1>. USE DEF IInv, TypeOK, targetVars, hostVars, callVars
<1>1. ASSUME NEW k \in Cancels, CancelRead(k) PROVE TypeOK'
    BY <1>1 DEF CancelRead, CancellerAt
<1>2. ASSUME NEW k \in Cancels, CancelWrite(k) PROVE TypeOK'
    BY ZenonT(40), <1>2 DEF CancelWrite, CancellerAt, Write, Statuses
<1>3. ASSUME NEW j \in Creators, ProviderStep(j) PROVE TypeOK'
    BY <1>3, ConstantsAssumption DEF ProviderStep, ConstantsAssumption
<1>4. ASSUME NEW w \in Webhooks, WebhookRead(w) PROVE TypeOK'
    <2>1. PICK j \in Creators : webhook' = [webhook EXCEPT ![w] =
               [pc |-> IF row.output.job = j /\ ~IsTerminal THEN "status" ELSE "done",
                job |-> j, result |-> "processing"]]
        BY <1>4 DEF WebhookRead
    <2>2. webhook' \in [Webhooks -> [pc : WebhookPcs, job : Creators \cup {None}, result : AllResults]]
        BY <2>1 DEF WebhookPcs, AllResults
    <2>. QED BY <1>4, <2>2 DEF WebhookRead
<1>5. ASSUME NEW w \in Webhooks, WebhookStatus(w) PROVE TypeOK'
    <2>1. jobs[webhook[w].job] \in AllResults
        BY <1>5 DEF WebhookStatus, WebhookAt, JobsExist, HasJob
    <2>2. CASE WebhookMove(w, "done")
        BY <1>5, <2>2 DEF WebhookStatus, WebhookMove, WebhookPcs
    <2>3. CASE webhook' = [webhook EXCEPT
                   ![w].pc = IF jobs[webhook[w].job] = "overfull" THEN "done" ELSE "recheck",
                   ![w].result = jobs[webhook[w].job]]
        <3>1. webhook' \in [Webhooks -> [pc : WebhookPcs, job : Creators \cup {None}, result : AllResults]]
            <4>. HIDE DEF IInv, TypeOK
            <4>1. webhook \in [Webhooks -> [pc : WebhookPcs, job : Creators \cup {None}, result : AllResults]]
                BY DEF IInv, TypeOK
            <4>2. (IF jobs[webhook[w].job] = "overfull" THEN "done" ELSE "recheck") \in WebhookPcs
                BY DEF WebhookPcs
            <4>. QED BY <2>1, <2>3, <4>1, <4>2, WebhookType
        <3>. QED BY <1>5, <3>1 DEF WebhookStatus
    <2>. QED BY <1>5, <2>2, <2>3 DEF WebhookStatus
<1>6. ASSUME NEW w \in Webhooks, WebhookRecheck(w) PROVE TypeOK'
    BY ZenonT(40), <1>6 DEF WebhookRecheck, WebhookAt, WebhookMove, WebhookPcs
<1>7. ASSUME NEW w \in Webhooks, WebhookFinalize(w) PROVE TypeOK'
    <2>1. webhook[w].job \in Creators /\ webhook[w].result \in AllResults
        BY <1>7 DEF WebhookFinalize, WebhookAt, JobsExist, HasJob
    <2>2. row' \in [status : Statuses, output : Outputs]
        BY <1>7, <2>1 DEF WebhookFinalize, GuardedWrite
    <2>3. webhook' \in [Webhooks -> [pc : WebhookPcs, job : Creators \cup {None}, result : AllResults]]
        BY <1>7 DEF WebhookFinalize, WebhookMove, WebhookPcs
    <2>4. known' \in BOOLEAN
        BY <1>7, Zenon DEF WebhookFinalize
    <2>. QED BY <1>7, <2>2, <2>3, <2>4 DEF WebhookFinalize
<1>. QED BY <1>1, <1>2, <1>3, <1>4, <1>5, <1>6, <1>7 DEF CancelStep, WebhookStep

LEMMA PollType ==
    ASSUME IInv, PollRound \/ PollDeadline
    PROVE  TypeOK'
<1>. USE DEF IInv, TypeOK, targetVars, hostVars, PollerAt, PollerMove, PollerPcs
<1>1. CASE PollRead     BY <1>1 DEF PollRead
<1>2. CASE PollStatus
    <2>1. jobs[poller.job] \in AllResults
        BY <1>2 DEF PollStatus, JobsExist, HasJob
    <2>. QED BY <1>2, <2>1 DEF PollStatus
<1>3. CASE PollReread   BY <1>3 DEF PollReread
<1>4. CASE PollRecheck  BY <1>4 DEF PollRecheck
<1>5. CASE PollFinalize
    <2>1. poller.job \in Creators /\ poller.result \in AllResults
        BY <1>5 DEF PollFinalize, JobsExist, HasJob
    <2>2. row' \in [status : Statuses, output : Outputs]
        BY <1>5, <2>1, StatusOfResult, ResultOutputType DEF PollFinalize, GuardedWrite
    <2>3. known' \in BOOLEAN
        BY <1>5, Zenon DEF PollFinalize
    <2>. QED BY <1>5, <2>2, <2>3 DEF PollFinalize
<1>6. CASE PollDeadline BY <1>6 DEF PollDeadline
<1>7. CASE PollExpire   BY <1>7 DEF PollExpire, Write, Statuses
<1>. QED BY <1>1, <1>2, <1>3, <1>4, <1>5, <1>6, <1>7 DEF PollRound

AppliersType == [Applies -> [pc : ApplierPcs, output : Outputs, value : FieldValues]]

\* An apply call moves on, or settles and leaves the chain.
LEMMA ApplierMoveType ==
    ASSUME TypeOK, NEW a \in Applies, NEW pc \in ApplierPcs, ApplierMove(a, pc)
    PROVE  applier' \in AppliersType
BY DEF TypeOK, ApplierMove, AppliersType

LEMMA SettleType ==
    ASSUME IInv, NEW a \in Applies, chain # <<>>, Settle(a)
    PROVE  applier' \in AppliersType /\ chain' \in Seq(Applies)
<1>1. applier' \in AppliersType
    <2>1. "done" \in ApplierPcs  BY DEF ApplierPcs
    <2>. QED BY <2>1, ApplierMoveType DEF Settle, IInv
<1>2. chain' \in Seq(Applies)
    BY DEF Settle, IInv, TypeOK
<1>. QED BY <1>1, <1>2

LEMMA ApplyType ==
    ASSUME IInv, NEW a \in Applies, ApplyStep(a)
    PROVE  TypeOK'
<1>. USE DEF hostVars
<1>0. TypeOK /\ (applier[a].pc \in Working => chain # <<>>)
    BY DEF IInv, WorksAtHead
<1>a. {"queued", "record", "upload", "edit", "undo", "mark"} \subseteq ApplierPcs
    BY DEF ApplierPcs
<1>1. CASE ApplyRequest(a)
    <2>1. applier' \in AppliersType  BY <1>0, <1>a, <1>1, ApplierMoveType DEF ApplyRequest
    <2>2. chain' \in Seq(Applies)  BY <1>0, <1>1 DEF ApplyRequest, TypeOK
    <2>. QED BY <1>0, <1>1, <2>1, <2>2 DEF ApplyRequest, TypeOK, AppliersType, targetVars
<1>2. CASE ApplyRead(a)
    <2>1. applier' \in AppliersType /\ chain' \in Seq(Applies)
        <3>1. CASE Settle(a)  BY <1>2, <3>1, SettleType DEF ApplyRead, MyTurn
        <3>2. CASE applier' = [applier EXCEPT ![a].pc = "record", ![a].output = row.output] /\ UNCHANGED chain
            BY ZenonT(40), <1>0, <1>a, <3>2 DEF TypeOK, AppliersType
        <3>. QED BY <1>2, <3>1, <3>2 DEF ApplyRead
    <2>. QED BY <1>0, <1>2, <2>1 DEF ApplyRead, TypeOK, AppliersType, targetVars
<1>3. CASE ApplyRecord(a)
    <2>1. applier' \in AppliersType /\ chain' \in Seq(Applies)
        <3>1. CASE Settle(a)
            BY <1>0, <1>3, <3>1, SettleType DEF ApplyRecord, ApplierAt, Working
        <3>2. CASE applier' = [applier EXCEPT ![a].pc = "upload", ![a].value = field] /\ UNCHANGED chain
            BY ZenonT(40), <1>0, <1>a, <3>2 DEF TypeOK, AppliersType
        <3>. QED BY <1>3, <3>1, <3>2 DEF ApplyRecord
    <2>. QED BY <1>0, <1>3, <2>1 DEF ApplyRecord, TypeOK, AppliersType, targetVars
<1>4. CASE ApplyUpload(a)
    <2>1. applier' \in AppliersType /\ chain' \in Seq(Applies)
        <3>1. CASE Settle(a)
            BY <1>0, <1>4, <3>1, SettleType DEF ApplyUpload, ApplierAt, Working
        <3>2. CASE ApplierMove(a, "edit") /\ UNCHANGED chain
            BY <1>0, <1>a, <3>2, ApplierMoveType DEF TypeOK
        <3>. QED BY <1>4, <3>1, <3>2 DEF ApplyUpload
    <2>2. uploads' \in SUBSET Applies  BY <1>0, <1>4 DEF ApplyUpload, TypeOK
    <2>. QED BY <1>0, <1>4, <2>1, <2>2 DEF ApplyUpload, TypeOK, AppliersType
<1>5. CASE ApplyEdit(a)
    <2>1. applier' \in AppliersType  BY <1>0, <1>a, <1>5, ApplierMoveType DEF ApplyEdit
    <2>2. applier[a].value \in FieldValues  BY <1>0 DEF TypeOK
    <2>3. field' \in FieldValues
        BY <1>0, <1>5, <2>2 DEF ApplyEdit, Edited, TypeOK, FieldValues, targetVars
    <2>4. uploads' \in SUBSET Applies /\ torn' \in SUBSET Applies
        BY <1>0, <1>5 DEF ApplyEdit, TypeOK, targetVars
    <2>. QED BY <1>0, <1>5, <2>1, <2>3, <2>4 DEF ApplyEdit, TypeOK, AppliersType
<1>6. CASE ApplyUndo(a)
    <2>1. applier' \in AppliersType /\ chain' \in Seq(Applies)
        BY <1>0, <1>6, SettleType DEF ApplyUndo, ApplierAt, Working
    <2>2. uploads' \in SUBSET Applies  BY <1>0, <1>6 DEF ApplyUndo, TypeOK, WithoutUpload
    <2>. QED BY <1>0, <1>6, <2>1, <2>2 DEF ApplyUndo, TypeOK, AppliersType
<1>7. CASE ApplyMark(a)
    <2>1. applier' \in AppliersType /\ chain' \in Seq(Applies)
        BY <1>0, <1>7, SettleType DEF ApplyMark, ApplierAt, Working
    <2>2. [applier[a].output EXCEPT !.applied = a] \in Outputs
        BY <1>0 DEF TypeOK, Outputs
    <2>3. row' \in [status : Statuses, output : Outputs]
        <3>1. CASE UNCHANGED row
            BY <1>0, <3>1 DEF TypeOK
        <3>2. CASE Write("succeeded", [applier[a].output EXCEPT !.applied = a])
            BY <2>2, <3>2 DEF Write, Statuses
        <3>. QED BY <1>7, <3>1, <3>2 DEF ApplyMark
    <2>. QED BY <1>0, <1>7, <2>1, <2>3 DEF ApplyMark, TypeOK, AppliersType, targetVars
<1>. QED BY <1>1, <1>2, <1>3, <1>4, <1>5, <1>6, <1>7 DEF ApplyStep

LEMMA HostType ==
    ASSUME IInv, Crash \/ Restart
    PROVE  TypeOK'
<1>. USE DEF IInv, TypeOK, targetVars
<1>1. CASE Crash
    <2>1. creator' \in [Creators -> [pc : CreatorPcs, result : AllResults]]
        <3>1. \A c \in Creators : Lost(creator, {"returned", "threw"})[c] \in
                  {creator[c], [creator[c] EXCEPT !.pc = "lost"]}
            BY DEF Lost
        <3>2. \A c \in Creators : [creator[c] EXCEPT !.pc = "lost"] \in [pc : CreatorPcs, result : AllResults]
            BY DEF CreatorPcs
        <3>. QED BY <1>1, <3>1, <3>2 DEF Crash, Lost
    <2>2. canceller' \in [Cancels -> [pc : {"start", "write", "done", "lost"}, output : Outputs]]
        BY <1>1 DEF Crash, Lost
    <2>3. webhook' \in [Webhooks -> [pc : WebhookPcs, job : Creators \cup {None}, result : AllResults]]
        BY <1>1 DEF Crash, Lost, WebhookPcs
    <2>4. applier' \in [Applies -> [pc : ApplierPcs, output : Outputs, value : FieldValues]]
        <3>1. \A a \in Applies : Lost(applier, {"done"})[a] \in
                  {applier[a], [applier[a] EXCEPT !.pc = "lost"]}
            BY DEF Lost
        <3>2. \A a \in Applies : [applier[a] EXCEPT !.pc = "lost"]
                  \in [pc : ApplierPcs, output : Outputs, value : FieldValues]
            BY SMTT(30) DEF ApplierPcs
        <3>. QED BY <1>1, <3>1, <3>2 DEF Crash, Lost
    <2>5. poller' \in [pc : PollerPcs, job : Creators \cup {None}, result : AllResults]
        BY <1>1 DEF Crash, PollerPcs
    <2>a. <<>> \in Seq(Applies)
        OBVIOUS
    <2>b. chain' = <<>> /\ up' = FALSE /\ crashes' = crashes + 1
        BY <1>1 DEF Crash
    <2>c. chain' \in Seq(Applies) /\ up' \in BOOLEAN
        BY <2>a, <2>b, Zenon
    <2>d. crashes' \in Nat
        BY <2>b
    <2>6. chain' \in Seq(Applies) /\ up' \in BOOLEAN /\ crashes' \in Nat
        BY <2>c, <2>d, Zenon
    <2>7. UNCHANGED <<row, jobs, field, uploads, torn, known>>
        BY <1>1 DEF Crash
    <2>. QED BY <2>1, <2>2, <2>3, <2>4, <2>5, <2>6, <2>7
<1>2. CASE Restart
    <2>1. poller' \in [pc : PollerPcs, job : Creators \cup {None}, result : AllResults]
        BY <1>2 DEF Restart, PollerPcs, AllResults, Outputs
    <2>. QED BY <1>2, <2>1 DEF Restart
<1>. QED BY <1>1, <1>2

-----------------------------------------------------------------------------
(* The jobs that calls hold exist, and stay.                                  *)

LEMMA JobsStay ==
    ASSUME IInv, Next
    PROVE  \A j : HasJob(j) => HasJob(j)'
<1>. SUFFICES ASSUME NEW j, HasJob(j) PROVE HasJob(j)'
    OBVIOUS
<1>1. CASE UNCHANGED jobs
    BY <1>1 DEF HasJob
<1>2. ASSUME NEW c \in Creators, Submit(c) \/ SubmitFails(c) PROVE HasJob(j)'
    <2>1. jobs[c] = "none"
        BY <1>2 DEF Submit, SubmitFails, CreatorAt, IInv, JobsExist
    <2>. QED BY <1>2, <2>1 DEF Submit, SubmitFails, HasJob, IInv, TypeOK
<1>3. ASSUME NEW c \in Creators, ProviderStep(c) PROVE HasJob(j)'
    BY <1>3, ConstantsAssumption DEF ProviderStep, HasJob, IInv, TypeOK, ConstantsAssumption, AllResults
<1>. QED
    BY <1>1, <1>2, <1>3 DEF Next, CreateStep, CancelStep, WebhookStep, PollRound, ApplyStep,
        Lookup, Enqueue, Claim, Submitted, CreatorRecheck, CreatorFinalize, CreatorCatch,
        CancelRead, CancelWrite, WebhookRead, WebhookStatus, WebhookRecheck, WebhookFinalize,
        PollRead, PollStatus, PollReread, PollRecheck, PollFinalize, PollDeadline, PollExpire,
        ApplyRequest, ApplyRead, ApplyRecord, ApplyUpload, ApplyEdit, ApplyUndo, ApplyMark,
        Crash, Restart, Quiescent, vars

LEMMA CreateJobs ==
    ASSUME IInv, NEW c \in Creators, CreateStep(c), \A j : HasJob(j) => HasJob(j)'
    PROVE  JobsExist'
<1>. USE DEF IInv, TypeOK, JobsExist, HasJob, CreatorAt, CreatorMove, CreatorStep
<1>1. CASE Lookup(c)   BY <1>1 DEF Lookup
<1>2. CASE Enqueue(c)  BY <1>2 DEF Enqueue, StoreEnqueue, NoOutput
<1>3. CASE Claim(c)    BY <1>3 DEF Claim
<1>4. CASE Submit(c)
    <2>1. PICK r \in Results : jobs' = [jobs EXCEPT ![c] = r] /\ creator' = [creator EXCEPT ![c] = [pc |-> "submitted", result |-> r]]
        BY <1>4 DEF Submit
    <2>2. r # "none"
        BY ConstantsAssumption DEF ConstantsAssumption, AllResults
    <2>3. UNCHANGED <<row, canceller, webhook, poller, applier>>
        BY <1>4 DEF Submit
    <2>. QED BY <2>1, <2>2, <2>3
<1>5. CASE SubmitFails(c) BY <1>5 DEF SubmitFails
<1>6. CASE Submitted(c)
    <2>1. row'.output.job = c
        BY <1>6 DEF Submitted, Write, ResultOutput
    <2>2. jobs' = jobs
        BY <1>6 DEF Submitted
    <2>3. /\ creator'[c].pc \in {"returned", "catch", "recheck"}
          /\ \A d \in Creators : d # c => creator'[d] = creator[d]
        <3>. HIDE DEF IInv, TypeOK, CreatorMove
        <3>1. \E pc \in {"returned", "catch", "recheck"} : CreatorMove(c, pc)
            BY <1>6 DEF Submitted
        <3>2. {"returned", "catch", "recheck"} \subseteq CreatorPcs
            BY DEF CreatorPcs
        <3>. QED BY <3>1, <3>2, CreatorMoveType DEF IInv
    <2>4. poller' = poller \/ poller'.job = c
        BY <1>6 DEF Submitted
    <2>5. jobs[c] # "none"
        BY <1>6 DEF Submitted
    <2>6. UNCHANGED <<canceller, webhook, applier>>
        BY <1>6 DEF Submitted
    <2>7. (poller.pc # "idle" => HasJob(poller.job))'
        BY <2>2, <2>4, <2>5
    <2>8. (row.output.job # None => HasJob(row.output.job))'
        BY <2>1, <2>2, <2>5
    <2>. QED BY <2>2, <2>3, <2>5, <2>6, <2>7, <2>8
<1>7. CASE CreatorRecheck(c)  BY <1>7 DEF CreatorRecheck
<1>8. CASE CreatorFinalize(c)
    <2>1. row'.output.job \in {row.output.job, c}
        BY <1>8 DEF CreatorFinalize, GuardedWrite, ResultOutput
    <2>2. /\ creator'[c].pc \in {"returned", "catch"}
          /\ \A d \in Creators : d # c => creator'[d] = creator[d]
        <3>. HIDE DEF IInv, TypeOK, CreatorMove
        <3>1. CreatorMove(c, "returned") \/ CreatorMove(c, "catch")
            BY <1>8 DEF CreatorFinalize
        <3>2. {"returned", "catch"} \subseteq CreatorPcs
            BY DEF CreatorPcs
        <3>. QED BY <3>1, <3>2, CreatorMoveType DEF IInv
    <2>. QED BY <1>8, <2>1, <2>2 DEF CreatorFinalize
<1>9. CASE CreatorCatch(c)    BY <1>9 DEF CreatorCatch, Write
<1>. QED BY <1>1, <1>2, <1>3, <1>4, <1>5, <1>6, <1>7, <1>8, <1>9 DEF CreateStep

LEMMA OtherJobs ==
    ASSUME IInv, Next, ~ \E c \in Creators : CreateStep(c), \A j : HasJob(j) => HasJob(j)'
    PROVE  JobsExist'
<1>. USE DEF IInv, TypeOK, JobsExist, HasJob, targetVars, hostVars, callVars
<1>1. ASSUME NEW k \in Cancels, CancelStep(k) PROVE JobsExist'
    <2>1. \A l \in Cancels : canceller'[l].output \in {canceller[l].output, row.output}
        BY <1>1 DEF CancelStep, CancelRead, CancelWrite
    <2>2. row'.output \in {row.output, canceller[k].output}
        BY <1>1 DEF CancelStep, CancelRead, CancelWrite, Write
    <2>3. UNCHANGED <<jobs, creator, webhook, poller, applier>>
        BY <1>1 DEF CancelStep, CancelRead, CancelWrite
    <2>. QED BY <2>1, <2>2, <2>3
<1>2. ASSUME NEW j \in Creators, ProviderStep(j) PROVE JobsExist'
    BY <1>2 DEF ProviderStep
<1>3. ASSUME NEW w \in Webhooks, WebhookStep(w) PROVE JobsExist'
    <2>. USE DEF WebhookAt, WebhookMove
    <2>1. CASE WebhookRead(w)     BY <2>1 DEF WebhookRead
    <2>2. CASE WebhookStatus(w)
        <3>1. \A v \in Webhooks : webhook'[v].job = webhook[v].job
            <4>1. CASE WebhookMove(w, "done")
                BY <4>1
            <4>2. CASE webhook' = [webhook EXCEPT
                           ![w].pc = IF jobs[webhook[w].job] = "overfull" THEN "done" ELSE "recheck",
                           ![w].result = jobs[webhook[w].job]]
                BY <4>2
            <4>. QED BY <2>2, <4>1, <4>2 DEF WebhookStatus
        <3>2. \A v \in Webhooks : v # w => webhook'[v] = webhook[v]
            BY <2>2 DEF WebhookStatus
        <3>. QED BY <2>2, <3>1, <3>2 DEF WebhookStatus
    <2>3. CASE WebhookRecheck(w)  BY <2>3 DEF WebhookRecheck
    <2>4. CASE WebhookFinalize(w)
        <3>1. row'.output.job \in {row.output.job, webhook[w].job}
            BY <2>4 DEF WebhookFinalize, GuardedWrite, ResultOutput
        <3>. QED BY <2>4, <3>1 DEF WebhookFinalize
    <2>. QED BY <1>3, <2>1, <2>2, <2>3, <2>4 DEF WebhookStep
<1>4. CASE PollRound \/ PollDeadline
    <2>. USE DEF PollerAt, PollerMove
    <2>1. CASE PollFinalize
        <3>1. row'.output.job \in {row.output.job, poller.job}
            BY <2>1 DEF PollFinalize, GuardedWrite, ResultOutput
        <3>. QED BY <2>1, <3>1 DEF PollFinalize
    <2>2. CASE PollExpire
        BY <2>2 DEF PollExpire, Write
    <2>3. CASE PollRead \/ PollStatus \/ PollReread \/ PollRecheck \/ PollDeadline
        BY <2>3 DEF PollRead, PollStatus, PollReread, PollRecheck, PollDeadline
    <2>. QED BY <1>4, <2>1, <2>2, <2>3 DEF PollRound
<1>5. ASSUME NEW a \in Applies, ApplyStep(a) PROVE JobsExist'
    <2>1. UNCHANGED <<jobs, creator, canceller, webhook, poller>>
        BY <1>5 DEF ApplyStep, ApplyRequest, ApplyRead, ApplyRecord, ApplyUpload, ApplyEdit,
            ApplyUndo, ApplyMark
    <2>2. \A b \in Applies : applier'[b].output \in {applier[b].output, row.output}
        <3>2. CASE ApplyRead(a)    BY <3>2 DEF ApplyRead, Settle, ApplierMove
        <3>3. CASE ApplyRecord(a)
            <4>1. CASE Settle(a)  BY <4>1 DEF Settle, ApplierMove
            <4>2. CASE applier' = [applier EXCEPT ![a].pc = "upload", ![a].value = field]
                BY <4>2
            <4>. QED BY <3>3, <4>1, <4>2 DEF ApplyRecord
        <3>4. CASE ApplyUpload(a)  BY <3>4 DEF ApplyUpload, Settle, ApplierMove
        <3>5. CASE ApplyRequest(a) BY <3>5 DEF ApplyRequest, ApplierMove
        <3>6. CASE ApplyEdit(a)
            <4>1. CASE ApplierMove(a, "mark")  BY <4>1 DEF ApplierMove
            <4>2. CASE ApplierMove(a, "undo")  BY <4>2 DEF ApplierMove
            <4>. QED BY <3>6, <4>1, <4>2 DEF ApplyEdit
        <3>7. CASE ApplyUndo(a)    BY <3>7 DEF ApplyUndo, Settle, ApplierMove
        <3>8. CASE ApplyMark(a)    BY <3>8 DEF ApplyMark, Settle, ApplierMove
        <3>. QED BY <1>5, <3>2, <3>3, <3>4, <3>5, <3>6, <3>7, <3>8 DEF ApplyStep
    <2>3. row'.output.job \in {row.output.job, applier[a].output.job}
        BY SMTT(40), <1>5 DEF ApplyStep, ApplyRequest, ApplyRead, ApplyRecord, ApplyUpload,
            ApplyEdit, ApplyUndo, ApplyMark, Write, Outputs
    <2>4. row'.output.job # None => HasJob(row'.output.job)
        BY <2>3
    <2>5. \A b \in Applies : applier'[b].output.job # None => HasJob(applier'[b].output.job)
        BY <2>2
    <2>6. JobsExist /\ jobs' = jobs
        BY <2>1
    <2>. HIDE DEF IInv, TypeOK
    <2>. QED BY <2>1, <2>4, <2>5, <2>6
<1>6. CASE Crash
    BY SMTT(30), <1>6 DEF Crash, Lost
<1>7. CASE Restart
    BY <1>7 DEF Restart, Resumable
<1>8. CASE Quiescent
    BY <1>8 DEF Quiescent, vars
<1>. QED BY <1>1, <1>2, <1>3, <1>4, <1>5, <1>6, <1>7, <1>8 DEF Next

\* One apply call works at a time: it is the head of the chain until it settles.
LEMMA HeadStays ==
    ASSUME IInv, Next
    PROVE  WorksAtHead'
<1>. USE DEF IInv, WorksAtHead, Working
<1>1. CASE UNCHANGED <<applier, chain>>
    BY <1>1
<1>2. ASSUME NEW a \in Applies, ApplyStep(a) PROVE WorksAtHead'
    <2>0. chain \in Seq(Applies) /\ applier \in AppliersType
        BY DEF TypeOK, AppliersType
    <2>1. CASE ApplyRequest(a)
        <3>1. chain' = Append(chain, a) /\ applier' = [applier EXCEPT ![a].pc = "queued"]
            BY <2>1 DEF ApplyRequest, ApplierMove
        <3>2. chain # <<>> => Head(chain') = Head(chain)
            BY <2>0, <3>1
        <3>3. chain' # <<>>
            BY <2>0, <3>1
        <3>. QED BY <2>0, <3>1, <3>2, <3>3 DEF AppliersType
    <2>2. CASE Settle(a) /\ chain # <<>> /\ Head(chain) = a
        <3>1. \A b \in Applies : applier'[b].pc \notin Working
            BY <2>0, <2>2 DEF Settle, ApplierMove, AppliersType
        <3>. QED BY <3>1
    <2>3. CASE UNCHANGED chain /\ chain # <<>> /\ Head(chain) = a
                 /\ \A b \in Applies : b # a => applier'[b] = applier[b]
        BY <2>3
    <2>4. ~ApplyRequest(a) => chain # <<>> /\ Head(chain) = a
        BY <1>2 DEF ApplyStep, ApplyRead, MyTurn, ApplyRecord, ApplyUpload, ApplyEdit, ApplyUndo,
            ApplyMark, ApplierAt
    <2>5. ~ApplyRequest(a) => \/ Settle(a)
                              \/ /\ UNCHANGED chain
                                 /\ \A b \in Applies : b # a => applier'[b] = applier[b]
        <3>. USE <2>0 DEF AppliersType, ApplierMove
        <3>1. CASE ApplyRead(a)    BY <3>1 DEF ApplyRead
        <3>2. CASE ApplyRecord(a)
            <4>1. CASE applier' = [applier EXCEPT ![a].pc = "upload", ![a].value = field] /\ UNCHANGED chain
                BY <4>1
            <4>. QED BY <3>2, <4>1 DEF ApplyRecord
        <3>3. CASE ApplyUpload(a)  BY <3>3 DEF ApplyUpload
        <3>4. CASE ApplyEdit(a)    BY <3>4 DEF ApplyEdit
        <3>5. CASE ApplyUndo(a)    BY <3>5 DEF ApplyUndo
        <3>6. CASE ApplyMark(a)    BY <3>6 DEF ApplyMark
        <3>. QED BY <1>2, <3>1, <3>2, <3>3, <3>4, <3>5, <3>6 DEF ApplyStep
    <2>. QED BY <2>1, <2>2, <2>3, <2>4, <2>5
<1>3. CASE Crash
    BY <1>3 DEF Crash, Lost, TypeOK
<1>. QED
    BY <1>1, <1>2, <1>3 DEF Next, CreateStep, CancelStep, WebhookStep, PollRound,
        Lookup, Enqueue, Claim, Submit, SubmitFails, Submitted, CreatorRecheck, CreatorFinalize,
        CreatorCatch, CancelRead, CancelWrite, ProviderStep, WebhookRead, WebhookStatus,
        WebhookRecheck, WebhookFinalize, PollRead, PollStatus, PollReread, PollRecheck,
        PollFinalize, PollDeadline, PollExpire, Restart, Quiescent, vars, callVars

LEMMA NextType == ASSUME IInv, [Next]_vars PROVE IInv'
<1>1. CASE UNCHANGED vars
    BY <1>1 DEF vars, IInv, TypeOK, JobsExist, HasJob, WorksAtHead
<1>2. CASE Next
    <2>1. TypeOK'
        <3>1. CASE Quiescent
            BY <3>1 DEF Quiescent, vars, IInv, TypeOK
        <3>. QED BY <1>2, <3>1, CreateType, CancelAndWebhookType, PollType, ApplyType, HostType DEF Next
    <2>2. JobsExist'
        BY <1>2, JobsStay, CreateJobs, OtherJobs
    <2>3. WorksAtHead'
        BY <1>2, HeadStays
    <2>. QED BY <2>1, <2>2, <2>3 DEF IInv
<1>. QED BY <1>1, <1>2

\* Every reachable state is well typed: the row holds a status of the store and
\* an output of its shape, whichever calls raced to write it.
THEOREM TypeCorrect == Spec => []TypeOK
<1>1. Spec => []IInv
    BY InitType, NextType, PTL DEF Spec
<1>2. IInv => TypeOK
    BY DEF IInv
<1>. QED BY <1>1, <1>2, PTL

-----------------------------------------------------------------------------
(* One job per request.                                                       *)

WInv == IInv /\ OneWinner /\ NeverClaimableAgain

\* No write makes a claimed row claimable again.
LEMMA NeverPendingAgain ==
    ASSUME IInv, Next, row.status \notin {"absent", "pending"}
    PROVE  row'.status \notin {"absent", "pending"}
<1>. USE StatusOfResult DEF IInv, TypeOK, JobsExist, HasJob
<1>1. CASE UNCHANGED row
    BY <1>1
<1>2. ASSUME NEW c \in Creators, CreateStep(c) PROVE row'.status \notin {"absent", "pending"}
    BY <1>2 DEF CreateStep, Lookup, Enqueue, StoreEnqueue, Existing, Claim, Claimable, Submit,
        SubmitFails, Submitted, CreatorRecheck, CreatorFinalize, CreatorCatch, GuardedWrite, Write
<1>3. ASSUME NEW k \in Cancels, CancelStep(k) PROVE row'.status \notin {"absent", "pending"}
    BY <1>3 DEF CancelStep, CancelRead, CancelWrite, Write
<1>4. ASSUME NEW w \in Webhooks, WebhookStep(w) PROVE row'.status \notin {"absent", "pending"}
    BY <1>4 DEF WebhookStep, WebhookRead, WebhookStatus, WebhookRecheck, WebhookFinalize, GuardedWrite
<1>5. CASE PollRound
    BY <1>5 DEF PollRound, PollRead, PollStatus, PollReread, PollRecheck, PollFinalize, PollExpire,
        GuardedWrite, Write
<1>6. ASSUME NEW a \in Applies, ApplyStep(a) PROVE row'.status \notin {"absent", "pending"}
    BY <1>6 DEF ApplyStep, ApplyRequest, ApplyRead, ApplyRecord, ApplyUpload, ApplyEdit, ApplyUndo,
        ApplyMark, Write
<1>. QED BY <1>1, <1>2, <1>3, <1>4, <1>5, <1>6 DEF Next, ProviderStep, PollDeadline, Crash, Restart, Quiescent, vars

\* A call gets past the claim only by winning it.
LEMMA ClaimedOnce ==
    ASSUME IInv, Next
    PROVE  \A c \in Creators : Claimed(c)' =>
               Claimed(c) \/ (row.status = "pending" /\ Claim(c))
<1>. SUFFICES ASSUME NEW c \in Creators, Claimed(c)', ~Claimed(c)
              PROVE  row.status = "pending" /\ Claim(c)
    OBVIOUS
<1>. USE DEF Claimed, IInv, TypeOK
<1>1. creator'[c] # creator[c] \/ jobs'[c] # jobs[c]
    OBVIOUS
<1>2. ASSUME NEW d \in Creators, CreateStep(d) PROVE row.status = "pending" /\ Claim(c)
    <2>1. c = d
        BY <1>1, <1>2 DEF CreateStep, CreatorStep, CreatorMove, Lookup, Enqueue, Claim, Submit,
            SubmitFails, Submitted, CreatorRecheck, CreatorFinalize, CreatorCatch
    <2>2. creator[c].pc \in {"start", "enqueue", "claim"}
        BY <1>2, <2>1 DEF CreateStep, CreatorAt, Lookup, Enqueue, Claim, Submit, SubmitFails,
            Submitted, CreatorRecheck, CreatorFinalize, CreatorCatch
    <2>3. jobs' = jobs
        BY <1>2, <2>1, <2>2 DEF CreateStep, CreatorAt, Lookup, Enqueue, Claim, Submit, SubmitFails,
            Submitted, CreatorRecheck, CreatorFinalize, CreatorCatch
    <2>4. CASE Claim(c)
        BY <2>3, <2>4 DEF Claim, Claimable, CreatorMove, CreatorStep
    <2>5. CASE Lookup(c) \/ Enqueue(c)
        BY <2>3, <2>5 DEF Lookup, Enqueue, CreatorMove, CreatorStep
    <2>. QED BY <1>2, <2>1, <2>2, <2>4, <2>5 DEF CreateStep, CreatorAt, Submit, SubmitFails,
            Submitted, CreatorRecheck, CreatorFinalize, CreatorCatch
<1>3. ASSUME NEW j \in Creators, ProviderStep(j) PROVE FALSE
    BY <1>3 DEF ProviderStep, callVars
<1>4. CASE Crash
    BY <1>4 DEF Crash, Lost
<1>. QED
    BY <1>1, <1>2, <1>3, <1>4 DEF Next, CancelStep, WebhookStep, PollRound, ApplyStep,
        CancelRead, CancelWrite, WebhookRead, WebhookStatus, WebhookRecheck, WebhookFinalize,
        PollRead, PollStatus, PollReread, PollRecheck, PollFinalize, PollDeadline, PollExpire,
        ApplyRequest, ApplyRead, ApplyRecord, ApplyUpload, ApplyEdit, ApplyUndo, ApplyMark,
        Restart, Quiescent, vars

LEMMA NextWinner == ASSUME WInv, [Next]_vars PROVE WInv'
<1>1. IInv'
    BY NextType DEF WInv
<1>2. CASE UNCHANGED vars
    BY <1>1, <1>2 DEF WInv, OneWinner, NeverClaimableAgain, Claimed, vars
<1>3. CASE Next
    <2>1. OneWinner'
        <3>. SUFFICES ASSUME NEW c \in Creators, NEW d \in Creators, Claimed(c)', Claimed(d)'
                      PROVE  c = d
            BY DEF OneWinner
        <3>1. CASE row.status = "pending"
            <4>1. ~Claimed(c) /\ ~Claimed(d)
                BY <3>1 DEF WInv, NeverClaimableAgain
            <4>2. Claim(c) /\ Claim(d)
                BY <1>3, <4>1, ClaimedOnce DEF WInv
            <4>. QED BY <3>1, <4>2 DEF Claim, Claimable, CreatorMove, CreatorStep, CreatorAt, WInv, IInv, TypeOK
        <3>2. CASE row.status # "pending"
            BY <1>3, <3>2, ClaimedOnce DEF WInv, OneWinner
        <3>. QED BY <3>1, <3>2
    <2>2. NeverClaimableAgain'
        <3>. SUFFICES ASSUME NEW c \in Creators, Claimed(c)'
                      PROVE  row'.status \notin {"absent", "pending"}
            BY DEF NeverClaimableAgain
        <3>1. CASE Claimed(c)
            BY <1>3, <3>1, NeverPendingAgain DEF WInv, NeverClaimableAgain
        <3>2. CASE row.status = "pending" /\ Claim(c)
            BY <3>2 DEF Claim, Claimable, WInv, IInv, TypeOK
        <3>. QED BY <1>3, <3>1, <3>2, ClaimedOnce DEF WInv
    <2>. QED BY <1>1, <2>1, <2>2 DEF WInv
<1>. QED BY <1>2, <1>3

\* A request is submitted to the provider at most once, for every number of
\* repeated createTask calls, cancellations, deliveries and crashes.
THEOREM SubmittedOnce == Spec => []OneProviderJob
<1>1. Init => WInv
    BY InitType DEF Init, WInv, OneWinner, NeverClaimableAgain, Claimed
<1>2. Spec => []WInv
    BY <1>1, NextWinner, PTL DEF Spec
<1>3. WInv => OneProviderJob
    BY DEF WInv, OneWinner, Claimed, OneProviderJob
<1>. QED BY <1>2, <1>3, PTL

-----------------------------------------------------------------------------
(* A succeeded task lists files.                                              *)

\* An apply call works with the output of a task that lists files.
WorksWithFiles == \A a \in Applies : applier[a].pc \in Working => applier[a].output.files

FInv == IInv /\ SucceededHasFiles /\ WorksWithFiles

\* Only a result with files is a success.
LEMMA SuccessHasFiles ==
    ASSUME NEW o, NEW j, NEW r \in AllResults, StatusOf(r) = "succeeded"
    PROVE  ResultOutput(o, j, r).files
<1>1. r = "finished"
    BY DEF AllResults, StatusOf
<1>. QED BY <1>1 DEF ResultOutput

LEMMA FilesStay ==
    ASSUME FInv, Next
    PROVE  WorksWithFiles'
<1>. USE DEF FInv, IInv, TypeOK, WorksWithFiles, Working
<1>1. CASE UNCHANGED applier
    BY <1>1
<1>2. ASSUME NEW a \in Applies, ApplyStep(a) PROVE WorksWithFiles'
    <2>. USE DEF ApplierAt, ApplierMove
    <2>1. CASE ApplyRead(a)
        <3>1. CASE Settle(a)
            BY <3>1 DEF Settle
        <3>2. CASE row.output.files
                   /\ applier' = [applier EXCEPT ![a].pc = "record", ![a].output = row.output]
            BY <3>2
        <3>. QED BY <2>1, <3>1, <3>2 DEF ApplyRead
    <2>2. \/ ApplyRead(a)
          \/ \A b \in Applies : applier'[b].output = applier[b].output
                                 /\ (applier'[b].pc \in Working => applier[b].pc \in Working)
        <3>1. CASE ApplyRequest(a)  BY <3>1 DEF ApplyRequest
        <3>2. CASE ApplyRecord(a)
            <4>1. CASE Settle(a)  BY <4>1 DEF Settle
            <4>2. CASE applier' = [applier EXCEPT ![a].pc = "upload", ![a].value = field]
                BY <3>2, <4>2 DEF ApplyRecord
            <4>. QED BY <3>2, <4>1, <4>2 DEF ApplyRecord
        <3>3. CASE ApplyUpload(a)  BY <3>3 DEF ApplyUpload, Settle
        <3>4. CASE ApplyEdit(a)
            <4>1. CASE ApplierMove(a, "mark")  BY <3>4, <4>1 DEF ApplyEdit
            <4>2. CASE ApplierMove(a, "undo")  BY <3>4, <4>2 DEF ApplyEdit
            <4>. QED BY <3>4, <4>1, <4>2 DEF ApplyEdit
        <3>5. CASE ApplyUndo(a)    BY <3>5 DEF ApplyUndo, Settle
        <3>6. CASE ApplyMark(a)    BY <3>6 DEF ApplyMark, Settle
        <3>. QED BY <1>2, <3>1, <3>2, <3>3, <3>4, <3>5, <3>6 DEF ApplyStep
    <2>. QED BY <2>1, <2>2
<1>3. CASE Crash
    BY <1>3 DEF Crash, Lost
<1>. QED
    BY <1>1, <1>2, <1>3 DEF Next, CreateStep, CancelStep, WebhookStep, PollRound,
        Lookup, Enqueue, Claim, Submit, SubmitFails, Submitted, CreatorRecheck, CreatorFinalize,
        CreatorCatch, CancelRead, CancelWrite, ProviderStep, WebhookRead, WebhookStatus,
        WebhookRecheck, WebhookFinalize, PollRead, PollStatus, PollReread, PollRecheck,
        PollFinalize, PollDeadline, PollExpire, Restart, Quiescent, vars, callVars

LEMMA SuccessStays ==
    ASSUME FInv, Next
    PROVE  SucceededHasFiles'
<1>. USE SuccessHasFiles DEF FInv, IInv, TypeOK, SucceededHasFiles
<1>1. CASE UNCHANGED row
    BY <1>1
<1>2. ASSUME NEW c \in Creators, CreateStep(c) PROVE SucceededHasFiles'
    <2>1. CASE Enqueue(c)          BY <2>1 DEF Enqueue, StoreEnqueue
    <2>2. CASE Claim(c)            BY <2>2 DEF Claim, Claimable
    <2>3. CASE Submitted(c)        BY <2>3 DEF Submitted, Write
    <2>4. CASE CreatorFinalize(c)  BY <2>4 DEF CreatorFinalize, GuardedWrite
    <2>5. CASE CreatorCatch(c)     BY <2>5 DEF CreatorCatch, Write
    <2>. QED BY <1>1, <1>2, <2>1, <2>2, <2>3, <2>4, <2>5
        DEF CreateStep, Lookup, Submit, SubmitFails, CreatorRecheck
<1>3. ASSUME NEW k \in Cancels, CancelStep(k) PROVE SucceededHasFiles'
    BY <1>1, <1>3 DEF CancelStep, CancelRead, CancelWrite, Write
<1>4. ASSUME NEW w \in Webhooks, WebhookStep(w) PROVE SucceededHasFiles'
    BY <1>1, <1>4 DEF WebhookStep, WebhookRead, WebhookStatus, WebhookRecheck, WebhookFinalize, GuardedWrite
<1>5. CASE PollRound
    BY <1>1, <1>5 DEF PollRound, PollRead, PollStatus, PollReread, PollRecheck, PollFinalize, PollExpire,
        GuardedWrite, Write
<1>6. ASSUME NEW a \in Applies, ApplyStep(a) PROVE SucceededHasFiles'
    <2>1. CASE ApplyMark(a) /\ Write("succeeded", [applier[a].output EXCEPT !.applied = a])
        <3>1. applier[a].output.files
            BY <2>1 DEF ApplyMark, ApplierAt, WorksWithFiles, Working
        <3>2. applier[a].output \in Outputs
            OBVIOUS
        <3>3. [applier[a].output EXCEPT !.applied = a].files
            BY <3>1, <3>2 DEF Outputs
        <3>. QED BY <2>1, <3>3 DEF Write
    <2>. QED BY <1>1, <1>6, <2>1 DEF ApplyStep, ApplyRequest, ApplyRead, ApplyRecord, ApplyUpload,
        ApplyEdit, ApplyUndo, ApplyMark
<1>. QED BY <1>1, <1>2, <1>3, <1>4, <1>5, <1>6
    DEF Next, ProviderStep, PollDeadline, Crash, Restart, Quiescent, vars

\* Whichever calls race, a task is succeeded only with the files of its result:
\* no call writes that status beside an output read before the result.
THEOREM SuccessComesWithFiles == Spec => []SucceededHasFiles
<1>1. Init => FInv
    BY InitType DEF Init, FInv, SucceededHasFiles, WorksWithFiles, Working
<1>2. FInv /\ [Next]_vars => FInv'
    <2>. SUFFICES ASSUME FInv, [Next]_vars PROVE FInv'
        OBVIOUS
    <2>1. IInv'
        BY NextType DEF FInv
    <2>2. CASE UNCHANGED vars
        BY <2>1, <2>2 DEF FInv, SucceededHasFiles, WorksWithFiles, vars
    <2>3. CASE Next
        BY <2>1, <2>3, FilesStay, SuccessStays DEF FInv
    <2>. QED BY <2>2, <2>3
<1>3. Spec => []FInv
    BY <1>1, <1>2, PTL DEF Spec
<1>4. FInv => SucceededHasFiles
    BY DEF FInv
<1>. QED BY <1>3, <1>4, PTL

-----------------------------------------------------------------------------
(* What the apply calls leave in the upload storage and in the record, when   *)
(* the storage does not fail.                                                 *)

NoneWorks == \A a \in Applies : applier[a].pc \notin Working

\* A delivery is about the stored job.
Answering == {"status", "recheck", "finalize"}

\* Until the winner has stored its job nobody works on a result.
SubmittedFirst ==
    \A c \in Creators : creator[c].pc \in {"submit", "submitted"} =>
        /\ row.status # "succeeded" /\ row.output.job = None
        /\ poller.pc = "idle"
        /\ \A w \in Webhooks : webhook[w].pc \notin Answering
        /\ \A k \in Cancels : canceller[k].output.job = None
        /\ NoneWorks /\ uploads = {}

\* Nothing is uploaded for a task that has not come to an end.
NothingBeforeTheEnd == row.status \notin Terminal => NoneWorks /\ uploads = {}

\* Between its upload and its last step an apply call has its file in the storage.
UploadedByStage ==
    /\ \A a \in uploads : applier[a].pc \in {"edit", "undo", "mark", "done", "lost"}
    /\ \A a \in Applies : applier[a].pc \in {"edit", "undo", "mark"} => a \in uploads

\* The upload of a call that is done is marked: no other call will upload.
DoneIsMarked ==
    (\E a \in uploads : applier[a].pc = "done") =>
        /\ NoneWorks
        /\ row.status = "succeeded" => row.output.applied # None

OneLiveUpload ==
    \A a, b \in uploads : applier[a].pc # "lost" /\ applier[b].pc # "lost" => a = b

\* Every crash costs one upload at most.
LostUploads == {a \in uploads : applier[a].pc = "lost"}

LossesCounted == IsFiniteSet(uploads) /\ Cardinality(LostUploads) <= crashes

\* The record names the uploads whose edit went through.
RecordWritten ==
    /\ \A a \in field \ torn : a \in uploads /\ applier[a].pc \in {"mark", "done", "lost"}
    /\ \A a \in uploads : applier[a].pc \in {"mark", "done"} => a \in field
    /\ \A a \in Applies : applier[a].pc \in {"upload", "edit"} => applier[a].value = field

AInv == /\ WInv
        /\ SubmittedFirst /\ NothingBeforeTheEnd
        /\ UploadedByStage /\ DoneIsMarked /\ OneLiveUpload
        /\ LossesCounted /\ RecordWritten

\* An apply call moves from one stage to another.
Stage(a, from, to) == applier[a].pc = from /\ applier'[a].pc = to

\* The edit has written, and uploadFeature has deleted some of what it replaced.
WritesField(a) == /\ field' \in {applier[a].value \cup {a}, {a}}
                  /\ \E gone \in SUBSET (field \ field') : uploads' = uploads \ gone

\* What one step of an apply call does, while the upload storage works.
LEMMA ApplyEffect ==
    ASSUME IInv, "storage" \notin Faults, NEW a \in Applies, ApplyStep(a)
    PROVE  /\ \A b \in Applies : b # a => applier'[b] = applier[b]
           /\ applier[a].pc # "start" => \A b \in Applies : b # a => applier[b].pc \notin Working
           /\ \/ Stage(a, "start", "queued") /\ UNCHANGED <<row, field, uploads, torn>>
              \/ /\ Stage(a, "queued", "record") /\ UNCHANGED <<row, field, uploads, torn>>
                 /\ row.status = "succeeded" /\ row.output.applied = None
              \/ \E pc \in {"queued", "record", "upload"} :
                     Stage(a, pc, "done") /\ UNCHANGED <<row, field, uploads, torn>>
              \/ /\ Stage(a, "record", "upload") /\ UNCHANGED <<row, field, uploads, torn>>
                 /\ applier'[a].value = field
              \/ /\ Stage(a, "upload", "edit") /\ UNCHANGED <<row, field, torn>>
                 /\ uploads' = uploads \cup {a}
                 /\ applier'[a].value = applier[a].value
              \/ /\ Stage(a, "edit", "mark") /\ UNCHANGED <<row, torn>>
                 /\ WritesField(a)
              \/ /\ Stage(a, "edit", "undo") /\ UNCHANGED row
                 /\ WritesField(a) /\ torn' = torn \cup {a}
              \/ Stage(a, "edit", "undo") /\ UNCHANGED <<row, field, uploads, torn>>
              \/ /\ Stage(a, "undo", "done") /\ UNCHANGED <<row, field, torn>>
                 /\ uploads' = uploads \ {a}
              \/ /\ Stage(a, "mark", "done") /\ UNCHANGED <<field, uploads, torn>>
                 /\ row'.status = "succeeded" /\ row'.output.applied = a
<1>0. applier \in AppliersType
    BY DEF IInv, TypeOK, AppliersType
<1>a. ASSUME NEW pc, ApplierMove(a, pc)
      PROVE  /\ \A b \in Applies : b # a => applier'[b] = applier[b]
             /\ applier'[a].pc = pc /\ applier'[a].value = applier[a].value
    BY <1>0, <1>a DEF ApplierMove, AppliersType
<1>b. ASSUME Settle(a)
      PROVE  /\ \A b \in Applies : b # a => applier'[b] = applier[b]
             /\ applier'[a].pc = "done"
    BY <1>a, <1>b DEF Settle
<1>c. ASSUME applier[a].pc # "start", NEW b \in Applies, b # a
      PROVE  applier[b].pc \notin Working
    <2>1. chain # <<>> /\ Head(chain) = a
        BY <1>c DEF ApplyStep, ApplyRequest, ApplyRead, MyTurn, ApplyRecord, ApplyUpload,
            ApplyEdit, ApplyUndo, ApplyMark, ApplierAt, IInv, WorksAtHead, Working
    <2>. QED BY <1>c, <2>1 DEF IInv, WorksAtHead
<1>. USE DEF Stage, ApplierAt, targetVars
<1>1. CASE ApplyRequest(a)  BY <1>c, <1>a, <1>1 DEF ApplyRequest
<1>2. CASE ApplyRead(a)
    <2>1. CASE Settle(a)  BY <1>2, <1>b, <1>c, <2>1 DEF ApplyRead
    <2>2. CASE /\ row.status = "succeeded" /\ row.output.applied = None
               /\ applier' = [applier EXCEPT ![a].pc = "record", ![a].output = row.output]
        <3>1. /\ \A b \in Applies : b # a => applier'[b] = applier[b]
              /\ applier'[a].pc = "record"
            BY <1>0, <2>2 DEF AppliersType
        <3>. QED BY <1>2, <1>c, <2>2, <3>1 DEF ApplyRead
    <2>. QED BY <1>2, <2>1, <2>2 DEF ApplyRead
<1>3. CASE ApplyRecord(a)
    <2>1. CASE Settle(a)  BY <1>3, <1>b, <1>c, <2>1 DEF ApplyRecord
    <2>2. CASE applier' = [applier EXCEPT ![a].pc = "upload", ![a].value = field]
        <3>1. /\ \A b \in Applies : b # a => applier'[b] = applier[b]
              /\ applier'[a].pc = "upload" /\ applier'[a].value = field
            BY <1>0, <2>2 DEF AppliersType
        <3>. QED BY <1>3, <1>c, <3>1 DEF ApplyRecord
    <2>. QED BY <1>3, <2>1, <2>2 DEF ApplyRecord
<1>4. CASE ApplyUpload(a)
    <2>1. CASE Settle(a) /\ UNCHANGED uploads  BY <1>4, <1>b, <1>c, <2>1 DEF ApplyUpload
    <2>2. CASE uploads' = uploads \cup {a} /\ ApplierMove(a, "edit")
        BY <1>4, <1>a, <1>c, <2>2 DEF ApplyUpload
    <2>. QED BY <1>4, <2>1, <2>2 DEF ApplyUpload
<1>5. CASE ApplyEdit(a)
    <2>1. CASE ApplierMove(a, "undo") /\ UNCHANGED targetVars
        BY <1>5, <1>a, <1>c, <2>1 DEF ApplyEdit
    <2>2. CASE ~(ApplierMove(a, "undo") /\ UNCHANGED targetVars)
        <3>1. WritesField(a)
            BY <1>5, <2>2 DEF ApplyEdit, Edited, WritesField
        <3>2. CASE ApplierMove(a, "mark") /\ UNCHANGED torn
            BY <1>5, <1>a, <1>c, <3>1, <3>2 DEF ApplyEdit
        <3>3. CASE ApplierMove(a, "undo") /\ torn' = torn \cup {a}
            BY <1>5, <1>a, <1>c, <3>1, <3>3 DEF ApplyEdit
        <3>. QED BY <1>5, <2>2, <3>2, <3>3 DEF ApplyEdit
    <2>. QED BY <2>1, <2>2
<1>6. CASE ApplyUndo(a)
    BY <1>6, <1>b, <1>c DEF ApplyUndo, WithoutUpload
<1>7. CASE ApplyMark(a)
    <2>1. applier[a].output \in Outputs
        BY <1>0 DEF AppliersType
    <2>2. row'.status = "succeeded" /\ row'.output.applied = a
        BY <1>7, <2>1 DEF ApplyMark, Write, Outputs
    <2>. QED BY <1>7, <1>b, <1>c, <2>2 DEF ApplyMark
<1>. QED BY <1>1, <1>2, <1>3, <1>4, <1>5, <1>6, <1>7 DEF ApplyStep

\* Calls of the other kinds leave the storage, the record and the chain alone.
LEMMA OthersDoNotApply ==
    ASSUME Next, ~Crash, \A a \in Applies : ~ApplyStep(a)
    PROVE  UNCHANGED <<applier, chain, field, uploads, torn, crashes>>
BY DEF Next, CreateStep, CancelStep, WebhookStep, PollRound,
    Lookup, Enqueue, Claim, Submit, SubmitFails, Submitted, CreatorRecheck, CreatorFinalize,
    CreatorCatch, CancelRead, CancelWrite, ProviderStep, WebhookRead, WebhookStatus,
    WebhookRecheck, WebhookFinalize, PollRead, PollStatus, PollReread, PollRecheck,
    PollFinalize, PollDeadline, PollExpire, Restart, Quiescent, vars, callVars, targetVars, hostVars

\* A crash takes every apply call that is under way; one at most was at work.
LEMMA CrashEffect ==
    ASSUME IInv, Crash
    PROVE  /\ \A a \in Applies :
                  applier'[a].pc = IF applier[a].pc \in {"start", "done"} THEN applier[a].pc ELSE "lost"
           /\ \A a \in Applies : applier'[a].pc \notin Working
           /\ UNCHANGED <<row, field, uploads, torn>> /\ crashes' = crashes + 1
BY DEF Crash, Lost, IInv, TypeOK, Working, targetVars

\* Once a task has come to an end its row stays or is failed or cancelled, except
\* for the write of a job that was submitted meanwhile.
LEMMA RowAfterTheEnd ==
    ASSUME IInv, Next, \A a \in Applies : ~ApplyStep(a), row.status \in Terminal,
           \A c \in Creators : ~Submitted(c)
    PROVE  row' = row \/ row'.status \in {"failed", "cancelled"}
<1>. USE DEF Terminal, GuardHolds, GuardedWrite, Write
<1>1. ASSUME NEW c \in Creators, CreateStep(c)
      PROVE  row' = row \/ row'.status \in {"failed", "cancelled"}
    BY <1>1 DEF CreateStep, Lookup, Enqueue, StoreEnqueue, Existing, Claim, Claimable, Submit,
        SubmitFails, CreatorRecheck, CreatorFinalize, CreatorCatch
<1>2. ASSUME NEW k \in Cancels, CancelStep(k)
      PROVE  row' = row \/ row'.status \in {"failed", "cancelled"}
    BY <1>2 DEF CancelStep, CancelRead, CancelWrite
<1>3. ASSUME NEW w \in Webhooks, WebhookStep(w) PROVE row' = row
    BY <1>3 DEF WebhookStep, WebhookRead, WebhookStatus, WebhookRecheck, WebhookFinalize
<1>4. CASE PollRound
    BY <1>4 DEF PollRound, PollRead, PollStatus, PollReread, PollRecheck, PollFinalize, PollExpire
<1>. QED
    BY <1>1, <1>2, <1>3, <1>4 DEF Next, ProviderStep, PollDeadline, Crash, Restart, Quiescent, vars

\* A row is only ended by a step that works on a stored job, or by an end.
LEMMA NextEnds ==
    ASSUME AInv, Next, "storage" \notin Faults
    PROVE  NothingBeforeTheEnd'
<1>. SUFFICES ASSUME row'.status \notin Terminal PROVE NoneWorks' /\ uploads' = {}
    BY DEF NothingBeforeTheEnd
<1>. USE DEF AInv
<1>0. IInv
    BY DEF WInv
<1>1. ASSUME NEW a \in Applies, ApplyStep(a) PROVE NoneWorks' /\ uploads' = {}
    BY <1>0, <1>1, ApplyEffect DEF NothingBeforeTheEnd, NoneWorks, Working, Stage, Terminal,
        UploadedByStage, WritesField
<1>2. CASE Crash
    BY <1>0, <1>2, CrashEffect DEF NothingBeforeTheEnd, NoneWorks
<1>3. CASE ~Crash /\ \A a \in Applies : ~ApplyStep(a)
    <2>1. UNCHANGED <<applier, uploads>>
        BY <1>3, OthersDoNotApply
    <2>2. NoneWorks /\ uploads = {}
        <3>1. CASE row.status \notin Terminal
            BY <3>1 DEF NothingBeforeTheEnd
        <3>2. ASSUME NEW c \in Creators, Submitted(c) PROVE NoneWorks /\ uploads = {}
            BY <3>2 DEF Submitted, CreatorAt, SubmittedFirst
        <3>. QED BY <1>0, <1>3, <3>1, <3>2, RowAfterTheEnd DEF Terminal
    <2>. QED BY <2>1, <2>2 DEF NoneWorks
<1>. QED BY <1>1, <1>2, <1>3

LEMMA NextMarked ==
    ASSUME AInv, Next, "storage" \notin Faults
    PROVE  DoneIsMarked'
<1>. USE DEF AInv
<1>0. IInv /\ None \notin Applies
    BY ConstantsAssumption DEF WInv, ConstantsAssumption
<1>1. ASSUME NEW a \in Applies, ApplyStep(a) PROVE DoneIsMarked'
    <2>1. uploads \subseteq Applies
        BY <1>0 DEF IInv, TypeOK
    <2>. QED BY <1>0, <1>1, <2>1, ApplyEffect DEF DoneIsMarked, NoneWorks, Working, Stage,
            UploadedByStage, OneLiveUpload, WritesField
<1>2. CASE Crash
    <2>1. uploads \subseteq Applies
        BY <1>0 DEF IInv, TypeOK
    <2>. QED BY <1>0, <1>2, <2>1, CrashEffect DEF DoneIsMarked, NoneWorks
<1>3. CASE ~Crash /\ \A a \in Applies : ~ApplyStep(a)
    <2>1. UNCHANGED <<applier, uploads>>
        BY <1>3, OthersDoNotApply
    <2>2. SUFFICES ASSUME NEW b \in uploads, applier[b].pc = "done"
                   PROVE  row'.status = "succeeded" => row'.output.applied # None
        BY <2>1 DEF DoneIsMarked, NoneWorks
    <2>3. row.status \in Terminal /\ \A c \in Creators : ~Submitted(c)
        BY <2>2 DEF NothingBeforeTheEnd, SubmittedFirst, Submitted, CreatorAt
    <2>4. row' = row \/ row'.status \in {"failed", "cancelled"}
        BY <1>0, <1>3, <2>3, RowAfterTheEnd
    <2>. QED BY <2>2, <2>4 DEF DoneIsMarked
<1>. QED BY <1>1, <1>2, <1>3

\* The storage, the record and the stages of the apply calls stay in step.
LEMMA NextUploads ==
    ASSUME AInv, Next, "storage" \notin Faults
    PROVE  UploadedByStage' /\ OneLiveUpload' /\ RecordWritten'
<1>. USE DEF AInv
<1>0. IInv /\ uploads \subseteq Applies /\ field \subseteq Applies
    BY DEF WInv, IInv, TypeOK, FieldValues
<1>1. ASSUME NEW a \in Applies, ApplyStep(a) PROVE UploadedByStage' /\ OneLiveUpload' /\ RecordWritten'
    <2>1. UploadedByStage'
        <3>1. CASE WritesField(a) /\ \E pc \in {"mark", "undo"} : Stage(a, "edit", pc)
            <4>1. a \in uploads /\ a \in field'
                BY <3>1 DEF WritesField, UploadedByStage, Stage
            <4>2. uploads' \subseteq uploads /\ a \in uploads'
                BY <3>1, <4>1 DEF WritesField
            <4>3. \A b \in Applies : b # a => applier'[b] = applier[b] /\ applier[b].pc \notin Working
                BY <1>0, <1>1, <3>1, ApplyEffect DEF Stage
            <4>. QED BY <1>0, <3>1, <4>2, <4>3 DEF UploadedByStage, Stage, Working
        <3>2. CASE ~(WritesField(a) /\ \E pc \in {"mark", "undo"} : Stage(a, "edit", pc))
            BY <1>0, <1>1, <3>2, ApplyEffect DEF UploadedByStage, Stage
        <3>. QED BY <3>1, <3>2
    <2>2. OneLiveUpload'
        BY <1>0, <1>1, ApplyEffect DEF UploadedByStage, Stage, WritesField, OneLiveUpload, DoneIsMarked,
            NoneWorks, Working
    <2>3. RecordWritten'
        BY <1>0, <1>1, ApplyEffect DEF UploadedByStage, Stage, WritesField, DoneIsMarked, RecordWritten,
            NoneWorks, Working
    <2>. QED BY <2>1, <2>2, <2>3
<1>2. CASE Crash
    BY <1>0, <1>2, CrashEffect DEF UploadedByStage, OneLiveUpload, RecordWritten, Working
<1>3. CASE ~Crash /\ \A a \in Applies : ~ApplyStep(a)
    BY <1>3, OthersDoNotApply DEF UploadedByStage, OneLiveUpload, RecordWritten
<1>. QED BY <1>1, <1>2, <1>3

LEMMA NextLosses ==
    ASSUME AInv, Next, "storage" \notin Faults
    PROVE  LossesCounted'
<1>. USE DEF AInv, LossesCounted
<1>0. IInv /\ uploads \subseteq Applies /\ crashes \in Nat
    BY DEF WInv, IInv, TypeOK
<1>f. IsFiniteSet(LostUploads) /\ Cardinality(LostUploads) \in Nat
    BY FS_Subset, FS_CardinalityType DEF LostUploads
<1>1. ASSUME NEW a \in Applies, ApplyStep(a) PROVE LossesCounted'
    <2>1. LostUploads' \subseteq LostUploads
        BY <1>0, <1>1, ApplyEffect DEF LostUploads, Stage, UploadedByStage, WritesField
    <2>2. uploads' \subseteq uploads \cup {a}
        BY <1>0, <1>1, ApplyEffect DEF WritesField
    <2>3. IsFiniteSet(uploads')
        BY <2>2, FS_AddElement, FS_Subset
    <2>4. crashes' = crashes
        BY <1>1 DEF ApplyStep, ApplyRequest, ApplyRead, ApplyRecord, ApplyUpload, ApplyEdit,
            ApplyUndo, ApplyMark, hostVars
    <2>5. Cardinality(LostUploads') <= Cardinality(LostUploads)
        BY <1>f, <2>1, FS_Subset
    <2>6. Cardinality(LostUploads') \in Nat
        BY <1>f, <2>1, FS_Subset, FS_CardinalityType
    <2>. QED BY <1>0, <1>f, <2>3, <2>4, <2>5, <2>6
<1>2. CASE Crash
    <2>1. \E a : LostUploads' \subseteq LostUploads \cup {a}
        <3>1. \A a \in LostUploads' : a \in LostUploads \/ applier[a].pc \in Working
            BY <1>0, <1>2, CrashEffect DEF LostUploads, UploadedByStage, Working
        <3>2. \A a, b \in Applies : applier[a].pc \in Working /\ applier[b].pc \in Working => a = b
            BY <1>0 DEF IInv, WorksAtHead
        <3>3. LostUploads' \subseteq Applies
            BY <1>0, <1>2, CrashEffect DEF LostUploads
        <3>. QED BY <3>1, <3>2, <3>3
    <2>2. PICK a : LostUploads' \subseteq LostUploads \cup {a}
        BY <2>1
    <2>3. /\ IsFiniteSet(LostUploads \cup {a})
          /\ Cardinality(LostUploads \cup {a}) <= Cardinality(LostUploads) + 1
        <3>1. Cardinality(LostUploads \cup {a}) =
                  IF a \in LostUploads THEN Cardinality(LostUploads) ELSE Cardinality(LostUploads) + 1
            BY <1>f, FS_AddElement, Zenon
        <3>2. IsFiniteSet(LostUploads \cup {a})
            BY <1>f, FS_AddElement, Zenon
        <3>. QED BY <1>f, <3>1, <3>2
    <2>4. /\ Cardinality(LostUploads') <= Cardinality(LostUploads \cup {a})
          /\ Cardinality(LostUploads') \in Nat /\ Cardinality(LostUploads \cup {a}) \in Nat
        BY <2>2, <2>3, FS_Subset, FS_CardinalityType
    <2>5. UNCHANGED uploads /\ crashes' = crashes + 1
        BY <1>0, <1>2, CrashEffect
    <2>. QED BY <1>0, <1>f, <2>3, <2>4, <2>5
<1>3. CASE ~Crash /\ \A a \in Applies : ~ApplyStep(a)
    <2>1. UNCHANGED <<applier, uploads, crashes>>
        BY <1>3, OthersDoNotApply
    <2>. QED BY <2>1 DEF LostUploads
<1>. QED BY <1>1, <1>2, <1>3

\* The winner submits to a row that nobody has worked on.
LEMMA WinnerFirst ==
    ASSUME AInv, NEW c \in Creators, Claim(c), Claimable
    PROVE  SubmittedFirst'
<1>. USE DEF AInv
<1>1. \A d \in Creators : jobs[d] = "none"
    BY DEF Claimable, WInv, NeverClaimableAgain, Claimed
<1>2. /\ row.output.job = None /\ poller.pc = "idle"
      /\ \A w \in Webhooks : webhook[w].pc \notin Answering
      /\ \A k \in Cancels : canceller[k].output.job = None
    BY <1>1 DEF WInv, IInv, JobsExist, HasJob, Answering
<1>3. NoneWorks /\ uploads = {}
    BY DEF Claimable, Terminal, NothingBeforeTheEnd
<1>4. row'.status = "running" /\ row'.output = row.output
    BY DEF Claim, Claimable, WInv, IInv, TypeOK
<1>5. UNCHANGED <<poller, webhook, canceller, applier, uploads>>
    BY DEF Claim, targetVars
<1>. QED BY <1>2, <1>3, <1>4, <1>5 DEF SubmittedFirst, NoneWorks

\* While the winner submits, the other calls find nothing to work on.
LEMMA NextSubmitted ==
    ASSUME AInv, Next, "storage" \notin Faults
    PROVE  SubmittedFirst'
<1>. USE DEF AInv
<1>0. IInv /\ OneWinner /\ NeverClaimableAgain
    BY DEF WInv
<1>. SUFFICES ASSUME NEW c \in Creators, creator'[c].pc \in {"submit", "submitted"},
                     ~(Claim(c) /\ Claimable)
              PROVE  /\ row'.status # "succeeded" /\ row'.output.job = None
                     /\ poller'.pc = "idle"
                     /\ \A w \in Webhooks : webhook'[w].pc \notin Answering
                     /\ \A k \in Cancels : canceller'[k].output.job = None
                     /\ NoneWorks' /\ uploads' = {}
    BY WinnerFirst DEF SubmittedFirst
<1>1. creator[c].pc \in {"submit", "submitted"} /\ ~Crash
    <2>1. ASSUME NEW d \in Creators, CreateStep(d) PROVE creator[c].pc \in {"submit", "submitted"}
        <3>1. creator \in [Creators -> [pc : CreatorPcs, result : AllResults]]
            BY <1>0 DEF IInv, TypeOK
        <3>. QED BY <2>1, <3>1 DEF CreateStep, CreatorStep, CreatorMove, CreatorAt, Lookup, Enqueue,
                Claim, Submit, SubmitFails, Submitted, CreatorRecheck, CreatorFinalize, CreatorCatch
    <2>2. CASE Crash
        <3>1. creator'[c].pc = IF creator[c].pc \in {"returned", "threw", "start"}
                                 THEN creator[c].pc ELSE "lost"
            BY <1>0, <2>2 DEF Crash, Lost, IInv, TypeOK
        <3>. QED BY <3>1
    <2>. QED
        BY <2>1, <2>2 DEF Next, CancelStep, WebhookStep, PollRound, ApplyStep, CancelRead, CancelWrite,
            ProviderStep, WebhookRead, WebhookStatus, WebhookRecheck, WebhookFinalize, PollRead,
            PollStatus, PollReread, PollRecheck, PollFinalize, PollDeadline, PollExpire,
            ApplyRequest, ApplyRead, ApplyRecord, ApplyUpload, ApplyEdit, ApplyUndo, ApplyMark,
            Restart, Quiescent, vars, callVars
<1>2. /\ row.status # "succeeded" /\ row.output.job = None
      /\ poller.pc = "idle"
      /\ \A w \in Webhooks : webhook[w].pc \notin Answering
      /\ \A k \in Cancels : canceller[k].output.job = None
      /\ NoneWorks /\ uploads = {}
    BY <1>1 DEF SubmittedFirst
<1>3. row.status \notin {"absent", "pending"}
    BY <1>0, <1>1 DEF NeverClaimableAgain, Claimed
<1>4. \A d \in Creators : Claimed(d) => d = c
    BY <1>0, <1>1 DEF OneWinner, Claimed
<1>5. CASE UNCHANGED <<row, poller, webhook, canceller, applier, uploads>>
    BY <1>2, <1>5 DEF NoneWorks
<1>6. ASSUME NEW d \in Creators, CreateStep(d)
      PROVE  UNCHANGED <<row, poller, webhook, canceller, applier, uploads>>
    <2>. USE DEF targetVars
    <2>1. CASE Lookup(d) \/ Submit(d) \/ SubmitFails(d) \/ CreatorRecheck(d)
        BY <2>1 DEF Lookup, Submit, SubmitFails, CreatorRecheck
    <2>2. CASE Enqueue(d) \/ Claim(d)
        BY <1>3, <2>2 DEF Enqueue, StoreEnqueue, Existing, Claim, Claimable
    <2>3. CASE Submitted(d) \/ CreatorFinalize(d) \/ CreatorCatch(d)
        <3>1. d = c
            BY <1>4, <2>3 DEF Submitted, CreatorFinalize, CreatorCatch, CreatorAt, Claimed
        <3>2. CASE Submitted(c)
            <4>1. \E pc \in {"returned", "catch", "recheck"} : CreatorMove(c, pc)
                BY <3>2 DEF Submitted
            <4>2. {"returned", "catch", "recheck"} \subseteq CreatorPcs
                BY DEF CreatorPcs
            <4>. QED BY <1>0, <4>1, <4>2, CreatorMoveType DEF IInv
        <3>3. CASE CreatorFinalize(c) \/ CreatorCatch(c)
            BY <1>1, <3>3 DEF CreatorFinalize, CreatorCatch, CreatorAt
        <3>. QED BY <2>3, <3>1, <3>2, <3>3
    <2>. QED BY <1>6, <2>1, <2>2, <2>3 DEF CreateStep
<1>7. ASSUME NEW k \in Cancels, CancelStep(k)
      PROVE  /\ row'.status # "succeeded" /\ row'.output.job = None
             /\ \A l \in Cancels : canceller'[l].output.job = None
             /\ UNCHANGED <<poller, webhook, applier, uploads>>
    <2>1. CASE CancelRead(k)
        BY <1>0, <1>2, <2>1 DEF CancelRead, targetVars, IInv, TypeOK
    <2>2. CASE CancelWrite(k)
        BY <1>0, <1>2, <2>2 DEF CancelWrite, Write, targetVars, IInv, TypeOK
    <2>. QED BY <1>7, <2>1, <2>2 DEF CancelStep
<1>8. ASSUME NEW w \in Webhooks, WebhookStep(w)
      PROVE  /\ \A v \in Webhooks : webhook'[v].pc \notin Answering
             /\ UNCHANGED <<row, poller, canceller, applier, uploads>>
    <2>1. WebhookRead(w)
        BY <1>2, <1>8 DEF WebhookStep, WebhookStatus, WebhookRecheck, WebhookFinalize, WebhookAt, Answering
    <2>2. None \notin Creators
        BY ConstantsAssumption DEF ConstantsAssumption
    <2>. QED BY <1>0, <1>2, <2>1, <2>2 DEF WebhookRead, Answering, targetVars, IInv, TypeOK
<1>9. CASE PollRound \/ PollDeadline \/ Restart \/ Quiescent \/ \E j \in Creators : ProviderStep(j)
    BY <1>2, <1>5, <1>9 DEF PollRound, PollRead, PollStatus, PollReread, PollRecheck, PollFinalize,
        PollDeadline, PollExpire, PollerAt, Restart, Resumable, Quiescent, vars, ProviderStep,
        callVars, targetVars
<1>10. ASSUME NEW a \in Applies, ApplyStep(a)
       PROVE  /\ UNCHANGED <<row, poller, webhook, canceller, uploads>>
              /\ NoneWorks'
    <2>1. UNCHANGED <<poller, webhook, canceller>>
        BY <1>10 DEF ApplyStep, ApplyRequest, ApplyRead, ApplyRecord, ApplyUpload, ApplyEdit,
            ApplyUndo, ApplyMark
    <2>2. UNCHANGED <<row, uploads>> /\ NoneWorks'
        BY <1>0, <1>2, <1>10, ApplyEffect DEF Stage, NoneWorks, Working
    <2>. QED BY <2>1, <2>2
<1>. QED
    <2>1. CASE \E d \in Creators : CreateStep(d)  BY <1>5, <1>6, <2>1
    <2>2. CASE \E k \in Cancels : CancelStep(k)   BY <1>2, <1>7, <2>2 DEF NoneWorks
    <2>3. CASE \E w \in Webhooks : WebhookStep(w)  BY <1>2, <1>8, <2>3 DEF NoneWorks
    <2>4. CASE \E a \in Applies : ApplyStep(a)    BY <1>2, <1>10, <2>4
    <2>. QED BY <1>1, <1>9, <2>1, <2>2, <2>3, <2>4 DEF Next

\* While the storage works, everything above holds in every reachable state.
LEMMA ApplyInvariant ==
    ASSUME "storage" \notin Faults
    PROVE  Spec => []AInv
<1>1. Init => AInv
    <2>. SUFFICES ASSUME Init PROVE AInv
        OBVIOUS
    <2>1. WInv
        BY InitType DEF Init, WInv, OneWinner, NeverClaimableAgain, Claimed
    <2>2. LossesCounted
        <3>1. LostUploads = {}
            BY DEF Init, LostUploads
        <3>. QED BY <3>1, FS_EmptySet DEF Init, LossesCounted
    <2>3. /\ SubmittedFirst /\ NothingBeforeTheEnd /\ UploadedByStage
          /\ DoneIsMarked /\ OneLiveUpload /\ RecordWritten
        BY DEF Init, SubmittedFirst, NothingBeforeTheEnd, UploadedByStage, DoneIsMarked,
            OneLiveUpload, RecordWritten, NoneWorks, Working
    <2>. QED BY <2>1, <2>2, <2>3 DEF AInv
<1>2. AInv /\ [Next]_vars => AInv'
    <2>. SUFFICES ASSUME AInv, [Next]_vars PROVE AInv'
        OBVIOUS
    <2>1. WInv'
        BY NextWinner DEF AInv
    <2>2. CASE Next
        BY <2>1, <2>2, NextSubmitted, NextEnds, NextMarked, NextUploads, NextLosses DEF AInv
    <2>3. CASE UNCHANGED vars
        BY <2>1, <2>3 DEF vars, AInv, SubmittedFirst, NothingBeforeTheEnd, UploadedByStage,
            DoneIsMarked, OneLiveUpload, LossesCounted, LostUploads, RecordWritten, NoneWorks
    <2>. QED BY <2>2, <2>3
<1>. QED BY <1>1, <1>2, PTL DEF Spec

\* Overlapping applyResult calls of one task leave one upload at most in the
\* storage, and one more for each crash, however many calls there are and
\* however they interleave with cancellations, deliveries and the poll loop:
\* the calls of a task run one after the other, and the second finds the first
\* one's marker.  The storage itself must not fail: a delete that fails, or a
\* getUrl that throws before the marker is written, leaves one more.
THEOREM AppliedAtMostOnce ==
    ASSUME "storage" \notin Faults
    PROVE  Spec => []AppliedOnce
<1>1. AInv => AppliedOnce
    <2>. SUFFICES ASSUME AInv PROVE AppliedOnce
        OBVIOUS
    <2>. USE DEF AInv, LossesCounted
    <2>0. crashes \in Nat /\ IsFiniteSet(uploads)
        BY DEF WInv, IInv, TypeOK
    <2>1. \E a : uploads \subseteq LostUploads \cup {a}
        BY DEF OneLiveUpload, LostUploads
    <2>2. PICK a : uploads \subseteq LostUploads \cup {a}
        BY <2>1
    <2>3. IsFiniteSet(LostUploads) /\ Cardinality(LostUploads) \in Nat
        BY <2>0, FS_Subset, FS_CardinalityType DEF LostUploads
    <2>4. Cardinality(LostUploads \cup {a}) =
              IF a \in LostUploads THEN Cardinality(LostUploads) ELSE Cardinality(LostUploads) + 1
        BY <2>3, FS_AddElement, Zenon
    <2>5. IsFiniteSet(LostUploads \cup {a})
        BY <2>3, FS_AddElement, Zenon
    <2>6. Cardinality(uploads) <= Cardinality(LostUploads \cup {a}) /\ Cardinality(uploads) \in Nat
        BY <2>2, <2>5, FS_Subset, FS_CardinalityType
    <2>. QED BY <2>0, <2>3, <2>4, <2>6 DEF AppliedOnce
<1>. QED BY <1>1, ApplyInvariant, PTL

\* No upload is orphaned but by a crash: a stored file is in the record, or its
\* call still has to write or delete it; and the record names no file that is
\* gone, but for the upload of an edit that threw after it had written.
THEOREM UploadsStayAccounted ==
    ASSUME "storage" \notin Faults
    PROVE  Spec => []UploadsAccounted
<1>1. AInv => UploadsAccounted
    <2>. SUFFICES ASSUME AInv PROVE UploadsAccounted
        OBVIOUS
    <2>. DEFINE Orphans == {a \in uploads \ field : applier[a].pc \notin {"edit", "undo"}}
    <2>. USE DEF AInv, LossesCounted
    <2>0. crashes \in Nat /\ IsFiniteSet(uploads)
        BY DEF WInv, IInv, TypeOK
    <2>1. Orphans \subseteq LostUploads
        BY DEF UploadedByStage, RecordWritten, LostUploads
    <2>2. IsFiniteSet(LostUploads) /\ Cardinality(LostUploads) \in Nat
        BY <2>0, FS_Subset, FS_CardinalityType DEF LostUploads
    <2>3. Cardinality(Orphans) <= Cardinality(LostUploads) /\ Cardinality(Orphans) \in Nat
        <3>. HIDE DEF Orphans
        <3>. QED BY <2>1, <2>2, FS_Subset, FS_CardinalityType
    <2>4. field \subseteq uploads \cup torn
        BY DEF RecordWritten
    <2>. QED BY <2>0, <2>2, <2>3, <2>4 DEF UploadsAccounted
<1>. QED BY <1>1, ApplyInvariant, PTL

-----------------------------------------------------------------------------
(* A stored job is watched to its end, when the provider and the event log    *)
(* answer and no result is over maxFiles.                                     *)

\* A call about to write a final status holds a final result that is not
\* refused; a delivery is about a stored job.
ResultsAreFinal ==
    /\ \A c \in Creators : jobs[c] # "overfull" /\ creator[c].result # "overfull"
    /\ \A c \in Creators : creator[c].pc \in {"recheck", "finalize"} => creator[c].result # "processing"
    /\ poller.pc \in {"reread", "recheck", "finalize"} => poller.result \notin {"processing", "overfull"}
    /\ \A w \in Webhooks :
           webhook[w].pc \in Answering /\ row.status = "running" => row.output.job # None

EInv == WInv /\ ResultsAreFinal /\ ActiveIsWatched

\* The writes that leave the row running.
LEMMA RunningRow ==
    ASSUME EInv, Next, row'.status = "running"
    PROVE  \/ row' = row
           \/ \E c \in Creators : Submitted(c) /\ row'.output.job = c
           \/ row.status = "pending" /\ row'.output.job = None /\ \E c \in Creators : Claim(c)
           \/ row.status = "running" /\ row'.output.job \in Creators
                 /\ row.output.job # None /\ UNCHANGED <<creator, poller, up>>
<1>. USE DEF EInv
<1>0. IInv /\ NeverClaimableAgain
    BY DEF WInv
<1>1. ASSUME NEW c \in Creators, CreateStep(c)
      PROVE  \/ row' = row
             \/ Submitted(c) /\ row'.output.job = c
             \/ row.status = "pending" /\ row'.output.job = None /\ Claim(c)
    <2>1. CASE Claim(c) /\ Claimable
        <3>1. row.output.job = None
            BY <1>0, <2>1 DEF Claimable, NeverClaimableAgain, Claimed, IInv, JobsExist, HasJob
        <3>. QED BY <1>0, <2>1, <3>1 DEF Claim, Claimable, IInv, TypeOK
    <2>2. CASE CreatorFinalize(c)
        <3>1. creator[c].result \in AllResults \ {"processing"}
            BY <1>0, <2>2 DEF CreatorFinalize, CreatorAt, ResultsAreFinal, IInv, TypeOK
        <3>2. StatusOf(creator[c].result) # "running"
            BY <3>1 DEF AllResults, StatusOf
        <3>. QED BY <2>2, <3>2 DEF CreatorFinalize, GuardedWrite
    <2>3. CASE Submitted(c)
        BY <2>3 DEF Submitted, Write, ResultOutput
    <2>4. CASE CreatorCatch(c) \/ Enqueue(c)
        BY <2>4 DEF CreatorCatch, Enqueue, StoreEnqueue, Write
    <2>5. CASE Lookup(c) \/ (Claim(c) /\ ~Claimable) \/ Submit(c) \/ SubmitFails(c) \/ CreatorRecheck(c)
        BY <2>5 DEF Lookup, Claim, Submit, SubmitFails, CreatorRecheck
    <2>. QED BY <1>1, <2>1, <2>2, <2>3, <2>4, <2>5 DEF CreateStep
<1>2. ASSUME NEW k \in Cancels, CancelStep(k) PROVE row' = row
    BY <1>2 DEF CancelStep, CancelRead, CancelWrite, Write
<1>3. ASSUME NEW w \in Webhooks, WebhookStep(w)
      PROVE  \/ row' = row
             \/ row.status = "running" /\ row'.output.job \in Creators
                   /\ row.output.job # None /\ UNCHANGED <<creator, poller, up>>
    <2>1. CASE WebhookFinalize(w)
        <3>1. HasJob(webhook[w].job) /\ webhook[w].pc \in Answering
            BY <1>0, <2>1 DEF WebhookFinalize, WebhookAt, IInv, JobsExist, Answering
        <3>2. row.status \notin {"absent", "pending"}
            BY <1>0, <3>1 DEF NeverClaimableAgain, Claimed, HasJob
        <3>3. CASE row.status # "running"
            BY <2>1, <3>2, <3>3 DEF WebhookFinalize, GuardedWrite, GuardHolds
        <3>4. CASE row.status = "running"
            BY <2>1, <3>1, <3>4 DEF WebhookFinalize, GuardedWrite, GuardHolds, ResultOutput,
                ResultsAreFinal, HasJob, hostVars
        <3>. QED BY <3>3, <3>4
    <2>. QED BY <1>3, <2>1 DEF WebhookStep, WebhookRead, WebhookStatus, WebhookRecheck
<1>4. CASE PollRound
    <2>1. CASE PollFinalize
        <3>1. poller.result \in AllResults \ {"processing"}
            BY <1>0, <2>1 DEF PollFinalize, PollerAt, ResultsAreFinal, IInv, TypeOK
        <3>2. StatusOf(poller.result) # "running"
            BY <3>1 DEF AllResults, StatusOf
        <3>. QED BY <2>1, <3>2 DEF PollFinalize, GuardedWrite
    <2>. QED BY <1>4, <2>1 DEF PollRound, PollRead, PollStatus, PollReread, PollRecheck, PollExpire, Write
<1>5. ASSUME NEW a \in Applies, ApplyStep(a) PROVE row' = row
    BY <1>5 DEF ApplyStep, ApplyRequest, ApplyRead, ApplyRecord, ApplyUpload, ApplyEdit, ApplyUndo,
        ApplyMark, Write
<1>. QED
    BY <1>1, <1>2, <1>3, <1>4, <1>5 DEF Next, ProviderStep, PollDeadline, Crash, Restart, Quiescent, vars

\* What a call holds stays final.
LEMMA NextFinal ==
    ASSUME EInv, Next, Faults \subseteq {"storage", "hooks"}, "overfull" \notin Results
    PROVE  ResultsAreFinal'
<1>. USE DEF EInv
<1>0. IInv /\ NeverClaimableAgain /\ None \notin Creators
    BY ConstantsAssumption DEF WInv, ConstantsAssumption
<1>t. /\ jobs \in [Creators -> AllResults \cup {"none"}]
      /\ creator \in [Creators -> [pc : CreatorPcs, result : AllResults]]
      /\ webhook \in [Webhooks -> [pc : WebhookPcs, job : Creators \cup {None}, result : AllResults]]
      /\ poller \in [pc : PollerPcs, job : Creators \cup {None}, result : AllResults]
    BY <1>0 DEF IInv, TypeOK
<1>1. \A c \in Creators : jobs'[c] # "overfull"
    <2>1. CASE UNCHANGED jobs
        BY <2>1 DEF ResultsAreFinal
    <2>2. ASSUME NEW d \in Creators, Submit(d) \/ SubmitFails(d) PROVE \A c \in Creators : jobs'[c] # "overfull"
        BY <1>t, <2>2 DEF Submit, SubmitFails, ResultsAreFinal
    <2>3. ASSUME NEW d \in Creators, ProviderStep(d) PROVE \A c \in Creators : jobs'[c] # "overfull"
        BY <1>t, <2>3 DEF ProviderStep, ResultsAreFinal
    <2>. QED
        BY <2>1, <2>2, <2>3 DEF Next, CreateStep, CancelStep, WebhookStep, PollRound, ApplyStep,
            Lookup, Enqueue, Claim, Submitted, CreatorRecheck, CreatorFinalize, CreatorCatch,
            CancelRead, CancelWrite, WebhookRead, WebhookStatus, WebhookRecheck, WebhookFinalize,
            PollRead, PollStatus, PollReread, PollRecheck, PollFinalize, PollDeadline, PollExpire,
            ApplyRequest, ApplyRead, ApplyRecord, ApplyUpload, ApplyEdit, ApplyUndo, ApplyMark,
            Crash, Restart, Quiescent, vars
<1>2. \A c \in Creators :
          /\ creator'[c].result # "overfull"
          /\ creator'[c].pc \in {"recheck", "finalize"} => creator'[c].result # "processing"
    <2>1. CASE UNCHANGED creator
        BY <2>1 DEF ResultsAreFinal
    <2>2. ASSUME NEW d \in Creators, CreateStep(d)
          PROVE  \A c \in Creators :
                     /\ creator'[c].result # "overfull"
                     /\ creator'[c].pc \in {"recheck", "finalize"} => creator'[c].result # "processing"
        <3>1. CASE Submit(d)
            BY <1>t, <3>1 DEF Submit, CreatorStep, ResultsAreFinal
        <3>2. CASE Submitted(d)
            <4>1. CASE creator[d].result = "processing"
                <5>1. CreatorMove(d, "returned")
                    BY <3>2, <4>1 DEF Submitted
                <5>. QED BY <1>t, <5>1 DEF CreatorMove, CreatorStep, ResultsAreFinal
            <4>2. CASE creator[d].result # "processing"
                <5>1. CreatorMove(d, "recheck")
                    BY <3>2, <4>2 DEF Submitted, ResultsAreFinal
                <5>. QED BY <1>t, <4>2, <5>1 DEF CreatorMove, CreatorStep, ResultsAreFinal
            <4>. QED BY <4>1, <4>2
        <3>3. CASE CreatorRecheck(d)
            BY <1>t, <3>3 DEF CreatorRecheck, CreatorAt, CreatorMove, CreatorStep, ResultsAreFinal
        <3>4. ASSUME NEW pc \in {"returned", "enqueue", "claim", "submit", "catch", "threw"}, CreatorMove(d, pc)
              PROVE  \A c \in Creators :
                         /\ creator'[c].result # "overfull"
                         /\ creator'[c].pc \in {"recheck", "finalize"} => creator'[c].result # "processing"
            BY <1>t, <3>4 DEF CreatorMove, CreatorStep, ResultsAreFinal
        <3>. QED BY <2>2, <3>1, <3>2, <3>3, <3>4 DEF CreateStep, Lookup, Enqueue, Claim, SubmitFails,
                CreatorFinalize, CreatorCatch
    <2>3. CASE Crash
        <3>1. \A c \in Creators : creator'[c].result = creator[c].result
                  /\ creator'[c].pc \in {creator[c].pc, "lost"}
            BY <1>t, <2>3 DEF Crash, Lost
        <3>. QED BY <3>1 DEF ResultsAreFinal
    <2>. QED
        BY <2>1, <2>2, <2>3 DEF Next, CancelStep, WebhookStep, PollRound, ApplyStep, ProviderStep,
            CancelRead, CancelWrite, WebhookRead, WebhookStatus, WebhookRecheck, WebhookFinalize,
            PollRead, PollStatus, PollReread, PollRecheck, PollFinalize, PollDeadline, PollExpire,
            ApplyRequest, ApplyRead, ApplyRecord, ApplyUpload, ApplyEdit, ApplyUndo, ApplyMark,
            Restart, Quiescent, vars, callVars
<1>3. poller'.pc \in {"reread", "recheck", "finalize"} => poller'.result \notin {"processing", "overfull"}
    <2>1. CASE UNCHANGED poller \/ poller'.pc \in {"idle", "poll", "status", "again", "expire"}
        BY <2>1 DEF ResultsAreFinal
    <2>2. CASE PollStatus
        <3>1. jobs[poller.job] # "overfull"
            BY <1>0, <2>2 DEF PollStatus, PollerAt, ResultsAreFinal, IInv, JobsExist, HasJob
        <3>. QED BY <1>t, <2>2, <3>1 DEF PollStatus
    <2>3. CASE PollReread \/ PollRecheck
        BY <1>t, <2>3 DEF PollReread, PollRecheck, PollerAt, PollerMove, ResultsAreFinal
    <2>4. ASSUME NEW c \in Creators, Submitted(c)
          PROVE  poller' = poller \/ poller'.pc = "poll"
        BY <1>t, <2>4 DEF Submitted
    <2>5. CASE Crash \/ Restart
        BY <1>t, <2>1, <2>5 DEF Crash, Restart
    <2>6. CASE PollRead \/ PollFinalize \/ PollDeadline \/ PollExpire
        BY <1>t, <2>1, <2>6 DEF PollRead, PollFinalize, PollDeadline, PollExpire, PollerMove
    <2>. QED
        BY <2>1, <2>2, <2>3, <2>4, <2>5, <2>6 DEF Next, CreateStep, CancelStep, WebhookStep, PollRound,
            ApplyStep, ProviderStep, Lookup, Enqueue, Claim, Submit, SubmitFails, CreatorRecheck,
            CreatorFinalize, CreatorCatch,
            CancelRead, CancelWrite, WebhookRead, WebhookStatus, WebhookRecheck, WebhookFinalize,
            ApplyRequest, ApplyRead, ApplyRecord, ApplyUpload, ApplyEdit, ApplyUndo, ApplyMark,
            Quiescent, vars, callVars
<1>4. ASSUME NEW w \in Webhooks, webhook'[w].pc \in Answering, row'.status = "running"
      PROVE  row'.output.job # None
    <2>1. \/ webhook[w].pc \in Answering
          \/ WebhookRead(w) /\ row.output.job # None
        <3>1. ASSUME NEW v \in Webhooks, WebhookStep(v)
              PROVE  \/ webhook[w].pc \in Answering
                     \/ WebhookRead(w) /\ row.output.job # None
            <4>1. CASE v # w
                BY <1>4, <1>t, <3>1, <4>1 DEF WebhookStep, WebhookRead, WebhookStatus, WebhookRecheck,
                    WebhookFinalize, WebhookMove
            <4>2. CASE v = w
                BY <1>0, <1>4, <1>t, <3>1, <4>2 DEF WebhookStep, WebhookRead, WebhookStatus, WebhookRecheck,
                    WebhookFinalize, WebhookMove, WebhookAt, Answering
            <4>. QED BY <4>1, <4>2
        <3>2. CASE Crash
            BY <1>4, <1>t, <3>2 DEF Crash, Lost, Answering
        <3>. QED
            BY <1>4, <3>1, <3>2 DEF Next, CreateStep, CancelStep, PollRound, ApplyStep, ProviderStep,
                Lookup, Enqueue, Claim, Submit, SubmitFails, Submitted, CreatorRecheck,
                CreatorFinalize, CreatorCatch, CancelRead, CancelWrite,
                PollRead, PollStatus, PollReread, PollRecheck, PollFinalize, PollDeadline, PollExpire,
                ApplyRequest, ApplyRead, ApplyRecord, ApplyUpload, ApplyEdit, ApplyUndo, ApplyMark,
                Restart, Quiescent, vars, callVars
    <2>2. CASE WebhookRead(w) /\ row.output.job # None
        BY <2>2 DEF WebhookRead
    <2>3. CASE webhook[w].pc \in Answering
        <3>1. row.status \notin {"absent", "pending"}
            BY <1>0, <2>3 DEF NeverClaimableAgain, Claimed, IInv, JobsExist, HasJob, Answering
        <3>. QED BY <1>0, <1>4, <2>3, <3>1, RunningRow DEF ResultsAreFinal
    <2>. QED BY <2>1, <2>2, <2>3
<1>. QED BY <1>1, <1>2, <1>3, <1>4 DEF ResultsAreFinal

Watched ==
    \/ poller.pc # "idle"
    \/ \E c \in Creators : creator[c].pc \in {"recheck", "finalize"}

\* Who stops watching a task ends it.
LEMMA WatchEnds ==
    ASSUME EInv, Next, Faults \subseteq {"storage", "hooks"}, ~Crash,
           row.status = "running", Watched, ~Watched'
    PROVE  row'.status # "running"
<1>. USE DEF EInv
<1>0. IInv
    BY DEF WInv
<1>t. /\ creator \in [Creators -> [pc : CreatorPcs, result : AllResults]]
      /\ poller \in [pc : PollerPcs, job : Creators \cup {None}, result : AllResults]
    BY <1>0 DEF IInv, TypeOK
<1>1. ~IsTerminal
    BY DEF IsTerminal, Terminal
<1>2. ASSUME NEW c \in Creators, CreateStep(c) PROVE row'.status # "running"
    <2>1. CASE CreatorFinalize(c)
        <3>1. creator[c].result \in AllResults \ {"processing"}
            BY <1>t, <2>1 DEF CreatorFinalize, CreatorAt, ResultsAreFinal
        <3>2. StatusOf(creator[c].result) # "running"
            BY <3>1 DEF AllResults, StatusOf
        <3>. QED BY <2>1, <3>2 DEF CreatorFinalize, GuardedWrite, GuardHolds
    <2>2. CASE CreatorRecheck(c)
        <3>1. creator'[c].pc = "finalize"
            BY <1>t, <1>1, <2>2 DEF CreatorRecheck, CreatorMove, CreatorStep
        <3>. QED BY <3>1 DEF Watched
    <2>3. CASE Submitted(c)
        <3>1. creator[c].pc = "submitted"
            BY <2>3 DEF Submitted, CreatorAt
        <3>2. \A d \in Creators : creator[d].pc \notin {"recheck", "finalize"}
            BY <3>1 DEF WInv, OneWinner, Claimed
        <3>3. poller'.pc # "idle"
            BY <1>t, <2>3, <3>2 DEF Submitted, Watched
        <3>. QED BY <3>3 DEF Watched
    <2>4. ASSUME NEW pc, CreatorMove(c, pc), creator[c].pc \notin {"recheck", "finalize"}, UNCHANGED poller
          PROVE  Watched'
        BY <1>t, <2>4 DEF CreatorMove, CreatorStep, Watched
    <2>5. CASE Submit(c)
        BY <1>t, <2>5 DEF Submit, CreatorAt, CreatorStep, Watched
    <2>. QED BY <1>2, <2>1, <2>2, <2>3, <2>4, <2>5 DEF CreateStep, CreatorAt, Lookup, Enqueue, Claim,
            SubmitFails, CreatorCatch
<1>3. CASE PollRound \/ PollDeadline
    <2>1. UNCHANGED creator
        BY <1>3 DEF PollRound, PollRead, PollStatus, PollReread, PollRecheck, PollFinalize,
            PollDeadline, PollExpire
    <2>2. poller'.pc = "idle" /\ poller.pc # "idle"
        BY <2>1 DEF Watched
    <2>3. CASE PollFinalize
        <3>1. poller.result \in AllResults \ {"processing"}
            BY <1>t, <2>3 DEF PollFinalize, PollerAt, ResultsAreFinal
        <3>2. StatusOf(poller.result) # "running"
            BY <3>1 DEF AllResults, StatusOf
        <3>. QED BY <2>3, <3>2 DEF PollFinalize, GuardedWrite, GuardHolds
    <2>4. CASE PollExpire
        BY <2>4 DEF PollExpire, Write
    <2>5. CASE PollRead \/ PollReread \/ PollRecheck \/ PollDeadline
        BY <1>t, <1>1, <2>2, <2>5 DEF PollRead, PollReread, PollRecheck, PollDeadline, PollerAt,
            PollerMove, ResultsAreFinal
    <2>6. CASE PollStatus
        BY <1>t, <2>2, <2>6 DEF PollStatus
    <2>. QED BY <1>3, <2>3, <2>4, <2>5, <2>6 DEF PollRound
<1>4. CASE Restart
    BY <1>t, <1>4 DEF Restart, Watched
<1>5. ~UNCHANGED <<creator, poller>>
    BY DEF Watched
<1>. QED
    BY <1>2, <1>3, <1>4, <1>5 DEF Next, CancelStep, WebhookStep, ApplyStep, ProviderStep,
        CancelRead, CancelWrite, WebhookRead, WebhookStatus, WebhookRecheck, WebhookFinalize,
        ApplyRequest, ApplyRead, ApplyRecord, ApplyUpload, ApplyEdit, ApplyUndo, ApplyMark,
        Quiescent, vars, callVars

LEMMA NextWatched ==
    ASSUME EInv, Next, Faults \subseteq {"storage", "hooks"}
    PROVE  ActiveIsWatched'
<1>. USE DEF EInv
<1>0. IInv /\ NeverClaimableAgain /\ None \notin Creators
    BY ConstantsAssumption DEF WInv, ConstantsAssumption
<1>t. /\ creator \in [Creators -> [pc : CreatorPcs, result : AllResults]]
      /\ poller \in [pc : PollerPcs, job : Creators \cup {None}, result : AllResults]
    BY <1>0 DEF IInv, TypeOK
<1>. SUFFICES ASSUME up', Polling, row'.status = "running", row'.output.job # None
              PROVE  Watched'
    BY DEF ActiveIsWatched, Watched
<1>1. CASE row.status = "running" /\ row.output.job # None /\ up
    <2>1. Watched
        BY <1>1 DEF ActiveIsWatched, Watched
    <2>2. ~Crash
        BY DEF Crash
    <2>. QED BY <1>1, <2>1, <2>2, WatchEnds
<1>2. ASSUME NEW c \in Creators, Submitted(c) PROVE Watched'
    <2>1. CASE creator[c].result = "processing"
        <3>1. poller' = [poller EXCEPT !.pc = "poll", !.job = c]
            BY <1>2, <2>1 DEF Submitted
        <3>. QED BY <1>t, <3>1 DEF Watched
    <2>2. CASE creator[c].result # "processing"
        <3>1. CreatorMove(c, "recheck")
            BY <1>2, <2>2 DEF Submitted, ResultsAreFinal
        <3>2. creator'[c].pc = "recheck"
            BY <1>t, <3>1 DEF CreatorMove, CreatorStep
        <3>. QED BY <3>2 DEF Watched
    <2>. QED BY <2>1, <2>2
<1>3. CASE row' = row /\ ~up
    <2>1. Restart
        BY <1>3 DEF Next, CreateStep, CancelStep, WebhookStep, PollRound, ApplyStep, ProviderStep,
            Lookup, Enqueue, Claim, Submit, SubmitFails, Submitted, CreatorRecheck,
            CreatorFinalize, CreatorCatch, CreatorAt, CancelRead, CancelWrite, CancellerAt,
            WebhookRead, WebhookStatus, WebhookRecheck, WebhookFinalize, WebhookAt,
            PollRead, PollStatus, PollReread, PollRecheck, PollFinalize, PollDeadline, PollExpire,
            PollerAt, ApplyRequest, ApplyRead, ApplyRecord, ApplyUpload, ApplyEdit, ApplyUndo,
            ApplyMark, ApplierAt, Crash, Quiescent, vars, hostVars
    <2>2. Resumable
        BY <1>3 DEF Resumable, GuardHolds
    <2>3. poller'.pc = "poll"
        BY <2>1, <2>2 DEF Restart
    <2>. QED BY <2>3 DEF Watched
<1>5. CASE row' = row
    BY <1>1, <1>3, <1>5
<1>6. CASE row.status = "running" /\ row.output.job # None /\ UNCHANGED <<creator, poller, up>>
    <2>1. up
        BY <1>6
    <2>. QED BY <1>1, <1>6, <2>1
<1>. QED
    <2>1. \/ row' = row
          \/ \E c \in Creators : Submitted(c)
          \/ row.status = "running" /\ row.output.job # None /\ UNCHANGED <<creator, poller, up>>
        BY RunningRow
    <2>. QED BY <1>2, <1>5, <1>6, <2>1

\* Under these conditions a running task is watched in every reachable state.
LEMMA WatchInvariant ==
    ASSUME Faults \subseteq {"storage", "hooks"}, "overfull" \notin Results
    PROVE  Spec => []EInv
<1>1. Init => EInv
    <2>. SUFFICES ASSUME Init PROVE EInv
        OBVIOUS
    <2>1. WInv
        BY InitType DEF Init, WInv, OneWinner, NeverClaimableAgain, Claimed
    <2>2. ResultsAreFinal /\ ActiveIsWatched
        BY DEF Init, ResultsAreFinal, ActiveIsWatched
    <2>. QED BY <2>1, <2>2 DEF EInv
<1>2. EInv /\ [Next]_vars => EInv'
    <2>. SUFFICES ASSUME EInv, [Next]_vars PROVE EInv'
        OBVIOUS
    <2>1. WInv'
        BY NextWinner DEF EInv
    <2>2. CASE Next
        BY <2>1, <2>2, NextFinal, NextWatched DEF EInv
    <2>3. CASE UNCHANGED vars
        BY <2>1, <2>3 DEF vars, EInv, ResultsAreFinal, ActiveIsWatched
    <2>. QED BY <2>2, <2>3
<1>. QED BY <1>1, <1>2, PTL DEF Spec

\* While a process runs that polls, an active task whose job is stored is polled,
\* or the call that submitted it is about to finish it: no interleaving of calls,
\* deliveries, crashes and restarts leaves it unwatched.  The provider must
\* answer, the event log must take the event and no result may be over maxFiles:
\* each of these ends the loop, or the call, and leaves the task running.
THEOREM ActiveStaysWatched ==
    ASSUME Faults \subseteq {"storage", "hooks"}, "overfull" \notin Results
    PROVE  Spec => []ActiveIsWatched
<1>1. EInv => ActiveIsWatched
    BY DEF EInv
<1>. QED BY <1>1, WatchInvariant, PTL

-----------------------------------------------------------------------------
(* A cancellation sticks, when the request has one createTask call, nothing   *)
(* fails and the provider meets its deadline.                                 *)

\* The row while the only call has not stored its job.
StatusBefore == [pc \in {"start", "enqueue", "claim", "submit", "submitted"} |->
    CASE pc \in {"start", "enqueue"} -> "absent" [] pc = "claim" -> "pending" [] OTHER -> "running"]

\* Nobody knows the task before its job is stored, so nobody cancels it.
UnknownBefore ==
    /\ \A c \in Creators : creator[c].pc \in DOMAIN StatusBefore =>
           ~known /\ row.status = StatusBefore[creator[c].pc]
    /\ \A k \in Cancels : canceller[k].pc = "write" => known

\* No call fails a task of its own accord.
NeverGivesUp ==
    /\ \A c \in Creators : creator[c].pc # "catch"
    /\ poller.pc # "expire"

\* The marker of an apply call is written by its last step.
Unmarked ==
    \A a \in Applies : applier[a].pc \notin {"done", "lost"} =>
        /\ row.output.applied # a
        /\ \A k \in Cancels : canceller[k].output.applied # a

SInv == AInv /\ EInv /\ UnknownBefore /\ NeverGivesUp /\ Unmarked

\* The hypotheses under which no call overwrites a cancellation.
NothingFails ==
    /\ \A c, d \in Creators : c = d
    /\ Faults \subseteq {"hooks"} /\ "overfull" \notin Results /\ ~MayExpire

\* Before the job is stored the other calls wait.
LEMMA OthersWait ==
    ASSUME SInv, Next, NothingFails, NEW c \in Creators, creator[c].pc \in DOMAIN StatusBefore,
           ~CreateStep(c)
    PROVE  row' = row /\ known' = known
<1>. USE DEF SInv, NothingFails
<1>0. IInv
    BY DEF AInv, WInv
<1>1. ~known
    BY DEF UnknownBefore
<1>2. /\ poller.pc = "idle" /\ NoneWorks
      /\ \A w \in Webhooks : webhook[w].pc \notin Answering
    <2>1. CASE creator[c].pc \in {"submit", "submitted"}
        BY <2>1 DEF AInv, SubmittedFirst
    <2>2. CASE creator[c].pc \in {"start", "enqueue", "claim"}
        <3>1. \A d \in Creators : jobs[d] = "none"
            BY <1>0, <2>2 DEF IInv, JobsExist
        <3>2. row.status \notin Terminal
            BY <2>2 DEF UnknownBefore, StatusBefore, Terminal
        <3>. QED BY <1>0, <3>1, <3>2 DEF IInv, JobsExist, HasJob, Answering, AInv, NothingBeforeTheEnd
    <2>. QED BY <2>1, <2>2 DEF StatusBefore
<1>3. ASSUME NEW a \in Applies, ApplyStep(a) PROVE row' = row /\ known' = known
    <2>1. known' = known
        BY <1>3 DEF ApplyStep, ApplyRequest, ApplyRead, ApplyRecord, ApplyUpload, ApplyEdit,
            ApplyUndo, ApplyMark
    <2>. QED BY <1>0, <1>2, <1>3, <2>1, ApplyEffect DEF Stage, NoneWorks, Working
<1>4. ASSUME NEW k \in Cancels, CancelStep(k) PROVE FALSE
    BY <1>1, <1>4 DEF CancelStep, CancelRead, CancelWrite, CancellerAt, UnknownBefore
<1>5. ASSUME NEW w \in Webhooks, WebhookStep(w) PROVE row' = row /\ known' = known
    BY <1>2, <1>5 DEF WebhookStep, WebhookRead, WebhookStatus, WebhookRecheck, WebhookFinalize,
        WebhookAt, Answering
<1>6. CASE PollRound \/ PollDeadline
    BY <1>2, <1>6 DEF PollRound, PollRead, PollStatus, PollReread, PollRecheck, PollFinalize,
        PollDeadline, PollExpire, PollerAt
<1>. QED
    BY <1>3, <1>4, <1>5, <1>6 DEF Next, ProviderStep, Crash, Restart, Quiescent, vars

LEMMA NextUnknown ==
    ASSUME SInv, Next, NothingFails
    PROVE  UnknownBefore'
<1>. USE DEF SInv
<1>0. IInv
    BY DEF AInv, WInv
<1>t. creator \in [Creators -> [pc : CreatorPcs, result : AllResults]]
    BY <1>0 DEF IInv, TypeOK
<1>u. \A c, d \in Creators : c = d
    BY DEF NothingFails
<1>1. ASSUME NEW c \in Creators, creator'[c].pc \in DOMAIN StatusBefore
      PROVE  ~known' /\ row'.status = StatusBefore[creator'[c].pc]
    <2>. USE DEF StatusBefore
    <2>1. CASE CreateStep(c)
        <3>. USE <1>t DEF CreatorAt, CreatorMove, CreatorStep, UnknownBefore
        <3>1. CASE Lookup(c)   BY <1>1, <3>1 DEF Lookup, Existing
        <3>2. CASE Enqueue(c)  BY <1>1, <3>2 DEF Enqueue, StoreEnqueue, Existing
        <3>3. CASE Claim(c)
            <4>1. Claimable /\ ~known
                BY <3>3 DEF Claim, Claimable
            <4>2. row'.status = "running" /\ creator'[c].pc = "submit"
                BY <1>0, <3>3, <4>1 DEF Claim, IInv, TypeOK
            <4>3. ~known'
                BY <3>3, <4>1, Zenon DEF Claim
            <4>. QED BY <4>2, <4>3
        <3>4. CASE Submit(c)
            <4>1. row'.status = "running" /\ ~known'
                BY <3>4 DEF Submit
            <4>2. PICK r \in Results : CreatorStep(c, "submitted", r)
                BY <3>4 DEF Submit
            <4>3. creator'[c].pc = "submitted"
                BY <4>2
            <4>. QED BY <4>1, <4>3
        <3>5. ASSUME NEW pc \in {"catch", "returned", "recheck", "finalize", "threw"}, CreatorMove(c, pc)
              PROVE  FALSE
            BY <1>1, <3>5
        <3>6. ASSUME SubmitFails(c) \/ Submitted(c) \/ CreatorRecheck(c) \/ CreatorFinalize(c) \/ CreatorCatch(c)
              PROVE  \E pc \in {"catch", "returned", "recheck", "finalize", "threw"} : CreatorMove(c, pc)
            <4>. HIDE DEF CreatorMove
            <4>. QED BY <3>6 DEF SubmitFails, Submitted, CreatorRecheck, CreatorFinalize, CreatorCatch
        <3>. QED BY <2>1, <3>1, <3>2, <3>3, <3>4, <3>5, <3>6 DEF CreateStep
    <2>2. CASE ~CreateStep(c)
        <3>1. creator'[c].pc = creator[c].pc
            <4>1. CASE Crash
                BY <1>1, <1>t, <4>1 DEF Crash, Lost
            <4>2. ~ \E d \in Creators : CreateStep(d)
                BY <1>u, <2>2
            <4>. QED
                BY <4>1, <4>2 DEF Next, CancelStep, WebhookStep, PollRound, ApplyStep, CancelRead,
                    CancelWrite, ProviderStep, WebhookRead, WebhookStatus, WebhookRecheck,
                    WebhookFinalize, PollRead, PollStatus, PollReread, PollRecheck, PollFinalize,
                    PollDeadline, PollExpire, ApplyRequest, ApplyRead, ApplyRecord, ApplyUpload,
                    ApplyEdit, ApplyUndo, ApplyMark, Restart, Quiescent, vars, callVars
        <3>2. creator[c].pc \in DOMAIN StatusBefore
            BY <1>1, <3>1
        <3>. QED BY <2>2, <3>1, <3>2, OthersWait DEF UnknownBefore
    <2>. QED BY <2>1, <2>2
<1>2. ASSUME NEW k \in Cancels, canceller'[k].pc = "write" PROVE known'
    <2>0. canceller \in [Cancels -> [pc : {"start", "write", "done", "lost"}, output : Outputs]]
        BY <1>0 DEF IInv, TypeOK
    <2>1. canceller[k].pc = "write" \/ known
        <3>1. ASSUME NEW l \in Cancels, CancelStep(l) PROVE canceller[k].pc = "write" \/ known
            BY <1>2, <2>0, <3>1 DEF CancelStep, CancelRead, CancelWrite
        <3>2. CASE Crash
            BY <1>2, <2>0, <3>2 DEF Crash, Lost
        <3>. QED
            BY <1>2, <3>1, <3>2 DEF Next, CreateStep, WebhookStep, PollRound, ApplyStep, ProviderStep,
                Lookup, Enqueue, Claim, Submit, SubmitFails, Submitted, CreatorRecheck,
                CreatorFinalize, CreatorCatch, WebhookRead, WebhookStatus, WebhookRecheck,
                WebhookFinalize, PollRead, PollStatus, PollReread, PollRecheck, PollFinalize,
                PollDeadline, PollExpire, ApplyRequest, ApplyRead, ApplyRecord, ApplyUpload,
                ApplyEdit, ApplyUndo, ApplyMark, Restart, Quiescent, vars, callVars
    <2>2. known
        BY <2>1 DEF UnknownBefore
    <2>. QED
        BY <2>2 DEF Next, CreateStep, CancelStep, WebhookStep, PollRound, ApplyStep, ProviderStep,
            Lookup, Enqueue, Claim, Submit, SubmitFails, Submitted, CreatorRecheck, CreatorFinalize,
            CreatorCatch, CancelRead, CancelWrite, WebhookRead, WebhookStatus, WebhookRecheck,
            WebhookFinalize, PollRead, PollStatus, PollReread, PollRecheck, PollFinalize,
            PollDeadline, PollExpire, ApplyRequest, ApplyRead, ApplyRecord, ApplyUpload, ApplyEdit,
            ApplyUndo, ApplyMark, Crash, Restart, Quiescent, vars
<1>. QED BY <1>1, <1>2 DEF UnknownBefore

LEMMA NextNeverGivesUp ==
    ASSUME SInv, Next, NothingFails
    PROVE  NeverGivesUp'
<1>. USE DEF SInv, NothingFails
<1>0. IInv
    BY DEF AInv, WInv
<1>t. /\ creator \in [Creators -> [pc : CreatorPcs, result : AllResults]]
      /\ poller \in [pc : PollerPcs, job : Creators \cup {None}, result : AllResults]
    BY <1>0 DEF IInv, TypeOK
<1>1. \A c \in Creators : creator'[c].pc # "catch"
    <2>1. ASSUME NEW c \in Creators, NEW pc \in CreatorPcs \ {"catch"}, CreatorMove(c, pc)
          PROVE  \A d \in Creators : creator'[d].pc # "catch"
        BY <1>t, <2>1 DEF CreatorMove, CreatorStep, NeverGivesUp
    <2>2. ASSUME NEW c \in Creators, CreateStep(c)
          PROVE  \A d \in Creators : creator'[d].pc # "catch"
        <3>1. CASE Submit(c)
            BY <1>t, <3>1 DEF Submit, CreatorStep, NeverGivesUp
        <3>2. ~SubmitFails(c) /\ ~CreatorCatch(c)
            BY DEF SubmitFails, CreatorCatch, CreatorAt, NeverGivesUp
        <3>3. CASE Submitted(c)
            <4>1. CreatorMove(c, "returned") \/ CreatorMove(c, "recheck")
                BY <3>3 DEF Submitted, EInv, ResultsAreFinal
            <4>. QED BY <2>1, <4>1 DEF CreatorPcs
        <3>4. CASE Lookup(c) \/ Enqueue(c) \/ Claim(c) \/ CreatorRecheck(c) \/ CreatorFinalize(c)
            <4>1. \E pc \in {"returned", "enqueue", "claim", "submit", "finalize"} : CreatorMove(c, pc)
                BY <3>4 DEF Lookup, Enqueue, Claim, CreatorRecheck, CreatorFinalize
            <4>2. {"returned", "enqueue", "claim", "submit", "finalize"} \subseteq CreatorPcs \ {"catch"}
                BY DEF CreatorPcs
            <4>. QED BY <2>1, <4>1, <4>2
        <3>. QED BY <2>2, <3>1, <3>2, <3>3, <3>4 DEF CreateStep
    <2>3. CASE Crash
        <3>1. \A c \in Creators : creator'[c].pc \in {creator[c].pc, "lost"}
            BY <1>t, <2>3 DEF Crash, Lost
        <3>. QED BY <3>1 DEF NeverGivesUp
    <2>4. CASE UNCHANGED creator
        BY <2>4 DEF NeverGivesUp
    <2>. QED
        BY <2>2, <2>3, <2>4 DEF Next, CancelStep, WebhookStep, PollRound, ApplyStep, CancelRead,
            CancelWrite, ProviderStep, WebhookRead, WebhookStatus, WebhookRecheck,
            WebhookFinalize, PollRead, PollStatus, PollReread, PollRecheck, PollFinalize,
            PollDeadline, PollExpire, ApplyRequest, ApplyRead, ApplyRecord, ApplyUpload,
            ApplyEdit, ApplyUndo, ApplyMark, Restart, Quiescent, vars, callVars
<1>2. poller'.pc # "expire"
    <2>1. CASE PollRound \/ PollDeadline
        BY <1>t, <2>1 DEF PollRound, PollRead, PollStatus, PollReread, PollRecheck, PollFinalize,
            PollDeadline, PollExpire, PollerMove
    <2>2. ASSUME NEW c \in Creators, Submitted(c) PROVE poller'.pc # "expire"
        BY <1>t, <2>2 DEF Submitted, NeverGivesUp
    <2>3. CASE Crash \/ Restart
        BY <1>t, <2>3 DEF Crash, Restart, NeverGivesUp
    <2>4. CASE UNCHANGED poller
        BY <2>4 DEF NeverGivesUp
    <2>. QED
        BY <2>1, <2>2, <2>3, <2>4 DEF Next, CreateStep, CancelStep, WebhookStep, ApplyStep, CancelRead,
            CancelWrite, ProviderStep, WebhookRead, WebhookStatus, WebhookRecheck, WebhookFinalize,
            Lookup, Enqueue, Claim, Submit, SubmitFails, CreatorRecheck, CreatorFinalize, CreatorCatch,
            ApplyRequest, ApplyRead, ApplyRecord, ApplyUpload,
            ApplyEdit, ApplyUndo, ApplyMark, Quiescent, vars, callVars
<1>. QED BY <1>1, <1>2 DEF NeverGivesUp

\* Only the last step of an apply call writes its marker.
LEMMA NextUnmarked ==
    ASSUME SInv, Next, NothingFails
    PROVE  Unmarked'
<1>. USE DEF SInv, NothingFails
<1>0. IInv /\ None \notin Applies
    BY ConstantsAssumption DEF AInv, WInv, ConstantsAssumption
<1>t. /\ canceller \in [Cancels -> [pc : {"start", "write", "done", "lost"}, output : Outputs]]
      /\ row \in [status : Statuses, output : Outputs]
    BY <1>0 DEF IInv, TypeOK
<1>. SUFFICES ASSUME NEW a \in Applies, applier'[a].pc \notin {"done", "lost"}
              PROVE  /\ row'.output.applied # a
                     /\ \A k \in Cancels : canceller'[k].output.applied # a
    BY DEF Unmarked
<1>1. applier[a].pc \notin {"done", "lost"}
    <2>1. ASSUME NEW b \in Applies, ApplyStep(b) PROVE applier[a].pc \notin {"done", "lost"}
        BY <1>0, <2>1, ApplyEffect DEF Stage
    <2>2. CASE Crash
        BY <1>0, <2>2, CrashEffect
    <2>. QED BY <2>1, <2>2, OthersDoNotApply
<1>2. /\ row.output.applied # a
      /\ \A k \in Cancels : canceller[k].output.applied # a
    BY <1>1 DEF Unmarked
<1>3. \A k \in Cancels : canceller'[k].output \in {canceller[k].output, row.output}
    <2>1. ASSUME NEW l \in Cancels, CancelStep(l)
          PROVE  \A k \in Cancels : canceller'[k].output \in {canceller[k].output, row.output}
        BY <1>t, <2>1 DEF CancelStep, CancelRead, CancelWrite
    <2>2. CASE Crash
        BY <1>t, <2>2 DEF Crash, Lost
    <2>3. CASE UNCHANGED canceller
        BY <2>3
    <2>. QED
        BY <2>1, <2>2, <2>3 DEF Next, CreateStep, WebhookStep, PollRound, ApplyStep, ProviderStep,
            Lookup, Enqueue, Claim, Submit, SubmitFails, Submitted, CreatorRecheck,
            CreatorFinalize, CreatorCatch, WebhookRead, WebhookStatus, WebhookRecheck,
            WebhookFinalize, PollRead, PollStatus, PollReread, PollRecheck, PollFinalize,
            PollDeadline, PollExpire, ApplyRequest, ApplyRead, ApplyRecord, ApplyUpload,
            ApplyEdit, ApplyUndo, ApplyMark, Restart, Quiescent, vars, callVars
<1>4. row'.output.applied # a
    <2>1. ASSUME NEW b \in Applies, ApplyStep(b) PROVE row'.output.applied # a
        BY <1>0, <1>2, <2>1, ApplyEffect DEF Stage
    <2>2. ASSUME NEW c \in Creators, CreateStep(c) PROVE row'.output.applied # a
        BY <1>0, <1>2, <1>t, <2>2 DEF CreateStep, Lookup, Enqueue, StoreEnqueue, Claim, Submit, SubmitFails,
            Submitted, CreatorRecheck, CreatorFinalize, CreatorCatch, GuardedWrite, Write,
            ResultOutput, NoOutput
    <2>3. ASSUME NEW k \in Cancels, CancelStep(k) PROVE row'.output.applied # a
        BY <1>2, <2>3 DEF CancelStep, CancelRead, CancelWrite, Write
    <2>4. ASSUME NEW w \in Webhooks, WebhookStep(w) PROVE row'.output.applied # a
        BY <1>2, <2>4 DEF WebhookStep, WebhookRead, WebhookStatus, WebhookRecheck, WebhookFinalize,
            GuardedWrite, ResultOutput
    <2>5. CASE PollRound
        BY <1>2, <2>5 DEF PollRound, PollRead, PollStatus, PollReread, PollRecheck, PollFinalize,
            PollExpire, GuardedWrite, Write, ResultOutput
    <2>6. CASE UNCHANGED row
        BY <1>2, <2>6
    <2>. QED
        BY <2>1, <2>2, <2>3, <2>4, <2>5, <2>6 DEF Next, ProviderStep, PollDeadline, Crash, Restart,
            Quiescent, vars
<1>. QED BY <1>2, <1>3, <1>4

\* Nothing but the marker of an apply call overwrites a cancellation.
LEMMA CancelledStays ==
    ASSUME SInv, Next, NothingFails, row.status = "cancelled",
           row'.output.applied = row.output.applied
    PROVE  row'.status = "cancelled"
<1>. USE DEF SInv, NothingFails, Terminal
<1>0. IInv
    BY DEF AInv, WInv
<1>1. ASSUME NEW a \in Applies, ApplyStep(a) PROVE row'.status = "cancelled"
    BY <1>0, <1>1, ApplyEffect DEF Stage, Unmarked
<1>2. ASSUME NEW c \in Creators, CreateStep(c) PROVE row'.status = "cancelled"
    <2>1. creator[c].pc \notin {"submitted", "catch"}
        BY DEF UnknownBefore, StatusBefore, NeverGivesUp
    <2>. QED
        BY <1>2, <2>1 DEF CreateStep, Lookup, Enqueue, StoreEnqueue, Existing, Claim, Claimable, Submit,
            SubmitFails, Submitted, CreatorRecheck, CreatorFinalize, CreatorCatch, CreatorAt,
            GuardedWrite, GuardHolds
<1>3. ASSUME NEW k \in Cancels, CancelStep(k) PROVE row'.status = "cancelled"
    BY <1>3 DEF CancelStep, CancelRead, CancelWrite, Write
<1>4. ASSUME NEW w \in Webhooks, WebhookStep(w) PROVE row'.status = "cancelled"
    BY <1>4 DEF WebhookStep, WebhookRead, WebhookStatus, WebhookRecheck, WebhookFinalize, GuardedWrite,
        GuardHolds
<1>5. CASE PollRound
    BY <1>5 DEF PollRound, PollRead, PollStatus, PollReread, PollRecheck, PollFinalize, PollExpire,
        PollerAt, NeverGivesUp, GuardedWrite, GuardHolds
<1>. QED BY <1>1, <1>2, <1>3, <1>4, <1>5
    DEF Next, ProviderStep, PollDeadline, Crash, Restart, Quiescent, vars

\* A cancelled task stays cancelled: no answer of the provider, however it
\* arrives and whatever it races with, resurrects it.  The request must have one
\* createTask call, its calls must not fail (but for the hooks of an edit) and the
\* provider must meet its deadline: a second call reveals the task before its job is stored, and the
\* writes of a failure and of an expiry are unconditional.
THEOREM CancelledSticks ==
    ASSUME NothingFails
    PROVE  Spec => CancellationSticks
<1>1. Spec => []AInv
    BY ApplyInvariant DEF NothingFails
<1>2. Spec => []EInv
    BY WatchInvariant DEF NothingFails
<1>3. Init => UnknownBefore /\ NeverGivesUp /\ Unmarked
    <2>1. None \notin Applies
        BY ConstantsAssumption DEF ConstantsAssumption
    <2>. QED BY <2>1 DEF Init, UnknownBefore, NeverGivesUp, Unmarked, StatusBefore, NoOutput
<1>4. SInv /\ [Next]_vars => (UnknownBefore /\ NeverGivesUp /\ Unmarked)'
    <2>. SUFFICES ASSUME SInv, [Next]_vars PROVE (UnknownBefore /\ NeverGivesUp /\ Unmarked)'
        OBVIOUS
    <2>1. CASE Next
        BY <2>1, NextUnknown, NextNeverGivesUp, NextUnmarked
    <2>2. CASE UNCHANGED vars
        BY <2>2 DEF vars, SInv, UnknownBefore, NeverGivesUp, Unmarked
    <2>. QED BY <2>1, <2>2
<1>5. SInv /\ [Next]_vars =>
          [row.status = "cancelled" /\ row'.output.applied = row.output.applied
             => row'.status = "cancelled"]_row
    BY CancelledStays DEF vars
<1>6. SInv <=> AInv /\ EInv /\ (UnknownBefore /\ NeverGivesUp /\ Unmarked)
    BY DEF SInv
<1>7. Spec => []SInv
    BY <1>1, <1>2, <1>3, <1>4, <1>6, PTL DEF Spec
<1>. QED BY <1>5, <1>7, PTL DEF Spec, CancellationSticks
=============================================================================
