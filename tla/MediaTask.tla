------------------------------ MODULE MediaTask ------------------------------
(* The life of one media generation task of @modern-admin/nest               *)
(* (MediaGenerationService): the row of the task store, the provider's job,  *)
(* the record the result is applied to, and every call that works on them.   *)
(*                                                                           *)
(* The calls run in one process and interleave at each await.  All createTask*)
(* calls of the model carry the same user and requestId, so they address one *)
(* row; tasks of different requests share nothing but the monthly budget,    *)
(* which is not configured here (reserveWithinBudget is then its enqueue).   *)
EXTENDS Naturals, Sequences, FiniteSets

CONSTANTS
    Creators,    \* createTask calls with one requestId; each may submit one job
    Cancels,     \* cancelTask calls
    Webhooks,    \* webhook deliveries by the provider, duplicates included
    Applies,     \* applyResult calls; each uploads under a key of its own
    None,        \* no job, no key
    Results,     \* the answers the provider gives about a job
    Polling,     \* no webhookBaseUrl now: the service polls (TRUE) or waits (FALSE)
    MayExpire,   \* the provider may outlast maxPollMs
    Faults,      \* which calls may fail: those to the provider, to the upload
                 \* storage, to the event log and the realtime bus, and the hooks
                 \* that an edit runs after it has written
    IsArray,     \* the target property holds a list of files
    MaxCrashes   \* bound on the crashes of the process

\* What the provider reports of a job: still working, finished with files,
\* finished without any, failed or expired, finished with over maxFiles files.
AllResults == {"processing", "finished", "empty", "failed", "overfull"}

ASSUME ConstantsAssumption ==
    /\ None \notin Creators \cup Applies
    /\ Results \subseteq AllResults
    /\ Polling \in BOOLEAN /\ MayExpire \in BOOLEAN
    /\ IsArray \in BOOLEAN
    /\ Faults \subseteq {"provider", "storage", "events", "hooks"}
    /\ MaxCrashes \in Nat

VARIABLES
    row,         \* the task store's row
    jobs,        \* the provider's side: the state of the job each call submitted
    creator, canceller, webhook, poller, applier,   \* where each call stands
    chain,       \* applyChains: the apply calls not settled yet, in order
    field,       \* the target property of the record: the upload keys it holds
    uploads,     \* the upload keys the storage holds
    torn,        \* history: the uploads whose edit threw after it had written
    known,       \* a client has learnt the task id
    up,          \* the process is running
    crashes

vars == <<row, jobs, creator, canceller, webhook, poller, applier, chain, field,
          uploads, torn, known, up, crashes>>

callVars == <<creator, canceller, webhook, poller, applier, chain>>
targetVars == <<field, uploads, torn>>
hostVars == <<up, crashes>>

Statuses == {"absent", "pending", "running", "succeeded", "failed", "cancelled"}
Terminal == {"succeeded", "failed", "cancelled"}

\* AiTask.output: the provider's job id, whether it lists files, the applied key.
Outputs == [job : Creators \cup {None}, files : BOOLEAN, applied : Applies \cup {None}]
NoOutput == [job |-> None, files |-> FALSE, applied |-> None]

\* The values of the target property: the upload keys a record refers to.
FieldValues == SUBSET Applies

\* resultOutput merged over the output the caller read.
ResultOutput(output, job, r) ==
    [job |-> job, files |-> r \in {"finished", "overfull"}, applied |-> output.applied]

\* Two wrong ways to derive it: storing the provider's word, and taking any
\* finished job for a success.
ProviderStatus(r) == r
FinishedSucceeds(r) ==
    CASE r = "processing" -> "running"
      [] r \in {"finished", "empty"} -> "succeeded"
      [] OTHER -> "failed"

\* The status applyProviderResult derives from a provider result.
StatusOf(r) ==
    CASE r = "processing" -> "running"
      [] r = "finished"   -> "succeeded"
      [] OTHER            -> "failed"

Existing == row.status # "absent"
IsTerminal == row.status \in Terminal

-----------------------------------------------------------------------------
(* The task store: every method is one atomic statement.                     *)

\* IAiTaskStore.enqueue: the row of the same idempotencyKey, or a new one.
StoreEnqueue ==
    row' = IF Existing THEN row ELSE [status |-> "pending", output |-> NoOutput]

\* A claim that does not compare the status: every call may go on.
ClaimsAnyRow == Existing

\* IAiTaskStore.claim succeeds only on a pending row.
Claimable == row.status = "pending"

\* A store that drops expectedStatus from the WHERE clause.
GuardDropped == Existing

\* updateStatus with expectedStatus: no effect unless the row is still active.
GuardHolds == row.status \in {"pending", "running"}

GuardedWrite(status, output) ==
    row' = IF GuardHolds THEN [status |-> status, output |-> output] ELSE row

\* updateStatus without expectedStatus: the last writer wins.
Write(status, output) == row' = [status |-> status, output |-> output]

-----------------------------------------------------------------------------
(* createTask.                                                                *)

CreatorStep(c, pc, result) == creator' = [creator EXCEPT ![c] = [pc |-> pc, result |-> result]]

CreatorMove(c, pc) == CreatorStep(c, pc, creator[c].result)

CreatorAt(c, pc) == up /\ creator[c].pc = pc

\* getByIdempotencyKey: a task submitted before is returned as it is.
Lookup(c) ==
    /\ CreatorAt(c, "start")
    /\ CreatorMove(c, IF Existing THEN "returned" ELSE "enqueue")
    /\ known' = (known \/ Existing)
    /\ UNCHANGED <<row, jobs, canceller, webhook, poller, applier, chain, targetVars, hostVars>>

Enqueue(c) ==
    /\ CreatorAt(c, "enqueue")
    /\ StoreEnqueue
    /\ CreatorMove(c, "claim")
    /\ UNCHANGED <<jobs, canceller, webhook, poller, applier, chain, targetVars, known, hostVars>>

\* The one call that turns the row to running goes on; the others return it.
Claim(c) ==
    /\ CreatorAt(c, "claim")
    /\ row' = IF Claimable THEN [row EXCEPT !.status = "running"] ELSE row
    /\ CreatorMove(c, IF Claimable THEN "submit" ELSE "returned")
    /\ known' = (known \/ ~Claimable)
    /\ UNCHANGED <<jobs, canceller, webhook, poller, applier, chain, targetVars, hostVars>>

\* provider.create answers with any state of the new job.
Submit(c) ==
    /\ CreatorAt(c, "submit")
    /\ \E r \in Results :
        /\ jobs' = [jobs EXCEPT ![c] = r]
        /\ CreatorStep(c, "submitted", r)
    /\ UNCHANGED <<row, canceller, webhook, poller, applier, chain, targetVars, known, hostVars>>

\* provider.create throws, before or after the provider accepted the job.
SubmitFails(c) ==
    /\ "provider" \in Faults
    /\ CreatorAt(c, "submit")
    /\ \E r \in {"none", "processing"} : jobs' = [jobs EXCEPT ![c] = r]
    /\ CreatorMove(c, "catch")
    /\ UNCHANGED <<row, canceller, webhook, poller, applier, chain, targetVars, known, hostVars>>

\* The job is stored with an unconditional `running`, which replaces the whole
\* output; a result that is final already goes through applyProviderResult.
\* The event or the publication that follows may throw.
Submitted(c) ==
    /\ CreatorAt(c, "submitted")
    /\ LET r == creator[c].result IN
        /\ Write("running", ResultOutput(NoOutput, c, r))
        /\ \/ /\ CreatorMove(c, CASE r = "processing" -> "returned"
                                  [] r = "overfull"   -> "catch"
                                  [] OTHER            -> "recheck")
              /\ known' = (known \/ r = "processing")
              /\ poller' = IF r = "processing" /\ Polling
                             THEN [poller EXCEPT !.pc = "poll", !.job = c] ELSE poller
           \/ /\ "events" \in Faults
              /\ CreatorMove(c, "catch")
              /\ UNCHANGED <<known, poller>>
    /\ UNCHANGED <<jobs, canceller, webhook, applier, chain, targetVars, hostVars>>

\* applyProviderResult re-reads the row and stops at a terminal one.
CreatorRecheck(c) ==
    /\ CreatorAt(c, "recheck")
    /\ CreatorMove(c, IF IsTerminal THEN "returned" ELSE "finalize")
    /\ known' = (known \/ IsTerminal)
    /\ UNCHANGED <<row, jobs, canceller, webhook, poller, applier, chain, targetVars, hostVars>>

\* The write keeps `applied` of the output it re-read, and an active row has none.
CreatorFinalize(c) ==
    /\ CreatorAt(c, "finalize")
    /\ LET r == creator[c].result IN GuardedWrite(StatusOf(r), ResultOutput(row.output, c, r))
    /\ \/ CreatorMove(c, "returned") /\ known' = TRUE
       \/ "events" \in Faults /\ CreatorMove(c, "catch") /\ UNCHANGED known
    /\ UNCHANGED <<jobs, canceller, webhook, poller, applier, chain, targetVars, hostVars>>

\* The catch block marks the row failed, unconditionally, and publishes it.
CreatorCatch(c) ==
    /\ CreatorAt(c, "catch")
    /\ Write("failed", row.output)
    /\ CreatorMove(c, "threw")
    /\ known' = TRUE
    /\ UNCHANGED <<jobs, canceller, webhook, poller, applier, chain, targetVars, hostVars>>

-----------------------------------------------------------------------------
(* cancelTask.                                                                *)

CancellerAt(k, pc) == up /\ canceller[k].pc = pc

\* A terminal task is returned unchanged; else its output is kept for the write.
CancelRead(k) ==
    /\ CancellerAt(k, "start") /\ known
    /\ canceller' = [canceller EXCEPT ![k] =
           [pc |-> IF IsTerminal THEN "done" ELSE "write", output |-> row.output]]
    /\ UNCHANGED <<row, jobs, creator, webhook, poller, applier, chain, targetVars, known, hostVars>>

CancelWrite(k) ==
    /\ CancellerAt(k, "write")
    /\ Write("cancelled", canceller[k].output)
    /\ canceller' = [canceller EXCEPT ![k].pc = "done"]
    /\ UNCHANGED <<jobs, creator, webhook, poller, applier, chain, targetVars, known, hostVars>>

-----------------------------------------------------------------------------
(* The provider, and processWebhook.                                          *)

\* The provider finishes a job in its own time.
ProviderStep(j) ==
    /\ jobs[j] = "processing"
    /\ \E r \in Results \ {"processing"} : jobs' = [jobs EXCEPT ![j] = r]
    /\ UNCHANGED <<row, callVars, targetVars, known, hostVars>>

WebhookAt(w, pc) == up /\ webhook[w].pc = pc

WebhookMove(w, pc) == webhook' = [webhook EXCEPT ![w].pc = pc]

\* A delivery for a job other than the stored one is refused, one for a
\* terminal task is acknowledged without asking the provider.
WebhookRead(w) ==
    /\ WebhookAt(w, "start")
    /\ \E j \in Creators :
        /\ jobs[j] # "none"
        /\ webhook' = [webhook EXCEPT ![w] =
               [pc |-> IF row.output.job = j /\ ~IsTerminal THEN "status" ELSE "done",
                job |-> j, result |-> "processing"]]
    /\ UNCHANGED <<row, jobs, creator, canceller, poller, applier, chain, targetVars, known, hostVars>>

\* getStatus; over maxFiles files applyProviderResult throws before it reads.
WebhookStatus(w) ==
    /\ WebhookAt(w, "status")
    /\ LET r == jobs[webhook[w].job] IN
        \/ webhook' = [webhook EXCEPT ![w].pc = IF r = "overfull" THEN "done" ELSE "recheck",
                                      ![w].result = r]
        \/ "provider" \in Faults /\ WebhookMove(w, "done")
    /\ UNCHANGED <<row, jobs, creator, canceller, poller, applier, chain, targetVars, known, hostVars>>

WebhookRecheck(w) ==
    /\ WebhookAt(w, "recheck")
    /\ WebhookMove(w, IF IsTerminal THEN "done" ELSE "finalize")
    /\ UNCHANGED <<row, jobs, creator, canceller, poller, applier, chain, targetVars, known, hostVars>>

WebhookFinalize(w) ==
    /\ WebhookAt(w, "finalize")
    /\ LET wh == webhook[w] IN
        /\ GuardedWrite(StatusOf(wh.result), ResultOutput(row.output, wh.job, wh.result))
        /\ known' = (known \/ row'.status = StatusOf(wh.result))
    /\ WebhookMove(w, "done")
    /\ UNCHANGED <<jobs, creator, canceller, poller, applier, chain, targetVars, hostVars>>

-----------------------------------------------------------------------------
(* pollUntilFinished: one loop per task and process.                          *)

PollerAt(pc) == up /\ poller.pc = pc

PollerMove(pc) == poller' = [poller EXCEPT !.pc = pc]

\* Each round reads the row after the delay and stops at a terminal one.
PollRead ==
    /\ PollerAt("poll") \/ PollerAt("again")
    /\ PollerMove(IF IsTerminal THEN "idle" ELSE "status")
    /\ UNCHANGED <<row, jobs, creator, canceller, webhook, applier, chain, targetVars, known, hostVars>>

\* A getStatus that throws ends the loop: schedulePolling only logs it.
PollStatus ==
    /\ PollerAt("status")
    /\ LET r == jobs[poller.job] IN
        \/ poller' = [poller EXCEPT !.pc = IF r = "processing" THEN "again" ELSE "reread",
                                    !.result = r]
        \/ "provider" \in Faults /\ PollerMove("idle")
    /\ UNCHANGED <<row, jobs, creator, canceller, webhook, applier, chain, targetVars, known, hostVars>>

PollReread ==
    /\ PollerAt("reread")
    /\ PollerMove(IF IsTerminal \/ poller.result = "overfull" THEN "idle" ELSE "recheck")
    /\ UNCHANGED <<row, jobs, creator, canceller, webhook, applier, chain, targetVars, known, hostVars>>

PollRecheck ==
    /\ PollerAt("recheck")
    /\ PollerMove(IF IsTerminal THEN "idle" ELSE "finalize")
    /\ UNCHANGED <<row, jobs, creator, canceller, webhook, applier, chain, targetVars, known, hostVars>>

PollFinalize ==
    /\ PollerAt("finalize")
    /\ GuardedWrite(StatusOf(poller.result), ResultOutput(row.output, poller.job, poller.result))
    /\ known' = (known \/ row'.status = StatusOf(poller.result))
    /\ PollerMove("idle")
    /\ UNCHANGED <<jobs, creator, canceller, webhook, applier, chain, targetVars, hostVars>>

\* The deadline has passed: the loop ends with one more read ...
PollDeadline ==
    /\ MayExpire
    /\ PollerAt("again")
    /\ PollerMove(IF IsTerminal THEN "idle" ELSE "expire")
    /\ UNCHANGED <<row, jobs, creator, canceller, webhook, applier, chain, targetVars, known, hostVars>>

\* ... and an unconditional failure.
PollExpire ==
    /\ PollerAt("expire")
    /\ Write("failed", row.output)
    /\ PollerMove("idle")
    /\ known' = TRUE
    /\ UNCHANGED <<jobs, creator, canceller, webhook, applier, chain, targetVars, hostVars>>

-----------------------------------------------------------------------------
(* applyResult: the calls of one task run one after the other (applyChains).  *)

ApplierAt(a, pc) == up /\ applier[a].pc = pc

ApplierMove(a, pc) == applier' = [applier EXCEPT ![a].pc = pc]

\* A chain kept as a lock that nobody releases: a call that settles leaves the
\* ones behind it waiting.
SettleAlone(a) == ApplierMove(a, "done") /\ UNCHANGED chain

\* The call at the head of the chain settles and releases the next one.
Settle(a) ==
    /\ ApplierMove(a, "done")
    /\ chain' = Tail(chain)

\* An apply call that does not wait for the one before it.
Unserialized(a) == chain # <<>>

\* A call may run once every call before it has settled.
MyTurn(a) == chain # <<>> /\ Head(chain) = a

ApplyRequest(a) ==
    /\ ApplierAt(a, "start") /\ known
    /\ chain' = Append(chain, a)
    /\ ApplierMove(a, "queued")
    /\ UNCHANGED <<row, jobs, creator, canceller, webhook, poller, targetVars, known, hostVars>>

\* applyResultLocked goes on only with a succeeded task not applied before that
\* lists the file asked for.
ApplyRead(a) ==
    /\ ApplierAt(a, "queued") /\ MyTurn(a)
    /\ LET ready == /\ row.status = "succeeded"
                    /\ row.output.applied = None
                    /\ row.output.files
       IN IF ready
            THEN /\ applier' = [applier EXCEPT ![a].pc = "record", ![a].output = row.output]
                 /\ UNCHANGED chain
            ELSE Settle(a)
    /\ UNCHANGED <<row, jobs, creator, canceller, webhook, poller, targetVars, known, hostVars>>

\* resource.findOne: a single-file property that holds a file is replaced only
\* on request; any other check may refuse as well.
ApplyRecord(a) ==
    /\ ApplierAt(a, "record")
    /\ \/ /\ applier' = [applier EXCEPT ![a].pc = "upload", ![a].value = field]
          /\ UNCHANGED chain
       \/ Settle(a)
    /\ UNCHANGED <<row, jobs, creator, canceller, webhook, poller, targetVars, known, hostVars>>

ApplyUpload(a) ==
    /\ ApplierAt(a, "upload")
    /\ \/ /\ uploads' = uploads \cup {a}
          /\ ApplierMove(a, "edit")
          /\ UNCHANGED chain
       \/ "storage" \in Faults /\ Settle(a) /\ UNCHANGED uploads
    /\ UNCHANGED <<row, jobs, creator, canceller, webhook, poller, field, torn, known, hostVars>>

\* The value the edit writes.
Edited(a) == IF IsArray THEN applier[a].value \cup {a} ELSE {a}

\* The edit action stores the key, and uploadFeature deletes what it replaces as
\* far as the hook gets.  It may throw before it writes, and after: a hook may,
\* or what invoke does with the answer.
ApplyEdit(a) ==
    /\ ApplierAt(a, "edit")
    /\ \/ /\ field' = Edited(a)
          /\ \E gone \in SUBSET (field \ Edited(a)) : uploads' = uploads \ gone
          /\ \/ ApplierMove(a, "mark") /\ UNCHANGED torn
             \/ "hooks" \in Faults /\ ApplierMove(a, "undo") /\ torn' = torn \cup {a}
       \/ ApplierMove(a, "undo") /\ UNCHANGED targetVars
    /\ UNCHANGED <<row, jobs, creator, canceller, webhook, poller, chain, known, hostVars>>

\* A failed edit that leaves its upload behind.
UploadKept(a) == uploads

\* upload.provider.delete(key).
WithoutUpload(a) == uploads \ {a}

\* The upload of a failed edit is deleted, also if the edit has written; a delete
\* that fails is ignored.
ApplyUndo(a) ==
    /\ ApplierAt(a, "undo")
    /\ \/ uploads' = WithoutUpload(a)
       \/ "storage" \in Faults /\ UNCHANGED uploads
    /\ Settle(a)
    /\ UNCHANGED <<row, jobs, creator, canceller, webhook, poller, field, torn, known, hostVars>>

\* The marker is written unconditionally over the output read at the start,
\* unless getUrl throws: the edit then stays without its marker.
ApplyMark(a) ==
    /\ ApplierAt(a, "mark")
    /\ \/ Write("succeeded", [applier[a].output EXCEPT !.applied = a])
       \/ "storage" \in Faults /\ UNCHANGED row
    /\ Settle(a)
    /\ UNCHANGED <<jobs, creator, canceller, webhook, poller, targetVars, known, hostVars>>

-----------------------------------------------------------------------------
(* Crash of the process, and onApplicationBootstrap.                          *)

\* Calls that had begun are lost with the process, and so is the poll loop.
Lost(call, finished) ==
    [x \in DOMAIN call |->
        IF call[x].pc \in finished \cup {"start"} THEN call[x] ELSE [call[x] EXCEPT !.pc = "lost"]]

Crash ==
    /\ up /\ crashes < MaxCrashes
    /\ up' = FALSE
    /\ crashes' = crashes + 1
    /\ creator' = Lost(creator, {"returned", "threw"})
    /\ canceller' = Lost(canceller, {"done"})
    /\ webhook' = Lost(webhook, {"done"})
    /\ applier' = Lost(applier, {"done"})
    /\ poller' = [poller EXCEPT !.pc = "idle"]
    /\ chain' = <<>>
    /\ UNCHANGED <<row, jobs, targetVars, known>>

\* A bootstrap that only looks at tasks whose call was lost before the claim.
ResumesPendingOnly == Polling /\ row.status = "pending" /\ row.output.job # None

\* Polling is taken up again for an active row that carries its job id.
Resumable == Polling /\ GuardHolds /\ row.output.job # None

Restart ==
    /\ ~up
    /\ up' = TRUE
    /\ poller' = IF Resumable
                   THEN [pc |-> "poll", job |-> row.output.job, result |-> "processing"]
                   ELSE poller
    /\ UNCHANGED <<row, jobs, creator, canceller, webhook, applier, chain, targetVars, known, crashes>>

-----------------------------------------------------------------------------
Init ==
    /\ row = [status |-> "absent", output |-> NoOutput]
    /\ jobs = [c \in Creators |-> "none"]
    /\ creator = [c \in Creators |-> [pc |-> "start", result |-> "processing"]]
    /\ canceller = [k \in Cancels |-> [pc |-> "start", output |-> NoOutput]]
    /\ webhook = [w \in Webhooks |-> [pc |-> "start", job |-> None, result |-> "processing"]]
    /\ poller = [pc |-> "idle", job |-> None, result |-> "processing"]
    /\ applier = [a \in Applies |-> [pc |-> "start", output |-> NoOutput, value |-> {}]]
    /\ chain = <<>>
    /\ field = {}
    /\ uploads = {}
    /\ torn = {}
    /\ known = FALSE
    /\ up = TRUE
    /\ crashes = 0

CreateStep(c) ==
    \/ Lookup(c) \/ Enqueue(c) \/ Claim(c) \/ Submit(c) \/ SubmitFails(c)
    \/ Submitted(c) \/ CreatorRecheck(c) \/ CreatorFinalize(c) \/ CreatorCatch(c)

CancelStep(k) == CancelRead(k) \/ CancelWrite(k)

WebhookStep(w) ==
    WebhookRead(w) \/ WebhookStatus(w) \/ WebhookRecheck(w) \/ WebhookFinalize(w)

PollRound == PollRead \/ PollStatus \/ PollReread \/ PollRecheck \/ PollFinalize \/ PollExpire

ApplyStep(a) ==
    \/ ApplyRequest(a) \/ ApplyRead(a) \/ ApplyRecord(a) \/ ApplyUpload(a)
    \/ ApplyEdit(a) \/ ApplyUndo(a) \/ ApplyMark(a)

\* Every call has settled or waits for its client or the chain, and no loop is
\* armed.
InFlight ==
    \/ \E c \in Creators : creator[c].pc \notin {"returned", "threw", "lost"}
    \/ \E k \in Cancels : canceller[k].pc = "write"
    \/ \E w \in Webhooks : webhook[w].pc \notin {"start", "done", "lost"}
    \/ \E a \in Applies : applier[a].pc \notin {"start", "queued", "done", "lost"}
    \/ poller.pc # "idle"
    \/ ~up

Quiescent == ~InFlight /\ UNCHANGED vars

Next ==
    \/ \E c \in Creators : CreateStep(c)
    \/ \E k \in Cancels : CancelStep(k)
    \/ \E j \in Creators : ProviderStep(j)
    \/ \E w \in Webhooks : WebhookStep(w)
    \/ PollRound \/ PollDeadline
    \/ \E a \in Applies : ApplyStep(a)
    \/ Crash \/ Restart \/ Quiescent

Spec == Init /\ [][Next]_vars

\* Promises are settled and timers fire while the process runs; the provider
\* finishes its jobs, time passes maxPollMs, a supervisor restarts the process.
Fairness ==
    /\ \A c \in Creators : WF_vars(CreateStep(c)) /\ WF_vars(ProviderStep(c))
    /\ \A k \in Cancels : WF_vars(CancelWrite(k))
    /\ \A w \in Webhooks : WF_vars(WebhookStatus(w) \/ WebhookRecheck(w) \/ WebhookFinalize(w))
    /\ WF_vars(PollRound) /\ SF_vars(PollDeadline)
    /\ \A a \in Applies : WF_vars(ApplyStep(a) /\ applier[a].pc # "start")
    /\ WF_vars(Restart)

FairSpec == Spec /\ Fairness

-----------------------------------------------------------------------------
(* Properties.                                                               *)

CreatorPcs == {"start", "enqueue", "claim", "submit", "submitted", "recheck",
               "finalize", "catch", "returned", "threw", "lost"}
WebhookPcs == {"start", "status", "recheck", "finalize", "done", "lost"}
PollerPcs == {"idle", "poll", "status", "again", "reread", "recheck", "finalize", "expire"}
ApplierPcs == {"start", "queued", "record", "upload", "edit", "undo", "mark", "done", "lost"}

\* The row holds one of the store's statuses and an output of its shape, and
\* every call stands at one of its awaits.
TypeOK ==
    /\ row \in [status : Statuses, output : Outputs]
    /\ jobs \in [Creators -> AllResults \cup {"none"}]
    /\ creator \in [Creators -> [pc : CreatorPcs, result : AllResults]]
    /\ canceller \in [Cancels -> [pc : {"start", "write", "done", "lost"}, output : Outputs]]
    /\ webhook \in [Webhooks -> [pc : WebhookPcs, job : Creators \cup {None}, result : AllResults]]
    /\ poller \in [pc : PollerPcs, job : Creators \cup {None}, result : AllResults]
    /\ applier \in [Applies -> [pc : ApplierPcs, output : Outputs, value : FieldValues]]
    /\ chain \in Seq(Applies)
    /\ field \in FieldValues
    /\ uploads \in SUBSET Applies
    /\ torn \in SUBSET Applies
    /\ known \in BOOLEAN
    /\ up \in BOOLEAN
    /\ crashes \in Nat

\* However many times a request is sent, and wherever a crash falls, at most
\* one job is submitted to the provider and paid for (enqueue is idempotent,
\* claim has one winner, and no later status is `pending` again).
OneProviderJob ==
    \A c, d \in Creators : jobs[c] # "none" /\ jobs[d] # "none" => c = d

\* Nothing but a result that lists files makes a task succeeded: no stale output
\* written by another call is paired with that status.
SucceededHasFiles == row.status = "succeeded" => row.output.files

\* A cancelled task stays cancelled: no late answer of the provider, however
\* it arrives, resurrects it.  (A cancellation that was written over a success
\* is lost to the marker of an apply call that had seen the success.)
CancellationSticks ==
    [][row.status = "cancelled" /\ row'.output.applied = row.output.applied
       => row'.status = "cancelled"]_row

\* An active task whose job is stored is polled by this process, or the call
\* that submitted it is about to finish it.
ActiveIsWatched ==
    up /\ Polling /\ row.status = "running" /\ row.output.job # None =>
        \/ poller.pc # "idle"
        \/ \E c \in Creators : creator[c].pc \in {"recheck", "finalize"}

\* A submitted task comes to an end, crashes and restarts notwithstanding.
SubmittedTasksFinish ==
    row.status = "running" /\ row.output.job # None ~> row.status \in Terminal

\* Overlapping apply calls of one task leave one upload at most: the second
\* finds the first one's marker or the first one's upload deleted.  A crash
\* costs one more at most.
AppliedOnce == Cardinality(uploads) <= 1 + crashes

\* A stored upload is in the record, or its call still has to write or delete
\* it, or a crash took that call; and the record names no upload that is gone,
\* but for one whose edit threw after it had written: its call deletes the file
\* although the record names it.
UploadsAccounted ==
    /\ Cardinality({a \in uploads \ field : applier[a].pc \notin {"edit", "undo"}}) <= crashes
    /\ field \subseteq uploads \cup torn

\* Every apply call gets its turn and settles, whatever the calls before it did.
AppliesSettle ==
    \A a \in Applies : applier[a].pc = "queued" ~> applier[a].pc \in {"done", "lost"}
=============================================================================
