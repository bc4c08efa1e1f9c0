----------------------------- MODULE MediaBudget -----------------------------
(* The monthly budget of media generation (reserveWithinBudget and           *)
(* assertMonthlyBudget of MediaGenerationService): a task is enqueued as a   *)
(* reservation, the total is summed, and a task over the budget is failed.   *)
(* One user and one month; several instances share the task store, and each  *)
(* chains the reservations of its own process.                               *)
EXTENDS Naturals, Sequences

CONSTANTS
    Calls,      \* createTask calls
    Instances,  \* processes that share the task store
    Keys,       \* idempotency keys: one task each
    Home,       \* the instance a call runs in
    KeyOf,      \* the key of a call; calls with one key are retries
    Cost,       \* the estimated costs of the tasks of a set of keys, added up
    Budget      \* monthlyBudgetUsdPerUser

ASSUME BudgetAssumption ==
    /\ Home \in [Calls -> Instances]
    /\ KeyOf \in [Calls -> Keys]
    /\ Cost \in [SUBSET Keys -> Nat]
    /\ \A S, T \in SUBSET Keys : S \cap T = {} => Cost[S \cup T] = Cost[S] + Cost[T]
    /\ Budget \in Nat \ {0}

VARIABLES
    status,     \* the status of each key's task in the store
    call,       \* where each call stands
    chain       \* budgetChains: per instance, the reservations not settled yet

vars == <<status, call, chain>>

Statuses == {"absent", "pending", "running", "succeeded", "failed", "cancelled"}
CallPcs == {"start", "waiting", "check", "refuse", "claim", "submit", "returned", "refused", "threw"}

\* A sum that leaves out what is reserved but not yet running.
SpentOnRunning == Cost[{k \in Keys : status[k] \in {"running", "succeeded", "cancelled"}}]

\* assertMonthlyBudget: every task of the month counts unless it failed.
Spent == Cost[{k \in Keys : status[k] \notin {"absent", "failed"}}]

Goto(c, pc) == call' = [call EXCEPT ![c] = pc]

\* The reservation the process works on is the first of its chain.
Unchained(c) == TRUE
MyTurn(c) == Head(chain[Home[c]]) = c

Leave(c) == chain' = [chain EXCEPT ![Home[c]] = Tail(@)]

\* The tail of a rejected reservation: it releases the next one all the same.
LeaveOnSuccess(c) == UNCHANGED chain
LeaveRefused(c) == Leave(c)

\* What a refused reservation becomes: failed, not left as it is.
LeftPending == "pending"
RefusalStatus == "failed"

\* createTask returns a task found by its key; else it joins the chain.
Lookup(c) ==
    /\ call[c] = "start"
    /\ IF status[KeyOf[c]] # "absent"
         THEN Goto(c, "returned") /\ UNCHANGED chain
         ELSE Goto(c, "waiting") /\ chain' = [chain EXCEPT ![Home[c]] = Append(@, c)]
    /\ UNCHANGED status

\* enqueue inserts the reservation, or finds the row of a concurrent retry.
Enqueue(c) ==
    /\ call[c] = "waiting" /\ MyTurn(c)
    /\ status' = [status EXCEPT ![KeyOf[c]] = IF @ = "absent" THEN "pending" ELSE @]
    /\ Goto(c, "check")
    /\ UNCHANGED chain

\* The sum is read with the reservation in it.
Check(c) ==
    /\ call[c] = "check"
    /\ IF Spent > Budget
         THEN Goto(c, "refuse") /\ UNCHANGED chain
         ELSE Goto(c, "claim") /\ Leave(c)
    /\ UNCHANGED status

\* A reservation over the budget is failed, so that it stops counting.
Refuse(c) ==
    /\ call[c] = "refuse"
    /\ status' = [status EXCEPT ![KeyOf[c]] = RefusalStatus]
    /\ Goto(c, "refused")
    /\ LeaveRefused(c)

Claim(c) ==
    /\ call[c] = "claim"
    /\ IF status[KeyOf[c]] = "pending"
         THEN Goto(c, "submit") /\ status' = [status EXCEPT ![KeyOf[c]] = "running"]
         ELSE Goto(c, "returned") /\ UNCHANGED status
    /\ UNCHANGED chain

\* provider.create, and the unconditional write that follows it.
Submit(c) ==
    /\ call[c] = "submit"
    /\ \/ Goto(c, "returned") /\ status' = [status EXCEPT ![KeyOf[c]] = "running"]
       \/ Goto(c, "threw") /\ status' = [status EXCEPT ![KeyOf[c]] = "failed"]
    /\ UNCHANGED chain

\* The result or the user ends a submitted task (MediaTask has the details).
Finish(k) ==
    /\ status[k] = "running"
    /\ \A c \in Calls : KeyOf[c] = k => call[c] # "submit"
    /\ \E s \in {"succeeded", "failed", "cancelled"} : status' = [status EXCEPT ![k] = s]
    /\ UNCHANGED <<call, chain>>

Init ==
    /\ status = [k \in Keys |-> "absent"]
    /\ call = [c \in Calls |-> "start"]
    /\ chain = [i \in Instances |-> <<>>]

CallStep(c) == Lookup(c) \/ Enqueue(c) \/ Check(c) \/ Refuse(c) \/ Claim(c) \/ Submit(c)

\* No call is running: each has settled or waits for the chain, and every task
\* has ended.
Quiescent ==
    /\ \A c \in Calls : call[c] \in {"waiting", "returned", "refused", "threw"}
    /\ \A k \in Keys : status[k] # "running"
    /\ UNCHANGED vars

Next ==
    \/ \E c \in Calls : CallStep(c)
    \/ \E k \in Keys : Finish(k)
    \/ Quiescent

Spec == Init /\ [][Next]_vars

\* A request that was received is carried on.
FairSpec == Spec /\ \A c \in Calls : WF_vars(CallStep(c))

-----------------------------------------------------------------------------
TypeOK ==
    /\ status \in [Keys -> Statuses]
    /\ call \in [Calls -> CallPcs]
    /\ chain \in [Instances -> Seq(Calls)]

\* The tasks whose reservation is still being summed or refused.
UnderCheck == {KeyOf[c] : c \in {d \in Calls : call[d] \in {"check", "refuse"}}}

\* The tasks that were let through, and have not failed since.
Admitted == {k \in Keys : status[k] \notin {"absent", "failed"}} \ UnderCheck

\* The tasks a retry was refused for after the first call was let through: the
\* refusal fails the row, and the submission of the first call revives it.
Disputed ==
    {KeyOf[c] : c \in {d \in Calls : call[d] = "refused"
        /\ \E e \in Calls : KeyOf[e] = KeyOf[d] /\ call[e] \in {"claim", "submit", "returned", "threw"}}}

\* The tasks let through never cost more than the budget, however the
\* reservations of the instances interleave: an overspend is bounded by the tasks
\* whose retry raced with another instance.
InBudget == Cost[Admitted \ Disputed] <= Budget

\* The tasks other instances than c's are checking: c cannot know their outcome.
CheckedElsewhere(c) ==
    {KeyOf[d] : d \in {e \in Calls : Home[e] # Home[c] /\ call[e] \in {"check", "refuse"}}}

\* A task is refused only when it really does not fit beside the tasks let
\* through and those another instance has reserved: contenders in one process
\* do not refuse each other.
NoOverRejection ==
    [][\A c \in Calls : call[c] = "check" /\ call'[c] = "refuse"
            => Cost[Admitted \cup CheckedElsewhere(c) \cup {KeyOf[c]}] > Budget]_vars

\* A refused task has failed: its cost does not count for the rest of the month,
\* unless the refused call was the retry of one that was let through.
RefusedStopsCounting ==
    \A c \in Calls : call[c] = "refused" => status[KeyOf[c]] = "failed" \/ KeyOf[c] \in Disputed

\* Every reservation gets its turn, those behind a refused one too.
ReservationsSettle ==
    \A c \in Calls : call[c] = "waiting" ~> call[c] \in {"returned", "refused", "threw"}
=============================================================================
