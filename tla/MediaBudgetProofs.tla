-------------------------- MODULE MediaBudgetProofs --------------------------
(* What holds of MediaBudget for any number of calls, retries, instances and   *)
(* tasks, whatever they cost. The proof of InBudget turns on one fact: the set *)
(* it sums grows at one step only, Check, and what it becomes there has just   *)
(* been summed (Spent). Every other step leaves it alone or shrinks it, a      *)
(* submission that revives a failed row included, because that row is          *)
(* Disputed.                                                                   *)
EXTENDS MediaBudget, TLAPS

-----------------------------------------------------------------------------
(* Types and the chains.                                                      *)

InChain(c) == \E n \in 1..Len(chain[Home[c]]) : chain[Home[c]][n] = c

\* A call stands in the chain of its process until its reservation settles, and
\* only the first of a chain is being summed or refused.
ChainOrder ==
    \A c \in Calls :
        /\ call[c] \in {"waiting", "check", "refuse"} => InChain(c)
        /\ call[c] \in {"check", "refuse"} => chain[Home[c]] # <<>> /\ Head(chain[Home[c]]) = c

Base == TypeOK /\ ChainOrder

LEMMA TypesInit == BudgetAssumption /\ Init => Base
  BY DEF Init, Base, TypeOK, ChainOrder, Statuses, CallPcs

LEMMA LookupBase == ASSUME BudgetAssumption, Base, NEW c \in Calls, Lookup(c) PROVE Base'
<1> DEFINE h == Home[c]
<1>0. h \in Instances /\ KeyOf[c] \in Keys /\ chain[h] \in Seq(Calls)
  BY DEF BudgetAssumption, Base, TypeOK
<1>1. CASE Goto(c, "returned") /\ UNCHANGED <<chain, status>>
  <2>1. TypeOK'
    BY <1>1 DEF Base, Goto, TypeOK, CallPcs
  <2>2. ChainOrder'
    BY <1>1 DEF Base, Goto, TypeOK, ChainOrder, InChain
  <2> QED BY <2>1, <2>2 DEF Base
<1>2. CASE Goto(c, "waiting") /\ chain' = [chain EXCEPT ![h] = Append(@, c)] /\ UNCHANGED status
  <2>1. Append(chain[h], c) \in Seq(Calls)
    BY <1>0
  <2>2. TypeOK'
    BY <1>0, <1>2, <2>1 DEF Base, Goto, TypeOK, CallPcs
  <2>3. chain'[h] = Append(chain[h], c) /\ \A i \in Instances : i # h => chain'[i] = chain[i]
    BY <1>0, <1>2 DEF Base, TypeOK
  <2>4. Len(chain'[h]) = Len(chain[h]) + 1 /\ chain'[h][Len(chain[h]) + 1] = c
        /\ \A n \in 1..Len(chain[h]) : chain'[h][n] = chain[h][n]
    BY <1>0, <2>3
  <2>5. ASSUME NEW d \in Calls, InChain(d) PROVE InChain(d)'
    <3>1. CASE Home[d] = h
      BY <1>0, <2>4, <2>5, <3>1 DEF InChain
    <3>2. CASE Home[d] # h
      <4>1. Home[d] \in Instances
        BY DEF BudgetAssumption
      <4> QED BY <2>3, <2>5, <3>2, <4>1 DEF InChain
    <3> QED BY <3>1, <3>2
  <2>6. InChain(c)'
    BY <1>0, <2>4 DEF InChain
  <2>7. ASSUME NEW d \in Calls, chain[Home[d]] # <<>>
        PROVE  chain'[Home[d]] # <<>> /\ Head(chain'[Home[d]]) = Head(chain[Home[d]])
    <3>1. CASE Home[d] = h
      <4>1. chain[h] # <<>> /\ 1 \in 1..Len(chain[h])
        BY <1>0, <2>7, <3>1
      <4> QED BY <1>0, <2>1, <2>3, <2>4, <3>1, <4>1
    <3>2. CASE Home[d] # h
      <4>1. Home[d] \in Instances
        BY DEF BudgetAssumption
      <4> QED BY <2>3, <2>7, <3>2, <4>1
    <3> QED BY <3>1, <3>2
  <2>8. ChainOrder'
    <3>1. call'[c] = "waiting" /\ \A d \in Calls : d # c => call'[d] = call[d]
      BY <1>2 DEF Base, TypeOK, Goto
    <3> QED BY <2>5, <2>6, <2>7, <3>1 DEF Base, ChainOrder
  <2> QED BY <2>2, <2>8 DEF Base
<1> QED BY <1>1, <1>2 DEF Lookup

LEMMA EnqueueBase == ASSUME BudgetAssumption, Base, NEW c \in Calls, Enqueue(c) PROVE Base'
<1>0. Home[c] \in Instances /\ KeyOf[c] \in Keys /\ chain[Home[c]] \in Seq(Calls)
  BY DEF BudgetAssumption, Base, TypeOK
<1>1. TypeOK'
  BY <1>0 DEF Base, Enqueue, Goto, TypeOK, Statuses, CallPcs
<1>2. InChain(c)
  BY DEF Base, ChainOrder, Enqueue
<1>3. chain[Home[c]] # <<>> /\ Head(chain[Home[c]]) = c
  BY <1>0, <1>2 DEF InChain, Enqueue, MyTurn
<1>4. chain' = chain /\ call'[c] = "check" /\ \A d \in Calls : d # c => call'[d] = call[d]
  BY DEF Base, TypeOK, Goto, Enqueue
<1>5. \A d \in Calls : InChain(d) => InChain(d)'
  BY <1>4 DEF InChain
<1>6. ChainOrder'
  BY <1>2, <1>3, <1>4, <1>5 DEF Base, ChainOrder
<1> QED BY <1>1, <1>6 DEF Base

\* Settling a reservation hands its chain to the next call.
LEMMA LeaveBase ==
    ASSUME BudgetAssumption, Base, NEW c \in Calls, call[c] \in {"check", "refuse"}, Leave(c),
           NEW pc \in {"claim", "refused"}, Goto(c, pc), status' \in [Keys -> Statuses]
    PROVE  Base'
<1> DEFINE h == Home[c]
<1>0. h \in Instances /\ chain[h] \in Seq(Calls) /\ chain[h] # <<>> /\ Head(chain[h]) = c
  BY DEF BudgetAssumption, Base, TypeOK, ChainOrder
<1>1. Tail(chain[h]) \in Seq(Calls) /\ chain[h][1] = c /\ Len(chain[h]) \in Nat
      /\ Len(Tail(chain[h])) = Len(chain[h]) - 1
      /\ \A n \in 1..(Len(chain[h]) - 1) : Tail(chain[h])[n] = chain[h][n + 1]
  BY <1>0
<1>2. chain'[h] = Tail(chain[h]) /\ \A i \in Instances : i # h => chain'[i] = chain[i]
  BY <1>0 DEF Leave, Base, TypeOK
<1>3. TypeOK'
  <2>1. chain' \in [Instances -> Seq(Calls)]
    BY <1>0, <1>1 DEF Leave, Base, TypeOK
  <2> QED BY <2>1 DEF Base, TypeOK, Goto, CallPcs
<1>4. call'[c] = pc /\ \A d \in Calls : d # c => call'[d] = call[d]
  BY DEF Base, TypeOK, Goto
<1>5. ASSUME NEW d \in Calls, d # c, InChain(d) PROVE InChain(d)'
  <2>1. CASE Home[d] = h
    <3>1. PICK n \in 1..Len(chain[h]) : chain[h][n] = d
      BY <1>5, <2>1 DEF InChain
    <3>2. n - 1 \in 1..(Len(chain[h]) - 1) /\ (n - 1) + 1 = n
      BY <1>1, <1>5, <3>1
    <3>3. n - 1 \in 1..Len(chain'[h]) /\ chain'[h][n - 1] = d
      BY <1>1, <1>2, <3>1, <3>2
    <3> QED BY <2>1, <3>3 DEF InChain
  <2>2. CASE Home[d] # h
    <3>1. Home[d] \in Instances
      BY DEF BudgetAssumption
    <3> QED BY <1>2, <1>5, <2>2, <3>1 DEF InChain
  <2> QED BY <2>1, <2>2
<1>6. ASSUME NEW d \in Calls, d # c, call[d] \in {"check", "refuse"}
      PROVE  chain'[Home[d]] = chain[Home[d]]
  <2>1. Home[d] \in Instances /\ Home[d] # h
    BY <1>0, <1>6 DEF BudgetAssumption, Base, ChainOrder
  <2> QED BY <1>2, <2>1
<1>7. ChainOrder'
  <2> SUFFICES ASSUME NEW d \in Calls
               PROVE  /\ call'[d] \in {"waiting", "check", "refuse"} => InChain(d)'
                      /\ call'[d] \in {"check", "refuse"}
                           => chain'[Home[d]] # <<>> /\ Head(chain'[Home[d]]) = d
    BY DEF ChainOrder
  <2>1. CASE d = c
    BY <1>4, <2>1
  <2>2. CASE d # c
    BY <1>4, <1>5, <1>6, <2>2 DEF Base, ChainOrder
  <2> QED BY <2>1, <2>2
<1> QED BY <1>3, <1>7 DEF Base

\* A step that leaves the chains alone and no call in them but where it was.
LEMMA ElsewhereBase ==
    ASSUME BudgetAssumption, Base, NEW c \in Calls, UNCHANGED chain, TypeOK',
           \A d \in Calls : d # c => call'[d] = call[d],
           \/ call[c] = "check" /\ call'[c] = "refuse"
           \/ call'[c] \in {"submit", "returned", "threw"}
    PROVE  Base'
<1>1. \A d \in Calls : InChain(d) => InChain(d)'
  BY DEF InChain
<1> QED BY <1>1 DEF Base, ChainOrder

LEMMA BaseNext ==
    ASSUME BudgetAssumption, Base, [Next]_vars
    PROVE  Base'
<1>1. ASSUME NEW c \in Calls, CallStep(c) PROVE Base'
  <2>0. Home[c] \in Instances /\ KeyOf[c] \in Keys
    BY DEF BudgetAssumption
  <2>1. CASE Lookup(c)
    BY <2>1, LookupBase
  <2>2. CASE Enqueue(c)
    BY <2>2, EnqueueBase
  <2>3. CASE Check(c) /\ Spent > Budget
    <3>1. TypeOK' /\ UNCHANGED chain /\ call[c] = "check" /\ call'[c] = "refuse"
          /\ \A d \in Calls : d # c => call'[d] = call[d]
      BY <2>3 DEF Check, Goto, Base, TypeOK, CallPcs
    <3> QED BY <3>1, ElsewhereBase
  <2>4. CASE Check(c) /\ ~(Spent > Budget)
    <3>1. call[c] = "check" /\ Goto(c, "claim") /\ Leave(c) /\ status' \in [Keys -> Statuses]
      BY <2>4 DEF Check, Base, TypeOK
    <3> QED BY <3>1, LeaveBase
  <2>5. CASE Refuse(c)
    <3>1. call[c] = "refuse" /\ Goto(c, "refused") /\ Leave(c) /\ status' \in [Keys -> Statuses]
      BY <2>0, <2>5 DEF Refuse, LeaveRefused, RefusalStatus, Base, TypeOK, Statuses
    <3> QED BY <3>1, LeaveBase
  <2>6. CASE Claim(c)
    <3>1. TypeOK' /\ UNCHANGED chain /\ call'[c] \in {"submit", "returned"}
          /\ \A d \in Calls : d # c => call'[d] = call[d]
      <4>1. CASE Goto(c, "submit") /\ status' = [status EXCEPT ![KeyOf[c]] = "running"]
        BY <2>0, <2>6, <4>1 DEF Claim, Goto, Base, TypeOK, Statuses, CallPcs
      <4>2. CASE Goto(c, "returned") /\ UNCHANGED status
        BY <2>0, <2>6, <4>2 DEF Claim, Goto, Base, TypeOK, Statuses, CallPcs
      <4> QED BY <2>6, <4>1, <4>2 DEF Claim
    <3> QED BY <3>1, ElsewhereBase
  <2>7. CASE Submit(c)
    <3>1. TypeOK' /\ UNCHANGED chain /\ call'[c] \in {"returned", "threw"}
          /\ \A d \in Calls : d # c => call'[d] = call[d]
      BY <2>0, <2>7 DEF Submit, Goto, Base, TypeOK, Statuses, CallPcs
    <3> QED BY <3>1, ElsewhereBase
  <2> QED BY <1>1, <2>1, <2>2, <2>3, <2>4, <2>5, <2>6, <2>7 DEF CallStep
<1>2. ASSUME NEW k \in Keys, Finish(k) PROVE Base'
  BY <1>2 DEF Finish, Base, TypeOK, Statuses, ChainOrder, InChain
<1>3. CASE UNCHANGED vars
  BY <1>3 DEF vars, Base, TypeOK, ChainOrder, InChain
<1> QED BY <1>1, <1>2, <1>3 DEF Next, Quiescent

LEMMA BaseHolds == Spec => []Base
<1>1. Init => Base
  BY TypesInit, BudgetAssumption
<1>2. Base /\ [Next]_vars => Base'
  BY BaseNext, BudgetAssumption
<1> QED BY <1>1, <1>2, PTL DEF Spec

(* Every reachable state is well typed: a chain is advanced only while a call *)
(* stands in it.                                                              *)
THEOREM TypeCorrect == Spec => []TypeOK
  BY BaseHolds, PTL DEF Base

-----------------------------------------------------------------------------
(* What a refusal does.                                                       *)

AfterPass == {"claim", "submit", "returned", "threw"}

\* k's reservation was let through for one call and refused for another.
IsDisputed(k) ==
    \E d \in Calls : /\ call[d] = "refused" /\ KeyOf[d] = k
                      /\ \E e \in Calls : KeyOf[e] = k /\ call[e] \in AfterPass

LEMMA DisputedIs == \A k : k \in Disputed <=> IsDisputed(k)
  BY DEF Disputed, IsDisputed, AfterPass

\* A call never leaves what it has settled on.
LEMMA CallsMoveOn ==
    ASSUME Base, [Next]_vars, NEW c \in Calls
    PROVE  /\ call[c] = "refused" => call'[c] = "refused"
           /\ call[c] \in AfterPass => call'[c] \in AfterPass
<1>1. ASSUME NEW d \in Calls, CallStep(d)
      PROVE  /\ call[c] = "refused" => call'[c] = "refused"
             /\ call[c] \in AfterPass => call'[c] \in AfterPass
  <2>1. call[d] # "refused" /\ \A e \in Calls : e # d => call'[e] = call[e]
    BY <1>1 DEF CallStep, Lookup, Enqueue, Check, Refuse, Claim, Submit, Goto, Base, TypeOK
  <2>2. call[d] \in AfterPass => call'[d] \in AfterPass
    BY <1>1 DEF CallStep, Lookup, Enqueue, Check, Refuse, Claim, Submit, Goto, Base, TypeOK, AfterPass
  <2> QED BY <2>1, <2>2
<1>2. ASSUME NEW k \in Keys, Finish(k) PROVE call' = call
  BY <1>2 DEF Finish
<1>3. UNCHANGED vars => call' = call
  BY DEF vars
<1> QED BY <1>1, <1>2, <1>3 DEF Next, Quiescent

LEMMA DisputesLast ==
    ASSUME Base, [Next]_vars, NEW k, k \in Disputed
    PROVE  k \in Disputed'
<1>1. PICK d \in Calls : /\ call[d] = "refused" /\ KeyOf[d] = k
                         /\ \E e \in Calls : KeyOf[e] = k /\ call[e] \in AfterPass
  BY DisputedIs DEF IsDisputed
<1>2. PICK e \in Calls : KeyOf[e] = k /\ call[e] \in AfterPass
  BY <1>1
<1>3. call'[d] = "refused" /\ call'[e] \in AfterPass
  BY <1>1, <1>2, CallsMoveOn
<1> QED BY <1>1, <1>2, <1>3 DEF Disputed, AfterPass

LEMMA RefusedNext ==
    ASSUME BudgetAssumption, Base, RefusedStopsCounting, [Next]_vars
    PROVE  RefusedStopsCounting'
<1> SUFFICES ASSUME NEW c \in Calls, call'[c] = "refused", KeyOf[c] \notin Disputed'
             PROVE  status'[KeyOf[c]] = "failed"
  BY DEF RefusedStopsCounting
<1>0. KeyOf[c] \in Keys /\ KeyOf[c] \notin Disputed
  BY DisputesLast DEF BudgetAssumption
<1>1. ASSUME NEW d \in Calls, Refuse(d) PROVE status'[KeyOf[c]] = "failed"
  <2>1. CASE d = c
    BY <1>0, <1>1, <2>1 DEF Refuse, RefusalStatus, Base, TypeOK
  <2>2. CASE d # c
    <3>1. call[c] = "refused"
      BY <1>1, <2>2 DEF Refuse, Goto, Base, TypeOK
    <3>2. status[KeyOf[c]] = "failed"
      BY <1>0, <3>1 DEF RefusedStopsCounting
    <3> QED BY <1>0, <1>1, <3>2 DEF Refuse, RefusalStatus, Base, TypeOK
  <2> QED BY <2>1, <2>2
<1>2. ASSUME call[c] = "refused" PROVE status[KeyOf[c]] = "failed"
  BY <1>0, <1>2 DEF RefusedStopsCounting
<1>3. ASSUME NEW d \in Calls, Lookup(d) \/ Enqueue(d) \/ Check(d) PROVE status'[KeyOf[c]] = "failed"
  <2>1. call[c] = "refused"
    BY <1>3 DEF Lookup, Enqueue, Check, Goto, Base, TypeOK
  <2> QED BY <1>0, <1>2, <1>3, <2>1 DEF Lookup, Enqueue, Check, Base, TypeOK
<1>4. ASSUME NEW d \in Calls, Claim(d) PROVE status'[KeyOf[c]] = "failed"
  <2>1. call[c] = "refused"
    BY <1>4 DEF Claim, Goto, Base, TypeOK
  <2> QED BY <1>0, <1>2, <1>4, <2>1 DEF Claim, Base, TypeOK
<1>5. ASSUME NEW d \in Calls, Submit(d) PROVE status'[KeyOf[c]] = "failed"
  <2>1. call[c] = "refused" /\ call[d] = "submit"
    BY <1>5 DEF Submit, Goto, Base, TypeOK
  <2>2. KeyOf[d] # KeyOf[c]
    BY <1>0, <2>1 DEF Disputed
  <2> QED BY <1>0, <1>2, <1>5, <2>1, <2>2 DEF Submit, Base, TypeOK
<1>6. ASSUME NEW k \in Keys, Finish(k) PROVE status'[KeyOf[c]] = "failed"
  BY <1>0, <1>2, <1>6 DEF Finish, Base, TypeOK
<1>7. CASE UNCHANGED vars
  BY <1>2, <1>7 DEF vars
<1> QED BY <1>1, <1>3, <1>4, <1>5, <1>6, <1>7 DEF Next, CallStep, Quiescent

(* A refused task does not count for the rest of the month, unless the        *)
(* refusal was that of a retry: no write of the row between the sum and the   *)
(* refusal, and none after it, takes the refusal back.                        *)
THEOREM RefusalsHold == Spec => []RefusedStopsCounting
<1>1. Init => RefusedStopsCounting
  BY DEF Init, RefusedStopsCounting
<1>2. RefusedStopsCounting /\ Base /\ [Next]_vars => RefusedStopsCounting'
  BY RefusedNext, BudgetAssumption
<1> QED BY <1>1, <1>2, BaseHolds, PTL DEF Spec

-----------------------------------------------------------------------------
(* What the tasks let through cost.                                           *)

LEMMA CostGrows ==
    ASSUME BudgetAssumption, NEW S \in SUBSET Keys, NEW T \in SUBSET Keys, S \subseteq T
    PROVE  Cost[S] <= Cost[T]
<1>1. S \cup (T \ S) = T /\ S \cap (T \ S) = {} /\ T \ S \in SUBSET Keys
  OBVIOUS
<1>2. Cost[T] = Cost[S] + Cost[T \ S]
  BY <1>1 DEF BudgetAssumption
<1>3. Cost[S] \in Nat /\ Cost[T] \in Nat /\ Cost[T \ S] \in Nat
  BY <1>1 DEF BudgetAssumption
<1> QED BY <1>2, <1>3

\* A task is submitted by one call, and is running meanwhile unless a retry was
\* refused for it.
Submissions ==
    \A c \in Calls : call[c] = "submit" =>
        /\ status[KeyOf[c]] \notin {"absent", "pending"}
        /\ status[KeyOf[c]] = "running" \/ KeyOf[c] \in Disputed
        /\ \A d \in Calls : call[d] = "submit" /\ KeyOf[d] = KeyOf[c] => d = c

LEMMA SubmissionsNext ==
    ASSUME BudgetAssumption, Base, Submissions, [Next]_vars
    PROVE  Submissions'
<1> SUFFICES ASSUME NEW c \in Calls, call'[c] = "submit"
             PROVE  /\ status'[KeyOf[c]] \notin {"absent", "pending"}
                    /\ status'[KeyOf[c]] = "running" \/ KeyOf[c] \in Disputed'
                    /\ \A d \in Calls : call'[d] = "submit" /\ KeyOf[d] = KeyOf[c] => d = c
  BY DEF Submissions
<1> DEFINE k == KeyOf[c]
           Same == \A d \in Calls : call'[d] = "submit" /\ KeyOf[d] = k => d = c
           Good == /\ status'[k] \notin {"absent", "pending"}
                   /\ status'[k] = "running" \/ k \in Disputed'
                   /\ Same
<1>0. k \in Keys /\ (k \in Disputed => k \in Disputed')
  BY DisputesLast DEF BudgetAssumption
<1>1. ASSUME call[c] = "submit"
      PROVE  /\ status[k] \notin {"absent", "pending"}
             /\ status[k] = "running" \/ k \in Disputed'
             /\ \A d \in Calls : call[d] = "submit" /\ KeyOf[d] = k => d = c
  BY <1>0, <1>1 DEF Submissions
<1>2. ASSUME NEW d \in Calls, Lookup(d) \/ Enqueue(d) \/ Check(d) PROVE Good
  <2>1. call[c] = "submit" /\ \A e \in Calls : call'[e] = "submit" => call[e] = "submit"
    BY <1>2 DEF Lookup, Enqueue, Check, Goto, Base, TypeOK
  <2>2. status[k] # "absent" => status'[k] = status[k]
    BY <1>0, <1>2 DEF Lookup, Enqueue, Check, Base, TypeOK
  <2> QED BY <1>1, <2>1, <2>2
<1>3. ASSUME NEW d \in Calls, Refuse(d) PROVE Good
  <2>1. call[c] = "submit" /\ call'[d] = "refused" /\ \A e \in Calls : call'[e] = "submit" => call[e] = "submit"
    BY <1>3 DEF Refuse, Goto, Base, TypeOK
  <2>2. CASE KeyOf[d] = k
    <3>1. k \in Disputed'
      BY <2>1, <2>2 DEF Disputed
    <3>2. status'[k] = "failed"
      BY <1>0, <1>3, <2>2 DEF Refuse, RefusalStatus, Base, TypeOK
    <3> QED BY <1>1, <2>1, <3>1, <3>2
  <2>3. CASE KeyOf[d] # k
    <3>1. status'[k] = status[k]
      BY <1>0, <1>3, <2>3 DEF Refuse, Base, TypeOK
    <3> QED BY <1>1, <2>1, <3>1
  <2> QED BY <2>2, <2>3
<1>4. ASSUME NEW d \in Calls, Claim(d) PROVE Good
  <2>0. call[d] = "claim" /\ \A e \in Calls : e # d => call'[e] = call[e]
    BY <1>4 DEF Claim, Goto, Base, TypeOK
  <2>1. CASE d = c
    <3>1. status[k] = "pending" /\ status'[k] = "running"
      BY <1>0, <1>4, <2>1 DEF Claim, Goto, Base, TypeOK
    <3>2. \A e \in Calls : KeyOf[e] = k => call[e] # "submit"
      BY <3>1 DEF Submissions
    <3> QED BY <2>0, <2>1, <3>1, <3>2
  <2>2. CASE d # c
    <3>1. call[c] = "submit"
      BY <2>0, <2>2
    <3>2. CASE KeyOf[d] = k
      <4>1. status[k] # "pending"
        BY <1>1, <3>1
      <4>2. call'[d] = "returned" /\ UNCHANGED status
        BY <1>4, <3>2, <4>1 DEF Claim, Goto, Base, TypeOK
      <4> QED BY <1>1, <2>0, <3>1, <4>2
    <3>3. CASE KeyOf[d] # k
      <4>1. status'[k] = status[k]
        BY <1>0, <1>4, <3>3 DEF Claim, Base, TypeOK
      <4> QED BY <1>1, <2>0, <3>1, <3>3, <4>1
    <3> QED BY <3>2, <3>3
  <2> QED BY <2>1, <2>2
<1>5. ASSUME NEW d \in Calls, Submit(d) PROVE Good
  <2>1. call[d] = "submit" /\ call'[d] # "submit" /\ \A e \in Calls : e # d => call'[e] = call[e]
    BY <1>5 DEF Submit, Goto, Base, TypeOK
  <2>2. call[c] = "submit" /\ KeyOf[d] # k
    BY <1>1, <2>1
  <2>3. status'[k] = status[k]
    BY <1>0, <1>5, <2>2 DEF Submit, Base, TypeOK
  <2> QED BY <1>1, <2>1, <2>2, <2>3
<1>6. ASSUME NEW q \in Keys, Finish(q) PROVE Good
  <2>1. call' = call /\ q # k
    BY <1>6 DEF Finish
  <2>2. status'[k] = status[k]
    BY <1>0, <1>6, <2>1 DEF Finish, Base, TypeOK
  <2> QED BY <1>1, <2>1, <2>2
<1>7. ASSUME UNCHANGED vars PROVE Good
  BY <1>1, <1>7 DEF vars
<1> HIDE DEF Good
<1>8. Good
  BY <1>2, <1>3, <1>4, <1>5, <1>6, <1>7 DEF Next, CallStep, Quiescent
<1> QED BY <1>8 DEF Good

LEMMA SubmissionsHold == Spec => []Submissions
<1>1. Init => Submissions
  BY DEF Init, Submissions
<1>2. Submissions /\ Base /\ [Next]_vars => Submissions'
  BY SubmissionsNext, BudgetAssumption
<1> QED BY <1>1, <1>2, BaseHolds, PTL DEF Spec

\* The tasks InBudget adds up.
Counted == Admitted \ Disputed

LEMMA CountedIs ==
    \A k : k \in Counted <=>
        /\ k \in Keys /\ status[k] \notin {"absent", "failed"}
        /\ \A c \in Calls : KeyOf[c] = k => call[c] \notin {"check", "refuse"}
        /\ k \notin Disputed
  BY DEF Counted, Admitted, UnderCheck

\* Only a reservation that was summed and fits adds to them.
LEMMA CountedShrinks ==
    ASSUME BudgetAssumption, Base, Submissions, [Next]_vars,
           ~ \E c \in Calls : Check(c) /\ ~(Spent > Budget)
    PROVE  Counted' \subseteq Counted
<1> SUFFICES ASSUME NEW k, k \in Counted'
             PROVE  k \in Counted
  OBVIOUS
<1>0. /\ k \in Keys /\ status'[k] \notin {"absent", "failed"}
      /\ \A c \in Calls : KeyOf[c] = k => call'[c] \notin {"check", "refuse"}
      /\ k \notin Disputed' /\ k \notin Disputed
  <2>1. k \notin Disputed'
    BY DEF Counted
  <2>2. k \notin Disputed
    BY <2>1, DisputesLast
  <2> QED BY <2>1, <2>2 DEF Counted, Admitted, UnderCheck
<1> DEFINE Good == /\ status[k] \notin {"absent", "failed"}
                   /\ \A c \in Calls : KeyOf[c] = k => call[c] \notin {"check", "refuse"}
<1>1. ASSUME NEW d \in Calls, Lookup(d) PROVE Good
  <2>1. \A c \in Calls : call[c] \in {"check", "refuse"} => call'[c] = call[c]
    BY <1>1 DEF Lookup, Goto, Base, TypeOK
  <2> QED BY <1>0, <1>1, <2>1 DEF Lookup
<1>2. ASSUME NEW d \in Calls, Enqueue(d) PROVE Good
  <2>1. call'[d] = "check" /\ \A c \in Calls : call[c] \in {"check", "refuse"} => call'[c] = call[c]
    BY <1>2 DEF Enqueue, Goto, Base, TypeOK
  <2>2. KeyOf[d] # k
    BY <1>0, <2>1
  <2> QED BY <1>0, <1>2, <2>1, <2>2 DEF Enqueue, Base, TypeOK
<1>3. ASSUME NEW d \in Calls, Check(d), Spent > Budget PROVE Good
  <2>1. call'[d] = "refuse" /\ \A c \in Calls : c # d => call'[c] = call[c]
    BY <1>3 DEF Check, Goto, Base, TypeOK
  <2>2. KeyOf[d] # k
    BY <1>0, <2>1
  <2> QED BY <1>0, <1>3, <2>1, <2>2 DEF Check
<1>4. ASSUME NEW d \in Calls, Refuse(d) PROVE Good
  <2>1. KeyOf[d] # k
    BY <1>0, <1>4 DEF Refuse, RefusalStatus, Base, TypeOK
  <2>2. \A c \in Calls : c # d => call'[c] = call[c]
    BY <1>4 DEF Refuse, Goto, Base, TypeOK
  <2>3. status'[k] = status[k]
    BY <1>0, <1>4, <2>1 DEF Refuse, Base, TypeOK
  <2> QED BY <1>0, <2>1, <2>2, <2>3
<1>5. ASSUME NEW d \in Calls, Claim(d) PROVE Good
  <2>1. \A c \in Calls : call[c] \in {"check", "refuse"} => call'[c] = call[c]
    BY <1>5 DEF Claim, Goto, Base, TypeOK
  <2>2. status[k] \notin {"absent", "failed"}
    BY <1>0, <1>5 DEF Claim, Base, TypeOK
  <2> QED BY <1>0, <2>1, <2>2
<1>6. ASSUME NEW d \in Calls, Submit(d) PROVE Good
  <2>1. \A c \in Calls : call[c] \in {"check", "refuse"} => call'[c] = call[c]
    BY <1>6 DEF Submit, Goto, Base, TypeOK
  <2>2. CASE KeyOf[d] = k
    BY <1>0, <1>6, <2>1, <2>2 DEF Submit, Submissions
  <2>3. CASE KeyOf[d] # k
    BY <1>0, <1>6, <2>1, <2>3 DEF Submit, Base, TypeOK
  <2> QED BY <2>2, <2>3
<1>7. ASSUME NEW q \in Keys, Finish(q) PROVE Good
  BY <1>0, <1>7 DEF Finish, Base, TypeOK
<1>8. ASSUME UNCHANGED vars PROVE Good
  BY <1>0, <1>8 DEF vars
<1> HIDE DEF Good
<1>9. Good
  BY <1>1, <1>2, <1>3, <1>4, <1>5, <1>6, <1>7, <1>8 DEF Next, CallStep, Quiescent
<1> QED BY <1>0, <1>9, CountedIs DEF Good

LEMMA InBudgetNext ==
    ASSUME BudgetAssumption, Base, Submissions, InBudget, [Next]_vars
    PROVE  InBudget'
<1>0. Counted \in SUBSET Keys /\ Counted' \in SUBSET Keys /\ Budget \in Nat
      /\ Cost[Counted] \in Nat /\ Cost[Counted'] \in Nat
  BY DEF Counted, Admitted, BudgetAssumption
<1>1. CASE \E c \in Calls : Check(c) /\ ~(Spent > Budget)
  <2> DEFINE Live == {k \in Keys : status[k] \notin {"absent", "failed"}}
  <2>1. status' = status /\ ~(Cost[Live] > Budget)
    BY <1>1 DEF Check, Spent
  <2>2. Counted' \subseteq Live
    BY <2>1 DEF Counted, Admitted
  <2>3. Live \in SUBSET Keys /\ Cost[Live] \in Nat
    BY DEF BudgetAssumption
  <2>4. Cost[Counted'] <= Cost[Live]
    BY <1>0, <2>2, <2>3, CostGrows
  <2>5. Cost[Counted'] <= Budget
    BY <1>0, <2>1, <2>3, <2>4
  <2> QED BY <2>5 DEF InBudget, Counted
<1>2. CASE ~ \E c \in Calls : Check(c) /\ ~(Spent > Budget)
  <2>1. Counted' \subseteq Counted
    BY <1>2, CountedShrinks
  <2>2. Cost[Counted'] <= Cost[Counted]
    BY <1>0, <2>1, CostGrows
  <2>3. Cost[Counted] <= Budget
    BY DEF InBudget, Counted
  <2>4. Cost[Counted'] <= Budget
    BY <1>0, <2>2, <2>3
  <2> QED BY <2>4 DEF InBudget, Counted
<1> QED BY <1>1, <1>2

LEMMA InBudgetInit == ASSUME BudgetAssumption, Init PROVE InBudget
<1>1. Admitted \ Disputed = {}
  BY DEF Init, Admitted
<1>2. {} \in SUBSET Keys /\ {} \cap {} = {} /\ {} \cup {} = {}
  OBVIOUS
<1>3. Cost[{}] = Cost[{}] + Cost[{}] /\ Cost[{}] \in Nat /\ Budget \in Nat
  BY <1>2 DEF BudgetAssumption
<1>4. Cost[{}] <= Budget
  BY <1>3
<1> QED BY <1>1, <1>4 DEF InBudget

(* The budget holds for any number of processes: each chains its own           *)
(* reservations only, but sums a reservation with itself in the store, so the  *)
(* last of two that do not fit together sees the other.                        *)
THEOREM BudgetHolds == Spec => []InBudget
<1>1. Init => InBudget
  BY InBudgetInit, BudgetAssumption
<1>2. InBudget /\ Submissions /\ Base /\ [Next]_vars => InBudget'
  BY InBudgetNext, BudgetAssumption
<1> QED BY <1>1, <1>2, SubmissionsHold, BaseHolds, PTL DEF Spec

-----------------------------------------------------------------------------
(* Whom a refusal may count.                                                  *)

Contenders(c) == Admitted \cup CheckedElsewhere(c) \cup {KeyOf[c]}

LEMMA OnlyCheckRefuses ==
    ASSUME Base, [Next]_vars, NEW c \in Calls, call[c] = "check", call'[c] = "refuse"
    PROVE  Spent > Budget
<1>1. ASSUME NEW d \in Calls, CallStep(d) PROVE Spent > Budget
  <2>1. d = c
    BY <1>1 DEF CallStep, Lookup, Enqueue, Check, Refuse, Claim, Submit, Goto, Base, TypeOK
  <2>2. Check(c)
    BY <1>1, <2>1 DEF CallStep, Lookup, Enqueue, Refuse, Claim, Submit
  <2> QED BY <2>2 DEF Check, Goto, Base, TypeOK
<1>2. ASSUME NEW k \in Keys, Finish(k) PROVE FALSE
  BY <1>2 DEF Finish
<1>3. ~ UNCHANGED vars
  BY DEF vars
<1> QED BY <1>1, <1>2, <1>3 DEF Next, Quiescent

LEMMA RefusalStep ==
    ASSUME BudgetAssumption, Base, [Next]_vars, NEW c \in Calls, call[c] = "check", call'[c] = "refuse"
    PROVE  Cost[Contenders(c)] > Budget
<1> DEFINE Live == {k \in Keys : status[k] \notin {"absent", "failed"}}
<1>1. Live \subseteq Contenders(c)
  <2> SUFFICES ASSUME NEW k \in Live, k \in UnderCheck
               PROVE  k \in CheckedElsewhere(c) \cup {KeyOf[c]}
    BY DEF Contenders, Admitted
  <2>1. PICK d \in Calls : call[d] \in {"check", "refuse"} /\ KeyOf[d] = k
    BY DEF UnderCheck
  <2>2. Home[d] = Home[c] => d = c
    BY <2>1 DEF Base, ChainOrder
  <2> QED BY <2>1, <2>2 DEF CheckedElsewhere
<1>2. Contenders(c) \in SUBSET Keys /\ Live \in SUBSET Keys
  BY DEF Contenders, Admitted, CheckedElsewhere, BudgetAssumption
<1>3. Cost[Live] \in Nat /\ Cost[Contenders(c)] \in Nat /\ Budget \in Nat
  BY <1>2 DEF BudgetAssumption
<1>4. Cost[Live] <= Cost[Contenders(c)]
  BY <1>1, <1>2, CostGrows
<1>5. Cost[Live] > Budget
  BY OnlyCheckRefuses DEF Spent
<1> QED BY <1>3, <1>4, <1>5

(* Contenders of one process never refuse each other: when a reservation is    *)
(* summed, no other of its process is reserved and undecided.                  *)
THEOREM RefusalsAreDue == Spec => NoOverRejection
<1>1. Base /\ [Next]_vars =>
        [\A c \in Calls : call[c] = "check" /\ call'[c] = "refuse"
            => Cost[Admitted \cup CheckedElsewhere(c) \cup {KeyOf[c]}] > Budget]_vars
  BY RefusalStep, BudgetAssumption DEF Contenders
<1> QED BY <1>1, BaseHolds, PTL DEF Spec, NoOverRejection
=============================================================================
