--------------------------- MODULE CronTasksProofs ---------------------------
(* What holds of CronTasks for every number of instances, slots, tasks and    *)
(* invocations: its types, and that the lock keeps a task marked skipIfRunning *)
(* from overlapping itself as long as its handler ends within the lock's TTL. *)
EXTENDS CronTasks, TLAPS

JobRecords == [task : Names \cup {None}, state : JobStates, tries : Nat,
               stalls : Nat, slot : Slots \cup {NoSlot}]
SlotRecords == [pc : {"free", "taken", "handler", "release"},
                job : Jobs \cup {None}, ok : BOOLEAN]
InstanceRecords == [pc : StartPcs, todo : SUBSET Names]

\* A busy slot works on a job that has been produced: its task is settled.
SlotsHoldJobs ==
    \A s \in Slots : slot[s].pc # "free" =>
        slot[s].job \in Jobs /\ job[slot[s].job].state # "unborn"

Running(s, t) == slot[s].pc \in {"handler", "release"} /\ TaskOf(s) = t

\* The lock of a task that runs holds the id of the one job that runs.
LockIsHeld ==
    \A t \in Exclusive : \A s \in Slots : Running(s, t) =>
        /\ lock[t] = slot[s].job
        /\ \A r \in Slots : Running(r, t) => s = r

\* A job keeps its task, and stays produced.
JobsKeepTask ==
    \A j \in Jobs : job[j].state # "unborn" =>
        job'[j].task = job[j].task /\ job'[j].state # "unborn"

-----------------------------------------------------------------------------
\* Settle changes the state of the slot's job only, and frees the slot.
LEMMA SettleKeeps ==
    ASSUME TypeOK, SlotsHoldJobs, NEW s \in Slots, NEW ok \in BOOLEAN,
           slot[s].pc # "free", Settle(s, ok)
    PROVE  /\ job' \in [Jobs -> JobRecords]
           /\ slot' \in [Slots -> SlotRecords]
           /\ slot'[s].pc = "free"
           /\ \A r \in Slots : r # s => slot'[r] = slot[r]
           /\ JobsKeepTask
<1> DEFINE j == slot[s].job
<1>1. j \in Jobs /\ job[j].state # "unborn"
  BY DEF SlotsHoldJobs
<1>2. job \in [Jobs -> JobRecords] /\ slot \in [Slots -> SlotRecords]
  BY DEF TypeOK, JobRecords, SlotRecords
<1>3. slot' = [slot EXCEPT ![s] = FreeSlot]
  BY DEF Settle
<1>4. FreeSlot \in SlotRecords /\ FreeSlot.pc = "free"
  BY DEF FreeSlot, SlotRecords
<1>5. slot' \in [Slots -> SlotRecords] /\ slot'[s].pc = "free"
      /\ \A r \in Slots : r # s => slot'[r] = slot[r]
  BY <1>2, <1>3, <1>4
<1>6. PICK st \in JobStates \ {"unborn"} :
        \/ job' = job
        \/ job' = [job EXCEPT ![j].slot = NoSlot, ![j].state = st]
  BY SMTT(30) DEF Settle, JobStates
<1>7. job' \in [Jobs -> JobRecords]
  BY <1>1, <1>2, <1>6 DEF JobRecords
<1>8. JobsKeepTask
  BY <1>1, <1>2, <1>6 DEF JobRecords, JobsKeepTask
<1> QED BY <1>5, <1>7, <1>8

\* The steps of the start touch schedulers and the instance only.
LEMMA StartTypes ==
    ASSUME CronAssumption, TypeOK, NEW i \in Instances, StartStep(i)
    PROVE  schedulers' \subseteq Names /\ instance' \in [Instances -> InstanceRecords]
<1>0. ASSUME NEW pc \in StartPcs, NEW todo \in SUBSET Names, Starting(i, pc, todo)
      PROVE  instance' \in [Instances -> InstanceRecords]
  <2>1. instance \in [Instances -> InstanceRecords]
    BY DEF TypeOK, InstanceRecords
  <2>2. [instance[i] EXCEPT !.pc = pc, !.todo = todo] \in InstanceRecords
    BY <2>1 DEF InstanceRecords
  <2>3. instance' = [instance EXCEPT ![i] = [instance[i] EXCEPT !.pc = pc, !.todo = todo]]
    BY <1>0 DEF Starting
  <2> QED BY <2>1, <2>2, <2>3
<1> USE DEF TypeOK, InstanceRecords, StartPcs, Starting, Names
<1>1. \A names \in SUBSET Names : ToUpsert(i) \/ ToRemove(i, names)
        => instance' \in [Instances -> InstanceRecords]
  BY DEF CronAssumption, ToUpsert, ToRemove
<1>2. CASE Boot(i)
  BY <1>0, <1>2 DEF Boot
<1>3. CASE List(i)
  <2>1. CASE ToRemove(i, schedulers \ Registered(i)) /\ UNCHANGED schedulers
    BY <1>1, <2>1
  <2>2. CASE Starting(i, "register", {}) /\ UNCHANGED schedulers
    BY <1>0, <2>2
  <2> QED BY <1>3, <2>1, <2>2 DEF List
<1>4. CASE RemoveStale(i)
  <2>1. PICK t \in instance[i].todo :
          schedulers' \in {schedulers \ {t}, schedulers} /\ ToRemove(i, instance[i].todo \ {t})
    BY <1>4 DEF RemoveStale
  <2>2. instance[i].todo \ {t} \in SUBSET Names
    OBVIOUS
  <2> QED BY <1>1, <2>1, <2>2
<1>5. CASE Upsert(i)
  <2>1. PICK t \in instance[i].todo :
          /\ schedulers' \in {schedulers \cup {t}, schedulers}
          /\ Starting(i, "register", {}) \/ Starting(i, "upsert", instance[i].todo \ {t})
    BY <1>5 DEF Upsert
  <2>2. t \in Names /\ instance[i].todo \ {t} \in SUBSET Names
    OBVIOUS
  <2> QED BY <2>1, <2>2
<1>6. CASE RegisterLate(i)
  <2>1. Late \in SUBSET Names
    BY DEF CronAssumption
  <2> QED BY <1>0, <1>6, <2>1 DEF RegisterLate, LateUpserts
<1>7. CASE UpsertLate(i)
  <2>1. PICK t \in instance[i].todo :
          /\ schedulers' \in {schedulers \cup {t}, schedulers}
          /\ Starting(i, "ready", instance[i].todo \ {t})
    BY <1>7 DEF UpsertLate
  <2>2. t \in Names /\ instance[i].todo \ {t} \in SUBSET Names
    OBVIOUS
  <2> QED BY <2>1, <2>2
<1> QED BY <1>2, <1>3, <1>4, <1>5, <1>6, <1>7 DEF StartStep

\* The steps of process keep every type, and the slots on jobs that exist.
LEMMA ProcessTypes ==
    ASSUME TypeOK, SlotsHoldJobs, NEW s \in Slots, Process(s)
    PROVE  /\ job' \in [Jobs -> JobRecords] /\ slot' \in [Slots -> SlotRecords]
           /\ lock' \in [Exclusive -> Jobs \cup {None}]
           /\ JobsKeepTask
           /\ \A r \in Slots : r # s => slot'[r] = slot[r]
           /\ slot'[s].pc = "free" \/ slot'[s].job = slot[s].job
<1>1. /\ job \in [Jobs -> JobRecords] /\ slot \in [Slots -> SlotRecords]
      /\ lock \in [Exclusive -> Jobs \cup {None}]
  BY DEF TypeOK, JobRecords, SlotRecords
<1>2. slot[s].pc # "free"
  BY DEF Process, NoHandler, StartUnlocked, Acquire, Skip, AcquireFails, Handle, Release,
         ReleaseFails, At
<1>3. slot[s].job \in Jobs /\ slot[s].ok \in BOOLEAN
  BY <1>1, <1>2 DEF SlotsHoldJobs, SlotRecords
<1>4. CASE \E ok \in BOOLEAN : Settle(s, ok)
  <2>1. lock' \in [Exclusive -> Jobs \cup {None}]
    BY <1>1, <1>3 DEF Process, NoHandler, StartUnlocked, Acquire, Skip, AcquireFails, Handle,
                      Release, ReleaseFails, LockValue, Released
  <2> QED BY <1>2, <1>4, <2>1, SettleKeeps
<1>5. CASE UNCHANGED job /\ slot' = [slot EXCEPT ![s].pc = "handler"]
           /\ lock' \in [Exclusive -> Jobs \cup {None}]
  BY <1>1, <1>5 DEF JobsKeepTask, SlotRecords
<1>6. CASE UNCHANGED <<job, lock>>
           /\ \E ok \in BOOLEAN : slot' = [slot EXCEPT ![s].pc = "release", ![s].ok = ok]
  <2>1. PICK ok \in BOOLEAN : slot' = [slot EXCEPT ![s].pc = "release", ![s].ok = ok]
    BY <1>6
  <2>2. [slot[s] EXCEPT !.pc = "release", !.ok = ok] \in SlotRecords
        /\ [slot[s] EXCEPT !.pc = "release", !.ok = ok].job = slot[s].job
    BY <1>1 DEF SlotRecords
  <2> QED BY <1>1, <1>6, <2>1, <2>2 DEF JobsKeepTask
<1>7. Process(s) => (\E ok \in BOOLEAN : Settle(s, ok)) \/ StartUnlocked(s) \/ Acquire(s) \/ Handle(s)
  BY <1>3 DEF Process, NoHandler, Skip, AcquireFails, Release, ReleaseFails
<1>8. StartUnlocked(s) => UNCHANGED <<job, lock>> /\ slot' = [slot EXCEPT ![s].pc = "handler"]
  BY DEF StartUnlocked, Handling
<1>9. Acquire(s) => /\ UNCHANGED job /\ slot' = [slot EXCEPT ![s].pc = "handler"]
                    /\ lock' \in [Exclusive -> Jobs \cup {None}]
  BY <1>1, <1>3 DEF Acquire, Handling, LockValue
<1>10. Handle(s) => \/ \E ok \in BOOLEAN : Settle(s, ok)
                    \/ /\ UNCHANGED <<job, lock>>
                       /\ \E ok \in BOOLEAN : slot' = [slot EXCEPT ![s].pc = "release", ![s].ok = ok]
  BY DEF Handle
<1> QED BY <1>1, <1>4, <1>5, <1>6, <1>7, <1>8, <1>9, <1>10

-----------------------------------------------------------------------------
TInv == TypeOK /\ SlotsHoldJobs

LEMMA InitTypes == CronAssumption /\ Init => TInv
<1> SUFFICES ASSUME CronAssumption, Init PROVE TInv
  OBVIOUS
<1>1. FreeSlot \in SlotRecords /\ FreeSlot.pc = "free"
  BY DEF FreeSlot, SlotRecords
<1>2. TypeOK
  BY <1>1 DEF Init, TypeOK, JobStates, StartPcs, SlotRecords, NoSlot
<1>3. SlotsHoldJobs
  BY <1>1 DEF Init, SlotsHoldJobs
<1> QED BY <1>2, <1>3 DEF TInv

LEMMA NextTypes == CronAssumption /\ TInv /\ [Next]_vars => TInv'
<1> SUFFICES ASSUME CronAssumption, TypeOK, SlotsHoldJobs, [Next]_vars PROVE TInv'
  BY DEF TInv
<1> DEFINE SlotsUnchanged == JobsKeepTask /\ \A s \in Slots :
              slot'[s] = slot[s] \/ slot'[s].pc = "free"
<1>0. /\ job \in [Jobs -> JobRecords] /\ slot \in [Slots -> SlotRecords]
      /\ instance \in [Instances -> InstanceRecords]
      /\ FreeSlot \in SlotRecords /\ FreeSlot.pc = "free" /\ FreeSlot.job = None
  BY DEF TypeOK, JobRecords, SlotRecords, InstanceRecords, FreeSlot
<1>1. SlotsUnchanged => SlotsHoldJobs'
  BY DEF SlotsHoldJobs, JobsKeepTask
<1>2. UNCHANGED <<job, slot>> => SlotsHoldJobs'
  BY DEF SlotsHoldJobs
<1>3. ASSUME NEW i \in Instances, StartStep(i) PROVE TInv'
  <2>1. UNCHANGED <<job, slot, lock, purge, crashes>>
    BY <1>3 DEF StartStep, Boot, List, RemoveStale, Upsert, RegisterLate, UpsertLate
  <2>2. schedulers' \subseteq Names /\ instance' \in [Instances -> InstanceRecords]
    BY <1>3, StartTypes
  <2> QED BY <1>2, <2>1, <2>2 DEF TInv, TypeOK, InstanceRecords
<1>4. ASSUME NEW i \in Instances, Crash(i) PROVE TInv'
  <2>1. slot' \in [Slots -> SlotRecords]
    BY <1>0, <1>4 DEF Crash
  <2>2. instance' \in [Instances -> InstanceRecords]
    BY <1>4, <1>0 DEF Crash, Starting, InstanceRecords, StartPcs
  <2>3. SlotsHoldJobs'
    BY <1>0, <1>1, <1>4 DEF Crash, JobsKeepTask
  <2>4. crashes' \in Nat /\ UNCHANGED <<schedulers, job, lock, purge>>
    BY <1>4 DEF Crash, TypeOK
  <2> QED BY <2>1, <2>2, <2>3, <2>4 DEF TInv, TypeOK, SlotRecords, InstanceRecords
<1>5. ASSUME NEW t \in Names, Tick(t) PROVE TInv'
  <2>1. PICK j \in Jobs : /\ job[j].state = "unborn"
                          /\ job' = [job EXCEPT ![j].state = "waiting", ![j].task = t]
    BY <1>5 DEF Tick
  <2>2. [job[j] EXCEPT !.state = "waiting", !.task = t] \in JobRecords
    <3>1. job[j] \in JobRecords /\ "waiting" \in JobStates /\ t \in Names \cup {None}
      BY <1>0 DEF JobStates
    <3> QED BY <3>1 DEF JobRecords
  <2>3. job' = [job EXCEPT ![j] = [job[j] EXCEPT !.state = "waiting", !.task = t]]
    BY <2>1
  <2>4. job' \in [Jobs -> JobRecords] /\ JobsKeepTask
    BY <1>0, <2>1, <2>2, <2>3 DEF JobsKeepTask
  <2>5. UNCHANGED <<schedulers, instance, slot, lock, purge, crashes>>
    BY <1>5 DEF Tick
  <2> QED BY <1>1, <2>4, <2>5 DEF TInv, TypeOK, JobRecords
<1>6. ASSUME NEW s \in Slots, Take(s) PROVE TInv'
  <2>1. PICK j \in Jobs :
          /\ job[j].state = "waiting"
          /\ job' = [job EXCEPT ![j].state = "active", ![j].tries = @ + 1, ![j].slot = s]
          /\ slot' = [slot EXCEPT ![s] = [pc |-> "taken", job |-> j, ok |-> TRUE]]
    BY <1>6 DEF Take
  <2>2. job' \in [Jobs -> JobRecords] /\ JobsKeepTask /\ job'[j].state # "unborn"
    BY <1>0, <2>1 DEF JobRecords, JobStates, JobsKeepTask
  <2>3. slot' \in [Slots -> SlotRecords]
    BY <1>0, <2>1 DEF SlotRecords
  <2>4. SlotsHoldJobs'
    BY <1>0, <2>1, <2>2 DEF SlotsHoldJobs, JobsKeepTask
  <2>5. UNCHANGED <<schedulers, instance, lock, purge, crashes>>
    BY <1>6 DEF Take
  <2> QED BY <2>2, <2>3, <2>4, <2>5 DEF TInv, TypeOK, JobRecords, SlotRecords
<1>7. ASSUME NEW s \in Slots, Process(s) PROVE TInv'
  <2>1. UNCHANGED <<schedulers, instance, purge, crashes>>
    BY <1>7 DEF Process, NoHandler, StartUnlocked, Acquire, Skip, AcquireFails, Handle, Release,
                ReleaseFails
  <2>2. /\ job' \in [Jobs -> JobRecords] /\ slot' \in [Slots -> SlotRecords]
        /\ lock' \in [Exclusive -> Jobs \cup {None}]
        /\ JobsKeepTask
        /\ \A r \in Slots : r # s => slot'[r] = slot[r]
        /\ slot'[s].pc = "free" \/ slot'[s].job = slot[s].job
    BY <1>7, ProcessTypes
  <2>3. slot[s].pc # "free"
    BY <1>7 DEF Process, NoHandler, StartUnlocked, Acquire, Skip, AcquireFails, Handle, Release,
                ReleaseFails, At
  <2>4. SlotsHoldJobs'
    BY <2>2, <2>3 DEF SlotsHoldJobs, JobsKeepTask
  <2> QED BY <2>1, <2>2, <2>4 DEF TInv, TypeOK, JobRecords, SlotRecords
<1>8. ASSUME NEW j \in Jobs, Redeliver(j) PROVE TInv'
  <2>1. job' \in [Jobs -> JobRecords] /\ JobsKeepTask
    BY <1>0, <1>8 DEF Redeliver, JobRecords, JobStates, JobsKeepTask
  <2>2. UNCHANGED <<schedulers, instance, slot, lock, purge, crashes>>
    BY <1>8 DEF Redeliver
  <2> QED BY <1>1, <2>1, <2>2 DEF TInv, TypeOK, JobRecords
<1>9. ASSUME NEW t \in Exclusive, ExpireLock(t) PROVE TInv'
  BY <1>2, <1>9 DEF ExpireLock, TInv, TypeOK
<1>10. CASE PurgeStep
  <2>1. CASE PurgeList
    BY <1>2, <2>1 DEF PurgeList, Purging, TInv, TypeOK
  <2>2. CASE PurgeScheduler
    BY <1>2, <2>2 DEF PurgeScheduler, Purging, TInv, TypeOK
  <2>3. CASE PurgeListJobs
    BY <1>2, <2>3 DEF PurgeListJobs, Purging, TInv, TypeOK
  <2>4. CASE PurgeJob
    <3>1. PICK j \in purge.jobs :
            \E left \in {purge.left, purge.left \cup {j}} :
              /\ job' = job \/ job' = [job EXCEPT ![j].state = "removed"]
              /\ Purging("jobs", purge.names, purge.jobs \ {j}, left)
      BY <2>4 DEF PurgeJob
    <3>2. job' \in [Jobs -> JobRecords] /\ JobsKeepTask
      <4>1. j \in Jobs
        BY DEF TypeOK
      <4>2. [job[j] EXCEPT !.state = "removed"] \in JobRecords
        BY <1>0, <4>1 DEF JobRecords, JobStates
      <4>3. job' = job \/ job' = [job EXCEPT ![j] = [job[j] EXCEPT !.state = "removed"]]
        BY <3>1
      <4> QED BY <1>0, <4>1, <4>2, <4>3 DEF JobsKeepTask, JobRecords
    <3>3. UNCHANGED <<schedulers, instance, slot, lock, crashes>>
      BY <2>4 DEF PurgeJob
    <3>4. purge' \in [pc : {"start", "schedulers", "jobs", "done"}, names : SUBSET Names,
                      jobs : SUBSET Jobs, left : SUBSET (Names \cup Jobs)]
      BY <3>1 DEF Purging, TypeOK
    <3> QED BY <1>1, <3>2, <3>3, <3>4 DEF TInv, TypeOK, JobRecords
  <2>5. CASE PurgeDone
    BY <1>2, <2>5 DEF PurgeDone, Purging, TInv, TypeOK
  <2> QED BY <1>10, <2>1, <2>2, <2>3, <2>4, <2>5 DEF PurgeStep
<1>11. CASE UNCHANGED vars
  BY <1>2, <1>11 DEF vars, TInv, TypeOK
<1> QED BY <1>3, <1>4, <1>5, <1>6, <1>7, <1>8, <1>9, <1>10, <1>11 DEF Next, Quiescent

\* Every reachable state is well typed: the queue's records, the slots, the
\* schedulers and the locks, whatever fails or crashes.
THEOREM TypeCorrect == Spec => []TypeOK
<1>1. Init => TInv
  BY InitTypes, CronAssumption
<1>2. TInv /\ [Next]_vars => TInv'
  BY NextTypes, CronAssumption
<1>3. TInv => TypeOK
  BY DEF TInv
<1> QED BY <1>1, <1>2, <1>3, PTL DEF Spec

-----------------------------------------------------------------------------
Inv == TInv /\ LockIsHeld

LEMMA InitLock == Init => LockIsHeld
BY DEF Init, LockIsHeld, Running, FreeSlot

\* The lock is set only when it is free, so when nothing runs; it is deleted
\* only by the one slot that runs; it expires only when no slot runs its job.
LEMMA NextLock ==
    CronAssumption /\ MayOutlast = FALSE /\ Inv /\ [Next]_vars => LockIsHeld'
<1> SUFFICES ASSUME CronAssumption, MayOutlast = FALSE, TypeOK, SlotsHoldJobs, LockIsHeld,
                    [Next]_vars
             PROVE  LockIsHeld'
  BY DEF Inv, TInv
<1>0. /\ job \in [Jobs -> JobRecords] /\ slot \in [Slots -> SlotRecords]
      /\ lock \in [Exclusive -> Jobs \cup {None}] /\ None \notin Jobs
      /\ FreeSlot.pc = "free"
  BY DEF TypeOK, JobRecords, SlotRecords, CronAssumption, FreeSlot
<1>a. ASSUME JobsKeepTask, \A s \in Slots : slot'[s] = slot[s] \/ slot'[s].pc \in {"free", "taken"}
      PROVE  \A s \in Slots, t \in Exclusive : Running(s, t)' => Running(s, t) /\ slot'[s] = slot[s]
  BY <1>0, <1>a DEF Running, TaskOf, SlotsHoldJobs, JobsKeepTask
<1>b. ASSUME JobsKeepTask, UNCHANGED lock,
             \A s \in Slots : slot'[s] = slot[s] \/ slot'[s].pc \in {"free", "taken"}
      PROVE  LockIsHeld'
  BY <1>a, <1>b DEF LockIsHeld
<1>1. ASSUME NEW i \in Instances, StartStep(i) PROVE LockIsHeld'
  <2>1. UNCHANGED <<job, slot, lock>>
    BY <1>1 DEF StartStep, Boot, List, RemoveStale, Upsert, RegisterLate, UpsertLate
  <2> QED BY <1>b, <2>1 DEF JobsKeepTask
<1>2. ASSUME NEW i \in Instances, Crash(i) PROVE LockIsHeld'
  BY <1>0, <1>b, <1>2 DEF Crash, JobsKeepTask
<1>3. ASSUME NEW t \in Names, Tick(t) PROVE LockIsHeld'
  <2>1. JobsKeepTask
    BY <1>0, <1>3 DEF Tick, JobsKeepTask
  <2> QED BY <1>b, <1>3, <2>1 DEF Tick
<1>4. ASSUME NEW s \in Slots, Take(s) PROVE LockIsHeld'
  <2>1. JobsKeepTask
    BY <1>0, <1>4 DEF Take, JobsKeepTask, JobRecords
  <2>2. \A r \in Slots : slot'[r] = slot[r] \/ slot'[r].pc = "taken"
    BY <1>0, <1>4 DEF Take
  <2> QED BY <1>b, <1>4, <2>1, <2>2 DEF Take
<1>5. ASSUME NEW s \in Slots, Process(s) PROVE LockIsHeld'
  <2>0. slot[s].pc # "free"
    BY <1>5 DEF Process, NoHandler, StartUnlocked, Acquire, Skip, AcquireFails, Handle, Release,
                ReleaseFails, At
  <2>j. slot[s].job \in Jobs /\ slot[s].ok \in BOOLEAN
    BY <1>0, <2>0 DEF SlotsHoldJobs, SlotRecords
  <2>1. ASSUME NEW ok \in BOOLEAN, Settle(s, ok), UNCHANGED lock PROVE LockIsHeld'
    BY <1>b, <2>0, <2>1, SettleKeeps
  <2>2. CASE NoHandler(s) \/ Skip(s) \/ AcquireFails(s) \/ ReleaseFails(s)
    BY <2>1, <2>2 DEF NoHandler, Skip, AcquireFails, ReleaseFails
  <2>3. CASE StartUnlocked(s)
    <3>1. UNCHANGED <<job, lock>> /\ slot' = [slot EXCEPT ![s].pc = "handler"]
          /\ TaskOf(s) \notin Exclusive
      BY <2>3 DEF StartUnlocked, Handling, Guarded
    <3>2. \A r \in Slots : slot'[r].job = slot[r].job /\ (r # s => slot'[r] = slot[r])
      BY <1>0, <3>1 DEF SlotRecords
    <3>3. \A r \in Slots, t \in Exclusive : Running(r, t)' => r # s /\ Running(r, t)
      BY <3>1, <3>2 DEF Running, TaskOf
    <3> QED BY <3>1, <3>2, <3>3 DEF LockIsHeld
  <2>4. CASE Acquire(s)
    <3> DEFINE u == TaskOf(s)
    <3>1. /\ UNCHANGED job /\ slot' = [slot EXCEPT ![s].pc = "handler"]
          /\ u \in Exclusive /\ lock[u] = None
          /\ lock' = [lock EXCEPT ![u] = slot[s].job]
      BY <2>4 DEF Acquire, Handling, Guarded, SetNX, LockValue
    <3>2. \A r \in Slots : slot'[r].job = slot[r].job /\ (r # s => slot'[r] = slot[r])
      BY <1>0, <3>1 DEF SlotRecords
    <3>3. \A r \in Slots : ~Running(r, u)
      BY <1>0, <3>1 DEF LockIsHeld, Running, SlotsHoldJobs
    <3>4. \A r \in Slots, t \in Exclusive : Running(r, t)' =>
            \/ r = s /\ t = u
            \/ r # s /\ t # u /\ Running(r, t)
      BY <3>1, <3>2, <3>3 DEF Running, TaskOf
    <3>5. lock'[u] = slot[s].job /\ \A t \in Exclusive : t # u => lock'[t] = lock[t]
      BY <1>0, <3>1
    <3> HIDE DEF u
    <3> QED BY <3>2, <3>4, <3>5 DEF LockIsHeld
  <2>5. CASE Handle(s)
    <3>1. UNCHANGED lock
      BY <2>5 DEF Handle
    <3>2. CASE \E ok \in BOOLEAN : Settle(s, ok)
      BY <2>1, <3>1, <3>2
    <3>3. CASE UNCHANGED job /\ \E ok \in BOOLEAN :
                  slot' = [slot EXCEPT ![s].pc = "release", ![s].ok = ok]
      <4>1. PICK ok \in BOOLEAN : slot' = [slot EXCEPT ![s].pc = "release", ![s].ok = ok]
        BY <3>3
      <4>2. \A r \in Slots : slot'[r].job = slot[r].job /\ (r # s => slot'[r] = slot[r])
        BY <1>0, <4>1 DEF SlotRecords
      <4>3. slot[s].pc = "handler"
        BY <2>5 DEF Handle, At
      <4>4. \A r \in Slots, t \in Exclusive : Running(r, t)' => Running(r, t)
        BY <3>3, <4>2, <4>3 DEF Running, TaskOf
      <4> QED BY <3>1, <4>2, <4>4 DEF LockIsHeld
    <3> QED BY <2>5, <3>2, <3>3 DEF Handle
  <2>6. CASE Release(s)
    <3> DEFINE u == TaskOf(s)
    <3>1. lock' = [lock EXCEPT ![u] = None] /\ Settle(s, slot[s].ok) /\ Running(s, u)
      BY <2>6 DEF Release, Released, Running, At
    <3>2. JobsKeepTask /\ slot'[s].pc = "free" /\ \A r \in Slots : r # s => slot'[r] = slot[r]
      BY <2>0, <2>j, <3>1, SettleKeeps
    <3>3. \A r \in Slots, t \in Exclusive :
            Running(r, t)' => Running(r, t) /\ r # s /\ slot'[r] = slot[r]
      BY <1>a, <3>2 DEF Running
    <3>4. \A t \in Exclusive : t # u => lock'[t] = lock[t]
      BY <1>0, <3>1
    <3> HIDE DEF u
    <3> QED BY <3>1, <3>3, <3>4 DEF LockIsHeld
  <2> QED BY <1>5, <2>2, <2>3, <2>4, <2>5, <2>6 DEF Process
<1>6. ASSUME NEW j \in Jobs, Redeliver(j) PROVE LockIsHeld'
  <2>1. JobsKeepTask
    BY <1>0, <1>6 DEF Redeliver, JobsKeepTask, JobRecords
  <2> QED BY <1>b, <1>6, <2>1 DEF Redeliver
<1>7. ASSUME NEW t \in Exclusive, ExpireLock(t) PROVE LockIsHeld'
  <2>1. \A s \in Slots : ~Running(s, t)
    BY <1>7 DEF ExpireLock, Expires, Inside, LockIsHeld, Running
  <2>2. UNCHANGED <<job, slot>> /\ lock' = [lock EXCEPT ![t] = None]
    BY <1>7 DEF ExpireLock
  <2> QED BY <1>0, <2>1, <2>2 DEF LockIsHeld, Running, TaskOf
<1>8. CASE PurgeStep
  <2>1. UNCHANGED <<slot, lock>>
    BY <1>8 DEF PurgeStep, PurgeList, PurgeScheduler, PurgeListJobs, PurgeJob, PurgeDone
  <2>2. JobsKeepTask
    <3>1. CASE PurgeJob
      <4>1. PICK j \in Jobs : job' = job \/ job' = [job EXCEPT ![j].state = "removed"]
        BY <3>1 DEF PurgeJob, TypeOK
      <4> QED BY <1>0, <4>1 DEF JobsKeepTask, JobRecords
    <3>2. CASE UNCHANGED job
      BY <3>2 DEF JobsKeepTask
    <3> QED BY <1>8, <3>1, <3>2 DEF PurgeStep, PurgeList, PurgeScheduler, PurgeListJobs, PurgeDone
  <2> QED BY <1>b, <2>1, <2>2
<1>9. CASE UNCHANGED vars
  BY <1>b, <1>9 DEF vars, JobsKeepTask
<1> QED BY <1>1, <1>2, <1>3, <1>4, <1>5, <1>6, <1>7, <1>8, <1>9 DEF Next, Quiescent

\* With handlers that end within the lock's TTL a task marked skipIfRunning
\* never overlaps itself: not with retries, stalled jobs delivered twice,
\* crashes or failing commands, on any number of instances.
THEOREM ExclusiveTasksNeverOverlap ==
    ASSUME MayOutlast = FALSE
    PROVE  Spec => []NoOverlap
<1>1. Init => Inv
  BY InitTypes, InitLock, CronAssumption DEF Inv
<1>2. Inv /\ [Next]_vars => Inv'
  BY NextTypes, NextLock, CronAssumption DEF Inv
<1>3. Inv => NoOverlap
  BY DEF Inv, LockIsHeld, NoOverlap, Inside, Running
<1> QED BY <1>1, <1>2, <1>3, PTL DEF Spec
-----------------------------------------------------------------------------
(* The purge. Nothing brings a retired task's scheduler back, so once they    *)
(* are gone no job of one is produced; and a job a worker took has been tried. *)

\* A start re-creates schedulers of tasks this version defines, no others.
StartsDefinedTasks ==
    \A i \in Instances : instance[i].pc \in {"upsert", "ready"} => instance[i].todo \subseteq Tasks

TakenIsTried == \A j \in Jobs : job[j].state = "active" => job[j].tries > 0

\* A job of a retired task that no worker has taken yet.
Untaken(j) == job[j].state = "waiting" /\ job[j].task \in Retired /\ ~(job[j].tries > 0)

\* The purge has failed to remove the job, or the scheduler that produced it.
Left(j) == j \in purge.left \/ job[j].task \in purge.left

PurgeProgress ==
    /\ purge.pc = "schedulers" => schedulers \cap Retired \subseteq purge.names \cup purge.left
    /\ purge.pc \in {"jobs", "done"} => schedulers \cap Retired \subseteq purge.left
    /\ purge.pc = "jobs" => \A j \in Jobs : Untaken(j) => j \in purge.jobs \/ Left(j)
    /\ purge.pc = "done" => \A j \in Jobs : Untaken(j) => Left(j)

PurgeInv == TInv /\ StartsDefinedTasks /\ TakenIsTried /\ PurgeProgress

\* What a step of the start does to the schedulers.
LEMMA StartAdds ==
    ASSUME CronAssumption, TypeOK, StartsDefinedTasks, NEW i \in Instances, StartStep(i)
    PROVE  StartsDefinedTasks' /\ schedulers' \subseteq schedulers \cup Tasks
<1>0. instance \in [Instances -> InstanceRecords]
  BY DEF TypeOK, InstanceRecords
<1>1. ASSUME NEW pc, NEW todo, Starting(i, pc, todo),
             pc \in {"upsert", "ready"} => todo \subseteq Tasks
      PROVE  StartsDefinedTasks'
  <2>1. instance' = [instance EXCEPT ![i] = [instance[i] EXCEPT !.pc = pc, !.todo = todo]]
    BY <1>1 DEF Starting
  <2>2. /\ instance'[i].pc = pc /\ instance'[i].todo = todo
        /\ \A k \in Instances : k # i => instance'[k] = instance[k]
    BY <1>0, <2>1 DEF InstanceRecords
  <2> QED BY <1>1, <2>2 DEF StartsDefinedTasks
<1>2. ASSUME NEW names, ToRemove(i, names) PROVE StartsDefinedTasks'
  BY <1>1, <1>2 DEF ToRemove, ToUpsert
<1>3. CASE Boot(i)
  BY <1>1, <1>3 DEF Boot
<1>4. CASE List(i)
  <2>1. CASE ToRemove(i, schedulers \ Registered(i))
    BY <1>2, <1>4, <2>1 DEF List
  <2>2. CASE Starting(i, "register", {})
    BY <1>1, <1>4, <2>2 DEF List
  <2> QED BY <1>4, <2>1, <2>2 DEF List
<1>5. CASE RemoveStale(i)
  BY <1>2, <1>5 DEF RemoveStale
<1>6. CASE Upsert(i)
  <2>1. PICK t \in instance[i].todo :
          /\ schedulers' \in {schedulers \cup {t}, schedulers}
          /\ \/ Starting(i, "register", {})
             \/ Starting(i, "upsert", instance[i].todo \ {t})
    BY <1>6 DEF Upsert
  <2>2. instance[i].todo \subseteq Tasks
    BY <1>6 DEF Upsert, StartsDefinedTasks
  <2>3. CASE Starting(i, "register", {})
    BY <1>1, <2>1, <2>2, <2>3
  <2>4. CASE Starting(i, "upsert", instance[i].todo \ {t})
    BY <1>1, <2>1, <2>2, <2>4
  <2> QED BY <2>1, <2>3, <2>4
<1>7. CASE RegisterLate(i)
  BY <1>1, <1>7 DEF RegisterLate, LateUpserts, CronAssumption
<1>8. CASE UpsertLate(i)
  <2>1. PICK t \in instance[i].todo :
          /\ schedulers' \in {schedulers \cup {t}, schedulers}
          /\ Starting(i, "ready", instance[i].todo \ {t})
    BY <1>8 DEF UpsertLate
  <2>2. instance[i].todo \subseteq Tasks
    BY <1>8 DEF UpsertLate, StartsDefinedTasks
  <2> QED BY <1>1, <2>1, <2>2
<1> QED BY <1>3, <1>4, <1>5, <1>6, <1>7, <1>8 DEF StartStep

\* What a step does to the queue, as far as the purge is concerned: a job that
\* nobody had taken does not come into being, and a taken one has been tried.
JobsStayTaken ==
    /\ TakenIsTried'
    /\ \A j \in Jobs : Untaken(j)' => Untaken(j) /\ job'[j].task = job[j].task

LEMMA SettleStaysTaken ==
    ASSUME TypeOK, SlotsHoldJobs, TakenIsTried, NEW s \in Slots, NEW ok \in BOOLEAN,
           slot[s].pc # "free", Settle(s, ok)
    PROVE  JobsStayTaken
<1> DEFINE j == slot[s].job
<1>1. j \in Jobs /\ job \in [Jobs -> JobRecords]
  BY DEF SlotsHoldJobs, TypeOK, JobRecords
<1>2. CASE job' = job
  BY <1>2 DEF JobsStayTaken, TakenIsTried, Untaken
<1>3. CASE job[j].state = "active" /\ \E st \in {"completed", "waiting", "failed"} :
             job' = [job EXCEPT ![j].slot = NoSlot, ![j].state = st]
  <2>1. PICK st \in {"completed", "waiting", "failed"} :
             job' = [job EXCEPT ![j].slot = NoSlot, ![j].state = st]
    BY <1>3
  <2>2. /\ job'[j].state = st /\ job'[j].tries = job[j].tries
        /\ \A k \in Jobs : k # j => job'[k] = job[k]
    BY <1>1, <2>1 DEF JobRecords
  <2>3. job[j].tries > 0
    BY <1>1, <1>3 DEF TakenIsTried
  <2> QED BY <2>2, <2>3 DEF JobsStayTaken, TakenIsTried, Untaken
<1> QED BY <1>2, <1>3 DEF Settle

LEMMA ProcessStaysTaken ==
    ASSUME TypeOK, SlotsHoldJobs, TakenIsTried, NEW s \in Slots, Process(s)
    PROVE  JobsStayTaken
<1>1. slot[s].pc # "free"
  BY DEF Process, NoHandler, StartUnlocked, Acquire, Skip, AcquireFails, Handle, Release,
         ReleaseFails, At
<1>2. slot[s].ok \in BOOLEAN
  BY DEF TypeOK
<1>3. CASE UNCHANGED job
  BY <1>3 DEF JobsStayTaken, TakenIsTried, Untaken
<1>4. CASE \E ok \in BOOLEAN : Settle(s, ok)
  BY <1>1, <1>4, SettleStaysTaken
<1> QED BY <1>2, <1>3, <1>4 DEF Process, NoHandler, StartUnlocked, Acquire, Skip, AcquireFails,
                                Handle, Release, ReleaseFails

LEMMA NextPurge ==
    CronAssumption /\ PurgeInv /\ [Next]_vars
        => StartsDefinedTasks' /\ TakenIsTried' /\ PurgeProgress'
<1> SUFFICES ASSUME CronAssumption, TypeOK, SlotsHoldJobs, StartsDefinedTasks, TakenIsTried,
                    PurgeProgress, [Next]_vars
             PROVE  StartsDefinedTasks' /\ TakenIsTried' /\ PurgeProgress'
  BY DEF PurgeInv, TInv
<1>0. /\ job \in [Jobs -> JobRecords] /\ instance \in [Instances -> InstanceRecords]
      /\ Retired \cap Tasks = {} /\ purge.pc \in {"start", "schedulers", "jobs", "done"}
  BY DEF TypeOK, JobRecords, InstanceRecords, CronAssumption
\* A step that brings no retired scheduler and no untaken job keeps the progress.
<1>a. ASSUME UNCHANGED purge, JobsStayTaken, schedulers' \subseteq schedulers \cup Tasks
      PROVE  PurgeProgress' /\ TakenIsTried'
  BY <1>0, <1>a DEF PurgeProgress, JobsStayTaken, Left
<1>b. UNCHANGED job => JobsStayTaken
  BY DEF JobsStayTaken, TakenIsTried, Untaken
<1>c. UNCHANGED instance => StartsDefinedTasks'
  BY DEF StartsDefinedTasks
<1>1. ASSUME NEW i \in Instances, StartStep(i)
      PROVE  StartsDefinedTasks' /\ TakenIsTried' /\ PurgeProgress'
  <2>1. UNCHANGED <<job, purge>>
    BY <1>1 DEF StartStep, Boot, List, RemoveStale, Upsert, RegisterLate, UpsertLate
  <2> QED BY <1>a, <1>b, <1>1, <2>1, StartAdds
<1>2. ASSUME NEW i \in Instances, Crash(i)
      PROVE  StartsDefinedTasks' /\ TakenIsTried' /\ PurgeProgress'
  <2>1. UNCHANGED <<schedulers, job, purge>>
    BY <1>2 DEF Crash
  <2>2. /\ instance'[i].pc = "down"
        /\ \A k \in Instances : k # i => instance'[k] = instance[k]
    BY <1>0, <1>2 DEF Crash, Starting, InstanceRecords
  <2>3. StartsDefinedTasks'
    BY <2>2 DEF StartsDefinedTasks
  <2> QED BY <1>a, <1>b, <2>1, <2>3
<1>3. ASSUME NEW t \in Names, Tick(t)
      PROVE  StartsDefinedTasks' /\ TakenIsTried' /\ PurgeProgress'
  <2>1. PICK j \in Jobs : /\ job[j].state = "unborn"
                          /\ job' = [job EXCEPT ![j].state = "waiting", ![j].task = t]
    BY <1>3 DEF Tick
  <2>2. UNCHANGED <<schedulers, instance, purge>> /\ t \in schedulers
    BY <1>3 DEF Tick
  <2>3. /\ job'[j].state = "waiting" /\ job'[j].task = t
        /\ \A k \in Jobs : k # j => job'[k] = job[k]
    BY <1>0, <2>1 DEF JobRecords
  <2>4. TakenIsTried'
    BY <2>3 DEF TakenIsTried
  <2>5. \A k \in Jobs : Untaken(k)' => Untaken(k) \/ (k = j /\ t \in Retired)
    BY <2>3 DEF Untaken
  <2>6. PurgeProgress'
    <3>1. purge.pc \in {"jobs", "done"} /\ t \in Retired => Left(j)'
      BY <2>2, <2>3 DEF PurgeProgress, Left
    <3>2. \A k \in Jobs : Untaken(k) /\ k # j => (Left(k)' <=> Left(k))
      BY <2>2, <2>3 DEF Left
    <3>3. ~Untaken(j)
      BY <2>1 DEF Untaken
    <3> QED BY <2>2, <2>5, <3>1, <3>2, <3>3 DEF PurgeProgress
  <2> QED BY <1>c, <2>2, <2>4, <2>6
<1>4. ASSUME NEW s \in Slots, Take(s)
      PROVE  StartsDefinedTasks' /\ TakenIsTried' /\ PurgeProgress'
  <2>1. PICK j \in Jobs :
          /\ job[j].state = "waiting"
          /\ job' = [job EXCEPT ![j].state = "active", ![j].tries = @ + 1, ![j].slot = s]
    BY <1>4 DEF Take
  <2>2. /\ job'[j].state = "active" /\ job'[j].tries = job[j].tries + 1 /\ job[j].tries \in Nat
        /\ \A k \in Jobs : k # j => job'[k] = job[k]
    BY <1>0, <2>1 DEF JobRecords
  <2>3. JobsStayTaken
    BY <2>2 DEF JobsStayTaken, TakenIsTried, Untaken
  <2> QED BY <1>a, <1>c, <1>4, <2>3 DEF Take
<1>5. ASSUME NEW s \in Slots, Process(s)
      PROVE  StartsDefinedTasks' /\ TakenIsTried' /\ PurgeProgress'
  <2>1. UNCHANGED <<schedulers, instance, purge>>
    BY <1>5 DEF Process, NoHandler, StartUnlocked, Acquire, Skip, AcquireFails, Handle, Release,
                ReleaseFails
  <2> QED BY <1>a, <1>c, <1>5, <2>1, ProcessStaysTaken
<1>6. ASSUME NEW j \in Jobs, Redeliver(j)
      PROVE  StartsDefinedTasks' /\ TakenIsTried' /\ PurgeProgress'
  <2>1. PICK st \in {"waiting", "failed"} :
          job' = [job EXCEPT ![j].slot = NoSlot, ![j].stalls = @ + 1, ![j].state = st]
    BY <1>6 DEF Redeliver
  <2>2. /\ job'[j].state = st /\ job'[j].tries = job[j].tries
        /\ \A k \in Jobs : k # j => job'[k] = job[k]
    BY <1>0, <2>1 DEF JobRecords
  <2>3. job[j].tries > 0
    BY <1>6 DEF Redeliver, TakenIsTried
  <2>4. JobsStayTaken
    BY <2>2, <2>3 DEF JobsStayTaken, TakenIsTried, Untaken
  <2> QED BY <1>a, <1>c, <1>6, <2>4 DEF Redeliver
<1>7. ASSUME NEW t \in Exclusive, ExpireLock(t)
      PROVE  StartsDefinedTasks' /\ TakenIsTried' /\ PurgeProgress'
  BY <1>a, <1>b, <1>c, <1>7 DEF ExpireLock
<1>8. ASSUME PurgeStep
      PROVE  StartsDefinedTasks' /\ TakenIsTried' /\ PurgeProgress'
  <2>1. CASE PurgeList
    <3>1. purge' = [pc |-> "schedulers", names |-> schedulers \cap Retired, jobs |-> {}, left |-> {}]
          /\ UNCHANGED <<schedulers, instance, job>>
      BY <2>1 DEF PurgeList, Purging
    <3> QED BY <1>b, <1>c, <3>1 DEF PurgeProgress, JobsStayTaken, Left
  <2>2. CASE PurgeScheduler
    <3>1. PICK t \in purge.names :
            \E left \in {purge.left, purge.left \cup {t}} :
              /\ schedulers' = schedulers \ {t} \/ (schedulers' = schedulers /\ t \in left)
              /\ purge' = [pc |-> "schedulers", names |-> purge.names \ {t}, jobs |-> {},
                           left |-> left]
      BY <2>2 DEF PurgeScheduler, Purging
    <3>2. UNCHANGED <<instance, job>> /\ purge.pc = "schedulers"
      BY <2>2 DEF PurgeScheduler
    <3> QED BY <1>b, <1>c, <3>1, <3>2 DEF PurgeProgress, JobsStayTaken
  <2>3. CASE PurgeListJobs
    <3>1. /\ purge.pc = "schedulers" /\ purge.names = {}
          /\ UNCHANGED <<schedulers, instance, job>>
          /\ purge'.pc = "jobs" /\ purge'.left = purge.left
          /\ purge'.jobs = {j \in Jobs : job[j].state = "waiting" /\ job[j].task \in Retired}
      BY <2>3 DEF PurgeListJobs, Purging, SchedulersGone
    <3> QED BY <1>b, <1>c, <3>1 DEF PurgeProgress, JobsStayTaken, Untaken
  <2>4. CASE PurgeJob
    <3>1. PICK j \in purge.jobs :
            \E left \in {purge.left, purge.left \cup {j}} :
              /\ \/ job' = [job EXCEPT ![j].state = "removed"]
                 \/ UNCHANGED job /\ j \in left
              /\ purge' = [pc |-> "jobs", names |-> purge.names, jobs |-> purge.jobs \ {j},
                           left |-> left]
      BY <2>4 DEF PurgeJob, Purging
    <3>2. UNCHANGED <<schedulers, instance>> /\ purge.pc = "jobs"
      BY <2>4 DEF PurgeJob
    <3>3. j \in Jobs
      BY DEF TypeOK
    <3>4. JobsStayTaken /\ (Untaken(j)' => j \in purge'.left)
      <4>1. CASE UNCHANGED job /\ j \in purge'.left
        BY <1>b, <4>1
      <4>2. CASE job' = [job EXCEPT ![j].state = "removed"]
        <5>1. /\ job'[j].state = "removed"
              /\ \A k \in Jobs : k # j => job'[k] = job[k]
          BY <1>0, <3>3, <4>2 DEF JobRecords
        <5> QED BY <5>1 DEF JobsStayTaken, TakenIsTried, Untaken
      <4> QED BY <3>1, <4>1, <4>2
    <3>5. purge.left \subseteq purge'.left
      BY <3>1
    <3> QED BY <1>c, <3>1, <3>2, <3>4, <3>5 DEF PurgeProgress, JobsStayTaken, Left
  <2>5. CASE PurgeDone
    <3>1. /\ purge.pc = "jobs" /\ purge.jobs = {}
          /\ purge'.pc = "done" /\ purge'.left = purge.left
          /\ UNCHANGED <<schedulers, instance, job>>
      BY <2>5 DEF PurgeDone, Purging
    <3> QED BY <1>b, <1>c, <3>1 DEF PurgeProgress, JobsStayTaken, Left
  <2> QED BY <1>8, <2>1, <2>2, <2>3, <2>4, <2>5 DEF PurgeStep
<1>9. CASE UNCHANGED vars
  BY <1>a, <1>b, <1>c, <1>9 DEF vars
<1> QED BY <1>1, <1>2, <1>3, <1>4, <1>5, <1>6, <1>7, <1>8, <1>9 DEF Next, Quiescent

\* A purge that has ended leaves neither a scheduler nor an untaken job of a
\* retired task behind, but what it has failed to remove, whatever the instances
\* that start, crash and take jobs do while it runs.
THEOREM PurgeIsComplete == Spec => []PurgeLeavesNothing
<1>1. Init => PurgeInv
  <2>1. Init => StartsDefinedTasks /\ TakenIsTried /\ PurgeProgress
    BY DEF Init, StartsDefinedTasks, TakenIsTried, PurgeProgress
  <2> QED BY <2>1, InitTypes, CronAssumption DEF PurgeInv
<1>2. PurgeInv /\ [Next]_vars => PurgeInv'
  BY NextTypes, NextPurge, CronAssumption DEF PurgeInv
<1>3. PurgeInv => PurgeLeavesNothing
  BY DEF PurgeInv, PurgeProgress, PurgeLeavesNothing, Untaken, Left
<1> QED BY <1>1, <1>2, <1>3, PTL DEF Spec

-----------------------------------------------------------------------------
(* A skip. The lock of a task is set on the way into its handler and deleted  *)
(* on the way out, so while no process dies and no command on the lock fails   *)
(* a lock that is held belongs to a slot that is inside.                       *)
HeldIsRunning ==
    /\ \A t \in Exclusive : lock[t] # None => \E s \in Slots : Running(s, t)
    /\ crashes = 0

LEMMA NextHeld ==
    ASSUME CronAssumption, MaxCrashes = 0, "lock" \notin Faults, TInv, HeldIsRunning, [Next]_vars
    PROVE  HeldIsRunning'
<1>0. /\ job \in [Jobs -> JobRecords] /\ slot \in [Slots -> SlotRecords]
      /\ lock \in [Exclusive -> Jobs \cup {None}] /\ FreeSlot.pc = "free"
      /\ TypeOK /\ SlotsHoldJobs
  BY DEF TInv, TypeOK, JobRecords, SlotRecords, FreeSlot
\* A step that sets no lock and leaves every slot inside where it is.
<1>a. ASSUME JobsKeepTask, UNCHANGED <<lock, crashes>>,
             \A s \in Slots : slot[s].pc \in {"handler", "release"} => slot'[s] = slot[s]
      PROVE  HeldIsRunning'
  <2>1. \A s \in Slots, t \in Exclusive : Running(s, t) => Running(s, t)'
    BY <1>0, <1>a DEF Running, TaskOf, SlotsHoldJobs, JobsKeepTask
  <2> QED BY <1>a, <2>1 DEF HeldIsRunning
<1>1. ASSUME NEW i \in Instances, StartStep(i) PROVE HeldIsRunning'
  <2>1. UNCHANGED <<job, slot, lock, crashes>>
    BY <1>1 DEF StartStep, Boot, List, RemoveStale, Upsert, RegisterLate, UpsertLate
  <2> QED BY <1>a, <2>1 DEF JobsKeepTask
<1>2. ASSUME NEW i \in Instances, Crash(i) PROVE FALSE
  BY <1>2 DEF Crash, HeldIsRunning
<1>3. ASSUME NEW t \in Names, Tick(t) PROVE HeldIsRunning'
  <2>1. JobsKeepTask
    BY <1>0, <1>3 DEF Tick, JobsKeepTask
  <2> QED BY <1>a, <1>3, <2>1 DEF Tick
<1>4. ASSUME NEW s \in Slots, Take(s) PROVE HeldIsRunning'
  <2>1. JobsKeepTask
    BY <1>0, <1>4 DEF Take, JobsKeepTask, JobRecords
  <2>2. \A r \in Slots : slot[r].pc # "free" => slot'[r] = slot[r]
    BY <1>0, <1>4 DEF Take
  <2> QED BY <1>a, <1>4, <2>1, <2>2 DEF Take
<1>5. ASSUME NEW s \in Slots, Process(s) PROVE HeldIsRunning'
  <2>0. slot[s].pc # "free" /\ UNCHANGED crashes
    BY <1>5 DEF Process, NoHandler, StartUnlocked, Acquire, Skip, AcquireFails, Handle, Release,
                ReleaseFails, At
  <2>j. slot[s].job \in Jobs /\ slot[s].ok \in BOOLEAN
    BY <1>0, <2>0 DEF SlotsHoldJobs, SlotRecords
  <2>1. ASSUME NEW ok \in BOOLEAN, Settle(s, ok), UNCHANGED lock, slot[s].pc = "taken"
        PROVE  HeldIsRunning'
    BY <1>0, <1>a, <2>0, <2>1, SettleKeeps
  <2>2. CASE NoHandler(s) \/ Skip(s)
    BY <2>1, <2>2 DEF NoHandler, Skip, At
  <2>3. CASE StartUnlocked(s)
    <3>1. UNCHANGED <<job, lock>> /\ slot' = [slot EXCEPT ![s].pc = "handler"]
          /\ slot[s].pc = "taken"
      BY <2>3 DEF StartUnlocked, Handling, At
    <3>2. \A r \in Slots : r # s => slot'[r] = slot[r]
      BY <1>0, <3>1
    <3> QED BY <1>a, <2>0, <3>1, <3>2 DEF JobsKeepTask
  <2>4. CASE Acquire(s)
    <3>0. PICK u \in Exclusive : u = TaskOf(s)
      BY <2>4 DEF Acquire, Guarded
    <3>1. /\ UNCHANGED job /\ slot' = [slot EXCEPT ![s].pc = "handler"]
          /\ lock' = [lock EXCEPT ![u] = slot[s].job]
          /\ slot[s].pc = "taken"
      BY <2>4, <3>0 DEF Acquire, Handling, LockValue, Guarded, At
    <3>2. /\ \A r \in Slots : r # s => slot'[r] = slot[r]
          /\ slot'[s].pc = "handler" /\ slot'[s].job = slot[s].job
      BY <1>0, <3>1 DEF SlotRecords
    <3>3. Running(s, u)' /\ \A r \in Slots, t \in Exclusive : Running(r, t) => Running(r, t)'
      BY <3>0, <3>1, <3>2 DEF Running, TaskOf
    <3>4. \A t \in Exclusive : t # u => lock'[t] = lock[t]
      BY <1>0, <3>1
    <3> QED BY <2>0, <3>3, <3>4 DEF HeldIsRunning
  <2>5. CASE Handle(s)
    <3>1. UNCHANGED lock /\ slot[s].pc = "handler"
      BY <2>5 DEF Handle, At
    <3>2. CASE ~Guarded(s) /\ \E ok \in BOOLEAN : Settle(s, ok)
      <4>1. JobsKeepTask /\ \A r \in Slots : r # s => slot'[r] = slot[r]
        BY <1>0, <2>0, <3>2, SettleKeeps
      <4>2. \A r \in Slots, t \in Exclusive : Running(r, t) => Running(r, t)'
        <5> SUFFICES ASSUME NEW r \in Slots, NEW t \in Exclusive, Running(r, t)
                     PROVE  Running(r, t)'
          OBVIOUS
        <5>1. r # s
          BY <3>2 DEF Running, Guarded
        <5> QED BY <1>0, <4>1, <5>1 DEF Running, TaskOf, SlotsHoldJobs, JobsKeepTask
      <4> QED BY <2>0, <3>1, <4>2 DEF HeldIsRunning
    <3>3. CASE UNCHANGED job /\ \E ok \in BOOLEAN :
                  slot' = [slot EXCEPT ![s].pc = "release", ![s].ok = ok]
      <4>1. PICK ok \in BOOLEAN : slot' = [slot EXCEPT ![s].pc = "release", ![s].ok = ok]
        BY <3>3
      <4>2. /\ \A r \in Slots : slot'[r].job = slot[r].job /\ (r # s => slot'[r] = slot[r])
            /\ slot'[s].pc = "release"
        BY <1>0, <4>1 DEF SlotRecords
      <4>3. \A r \in Slots, t \in Exclusive : Running(r, t) => Running(r, t)'
        BY <3>3, <4>2 DEF Running, TaskOf
      <4> QED BY <2>0, <3>1, <4>3 DEF HeldIsRunning
    <3> QED BY <2>5, <3>2, <3>3 DEF Handle
  <2>6. CASE Release(s)
    <3> DEFINE u == TaskOf(s)
    <3>1. lock' = [lock EXCEPT ![u] = None] /\ Settle(s, slot[s].ok)
      BY <2>6 DEF Release, Released
    <3>2. JobsKeepTask /\ \A r \in Slots : r # s => slot'[r] = slot[r]
      BY <1>0, <2>0, <2>j, <3>1, SettleKeeps
    <3>3. \A r \in Slots, t \in Exclusive : t # u /\ Running(r, t) => Running(r, t)'
      <4> SUFFICES ASSUME NEW r \in Slots, NEW t \in Exclusive, t # u, Running(r, t)
                   PROVE  Running(r, t)'
        OBVIOUS
      <4>1. r # s
        BY DEF Running
      <4> QED BY <1>0, <3>2, <4>1 DEF Running, TaskOf, SlotsHoldJobs, JobsKeepTask
    <3>4. \A t \in Exclusive : lock'[t] = IF t = u THEN None ELSE lock[t]
      BY <1>0, <3>1
    <3> HIDE DEF u
    <3> QED BY <2>0, <3>3, <3>4 DEF HeldIsRunning
  <2>7. ~AcquireFails(s) /\ ~ReleaseFails(s)
    BY DEF AcquireFails, ReleaseFails
  <2> QED BY <1>5, <2>2, <2>3, <2>4, <2>5, <2>6, <2>7 DEF Process
<1>6. ASSUME NEW j \in Jobs, Redeliver(j) PROVE HeldIsRunning'
  <2>1. JobsKeepTask
    BY <1>0, <1>6 DEF Redeliver, JobsKeepTask, JobRecords
  <2> QED BY <1>a, <1>6, <2>1 DEF Redeliver
<1>7. ASSUME NEW t \in Exclusive, ExpireLock(t) PROVE HeldIsRunning'
  <2>1. UNCHANGED <<job, slot, crashes>> /\ lock' = [lock EXCEPT ![t] = None]
    BY <1>7 DEF ExpireLock
  <2>2. \A u \in Exclusive : lock'[u] # None => lock[u] # None
    BY <1>0, <2>1
  <2> QED BY <2>1, <2>2 DEF HeldIsRunning, Running, TaskOf
<1>8. CASE PurgeStep
  <2>1. UNCHANGED <<slot, lock, crashes>>
    BY <1>8 DEF PurgeStep, PurgeList, PurgeScheduler, PurgeListJobs, PurgeJob, PurgeDone
  <2>2. JobsKeepTask
    <3>1. CASE PurgeJob
      <4>1. PICK j \in Jobs : job' = job \/ job' = [job EXCEPT ![j].state = "removed"]
        BY <1>0, <3>1 DEF PurgeJob, TypeOK
      <4> QED BY <1>0, <4>1 DEF JobsKeepTask, JobRecords
    <3>2. CASE UNCHANGED job
      BY <3>2 DEF JobsKeepTask
    <3> QED BY <1>8, <3>1, <3>2 DEF PurgeStep, PurgeList, PurgeScheduler, PurgeListJobs, PurgeDone
  <2> QED BY <1>a, <2>1, <2>2
<1>9. CASE UNCHANGED vars
  BY <1>a, <1>9 DEF vars, JobsKeepTask
<1> QED BY <1>1, <1>2, <1>3, <1>4, <1>5, <1>6, <1>7, <1>8, <1>9 DEF Next, Quiescent

\* Where no process dies and no command on a lock fails, an invocation that is
\* skipped gives way to one that is running, on whichever instance, also when a
\* stalled job is delivered twice or a handler outlasts its lock.
THEOREM SkipsGiveWay ==
    ASSUME MaxCrashes = 0, "lock" \notin Faults
    PROVE  Spec => SkipOnlyWhileRunning
<1> DEFINE A == \A s \in Slots : Skip(s) => Inside(TaskOf(s)) # {}
<1>1. Init => TInv /\ HeldIsRunning
  BY InitTypes, CronAssumption DEF Init, HeldIsRunning
<1>2. TInv /\ HeldIsRunning /\ [Next]_vars => TInv' /\ HeldIsRunning'
  BY NextTypes, NextHeld, CronAssumption
<1>3. HeldIsRunning => A
  BY DEF HeldIsRunning, Skip, Guarded, SetNX, Inside, Running
<1>4. HeldIsRunning /\ [Next]_vars => [A]_vars
  BY <1>3
<1> HIDE DEF A
<1>5. Spec => [][A]_vars
  BY <1>1, <1>2, <1>4, PTL DEF Spec
<1> QED BY <1>5 DEF A, SkipOnlyWhileRunning
====
