------------------------------ MODULE CronTasks ------------------------------
(* The cron tasks of @modern-admin/queue (CronService and CronProcessor):    *)
(* how the schedulers kept in Redis follow the tasks the code defines, and    *)
(* how a task marked skipIfRunning is guarded by a lock in Redis, over        *)
(* several instances that start, crash and take jobs from one queue.          *)
(*                                                                           *)
(* BullMQ is external: its schedulers produce jobs, a worker slot takes one,  *)
(* a job that throws is tried again, a job whose worker went away is stalled  *)
(* and delivered once more.                                                   *)
EXTENDS Naturals, FiniteSets

CONSTANTS
    Instances,    \* processes running the same version of the code
    Concurrency,  \* DEFAULT_CRON_WORKER_CONCURRENCY: worker slots per instance
    Tasks,        \* the tasks this version defines
    Late,         \* those registered by modules that start after CronService
    Retired,      \* tasks of older versions, whose schedulers may be left
    Exclusive,    \* the tasks with skipIfRunning
    Jobs,         \* bound on the invocations
    None,         \* no job: a lock that is not held, a slot that is free
    MaxAttempts,  \* opts.attempts
    MaxCrashes,   \* bound on the crashes
    Faults,       \* what may fail: commands on the lock keys, on the schedulers,
                  \* those of a purge, handlers, the renewal of a job's lease
                  \* while its handler still runs (a stall)
    MayOutlast    \* a handler may run longer than DEFAULT_CRON_LOCK_TTL

ASSUME CronAssumption ==
    /\ Late \subseteq Tasks /\ Exclusive \subseteq Tasks
    /\ Retired \cap Tasks = {}
    /\ None \notin Jobs
    /\ Concurrency \in Nat \ {0} /\ MaxAttempts \in Nat \ {0} /\ MaxCrashes \in Nat
    /\ Faults \subseteq {"lock", "queue", "purge", "handler", "stall"}
    /\ MayOutlast \in BOOLEAN

VARIABLES
    schedulers,   \* the job schedulers in Redis, by task name
    instance,     \* per instance: how far its start is, and the names it still has to do
    job,          \* the queue: each job's task, state, tries, stalls and slot
    slot,         \* the worker slots: what each is doing, for which job
    lock,         \* ma:cron-lock:<task>: the id of the job that set it
    purge,        \* the purgeTasks call
    crashes

vars == <<schedulers, instance, job, slot, lock, purge, crashes>>

Names == Tasks \cup Retired
Slots == Instances \X (1 .. Concurrency)
NoSlot == <<None, 0>>
FreeSlot == [pc |-> "free", job |-> None, ok |-> TRUE]

Up(i) == instance[i].pc # "down"

\* The tasks getHandler knows in an instance: decorated methods from the first
\* step of its start, the others once their module has registered them.
Registered(i) ==
    CASE instance[i].pc = "down"  -> {}
      [] instance[i].pc = "ready" -> Tasks
      [] OTHER                    -> Tasks \ Late

-----------------------------------------------------------------------------
(* Start of an instance: onModuleInit, syncSchedulers, register.              *)

Starting(i, pc, todo) == instance' = [instance EXCEPT ![i].pc = pc, ![i].todo = todo]

\* The steps of syncSchedulers in order; a step with nothing to do is passed over.
ToUpsert(i) ==
    IF Tasks \ Late = {} THEN Starting(i, "register", {})
                         ELSE Starting(i, "upsert", Tasks \ Late)

ToRemove(i, names) ==
    IF names = {} THEN ToUpsert(i) ELSE Starting(i, "remove", names)

\* discoverCronTasks runs before the first await; the worker takes jobs already.
Boot(i) ==
    /\ instance[i].pc = "down"
    /\ Starting(i, "list", {})
    /\ UNCHANGED <<schedulers, job, slot, lock, purge, crashes>>

\* getJobSchedulers; when it throws the whole synchronisation is given up.
List(i) ==
    /\ instance[i].pc = "list"
    /\ \/ ToRemove(i, schedulers \ Registered(i))
       \/ "queue" \in Faults /\ Starting(i, "register", {})
    /\ UNCHANGED <<schedulers, job, slot, lock, purge, crashes>>

\* A scheduler that no registered task claims is removed; a failure is logged.
RemoveStale(i) ==
    /\ instance[i].pc = "remove"
    /\ \E t \in instance[i].todo :
        /\ \/ schedulers' = schedulers \ {t}
           \/ "queue" \in Faults /\ UNCHANGED schedulers
        /\ ToRemove(i, instance[i].todo \ {t})
    /\ UNCHANGED <<job, slot, lock, purge, crashes>>

\* upsertScheduler of the registered definitions; a failure is logged.
Upsert(i) ==
    /\ instance[i].pc = "upsert"
    /\ \E t \in instance[i].todo :
        /\ \/ schedulers' = schedulers \cup {t}
           \/ "queue" \in Faults /\ UNCHANGED schedulers
        /\ IF instance[i].todo = {t} THEN Starting(i, "register", {})
                                     ELSE Starting(i, "upsert", instance[i].todo \ {t})
    /\ UNCHANGED <<job, slot, lock, purge, crashes>>

\* A register that forgets to upsert once the service is initialized.
NoUpserts == {}

\* The upserts register starts on its own after the initialization.
LateUpserts == Late

\* The other modules start, and register their tasks.
RegisterLate(i) ==
    /\ instance[i].pc = "register"
    /\ Starting(i, "ready", LateUpserts)
    /\ UNCHANGED <<schedulers, job, slot, lock, purge, crashes>>

\* `void this.upsertScheduler(definition)`: nobody awaits it or sees it fail.
UpsertLate(i) ==
    /\ instance[i].pc = "ready"
    /\ \E t \in instance[i].todo :
        /\ \/ schedulers' = schedulers \cup {t}
           \/ "queue" \in Faults /\ UNCHANGED schedulers
        /\ Starting(i, "ready", instance[i].todo \ {t})
    /\ UNCHANGED <<job, slot, lock, purge, crashes>>

-----------------------------------------------------------------------------
(* The queue.                                                                 *)

\* A scheduler produces a job; the next one is armed when a worker takes it.
Tick(t) ==
    /\ t \in schedulers
    /\ \A j \in Jobs : job[j].task = t /\ job[j].state = "waiting" => job[j].tries > 0
    /\ \E j \in Jobs :
        /\ job[j].state = "unborn"
        /\ job' = [job EXCEPT ![j].state = "waiting", ![j].task = t]
    /\ UNCHANGED <<schedulers, instance, slot, lock, purge, crashes>>

Take(s) ==
    /\ Up(s[1]) /\ slot[s].pc = "free"
    /\ \E j \in Jobs :
        /\ job[j].state = "waiting"
        /\ job' = [job EXCEPT ![j].state = "active", ![j].tries = @ + 1, ![j].slot = s]
        /\ slot' = [slot EXCEPT ![s] = [pc |-> "taken", job |-> j, ok |-> TRUE]]
    /\ UNCHANGED <<schedulers, instance, lock, purge, crashes>>

\* The outcome of process reaches the queue if the slot still owns the job: a
\* job that threw is tried again while it has attempts left.
Settle(s, ok) ==
    LET j == slot[s].job IN
    /\ job' = IF job[j].state # "active" \/ job[j].slot # s THEN job
              ELSE [job EXCEPT ![j].slot = NoSlot,
                               ![j].state = CASE ok -> "completed"
                                              [] ~ok /\ job[j].tries < MaxAttempts -> "waiting"
                                              [] OTHER -> "failed"]
    /\ slot' = [slot EXCEPT ![s] = FreeSlot]

\* A job whose worker is gone, or did not renew its lease, goes back to the
\* queue once (maxStalledCount); then it is failed.
Redeliver(j) ==
    /\ job[j].state = "active"
    /\ "stall" \in Faults \/ slot[job[j].slot].job # j
    /\ job' = [job EXCEPT ![j].slot = NoSlot, ![j].stalls = @ + 1,
                          ![j].state = IF job[j].stalls = 0 THEN "waiting" ELSE "failed"]
    /\ UNCHANGED <<schedulers, instance, slot, lock, purge, crashes>>

-----------------------------------------------------------------------------
(* CronProcessor.process.                                                     *)

At(s, pc) == slot[s].pc = pc
TaskOf(s) == job[slot[s].job].task
Guarded(s) == TaskOf(s) \in Exclusive

\* No handler is registered (yet) for the job's name: process throws.
NoHandler(s) ==
    /\ At(s, "taken") /\ TaskOf(s) \notin Registered(s[1])
    /\ Settle(s, FALSE)
    /\ UNCHANGED <<schedulers, instance, lock, purge, crashes>>

Handling(s) == slot' = [slot EXCEPT ![s].pc = "handler"]

StartUnlocked(s) ==
    /\ At(s, "taken") /\ TaskOf(s) \in Registered(s[1]) /\ ~Guarded(s)
    /\ Handling(s)
    /\ UNCHANGED <<schedulers, instance, job, lock, purge, crashes>>

\* SET without NX: the reply is always OK.
SetAlways(t) == TRUE

\* SET ma:cron-lock:<task> <job id> EX 300 NX.
SetNX(t) == lock[t] = None

\* The lock holds the id of the job, not the name of the task.
NameOf(j) == job[j].task
LockValue(j) == j

Acquire(s) ==
    /\ At(s, "taken") /\ TaskOf(s) \in Registered(s[1]) /\ Guarded(s)
    /\ SetNX(TaskOf(s))
    /\ lock' = [lock EXCEPT ![TaskOf(s)] = LockValue(slot[s].job)]
    /\ Handling(s)
    /\ UNCHANGED <<schedulers, instance, job, purge, crashes>>

\* The lock is held: the invocation returns at once, and counts as completed.
Skip(s) ==
    /\ At(s, "taken") /\ TaskOf(s) \in Registered(s[1]) /\ Guarded(s)
    /\ ~SetNX(TaskOf(s))
    /\ Settle(s, TRUE)
    /\ UNCHANGED <<schedulers, instance, lock, purge, crashes>>

AcquireFails(s) ==
    /\ "lock" \in Faults
    /\ At(s, "taken") /\ TaskOf(s) \in Registered(s[1]) /\ Guarded(s)
    /\ Settle(s, FALSE)
    /\ UNCHANGED <<schedulers, instance, lock, purge, crashes>>

\* executeHandler returns or throws; a guarded one goes on to its finally block.
Handle(s) ==
    /\ At(s, "handler")
    /\ \E ok \in IF "handler" \in Faults THEN BOOLEAN ELSE {TRUE} :
        IF Guarded(s)
          THEN /\ slot' = [slot EXCEPT ![s].pc = "release", ![s].ok = ok]
               /\ UNCHANGED job
          ELSE Settle(s, ok)
    /\ UNCHANGED <<schedulers, instance, lock, purge, crashes>>

\* Without try/finally only a handler that returned releases the lock.
ReleasedOnReturn(s) == IF slot[s].ok THEN None ELSE lock[TaskOf(s)]

\* DEL of the key, whoever set it.
Released(s) == None

Release(s) ==
    /\ At(s, "release")
    /\ lock' = [lock EXCEPT ![TaskOf(s)] = Released(s)]
    /\ Settle(s, slot[s].ok)
    /\ UNCHANGED <<schedulers, instance, purge, crashes>>

\* DEL throws, which replaces the outcome of the handler.
ReleaseFails(s) ==
    /\ "lock" \in Faults
    /\ At(s, "release")
    /\ Settle(s, FALSE)
    /\ UNCHANGED <<schedulers, instance, lock, purge, crashes>>

\* The slots that are inside the guarded section of a task.
Inside(t) == {s \in Slots : slot[s].pc \in {"handler", "release"} /\ TaskOf(s) = t}

\* A key set without EX.
NoExpiry(t) == FALSE

\* EX 300: the key outlives the handler it was set for unless MayOutlast.
Expires(t) == lock[t] # None /\ (MayOutlast \/ \A s \in Inside(t) : slot[s].job # lock[t])

ExpireLock(t) ==
    /\ Expires(t)
    /\ lock' = [lock EXCEPT ![t] = None]
    /\ UNCHANGED <<schedulers, instance, job, slot, purge, crashes>>

-----------------------------------------------------------------------------
(* purgeTasks(Retired), called from a process of its own. purge.left holds    *)
(* the schedulers and jobs it logs that it failed to remove.                  *)

Purging(pc, names, jobs, left) ==
    purge' = [pc |-> pc, names |-> names, jobs |-> jobs, left |-> left]

\* getJobSchedulers.
PurgeList ==
    /\ purge.pc = "start" /\ Retired # {}
    /\ Purging("schedulers", schedulers \cap Retired, {}, {})
    /\ UNCHANGED <<schedulers, instance, job, slot, lock, crashes>>

\* removeJobScheduler of one of them; after a failure it goes on with the next.
PurgeScheduler ==
    /\ purge.pc = "schedulers"
    /\ \E t \in purge.names :
        \/ /\ schedulers' = schedulers \ {t}
           /\ Purging("schedulers", purge.names \ {t}, {}, purge.left)
        \/ /\ "purge" \in Faults
           /\ Purging("schedulers", purge.names \ {t}, {}, purge.left \cup {t})
           /\ UNCHANGED schedulers
    /\ UNCHANGED <<instance, job, slot, lock, crashes>>

\* A purge that lists the jobs while it still has schedulers to remove.
EagerListing == TRUE
SchedulersGone == purge.names = {}

\* getJobs(['waiting', 'delayed']).
PurgeListJobs ==
    /\ purge.pc = "schedulers" /\ SchedulersGone
    /\ Purging("jobs", purge.names,
               {j \in Jobs : job[j].state = "waiting" /\ job[j].task \in Retired}, purge.left)
    /\ UNCHANGED <<schedulers, instance, job, slot, lock, crashes>>

\* j.remove(), which throws also if a worker holds the job by now.
PurgeJob ==
    /\ purge.pc = "jobs"
    /\ \E j \in purge.jobs :
        \/ /\ job[j].state # "active"
           /\ job' = [job EXCEPT ![j].state = "removed"]
           /\ Purging("jobs", purge.names, purge.jobs \ {j}, purge.left)
        \/ /\ job[j].state = "active" \/ "purge" \in Faults
           /\ Purging("jobs", purge.names, purge.jobs \ {j}, purge.left \cup {j})
           /\ UNCHANGED job
    /\ UNCHANGED <<schedulers, instance, slot, lock, crashes>>

PurgeDone ==
    /\ purge.pc = "jobs" /\ purge.jobs = {}
    /\ Purging("done", {}, {}, purge.left)
    /\ UNCHANGED <<schedulers, instance, job, slot, lock, crashes>>

-----------------------------------------------------------------------------
\* A process dies: its jobs stay active in the queue, its locks in Redis.
Crash(i) ==
    /\ Up(i) /\ crashes < MaxCrashes
    /\ crashes' = crashes + 1
    /\ Starting(i, "down", {})
    /\ slot' = [s \in Slots |-> IF s[1] = i THEN FreeSlot ELSE slot[s]]
    /\ UNCHANGED <<schedulers, job, lock, purge>>

\* Redis holds whatever schedulers earlier versions and runs have left.
Init ==
    /\ schedulers \in SUBSET Names
    /\ instance = [i \in Instances |-> [pc |-> "down", todo |-> {}]]
    /\ job = [j \in Jobs |-> [task |-> None, state |-> "unborn", tries |-> 0, stalls |-> 0,
                              slot |-> NoSlot]]
    /\ slot = [s \in Slots |-> FreeSlot]
    /\ lock = [t \in Exclusive |-> None]
    /\ purge = [pc |-> "start", names |-> {}, jobs |-> {}, left |-> {}]
    /\ crashes = 0

StartStep(i) ==
    \/ Boot(i) \/ List(i) \/ RemoveStale(i) \/ Upsert(i) \/ RegisterLate(i) \/ UpsertLate(i)

Process(s) ==
    \/ NoHandler(s) \/ StartUnlocked(s) \/ Acquire(s) \/ Skip(s) \/ AcquireFails(s)
    \/ Handle(s) \/ Release(s) \/ ReleaseFails(s)

PurgeStep == PurgeList \/ PurgeScheduler \/ PurgeListJobs \/ PurgeJob \/ PurgeDone

\* Every job has been dealt with and no instance has anything to do.
Quiescent ==
    /\ \A j \in Jobs : job[j].state \notin {"waiting", "active"}
    /\ \A i \in Instances : Up(i)
    /\ UNCHANGED vars

Next ==
    \/ \E i \in Instances : StartStep(i) \/ Crash(i)
    \/ \E t \in Names : Tick(t)
    \/ \E s \in Slots : Take(s) \/ Process(s)
    \/ \E j \in Jobs : Redeliver(j)
    \/ \E t \in Exclusive : ExpireLock(t)
    \/ PurgeStep \/ Quiescent

Spec == Init /\ [][Next]_vars

\* A supervisor starts every instance again, promises settle, keys expire.
Fairness ==
    /\ \A i \in Instances : WF_vars(StartStep(i))
    /\ \A s \in Slots : WF_vars(Process(s))
    /\ \A t \in Exclusive : WF_vars(ExpireLock(t))

FairSpec == Spec /\ Fairness

-----------------------------------------------------------------------------
(* Properties.                                                               *)

StartPcs == {"down", "list", "remove", "upsert", "register", "ready"}
JobStates == {"unborn", "waiting", "active", "completed", "failed", "removed"}

\* The keys in Redis hold names and job ids, and the queue's records are whole.
TypeOK ==
    /\ schedulers \subseteq Names
    /\ instance \in [Instances -> [pc : StartPcs, todo : SUBSET Names]]
    /\ job \in [Jobs -> [task : Names \cup {None}, state : JobStates, tries : Nat,
                         stalls : Nat, slot : Slots \cup {NoSlot}]]
    /\ slot \in [Slots -> [pc : {"free", "taken", "handler", "release"},
                           job : Jobs \cup {None}, ok : BOOLEAN]]
    /\ lock \in [Exclusive -> Jobs \cup {None}]
    /\ purge \in [pc : {"start", "schedulers", "jobs", "done"}, names : SUBSET Names,
                  jobs : SUBSET Jobs, left : SUBSET (Names \cup Jobs)]
    /\ crashes \in Nat

\* A task marked skipIfRunning never runs twice at a time, on any instances.
NoOverlap == \A t \in Exclusive : \A s, r \in Inside(t) : s = r

\* An invocation is skipped only while another execution of its task is active.
SkipOnlyWhileRunning ==
    [][\A s \in Slots : Skip(s) => Inside(TaskOf(s)) # {}]_vars

\* A lock does not outlive its holder for ever: a crash, or a DEL that failed,
\* delays the task by the TTL and does not end it.
LocksReleased == \A t \in Exclusive : lock[t] # None ~> lock[t] = None

\* A start may take a defined task's scheduler away for a while, and another
\* instance's work with it, but it is always brought back.
SchedulersRecover == \A t \in Tasks : []<>(t \in schedulers)

\* A purge leaves no scheduler and no job that no worker had taken, but those
\* it failed to remove and the jobs such a scheduler goes on producing.
PurgeLeavesNothing ==
    purge.pc = "done" =>
        /\ schedulers \cap Retired \subseteq purge.left
        /\ \A j \in Jobs :
            job[j].state = "waiting" /\ job[j].task \in Retired =>
                job[j].tries > 0 \/ j \in purge.left \/ job[j].task \in purge.left
=============================================================================
