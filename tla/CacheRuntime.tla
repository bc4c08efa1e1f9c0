---------------------------- MODULE CacheRuntime ----------------------------
(***************************************************************************)
(* The read-side cache coordinator (core/src/actions/cache-runtime.ts) of   *)
(* several replicas over one shared provider with atomic scripts            *)
(* (cache-redis/src/index.ts with EVAL, or MemoryCacheProvider in one       *)
(* process).  Every await of the code is a point where other requests run;  *)
(* a step is the code between two awaits, or one command of the provider.   *)
(*                                                                         *)
(* A cached value is abstracted to the version of the source data under     *)
(* each tag of its key.  fence is a history variable: the version of a tag  *)
(* at its last invalidation in the provider.                                *)
(***************************************************************************)
EXTENDS Naturals, FiniteSets

CONSTANTS Replica,    \* processes, each with its own CacheRuntime
          Key,        \* cache keys
          Tag,        \* invalidation tags
          TagsOf,     \* Key -> the tags its entry is stored under
          Reader,     \* read requests
          Mutation,   \* writes of the source data
          Flusher,    \* slots for concurrent runs of flushQuarantine
          At,         \* the replica of each request and slot
          KeyOf,      \* the key each reader asks for
          Writes,     \* the tags each mutation invalidates
          Forced,     \* readers that may set options.refresh
          Uncached,   \* readers with options.enabled = false
          Locking,    \* readers with options.crossReplicaLock
          OutOfBand,  \* mutations made behind the runtime's back
          Attempts,   \* invalidationAttempts
          MaxFaults,  \* bound: provider and source calls that fail
          None

Job == Reader \cup Mutation \cup Flusher

ASSUME CacheAssumption ==
    /\ TagsOf \in [Key -> SUBSET Tag]
    /\ At \in [Job -> Replica]
    /\ KeyOf \in [Reader -> Key]
    /\ Writes \in [Mutation -> SUBSET Tag]
    /\ Forced \subseteq Reader /\ Uncached \subseteq Reader /\ Locking \subseteq Reader
    /\ OutOfBand \subseteq Mutation
    /\ Attempts \in Nat \ {0} /\ MaxFaults \in Nat
    /\ None \notin Reader
    /\ Reader \cap Mutation = {} /\ Reader \cap Flusher = {} /\ Mutation \cap Flusher = {}

VARIABLES
    db, fence,                                    \* source data, history
    entries, tagEpochs, lock,                     \* the provider
    localTagEpochs, dirtyTags, quarantineTimer,   \* one CacheRuntime per replica
    inFlight,
    pc, loc, snap, snap2, cached, val, leader,    \* read(), its locals
    served,                                       \* the epochs a snapshot in progress has got
    floor,                                        \* history: what its answer has to see
    superseded, refreshed, notified,              \* history: leaders a forced read has fenced,
                                                  \* the forced reads that were stored, and
                                                  \* those that have run onChanged
    inv,                                          \* invalidateProviderWithRetry
    mpc, mver, raced,                             \* a mutation, the versions it made; history: its
                                                  \* tags with an invalidation about to return
    faults

provider == <<entries, tagEpochs, lock>>
runtime  == <<localTagEpochs, dirtyTags, quarantineTimer, inFlight>>
reading  == <<pc, loc, snap, snap2, cached, val, leader, floor, superseded, refreshed,
              notified>>
source   == <<db, fence>>
vars == <<source, provider, runtime, reading, served, inv, mpc, mver, raced, faults>>

Idle == [pc |-> "idle", tags |-> {}, n |-> 0]
NoneServed == [t \in {} |-> 0]
TagsFor(c) == TagsOf[KeyOf[c]]
Enabled(c) == c \notin Uncached

Init ==
    /\ db = [t \in Tag |-> 0] /\ fence = [t \in Tag |-> 0]
    /\ entries = [k \in Key |-> None]
    /\ tagEpochs = [t \in Tag |-> 0]
    /\ lock = [k \in Key |-> None]
    /\ localTagEpochs = [r \in Replica |-> [t \in Tag |-> 0]]
    /\ dirtyTags = [r \in Replica |-> {}]
    /\ quarantineTimer = [r \in Replica |-> FALSE]
    /\ inFlight = [r \in Replica |-> [k \in Key |-> None]]
    /\ pc = [c \in Reader |-> "idle"]
    /\ loc = [c \in Reader |-> None]
    /\ snap = [c \in Reader |-> None] /\ snap2 = [c \in Reader |-> None]
    /\ cached = [c \in Reader |-> None] /\ val = [c \in Reader |-> None]
    /\ leader = [c \in Reader |-> None] /\ floor = [c \in Reader |-> None]
    /\ served = [c \in Reader |-> NoneServed]
    /\ superseded = [c \in Reader |-> {}] /\ refreshed = {} /\ notified = {}
    /\ inv = [j \in Job |-> Idle]
    /\ mpc = [m \in Mutation |-> "idle"]
    /\ mver = [m \in Mutation |-> None] /\ raced = [m \in Mutation |-> {}]
    /\ faults = 0

Fault == faults < MaxFaults /\ faults' = faults + 1
NoFault == UNCHANGED faults

-----------------------------------------------------------------------------
(* Helpers of the runtime. *)

LocalEpochs(c) == [t \in TagsFor(c) |-> localTagEpochs[At[c]][t]]

hasDirtyTag(c) == TagsFor(c) \cap dirtyTags[At[c]] # {}

localSnapshotStillCurrent(c) == snap[c].local = LocalEpochs(c)

GoTo(c, l) == pc' = [pc EXCEPT ![c] = l]

(* The synchronous half of snapshot(): the local epochs are captured, then  *)
(* the external ones are awaited at label l.                                *)
Capture(c, l) == /\ loc' = [loc EXCEPT ![c] = LocalEpochs(c)]
                 /\ GoTo(c, l)

SharesAny(c, s) == inFlight[At[c]][KeyOf[c]] # None

(* sameSnapshot with the computation in flight: null equals only null.      *)
Shares(c, s) == /\ inFlight[At[c]][KeyOf[c]] # None
                /\ inFlight[At[c]][KeyOf[c]].snapshot = s

(* readThroughInFlight: share the computation of an equal snapshot, or lead *)
(* a new one.                                                               *)
Join(c, s) ==
    LET r == At[c]  k == KeyOf[c] IN
    /\ snap' = [snap EXCEPT ![c] = s]
    /\ IF Shares(c, s)
       THEN /\ leader' = [leader EXCEPT ![c] = inFlight[r][k].leader]
            /\ GoTo(c, "joined")
            /\ UNCHANGED inFlight
       ELSE /\ leader' = [leader EXCEPT ![c] = c]
            /\ inFlight' = [inFlight EXCEPT ![r][k] = [snapshot |-> s, leader |-> c]]
            /\ GoTo(c, IF c \in Locking THEN "lock" ELSE "fetch")

(* The provider's atomic invalidation script.                               *)
InvalidateTagScript(ts) ==
    /\ tagEpochs' = [t \in Tag |-> IF t \in ts THEN tagEpochs[t] + 1 ELSE tagEpochs[t]]
    /\ entries' = [k \in Key |-> IF TagsOf[k] \cap ts # {} THEN None ELSE entries[k]]
    /\ fence' = [t \in Tag |-> IF t \in ts THEN db[t] ELSE fence[t]]

(* invalidateTags up to its first await: new local generation, quarantine.  *)
InvalidateBegin(j, ts) ==
    LET r == At[j] IN
    /\ localTagEpochs' = [localTagEpochs EXCEPT ![r] =
            [t \in Tag |-> IF t \in ts THEN @[t] + 1 ELSE @[t]]]
    /\ dirtyTags' = [dirtyTags EXCEPT ![r] = @ \cup ts]
    /\ inv' = [inv EXCEPT ![j] = [pc |-> "trying", tags |-> ts, n |-> 1]]

-----------------------------------------------------------------------------
(* read() *)

Begin(c) ==
    /\ pc[c] = "idle"
    /\ floor' = [floor EXCEPT ![c] = [t \in TagsFor(c) |-> fence[t]]]
    /\ \/ /\ c \in Forced /\ Enabled(c)
          /\ Capture(c, "snapForced")
          /\ UNCHANGED <<inFlight, snap, leader>>
       \/ /\ c \in Forced /\ ~Enabled(c)
          /\ GoTo(c, "fetchForced")
          /\ UNCHANGED <<inFlight, loc, snap, leader>>
       \/ /\ ~Enabled(c) \/ hasDirtyTag(c)
          /\ Join(c, None)
          /\ UNCHANGED loc
       \/ /\ Enabled(c) /\ ~hasDirtyTag(c)
          /\ Capture(c, "snapBefore")
          /\ UNCHANGED <<inFlight, snap, leader>>
    /\ UNCHANGED <<source, provider, localTagEpochs, dirtyTags, quarantineTimer, snap2, cached,
                   val, superseded, refreshed, notified, served, inv, mpc, mver, raced, faults>>

(* snapshot() awaits getTagEpochs, which sends one GET per tag: the GETs are *)
(* served one by one, and other commands may fall between them.             *)
AfterEpochs == [snapBefore |-> "get", snapAfter |-> "decide",
                snapWait |-> "waited", snapWaitAfter |-> "decideWait",
                snapForced |-> "getForced", snapFenced |-> "fetchForced",
                snapForcedAfter |-> "checkForced", snapWrite |-> "fetched"]
SecondSnapshot == {"snapAfter", "snapWaitAfter", "snapForcedAfter"}

Served(c) == DOMAIN served[c]

(* One GET, but for the last of the snapshot.                               *)
GetTagEpoch(c) ==
    /\ pc[c] \in DOMAIN AfterEpochs
    /\ \E t, u \in TagsFor(c) \ Served(c) :
          /\ t # u
          /\ served' = [served EXCEPT ![c] =
                [v \in Served(c) \cup {t} |->
                    IF v = t THEN [epoch |-> tagEpochs[t], fence |-> fence[t]] ELSE @[v]]]
    /\ UNCHANGED <<source, provider, runtime, reading, inv, mpc, mver, raced, faults>>

EpochsWithoutDefault(c) ==
    [t \in TagsFor(c) |-> IF t \in Served(c) THEN served[c][t].epoch
                          ELSE IF tagEpochs[t] = 0 THEN None ELSE tagEpochs[t]]

(* The generation of each tag; a tag never invalidated has generation 0.    *)
getTagEpochs(c) ==
    [t \in TagsFor(c) |-> IF t \in Served(c) THEN served[c][t].epoch ELSE tagEpochs[t]]

(* The version of each tag at its last invalidation when its GET was served. *)
FencesRead(c) ==
    [t \in TagsFor(c) |-> IF t \in Served(c) THEN served[c][t].fence ELSE fence[t]]

(* The last GETs of the snapshot and the reply, at each of its call sites: a *)
(* failure yields null.  The second reading of a pair goes to snap2.        *)
ReadEpochs(c) ==
    /\ pc[c] \in DOMAIN AfterEpochs
    /\ \E s \in {None, [local |-> loc[c], external |-> getTagEpochs(c)]} :
          /\ IF s = None THEN Fault ELSE NoFault
          /\ floor' = IF s # None /\ pc[c] \in {"snapBefore", "snapAfter"}
                      THEN [floor EXCEPT ![c] = FencesRead(c)]
                      ELSE floor
          /\ IF pc[c] \in SecondSnapshot
             THEN snap2' = [snap2 EXCEPT ![c] = s] /\ UNCHANGED snap
             ELSE snap' = [snap EXCEPT ![c] = s] /\ UNCHANGED snap2
    /\ loc' = [loc EXCEPT ![c] = None]
    /\ served' = [served EXCEPT ![c] = NoneServed]
    /\ GoTo(c, AfterEpochs[pc[c]])
    /\ UNCHANGED <<source, provider, runtime, cached, val, leader, superseded, refreshed, notified,
                   inv, mpc, mver, raced>>

(* read: the tag epochs could not be read; bypass the cache.                *)
Bypass(c) ==
    /\ pc[c] = "get" /\ snap[c] = None
    /\ Join(c, None)
    /\ UNCHANGED <<source, provider, localTagEpochs, dirtyTags, quarantineTimer, loc, snap2,
                   cached, val, floor, superseded, refreshed, notified, served, inv, mpc, mver,
                   raced, faults>>

(* safeGet, from read, from the lock waiter and from revalidate.            *)
AfterGet  == [get |-> "got", getWait |-> "gotWait", getForced |-> "gotForced"]
AfterMiss == [get |-> "decide", getWait |-> "decideWait", getForced |-> "gotForced"]

SafeGet(c) ==
    /\ pc[c] \in DOMAIN AfterGet
    /\ pc[c] = "get" => snap[c] # None
    /\ \/ /\ pc[c] = "getForced" /\ snap[c] = None
          /\ GoTo(c, "gotForced") /\ NoFault /\ UNCHANGED cached
       \/ /\ snap[c] # None
          /\ cached' = [cached EXCEPT ![c] = entries[KeyOf[c]]]
          /\ GoTo(c, AfterGet[pc[c]]) /\ NoFault
       \/ /\ snap[c] # None /\ Fault
          /\ GoTo(c, AfterMiss[pc[c]]) /\ UNCHANGED cached
    /\ UNCHANGED <<source, provider, runtime, loc, snap, snap2, val, leader, floor, superseded,
                   refreshed, notified, served, inv, mpc, mver, raced>>

(* The reply of get arrives: start the second snapshot.                     *)
Got(c) ==
    /\ \/ pc[c] = "got" /\ Capture(c, "snapAfter")
       \/ pc[c] = "gotWait" /\ Capture(c, "snapWaitAfter")
    /\ UNCHANGED <<source, provider, runtime, snap, snap2, cached, val, leader, floor, superseded,
                   refreshed, notified, served, inv, mpc, mver, raced, faults>>

HitWithoutRecheck(c) == cached[c] # None

(* read: a hit needs a value and equal snapshots around its get.            *)
Hit(c) == cached[c] # None /\ snap[c] = snap2[c]

Decide(c) ==
    /\ pc[c] = "decide"
    /\ IF Hit(c)
       THEN /\ GoTo(c, "done")
            /\ val' = [val EXCEPT ![c] = cached[c]]
            /\ UNCHANGED <<inFlight, snap, leader>>
       ELSE /\ Join(c, IF snap2[c] # None THEN snap2[c] ELSE snap[c])
            /\ UNCHANGED val
    /\ cached' = [cached EXCEPT ![c] = None]
    /\ snap2' = [snap2 EXCEPT ![c] = None]
    /\ UNCHANGED <<source, provider, localTagEpochs, dirtyTags, quarantineTimer, loc, floor,
                   superseded, refreshed, notified, served, inv, mpc, mver, raced, faults>>

-----------------------------------------------------------------------------
(* fetchAndStore(), with the optional distributed single-flight lock.       *)

AcquireLock(c) ==
    /\ pc[c] = "lock"
    /\ \/ /\ lock[KeyOf[c]] = None /\ NoFault
          /\ lock' = [lock EXCEPT ![KeyOf[c]] = c]
          /\ GoTo(c, "fetch")
       \/ /\ lock[KeyOf[c]] # None /\ NoFault
          /\ GoTo(c, "lockWait")
          /\ UNCHANGED lock
       \/ /\ Fault /\ GoTo(c, "fetch") /\ UNCHANGED lock
    /\ UNCHANGED <<source, entries, tagEpochs, runtime, loc, snap, snap2, cached, val, leader,
                   floor, superseded, refreshed, notified, served, inv, mpc, mver, raced>>

LockWaited(c) ==
    /\ pc[c] = "lockWait"
    /\ Capture(c, "snapWait")
    /\ UNCHANGED <<source, provider, runtime, snap, snap2, cached, val, leader, floor, superseded,
                   refreshed, notified, served, inv, mpc, mver, raced, faults>>

Waited(c) ==
    /\ pc[c] = "waited"
    /\ GoTo(c, IF snap[c] # None /\ ~hasDirtyTag(c) THEN "getWait" ELSE "fetch")
    /\ UNCHANGED <<source, provider, runtime, loc, snap, snap2, cached, val, leader, floor,
                   superseded, refreshed, notified, served, inv, mpc, mver, raced, faults>>

DecideWait(c) ==
    /\ pc[c] = "decideWait"
    /\ IF Hit(c)
       THEN GoTo(c, "resolve") /\ val' = [val EXCEPT ![c] = cached[c]]
       ELSE GoTo(c, "fetch") /\ UNCHANGED val
    /\ cached' = [cached EXCEPT ![c] = None]
    /\ snap2' = [snap2 EXCEPT ![c] = None]
    /\ UNCHANGED <<source, provider, runtime, loc, snap, leader, floor, superseded, refreshed,
                   notified, served, inv, mpc, mver, raced, faults>>

(* fetch(): the source is read at one moment; it may reject.                *)
Fetch(c) ==
    /\ pc[c] = "fetch"
    /\ \/ /\ NoFault /\ GoTo(c, "fetched")
          /\ val' = [val EXCEPT ![c] = [t \in TagsFor(c) |-> db[t]]]
       \/ /\ Fault /\ GoTo(c, "resolve")
          /\ UNCHANGED val
    /\ UNCHANGED <<source, provider, runtime, loc, snap, snap2, cached, leader, floor, superseded,
                   refreshed, notified, served, inv, mpc, mver, raced>>

(* safeSet up to its await.                                                 *)
Storable(c) == /\ Enabled(c)
               /\ snap[c] # None
               /\ ~hasDirtyTag(c)
               /\ localSnapshotStillCurrent(c)

SafeSet(c) ==
    /\ pc[c] = "fetched"
    /\ GoTo(c, IF Storable(c) THEN "set" ELSE "resolve")
    /\ UNCHANGED <<source, provider, runtime, loc, snap, snap2, cached, val, leader, floor,
                   superseded, refreshed, notified, served, inv, mpc, mver, raced, faults>>

(* The provider's conditional write: every tag still has the generation of  *)
(* the snapshot.  An error may be raised before or after its effect.        *)
EpochsIgnored(c) == TRUE

EpochsMatch(c) == \A t \in TagsFor(c) : tagEpochs[t] = snap[c].external[t]

SetIfTagEpochsMatch(c) ==
    /\ pc[c] = "set"
    /\ \/ /\ EpochsMatch(c)
          /\ entries' = [entries EXCEPT ![KeyOf[c]] = val[c]]
          /\ refreshed' = refreshed \cup ({c} \cap Forced)
          /\ NoFault \/ Fault
       \/ ~EpochsMatch(c) /\ NoFault /\ UNCHANGED <<entries, refreshed>>
       \/ Fault /\ UNCHANGED <<entries, refreshed>>
    /\ GoTo(c, "resolve")
    /\ UNCHANGED <<source, tagEpochs, lock, runtime, loc, snap, snap2, cached, val, leader, floor,
                   superseded, notified, served, inv, mpc, mver, raced>>

(* The computation settles: its token releases the lock, its own in-flight  *)
(* entry goes away, and everyone who joined it gets its value.              *)
SettledAlone(c) == {c}

Settled(c) == {c} \cup {d \in Reader : pc[d] = "joined" /\ leader[d] = c}

Resolve(c) ==
    LET r == At[c]  k == KeyOf[c] IN
    /\ pc[c] = "resolve"
    /\ pc' = [d \in Reader |-> IF d \in Settled(c) THEN "done" ELSE pc[d]]
    /\ val' = [d \in Reader |-> IF d \in Settled(c) THEN val[c] ELSE val[d]]
    /\ lock' = IF lock[k] = c THEN [lock EXCEPT ![k] = None] ELSE lock
    /\ IF inFlight[r][k] # None /\ inFlight[r][k].leader = c
       THEN inFlight' = [inFlight EXCEPT ![r][k] = None]
       ELSE UNCHANGED inFlight
    /\ cached' = [cached EXCEPT ![c] = None]
    /\ snap2' = [snap2 EXCEPT ![c] = None]
    /\ UNCHANGED <<source, entries, tagEpochs, localTagEpochs, dirtyTags, quarantineTimer, loc,
                   snap, leader, floor, superseded, refreshed, notified, served, inv, mpc, mver,
                   raced, faults>>

-----------------------------------------------------------------------------
(* revalidate() *)

(* The baseline has been read; an older computation of the key is fenced.   *)
ForcedGot(c) ==
    LET running == inFlight[At[c]][KeyOf[c]] IN
    /\ pc[c] = "gotForced"
    /\ IF running # None
       THEN /\ InvalidateBegin(c, TagsFor(c))
            /\ superseded' = [superseded EXCEPT ![c] = {running.leader}]
            /\ GoTo(c, "fencing")
       ELSE /\ GoTo(c, "fetchForced")
            /\ UNCHANGED <<localTagEpochs, dirtyTags, inv, superseded>>
    /\ UNCHANGED <<source, provider, quarantineTimer, inFlight, loc, snap, snap2, cached, val,
                   leader, floor, refreshed, notified, served, mpc, mver, raced, faults>>

FetchForced(c) ==
    /\ pc[c] = "fetchForced"
    /\ \/ /\ NoFault
          /\ GoTo(c, IF Enabled(c) THEN "fetchedForced" ELSE "resolve")
          /\ val' = [val EXCEPT ![c] = [t \in TagsFor(c) |-> db[t]]]
       \/ /\ Fault /\ GoTo(c, "resolve")
          /\ UNCHANGED val
    /\ UNCHANGED <<source, provider, runtime, loc, snap, snap2, cached, leader, floor, superseded,
                   refreshed, notified, served, inv, mpc, mver, raced>>

FetchedForced(c) ==
    /\ pc[c] = "fetchedForced"
    /\ Capture(c, "snapForcedAfter")
    /\ UNCHANGED <<source, provider, runtime, snap, snap2, cached, val, leader, floor, superseded,
                   refreshed, notified, served, inv, mpc, mver, raced, faults>>

(* A mutation during the fetch keeps the value out of the cache; a changed  *)
(* value runs onChanged, which invalidates the resource, before it is put.  *)
CheckForced(c) ==
    /\ pc[c] = "checkForced"
    /\ \/ /\ snap[c] # snap2[c]
          /\ GoTo(c, "resolve")
          /\ UNCHANGED <<localTagEpochs, dirtyTags, inv, notified>>
       \/ /\ snap[c] = snap2[c] /\ cached[c] # None /\ cached[c] # val[c]
          /\ InvalidateBegin(c, TagsFor(c)) /\ GoTo(c, "notifying")
          /\ notified' = notified \cup {c}
       \/ /\ snap[c] = snap2[c] /\ cached[c] \in {None, val[c]}
          /\ GoTo(c, "fetched")
          /\ UNCHANGED <<localTagEpochs, dirtyTags, inv, notified>>
    /\ UNCHANGED <<source, provider, quarantineTimer, inFlight, loc, snap, snap2, cached, val,
                   leader, floor, superseded, refreshed, served, mpc, mver, raced, faults>>

-----------------------------------------------------------------------------
(* Mutations, invalidation with retry, and the quarantine. *)

Commit(m) ==
    /\ mpc[m] = "idle"
    /\ db' = [t \in Tag |-> IF t \in Writes[m] THEN db[t] + 1 ELSE db[t]]
    /\ mver' = [mver EXCEPT ![m] = [t \in Writes[m] |-> db[t] + 1]]
    /\ mpc' = [mpc EXCEPT ![m] = IF m \in OutOfBand THEN "done" ELSE "committed"]
    /\ UNCHANGED <<fence, provider, runtime, reading, served, inv, raced, faults>>

(* The tags of the replica whose invalidation the provider has run, and     *)
(* whose marks are about to be lifted.                                      *)
AboutToReturn(r) == UNION {inv[j].tags : j \in {i \in Job : At[i] = r /\ inv[i].pc = "ok"}}

Invalidate(m) ==
    /\ mpc[m] = "committed"
    /\ InvalidateBegin(m, Writes[m])
    /\ mpc' = [mpc EXCEPT ![m] = "invalidating"]
    /\ raced' = [raced EXCEPT ![m] = AboutToReturn(At[m]) \cap Writes[m]]
    /\ UNCHANGED <<source, provider, quarantineTimer, inFlight, reading, served, mver, faults>>

(* One attempt of invalidateProviderWithRetry; an error may be raised       *)
(* before or after the script ran.                                          *)
InvalidateProvider(j) ==
    /\ inv[j].pc = "trying"
    /\ \/ /\ InvalidateTagScript(inv[j].tags) /\ NoFault
          /\ inv' = [inv EXCEPT ![j].pc = "ok"]
       \/ /\ Fault
          /\ InvalidateTagScript(inv[j].tags) \/ UNCHANGED <<tagEpochs, entries, fence>>
          /\ inv' = IF inv[j].n < Attempts THEN [inv EXCEPT ![j].n = @ + 1]
                    ELSE [inv EXCEPT ![j].pc = "failed"]
    /\ UNCHANGED <<db, lock, runtime, reading, served, mpc, mver, raced>>

LiftedAlways(j) == inv[j].tags
ReschedulesFlushesOnly(j) == j \in Flusher

(* The tags a finished invalidation takes out of quarantine.                *)
Lifted(j) == IF inv[j].pc = "ok" THEN inv[j].tags ELSE {}

(* invalidateTags schedules a retry when it failed, a flush always does.    *)
Reschedules(j) == j \in Flusher \/ inv[j].pc = "failed"

(* invalidateTags (flushQuarantine for a flusher) after its await, and the  *)
(* caller's code up to its next one.                                        *)
InvalidateEnd(j) ==
    LET r == At[j]
        dirty == dirtyTags[r] \ Lifted(j) IN
    /\ inv[j].pc \in {"ok", "failed"}
    /\ dirtyTags' = [dirtyTags EXCEPT ![r] = dirty]
    /\ quarantineTimer' = IF Reschedules(j)
                          THEN [quarantineTimer EXCEPT ![r] = @ \/ dirty # {}]
                          ELSE quarantineTimer
    /\ inv' = [inv EXCEPT ![j] = Idle]
    /\ \/ /\ j \in Mutation
          /\ mpc' = [mpc EXCEPT ![j] = "done"]
          /\ UNCHANGED <<pc, loc>>
       \/ /\ j \in Reader
          /\ Capture(j, IF pc[j] = "fencing" THEN "snapFenced" ELSE "snapWrite")
          /\ UNCHANGED mpc
       \/ j \in Flusher /\ UNCHANGED <<pc, loc, mpc>>
    /\ UNCHANGED <<source, provider, localTagEpochs, inFlight, snap, snap2, cached, val, leader,
                   floor, superseded, refreshed, notified, served, mver, raced, faults>>

(* The quarantine timer fires.                                              *)
FlushQuarantine(j) ==
    LET r == At[j] IN
    /\ quarantineTimer[r] /\ inv[j] = Idle
    /\ quarantineTimer' = [quarantineTimer EXCEPT ![r] = FALSE]
    /\ inv' = IF dirtyTags[r] = {} THEN inv
              ELSE [inv EXCEPT ![j] = [pc |-> "trying", tags |-> dirtyTags[r], n |-> 1]]
    /\ UNCHANGED <<source, provider, localTagEpochs, dirtyTags, inFlight, reading, served, mpc,
                   mver, raced, faults>>

-----------------------------------------------------------------------------
(* An entry or a lock reaches its TTL, or the store evicts it.              *)
Expire(k) ==
    /\ entries[k] # None
    /\ entries' = [entries EXCEPT ![k] = None]
    /\ UNCHANGED <<source, tagEpochs, lock, runtime, reading, served, inv, mpc, mver, raced,
                   faults>>

ExpireLock(k) ==
    /\ lock[k] # None
    /\ lock' = [lock EXCEPT ![k] = None]
    /\ UNCHANGED <<source, entries, tagEpochs, runtime, reading, served, inv, mpc, mver, raced,
                   faults>>

ReadStep(c) == \/ ReadEpochs(c) \/ Bypass(c) \/ SafeGet(c) \/ Got(c) \/ Decide(c)
               \/ AcquireLock(c) \/ LockWaited(c) \/ Waited(c) \/ DecideWait(c)
               \/ Fetch(c) \/ SafeSet(c) \/ SetIfTagEpochsMatch(c) \/ Resolve(c)
               \/ ForcedGot(c) \/ FetchForced(c) \/ FetchedForced(c) \/ CheckForced(c)

InvalidateStep(j) == InvalidateProvider(j) \/ InvalidateEnd(j)

Next == \/ \E c \in Reader : Begin(c) \/ GetTagEpoch(c) \/ ReadStep(c)
        \/ \E m \in Mutation : Commit(m) \/ Invalidate(m)
        \/ \E j \in Job : InvalidateStep(j)
        \/ \E j \in Flusher : FlushQuarantine(j)
        \/ \E k \in Key : Expire(k) \/ ExpireLock(k)

(* Every request has been answered and nothing is left to retry. *)
Quiescent == /\ \A c \in Reader : pc[c] = "done"
             /\ \A m \in Mutation : mpc[m] = "done"
             /\ \A j \in Job : inv[j] = Idle
             /\ \A r \in Replica : ~quarantineTimer[r]
             /\ UNCHANGED vars

Spec == Init /\ [][Next \/ Quiescent]_vars

(* The event loop runs every ready continuation and every timer, and every  *)
(* command is answered: a step that stays possible is taken.  Requests may  *)
(* never come, and nothing forces an entry or a lock to expire.             *)
Fairness == /\ \A c \in Reader : WF_vars(ReadStep(c))
            /\ \A m \in Mutation : WF_vars(Invalidate(m))
            /\ \A j \in Job : WF_vars(InvalidateStep(j))
            /\ \A r \in Replica : WF_vars(\E j \in Flusher : At[j] = r /\ FlushQuarantine(j))

FairSpec == Spec /\ Fairness

-----------------------------------------------------------------------------
(* Properties *)

Versions(ts) == [ts -> Nat]
Snapshots(c) == [local : Versions(TagsFor(c)), external : Versions(TagsFor(c))]

Labels == {"idle", "joined", "lock", "lockWait", "fetch", "fetched", "set", "resolve", "done",
           "get", "got", "getWait", "gotWait", "getForced", "gotForced", "fencing", "notifying",
           "fetchForced", "fetchedForced", "checkForced", "decide", "waited", "decideWait",
           "snapBefore", "snapAfter", "snapWait", "snapWaitAfter", "snapForced", "snapFenced",
           "snapForcedAfter", "snapWrite"}

SourceTypeOK == db \in [Tag -> Nat] /\ fence \in [Tag -> Nat]

ProviderTypeOK == /\ DOMAIN entries = Key
                  /\ \A k \in Key : entries[k] \in Versions(TagsOf[k]) \cup {None}
                  /\ tagEpochs \in [Tag -> Nat]
                  /\ lock \in [Key -> Reader \cup {None}]

RuntimeTypeOK ==
    /\ localTagEpochs \in [Replica -> [Tag -> Nat]]
    /\ dirtyTags \in [Replica -> SUBSET Tag]
    /\ quarantineTimer \in [Replica -> BOOLEAN]
    /\ DOMAIN inFlight = Replica
    /\ \A r \in Replica : DOMAIN inFlight[r] = Key
    /\ \A r \in Replica, k \in Key : inFlight[r][k] # None =>
          /\ inFlight[r][k].leader \in Reader
          /\ inFlight[r][k].snapshot \in Snapshots(inFlight[r][k].leader) \cup {None}

ReadingTypeOK ==
    /\ pc \in [Reader -> Labels]
    /\ leader \in [Reader -> Reader \cup {None}]
    /\ superseded \in [Reader -> SUBSET Reader]
    /\ refreshed \subseteq Reader /\ notified \subseteq Reader

LocalsTypeOK ==
    /\ DOMAIN loc = Reader /\ DOMAIN snap = Reader /\ DOMAIN snap2 = Reader
    /\ DOMAIN cached = Reader /\ DOMAIN val = Reader
    /\ \A c \in Reader :
          /\ loc[c] \in Versions(TagsFor(c)) \cup {None}
          /\ snap[c] \in Snapshots(c) \cup {None}
          /\ snap2[c] \in Snapshots(c) \cup {None}
          /\ cached[c] \in Versions(TagsFor(c)) \cup {None}
          /\ val[c] \in Versions(TagsFor(c)) \cup {None}

ServedTypeOK ==
    /\ DOMAIN served = Reader
    /\ \A c \in Reader : /\ Served(c) \subseteq TagsFor(c)
                         /\ \A t \in Served(c) : served[c][t] \in [epoch : Nat, fence : Nat]

JobStates == [pc : {"idle", "trying", "ok", "failed"}, tags : SUBSET Tag, n : Nat]

JobsTypeOK ==
    /\ inv \in [Job -> JobStates]
    /\ mpc \in [Mutation -> {"idle", "committed", "invalidating", "done"}]
    /\ DOMAIN mver = Mutation /\ raced \in [Mutation -> SUBSET Tag]
    /\ \A m \in Mutation : mver[m] \in Versions(Writes[m]) \cup {None}
    /\ faults \in 0 .. MaxFaults

(* Every variable holds the kind of value the code keeps in it.             *)
TypeOK == /\ SourceTypeOK /\ ProviderTypeOK /\ RuntimeTypeOK /\ ReadingTypeOK /\ LocalsTypeOK
          /\ ServedTypeOK /\ JobsTypeOK

(* Fencing: once the provider has run an invalidation of a tag, no entry    *)
(* under that tag holds data older than the source was then, whichever      *)
(* replica computed it and however long it took.  Only the value of a       *)
(* forced read that was stored after onChanged may: its snapshot is newer   *)
(* than the value.                                                          *)
LateRefreshes == {<<KeyOf[f], val[f]>> : f \in notified \cap refreshed}

FencedEntries ==
    \A k \in Key : entries[k] # None /\ <<k, entries[k]>> \notin LateRefreshes =>
        \A t \in TagsOf[k] : fence[t] <= entries[k][t]

Answered(c) == pc[c] = "done" /\ val[c] # None

(* A read answered by the cache or by a shared computation under an epoch   *)
(* snapshot sees, of every tag, each invalidation that had run when it last *)
(* got that tag's epoch, not only those that had run when it started,       *)
(* although the epochs of its tags are got one by one and invalidations run *)
(* between them, unless it is answered with such a value.                   *)
ReadSeesFence ==
    \A c \in Reader : Answered(c) /\ snap[c] # None /\ <<KeyOf[c], val[c]>> \notin LateRefreshes =>
        \A t \in TagsFor(c) : floor[c][t] <= val[c][t]

(* When invalidateTags has returned to a mutation, either the provider's    *)
(* entries are fenced at its version, or its replica bypasses those tags,   *)
(* unless another invalidation that the provider had run when this one      *)
(* began has lifted the mark they share.                                    *)
QuarantineCovers ==
    \A m \in Mutation \ OutOfBand : mpc[m] = "done" =>
        \A t \in Writes[m] \ raced[m] :
            mver[m][t] <= fence[t] \/ t \in dirtyTags[At[m]]

(* A computation that was in flight when a forced read checked never        *)
(* overwrites the response the forced read stored.                          *)
SupersededNeverOverwrites ==
    [][\A f \in refreshed : \A c \in superseded[f] :
          pc[c] = "set" /\ pc'[c] = "resolve" => entries' = entries]_vars

(* Nobody is left waiting on a computation: every read settles.             *)
ReadsSettle == \A c \in Reader : pc[c] # "idle" ~> pc[c] = "done"

(* Once the provider works again the quarantine drains.                     *)
QuarantineDrains == \A r \in Replica : dirtyTags[r] # {} ~> dirtyTags[r] = {}

(* The runtime over its provider keeps the promise of a fenced cache.       *)
Cache == INSTANCE FencedCache WITH Key <- Key, Tag <- Tag, TagsOf <- TagsOf, None <- None,
                                  db <- db, fence <- fence, entries <- entries
FencedCacheSpec == Cache!Spec
=============================================================================
