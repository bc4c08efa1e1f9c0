------------------------- MODULE CacheRuntimeProofs -------------------------
(***************************************************************************)
(* Type correctness of CacheRuntime, its fencing and the refinement of     *)
(* FencedCache, its quarantine, what the answers of its reads reflect, and *)
(* what a forced read keeps, for every number of replicas, keys, tags,     *)
(* readers and mutations, and any number of provider failures.  revalidate *)
(* takes a second snapshot after its value was computed; the theorems hold *)
(* with forced reads because each property names the values stored under   *)
(* such a snapshot (LateRefreshes).                                        *)
(***************************************************************************)
EXTENDS CacheRuntime, TLAPS

-----------------------------------------------------------------------------
(* TypeOK is not inductive alone: a value handed to the readers that joined *)
(* has the tags of their key only because a computation is shared per key,  *)
(* and a snapshot is only as well formed as the local half captured before  *)
(* it.                                                                      *)

LeadersShareKey ==
    /\ \A r \in Replica, k \in Key : inFlight[r][k] # None => KeyOf[inFlight[r][k].leader] = k
    /\ \A c \in Reader : leader[c] # None => KeyOf[leader[c]] = KeyOf[c]

LocalsCaptured ==
    \A c \in Reader : pc[c] \in DOMAIN AfterEpochs => loc[c] \in Versions(TagsFor(c))

TypeInv == TypeOK /\ LeadersShareKey /\ LocalsCaptured

LEMMA LocalEpochsTyped ==
    ASSUME TypeInv, NEW c \in Reader PROVE LocalEpochs(c) \in Versions(TagsFor(c))
BY CacheAssumption DEF TypeInv, TypeOK, RuntimeTypeOK, LocalEpochs, Versions, TagsFor, Job

LEMMA SnapshotTyped ==
    ASSUME TypeInv, NEW c \in Reader, pc[c] \in DOMAIN AfterEpochs
    PROVE  [local |-> loc[c], external |-> getTagEpochs(c)] \in Snapshots(c)
<1>1. getTagEpochs(c) \in Versions(TagsFor(c))
  <2>1. \A t \in TagsFor(c) : getTagEpochs(c)[t] \in Nat
    BY CacheAssumption DEF TypeInv, TypeOK, ProviderTypeOK, ServedTypeOK, getTagEpochs, TagsFor
  <2> QED
    BY <2>1 DEF getTagEpochs, Versions
<1> QED
  BY <1>1 DEF TypeInv, LocalsCaptured, Snapshots

(* What a step that may take a reply does to the epochs got so far.         *)
LEMMA ServedTypes ==
    ASSUME TypeInv, \/ UNCHANGED served
                    \/ \E c \in Reader : served' = [served EXCEPT ![c] = NoneServed]
    PROVE  ServedTypeOK'
<1>1. DOMAIN NoneServed = {}
  BY DEF NoneServed
<1>2. \A d \in Reader : served'[d] \in {served[d], NoneServed} /\ DOMAIN served' = Reader
  BY DEF TypeInv, TypeOK, ServedTypeOK
<1>3. DOMAIN served' = Reader
  BY DEF TypeInv, TypeOK, ServedTypeOK
<1> QED
  BY <1>1, <1>2, <1>3 DEF TypeInv, TypeOK, ServedTypeOK, Served, TagsFor

LEMMA FetchTyped ==
    ASSUME TypeInv, NEW c \in Reader
    PROVE  [t \in TagsFor(c) |-> db[t]] \in Versions(TagsFor(c))
BY CacheAssumption DEF TypeInv, TypeOK, SourceTypeOK, Versions, TagsFor

LEMMA AfterEpochsLabels ==
    \A l \in DOMAIN AfterEpochs : AfterEpochs[l] \in Labels \ DOMAIN AfterEpochs
BY DEF AfterEpochs, Labels

LEMMA AfterGetLabels ==
    \A l \in DOMAIN AfterGet : /\ AfterGet[l] \in Labels \ DOMAIN AfterEpochs
                               /\ AfterMiss[l] \in Labels \ DOMAIN AfterEpochs
BY DEF AfterGet, AfterMiss, AfterEpochs, Labels

LEMMA JoinTyped ==
    ASSUME TypeInv, NEW c \in Reader, NEW s, Join(c, s)
    PROVE  pc' \in [Reader -> Labels] /\ leader' \in [Reader -> Reader \cup {None}]
<1>1. At[c] \in Replica /\ KeyOf[c] \in Key
  BY CacheAssumption DEF Job
<1>2. CASE Shares(c, s)
  <2>1. inFlight[At[c]][KeyOf[c]].leader \in Reader
    BY <1>1, <1>2 DEF TypeInv, TypeOK, RuntimeTypeOK, Shares
  <2> QED
    BY <1>2, <2>1 DEF Join, GoTo, TypeInv, TypeOK, ReadingTypeOK, Labels
<1>3. CASE ~Shares(c, s)
  BY <1>3 DEF Join, GoTo, TypeInv, TypeOK, ReadingTypeOK, Labels
<1> QED
  BY <1>2, <1>3

LEMMA PcTyped ==
    ASSUME TypeInv, NEW c \in Reader, Begin(c) \/ ReadStep(c)
    PROVE  pc' \in [Reader -> Labels]
<1>1. pc \in [Reader -> Labels]
  BY DEF TypeInv, TypeOK, ReadingTypeOK
<1>2. ASSUME NEW l \in Labels, GoTo(c, l) PROVE pc' \in [Reader -> Labels]
  BY <1>1, <1>2 DEF GoTo
<1>3. ASSUME NEW s, Join(c, s) PROVE pc' \in [Reader -> Labels]
  BY <1>3, JoinTyped
<1>4. CASE Begin(c)
  <2>1. \/ \E l \in Labels : GoTo(c, l)
        \/ Join(c, None)
    BY <1>4 DEF Begin, Capture, Labels
  <2> QED
    BY <1>2, <1>3, <2>1
<1>5. CASE ReadEpochs(c)
  BY <1>2, <1>5, AfterEpochsLabels DEF ReadEpochs
<1>6. CASE Bypass(c)
  BY <1>3, <1>6 DEF Bypass
<1>7. CASE SafeGet(c)
  <2>1. \E l \in Labels : GoTo(c, l)
    BY <1>7, AfterGetLabels DEF SafeGet, Labels
  <2> QED
    BY <1>2, <2>1
<1>8. CASE Got(c) \/ LockWaited(c) \/ Waited(c)
  <2>1. \E l \in Labels : GoTo(c, l)
    BY <1>8 DEF Got, LockWaited, Waited, Capture, Labels
  <2> QED
    BY <1>2, <2>1
<1>9. CASE Decide(c)
  <2>1. \/ GoTo(c, "done")
        \/ Join(c, IF snap2[c] # None THEN snap2[c] ELSE snap[c])
    BY <1>9 DEF Decide
  <2> QED
    BY <1>2, <1>3, <2>1 DEF Labels
<1>10. CASE AcquireLock(c) \/ DecideWait(c) \/ Fetch(c) \/ SafeSet(c) \/ SetIfTagEpochsMatch(c)
  <2>1. \E l \in Labels : GoTo(c, l)
    BY <1>10 DEF AcquireLock, DecideWait, Fetch, SafeSet, SetIfTagEpochsMatch, Labels
  <2> QED
    BY <1>2, <2>1
<1>11. CASE Resolve(c)
  BY <1>1, <1>11 DEF Resolve, Labels
<1>12. CASE ForcedGot(c) \/ FetchForced(c) \/ FetchedForced(c) \/ CheckForced(c)
  <2>1. \E l \in Labels : GoTo(c, l)
    BY <1>12 DEF ForcedGot, FetchForced, FetchedForced, CheckForced, Capture, Labels
  <2> QED
    BY <1>2, <2>1
<1> QED
  BY <1>4, <1>5, <1>6, <1>7, <1>8, <1>9, <1>10, <1>11, <1>12 DEF ReadStep

LEMMA ReadingTypes ==
    ASSUME TypeInv, NEW c \in Reader, Begin(c) \/ ReadStep(c)
    PROVE  ReadingTypeOK'
<1>1. pc' \in [Reader -> Labels]
  BY PcTyped
<1>2. leader' \in [Reader -> Reader \cup {None}]
  <2>1. \/ leader' = leader
        \/ \E s : Join(c, s)
    BY DEF Begin, ReadStep, ReadEpochs, Bypass, SafeGet, Got, Decide, AcquireLock, LockWaited,
       Waited, DecideWait, Fetch, SafeSet, SetIfTagEpochsMatch, Resolve, ForcedGot, FetchForced,
       FetchedForced, CheckForced
  <2> QED
    BY <2>1, JoinTyped DEF TypeInv, TypeOK, ReadingTypeOK
<1>3. superseded' \in [Reader -> SUBSET Reader] /\ refreshed' \subseteq Reader /\ notified' \subseteq Reader
  <2>1. superseded \in [Reader -> SUBSET Reader] /\ refreshed \subseteq Reader /\ notified \subseteq Reader
    BY DEF TypeInv, TypeOK, ReadingTypeOK
  <2>2. CASE ForcedGot(c)
    <3>1. At[c] \in Replica /\ KeyOf[c] \in Key
      BY CacheAssumption DEF Job
    <3>2. inFlight[At[c]][KeyOf[c]] # None => inFlight[At[c]][KeyOf[c]].leader \in Reader
      BY <3>1 DEF TypeInv, TypeOK, RuntimeTypeOK
    <3> QED
      BY <2>1, <2>2, <3>2 DEF ForcedGot
  <2>3. CASE SetIfTagEpochsMatch(c)
    BY <2>1, <2>3 DEF SetIfTagEpochsMatch
  <2>4. CASE CheckForced(c)
    BY <2>1, <2>4 DEF CheckForced
  <2>5. CASE ~ForcedGot(c) /\ ~SetIfTagEpochsMatch(c) /\ ~CheckForced(c)
    <3>1. UNCHANGED <<superseded, refreshed, notified>>
      BY <2>5 DEF Begin, ReadStep, ReadEpochs, Bypass, SafeGet, Got, Decide, AcquireLock,
         LockWaited, Waited, DecideWait, Fetch, SafeSet, Resolve, FetchForced, FetchedForced
    <3> QED
      BY <2>1, <3>1
  <2> QED
    BY <2>2, <2>3, <2>4, <2>5
<1> QED
  BY <1>1, <1>2, <1>3 DEF ReadingTypeOK

LEMMA CaptureTyped ==
    ASSUME TypeInv, NEW c \in Reader, loc' = [loc EXCEPT ![c] = LocalEpochs(c)],
           UNCHANGED <<snap, snap2, cached, val>>
    PROVE  LocalsTypeOK'
BY LocalEpochsTyped DEF TypeInv, TypeOK, LocalsTypeOK

LEMMA LocalsTypes ==
    ASSUME TypeInv, NEW c \in Reader, Begin(c) \/ ReadStep(c)
    PROVE  LocalsTypeOK'
<1> USE CacheAssumption DEF TypeInv, TypeOK, LocalsTypeOK, ReadingTypeOK, ProviderTypeOK,
        LeadersShareKey, reading, runtime, provider, TagsFor, GoTo, Job
<1>1. CASE Begin(c)
  <2>1. UNCHANGED snap \/ snap' = [snap EXCEPT ![c] = None]
    BY <1>1 DEF Begin, Join
  <2>2. UNCHANGED loc \/ loc' = [loc EXCEPT ![c] = LocalEpochs(c)]
    BY <1>1 DEF Begin, Capture
  <2>3. UNCHANGED <<snap2, cached, val>>
    BY <1>1 DEF Begin
  <2>4. \A d \in Reader : loc'[d] \in Versions(TagsFor(d)) \cup {None}
    BY SMTT(30), <2>2, LocalEpochsTyped
  <2>5. \A d \in Reader : snap'[d] \in Snapshots(d) \cup {None}
    BY <2>1
  <2>6. DOMAIN loc' = Reader /\ DOMAIN snap' = Reader
    BY <2>1, <2>2
  <2> QED
    BY <2>3, <2>4, <2>5, <2>6
<1>2. CASE ReadEpochs(c)
  BY <1>2, SnapshotTyped, AfterEpochsLabels DEF ReadEpochs
<1>3. CASE Bypass(c)
  BY <1>3 DEF Bypass, Join, Shares
<1>4. CASE SafeGet(c)
  BY SMTT(30), <1>4, AfterGetLabels DEF SafeGet
<1>5. CASE Got(c)
  BY <1>5, CaptureTyped DEF Got, Capture
<1>6. CASE Decide(c)
  BY <1>6 DEF Decide, Join, Shares
<1>7. CASE AcquireLock(c)
  BY <1>7 DEF AcquireLock
<1>8. CASE LockWaited(c)
  BY <1>8, CaptureTyped DEF LockWaited, Capture
<1>9. CASE Waited(c)
  BY <1>9 DEF Waited
<1>10. CASE DecideWait(c)
  BY <1>10 DEF DecideWait
<1>11. CASE Fetch(c)
  BY SMTT(40), <1>11, FetchTyped DEF Fetch
<1>12. CASE SafeSet(c)
  BY <1>12 DEF SafeSet
<1>13. CASE SetIfTagEpochsMatch(c)
  BY <1>13 DEF SetIfTagEpochsMatch
<1>14. CASE Resolve(c)
  <2>1. \A d \in Settled(c) : d \in Reader /\ TagsFor(d) = TagsFor(c)
    BY DEF Settled
  <2>2. val[c] \in Versions(TagsFor(c)) \cup {None}
    OBVIOUS
  <2>3. /\ DOMAIN val' = Reader
        /\ \A d \in Reader : val'[d] \in Versions(TagsFor(d)) \cup {None}
    BY <1>14, <2>1, <2>2 DEF Resolve
  <2> QED
    BY <1>14, <2>3 DEF Resolve
<1>15. CASE ForcedGot(c)
  BY <1>15 DEF ForcedGot
<1>16. CASE FetchForced(c)
  BY SMTT(30), <1>16, FetchTyped DEF FetchForced
<1>17. CASE FetchedForced(c)
  BY <1>17, CaptureTyped DEF FetchedForced, Capture
<1>18. CASE CheckForced(c)
  BY <1>18 DEF CheckForced
<1> QED
  BY <1>1, <1>2, <1>3, <1>4, <1>5, <1>6, <1>7, <1>8, <1>9, <1>10, <1>11, <1>12, <1>13, <1>14,
     <1>15, <1>16, <1>17, <1>18 DEF ReadStep

LEMMA StoreTypes ==
    ASSUME TypeInv, NEW c \in Reader, Begin(c) \/ ReadStep(c)
    PROVE  SourceTypeOK' /\ ProviderTypeOK'
<1> USE CacheAssumption DEF TypeInv, TypeOK, SourceTypeOK, ProviderTypeOK, source, provider, TagsFor
<1>1. CASE AcquireLock(c)
  BY <1>1 DEF AcquireLock
<1>2. CASE SetIfTagEpochsMatch(c)
  BY <1>2 DEF SetIfTagEpochsMatch, LocalsTypeOK
<1>3. CASE Resolve(c)
  BY <1>3 DEF Resolve
<1>4. CASE Begin(c) \/ ReadEpochs(c) \/ Bypass(c) \/ SafeGet(c) \/ Got(c)
         \/ Decide(c) \/ LockWaited(c) \/ Waited(c) \/ DecideWait(c) \/ Fetch(c)
         \/ SafeSet(c) \/ ForcedGot(c) \/ FetchForced(c) \/ FetchedForced(c) \/ CheckForced(c)
  BY <1>4 DEF Begin, ReadEpochs, Bypass, SafeGet, Got, Decide, LockWaited, Waited, DecideWait,
     Fetch, SafeSet, ForcedGot, FetchForced, FetchedForced, CheckForced
<1> QED
  BY <1>1, <1>2, <1>3, <1>4 DEF ReadStep

LEMMA InvalidateBeginTyped ==
    ASSUME TypeInv, NEW j \in Job, NEW ts \in SUBSET Tag, InvalidateBegin(j, ts)
    PROVE  /\ localTagEpochs' \in [Replica -> [Tag -> Nat]]
           /\ dirtyTags' \in [Replica -> SUBSET Tag]
           /\ inv' \in [Job -> JobStates]
<1> USE CacheAssumption DEF TypeInv, TypeOK, RuntimeTypeOK, JobsTypeOK, JobStates, InvalidateBegin
<1>1. localTagEpochs' \in [Replica -> [Tag -> Nat]]
  <2>1. At[j] \in Replica /\ localTagEpochs[At[j]] \in [Tag -> Nat]
    OBVIOUS
  <2>2. [t \in Tag |-> IF t \in ts THEN localTagEpochs[At[j]][t] + 1 ELSE localTagEpochs[At[j]][t]]
           \in [Tag -> Nat]
    BY <2>1
  <2> QED
    BY <2>1, <2>2
<1>2. dirtyTags' \in [Replica -> SUBSET Tag]
  OBVIOUS
<1> QED
  BY <1>1, <1>2

LEMMA JobsTypes ==
    ASSUME TypeInv, NEW c \in Reader, Begin(c) \/ ReadStep(c)
    PROVE  JobsTypeOK'
<1> USE CacheAssumption DEF TypeInv, TypeOK, JobsTypeOK, TagsFor, Fault, NoFault, Job
<1>1. CASE ReadEpochs(c)
  BY <1>1 DEF ReadEpochs
<1>2. CASE SafeGet(c)
  BY <1>2 DEF SafeGet
<1>3. CASE AcquireLock(c)
  BY <1>3 DEF AcquireLock
<1>4. CASE Fetch(c)
  BY <1>4 DEF Fetch
<1>5. CASE SetIfTagEpochsMatch(c)
  BY <1>5 DEF SetIfTagEpochsMatch
<1>6. CASE ForcedGot(c)
  BY <1>6, InvalidateBeginTyped DEF ForcedGot
<1>7. CASE FetchForced(c)
  BY <1>7 DEF FetchForced
<1>8. CASE CheckForced(c)
  BY <1>8, InvalidateBeginTyped DEF CheckForced
<1>9. CASE Begin(c) \/ Bypass(c) \/ Got(c) \/ Decide(c) \/ LockWaited(c)
         \/ Waited(c) \/ DecideWait(c) \/ SafeSet(c) \/ Resolve(c) \/ FetchedForced(c)
  BY <1>9 DEF Begin, Bypass, Got, Decide, LockWaited, Waited, DecideWait, SafeSet, Resolve,
     FetchedForced
<1> QED
  BY <1>1, <1>2, <1>3, <1>4, <1>5, <1>6, <1>7, <1>8, <1>9 DEF ReadStep

LEMMA JoinRuntime ==
    ASSUME TypeInv, NEW c \in Reader, NEW s \in Snapshots(c) \cup {None}, Join(c, s),
           UNCHANGED <<localTagEpochs, dirtyTags, quarantineTimer>>
    PROVE  RuntimeTypeOK' /\ LeadersShareKey'
<1> USE CacheAssumption DEF TypeInv, TypeOK, RuntimeTypeOK, ReadingTypeOK, LeadersShareKey, Job
<1>1. At[c] \in Replica /\ KeyOf[c] \in Key
  OBVIOUS
<1>2. CASE Shares(c, s)
  <2>1. UNCHANGED inFlight /\ leader' = [leader EXCEPT ![c] = inFlight[At[c]][KeyOf[c]].leader]
        /\ inFlight[At[c]][KeyOf[c]] # None
    BY <1>2 DEF Join, Shares
  <2>2. RuntimeTypeOK'
    BY SMTT(30), <2>1 DEF Snapshots, TagsFor
  <2>3. KeyOf[inFlight[At[c]][KeyOf[c]].leader] = KeyOf[c]
    BY <1>1, <2>1
  <2>4. \A d \in Reader : leader'[d] # None => KeyOf[leader'[d]] = KeyOf[d]
    <3>1. leader \in [Reader -> Reader \cup {None}]
      OBVIOUS
    <3> QED
      BY <2>1, <2>3, <3>1
  <2>5. LeadersShareKey'
    BY <2>1, <2>4
  <2> QED
    BY <2>2, <2>5
<1>3. CASE ~Shares(c, s)
  <2>1. /\ leader' = [leader EXCEPT ![c] = c]
        /\ inFlight' = [inFlight EXCEPT ![At[c]][KeyOf[c]] = [snapshot |-> s, leader |-> c]]
    BY <1>3 DEF Join
  <2>2. \A r \in Replica, k \in Key :
           inFlight'[r][k] = IF r = At[c] /\ k = KeyOf[c] THEN [snapshot |-> s, leader |-> c]
                             ELSE inFlight[r][k]
    BY <1>1, <2>1
  <2>3. DOMAIN inFlight' = Replica /\ \A r \in Replica : DOMAIN inFlight'[r] = Key
    BY <1>1, <2>1
  <2>4. RuntimeTypeOK'
    <3>1. ASSUME NEW r \in Replica, NEW k \in Key, inFlight'[r][k] # None
          PROVE  /\ inFlight'[r][k].leader \in Reader
                 /\ inFlight'[r][k].snapshot \in Snapshots(inFlight'[r][k].leader) \cup {None}
      <4>1. CASE r = At[c] /\ k = KeyOf[c]
        BY <2>2, <4>1
      <4>2. CASE ~(r = At[c] /\ k = KeyOf[c])
        <5>1. inFlight'[r][k] = inFlight[r][k]
          BY <2>2, <4>2
        <5> QED
          BY <3>1, <5>1
      <4> QED
        BY <4>1, <4>2
    <3> QED
      BY <2>3, <3>1 DEF Snapshots, TagsFor
  <2>5. LeadersShareKey'
    BY <2>1, <2>2
  <2> QED
    BY <2>4, <2>5
<1> QED
  BY <1>2, <1>3

LEMMA RuntimeTypes ==
    ASSUME TypeInv, NEW c \in Reader, Begin(c) \/ ReadStep(c)
    PROVE  RuntimeTypeOK' /\ LeadersShareKey'
<1> USE CacheAssumption DEF TypeInv, TypeOK, RuntimeTypeOK, LeadersShareKey, ReadingTypeOK,
   runtime, Job
<1>1. CASE Begin(c)
  <2>1. CASE Join(c, None)
    BY <1>1, <2>1, JoinRuntime DEF Begin
  <2>2. CASE ~Join(c, None)
    BY <1>1, <2>2 DEF Begin
  <2> QED
    BY <2>1, <2>2
<1>2. CASE Bypass(c)
  BY <1>2, JoinRuntime DEF Bypass
<1>3. CASE Decide(c)
  <2>1. CASE Hit(c)
    BY <1>3, <2>1 DEF Decide
  <2>2. CASE ~Hit(c)
    BY <1>3, <2>2, JoinRuntime DEF Decide, LocalsTypeOK
  <2> QED
    BY <2>1, <2>2
<1>4. CASE Resolve(c)
  <2>1. \/ UNCHANGED inFlight
        \/ inFlight' = [inFlight EXCEPT ![At[c]][KeyOf[c]] = None]
    BY <1>4 DEF Resolve
  <2>2. \A r \in Replica, k \in Key : inFlight'[r][k] \in {inFlight[r][k], None}
    <3>1. At[c] \in Replica /\ KeyOf[c] \in Key
      OBVIOUS
    <3>2. ASSUME inFlight' = [inFlight EXCEPT ![At[c]][KeyOf[c]] = None]
          PROVE  \A r \in Replica, k \in Key :
                    inFlight'[r][k] = IF r = At[c] /\ k = KeyOf[c] THEN None ELSE inFlight[r][k]
      BY <3>1, <3>2
    <3> QED
      BY <2>1, <3>2
  <2>3. DOMAIN inFlight' = Replica /\ \A r \in Replica : DOMAIN inFlight'[r] = Key
    BY <2>1
  <2>4. UNCHANGED <<localTagEpochs, dirtyTags, quarantineTimer, leader>>
    BY <1>4 DEF Resolve
  <2>5. RuntimeTypeOK'
    <3>1. \A r \in Replica, k \in Key : inFlight'[r][k] # None =>
             /\ inFlight'[r][k] = inFlight[r][k]
             /\ inFlight[r][k] # None
      BY <2>2
    <3>2. \A r \in Replica, k \in Key : inFlight'[r][k] # None =>
             /\ inFlight'[r][k].leader \in Reader
             /\ inFlight'[r][k].snapshot \in Snapshots(inFlight'[r][k].leader) \cup {None}
      BY <3>1
    <3> QED
      BY <2>3, <2>4, <3>2 DEF Snapshots, TagsFor
  <2>6. LeadersShareKey'
    BY <2>2, <2>4
  <2> QED
    BY <2>5, <2>6
<1>5. CASE ForcedGot(c)
  BY <1>5, InvalidateBeginTyped DEF ForcedGot, TagsFor
<1>6. CASE CheckForced(c)
  BY <1>6, InvalidateBeginTyped DEF CheckForced, TagsFor
<1>7. CASE ReadEpochs(c) \/ SafeGet(c) \/ Got(c) \/ AcquireLock(c) \/ LockWaited(c)
         \/ Waited(c) \/ DecideWait(c) \/ Fetch(c) \/ SafeSet(c) \/ SetIfTagEpochsMatch(c)
         \/ FetchForced(c) \/ FetchedForced(c)
  BY <1>7 DEF ReadEpochs, SafeGet, Got, AcquireLock, LockWaited, Waited, DecideWait, Fetch, SafeSet,
     SetIfTagEpochsMatch, FetchForced, FetchedForced
<1> QED
  BY <1>1, <1>2, <1>3, <1>4, <1>5, <1>6, <1>7 DEF ReadStep

LEMMA LocalsStayCaptured ==
    ASSUME TypeInv, NEW c \in Reader, Begin(c) \/ ReadStep(c)
    PROVE  LocalsCaptured'
<1> USE CacheAssumption DEF TypeInv, TypeOK, LocalsCaptured, ReadingTypeOK, LocalsTypeOK,
   TagsFor, GoTo, AfterEpochs, reading
<1>1. CASE Begin(c)
  BY <1>1, LocalEpochsTyped DEF Begin, Capture, Join
<1>2. CASE ReadEpochs(c)
  BY <1>2 DEF ReadEpochs
<1>3. CASE Bypass(c)
  BY <1>3 DEF Bypass, Join
<1>4. CASE SafeGet(c)
  BY <1>4, AfterGetLabels DEF SafeGet
<1>5. CASE Got(c)
  BY <1>5, LocalEpochsTyped DEF Got, Capture
<1>6. CASE Decide(c)
  BY <1>6 DEF Decide, Join
<1>7. CASE LockWaited(c)
  BY <1>7, LocalEpochsTyped DEF LockWaited, Capture
<1>8. CASE FetchedForced(c)
  BY <1>8, LocalEpochsTyped DEF FetchedForced, Capture
<1>9. CASE AcquireLock(c) \/ Waited(c) \/ DecideWait(c) \/ Fetch(c) \/ SafeSet(c)
         \/ SetIfTagEpochsMatch(c) \/ Resolve(c) \/ ForcedGot(c) \/ FetchForced(c) \/ CheckForced(c)
  BY <1>9 DEF AcquireLock, Waited, DecideWait, Fetch, SafeSet, SetIfTagEpochsMatch, Resolve,
     ForcedGot, FetchForced, CheckForced
<1> QED
  BY <1>1, <1>2, <1>3, <1>4, <1>5, <1>6, <1>7, <1>8, <1>9 DEF ReadStep

(* Only the reply of getTagEpochs touches the epochs got so far.            *)
LEMMA ReadServes ==
    ASSUME NEW c \in Reader, Begin(c) \/ ReadStep(c)
    PROVE  \/ UNCHANGED served /\ ~ReadEpochs(c)
           \/ served' = [served EXCEPT ![c] = NoneServed] /\ ReadEpochs(c)
<1>1. CASE ReadEpochs(c)
  BY <1>1 DEF ReadEpochs
<1>2. CASE ~ReadEpochs(c)
  BY <1>2 DEF Begin, ReadStep, Bypass, SafeGet, Got, Decide, AcquireLock, LockWaited, Waited,
     DecideWait, Fetch, SafeSet, SetIfTagEpochsMatch, Resolve, ForcedGot, FetchForced,
     FetchedForced, CheckForced
<1> QED
  BY <1>1, <1>2

LEMMA MutateServes ==
    ASSUME \/ \E m \in Mutation : Commit(m) \/ Invalidate(m)
           \/ \E j \in Job : InvalidateStep(j)
           \/ \E j \in Flusher : FlushQuarantine(j)
           \/ \E k \in Key : Expire(k) \/ ExpireLock(k)
    PROVE  UNCHANGED served
BY DEF Commit, Invalidate, InvalidateStep, InvalidateProvider, InvalidateEnd, FlushQuarantine,
   Expire, ExpireLock

LEMMA TypeRead ==
    ASSUME TypeInv, NEW c \in Reader, Begin(c) \/ ReadStep(c) PROVE TypeInv'
<1>1. ServedTypeOK'
  BY ReadServes, ServedTypes
<1> QED
  BY <1>1, ReadingTypes, LocalsTypes, StoreTypes, JobsTypes, RuntimeTypes, LocalsStayCaptured
     DEF TypeInv, TypeOK

LEMMA InvalidateProviderTyped ==
    ASSUME inv \in [Job -> JobStates], NEW j \in Job, InvalidateProvider(j)
    PROVE  inv' \in [Job -> JobStates]
<1>1. inv[j].n \in Nat /\ inv[j].n + 1 \in Nat
  BY DEF JobStates
<1>2. /\ [inv[j] EXCEPT !.pc = "ok"] \in JobStates
      /\ [inv[j] EXCEPT !.pc = "failed"] \in JobStates
      /\ [inv[j] EXCEPT !.n = inv[j].n + 1] \in JobStates
  BY <1>1 DEF JobStates
<1>3. \/ inv' = [inv EXCEPT ![j] = [inv[j] EXCEPT !.pc = "ok"]]
      \/ inv' = [inv EXCEPT ![j] = [inv[j] EXCEPT !.pc = "failed"]]
      \/ inv' = [inv EXCEPT ![j] = [inv[j] EXCEPT !.n = inv[j].n + 1]]
  BY DEF InvalidateProvider
<1> QED
  BY <1>2, <1>3

LEMMA InvalidateEndReaders ==
    ASSUME TypeInv, NEW j \in Job, InvalidateEnd(j)
    PROVE  LocalsTypeOK' /\ LocalsCaptured' /\ pc' \in [Reader -> Labels]
<1>1. CASE UNCHANGED <<pc, loc>>
  BY <1>1 DEF InvalidateEnd, TypeInv, TypeOK, LocalsTypeOK, LocalsCaptured, ReadingTypeOK
<1>2. CASE j \in Reader /\ loc' = [loc EXCEPT ![j] = LocalEpochs(j)]
           /\ \E l \in Labels : pc' = [pc EXCEPT ![j] = l]
  <2>1. UNCHANGED <<snap, snap2, cached, val>>
    BY DEF InvalidateEnd
  <2>2. LocalsTypeOK'
    BY <1>2, <2>1, LocalEpochsTyped DEF TypeInv, TypeOK, LocalsTypeOK
  <2>3. LocalsCaptured' /\ pc' \in [Reader -> Labels]
    BY <1>2, LocalEpochsTyped DEF TypeInv, TypeOK, LocalsTypeOK, ReadingTypeOK, LocalsCaptured
  <2> QED
    BY <2>2, <2>3
<1> QED
  BY <1>1, <1>2 DEF InvalidateEnd, Capture, GoTo, Labels

LEMMA InFlightKept ==
    ASSUME TypeInv, UNCHANGED <<inFlight, leader>>, localTagEpochs' \in [Replica -> [Tag -> Nat]],
           dirtyTags' \in [Replica -> SUBSET Tag], quarantineTimer' \in [Replica -> BOOLEAN]
    PROVE  RuntimeTypeOK' /\ LeadersShareKey'
BY DEF TypeInv, TypeOK, RuntimeTypeOK, LeadersShareKey, Snapshots, TagsFor

LEMMA TypeMutate ==
    ASSUME TypeInv,
           \/ \E m \in Mutation : Commit(m) \/ Invalidate(m)
           \/ \E j \in Job : InvalidateStep(j)
           \/ \E j \in Flusher : FlushQuarantine(j)
           \/ \E k \in Key : Expire(k) \/ ExpireLock(k)
    PROVE  TypeInv'
<1> USE CacheAssumption DEF TypeInv, TypeOK, SourceTypeOK, ProviderTypeOK, RuntimeTypeOK,
        ReadingTypeOK, LocalsTypeOK, JobsTypeOK, LeadersShareKey, LocalsCaptured, TagsFor,
        source, provider, runtime, reading, Fault, NoFault, Job
<1>0. ServedTypeOK'
  BY MutateServes, ServedTypes
<1> USE <1>0
<1>1. ASSUME NEW m \in Mutation, Commit(m) PROVE TypeInv'
  BY <1>1 DEF Commit, Versions
<1>2. ASSUME NEW m \in Mutation, Invalidate(m) PROVE TypeInv'
  <2>1. Writes[m] \in SUBSET Tag
    OBVIOUS
  <2>2. InvalidateBegin(m, Writes[m])
    BY <1>2 DEF Invalidate
  <2>3. RuntimeTypeOK' /\ LeadersShareKey'
    BY <1>2, <2>1, <2>2, InvalidateBeginTyped, InFlightKept DEF Invalidate
  <2>4. inv' \in [Job -> JobStates]
    BY <2>1, <2>2, InvalidateBeginTyped
  <2>5. raced' \in [Mutation -> SUBSET Tag]
    <3>1. AboutToReturn(At[m]) \cap Writes[m] \in SUBSET Tag
      BY <2>1
    <3> QED
      BY <1>2, <3>1 DEF Invalidate
  <2> QED
    BY <1>2, <2>3, <2>4, <2>5 DEF Invalidate
<1>3. ASSUME NEW j \in Job, InvalidateProvider(j) PROVE TypeInv'
  <2>1. inv' \in [Job -> JobStates]
    BY <1>3, InvalidateProviderTyped
  <2>2. SourceTypeOK' /\ ProviderTypeOK'
    <3>1. CASE UNCHANGED <<tagEpochs, entries, fence>>
      BY <1>3, <3>1 DEF InvalidateProvider
    <3>2. CASE InvalidateTagScript(inv[j].tags)
      BY <1>3, <3>2 DEF InvalidateProvider, InvalidateTagScript
    <3> QED
      BY <1>3, <3>1, <3>2 DEF InvalidateProvider
  <2> QED
    BY <1>3, <2>1, <2>2 DEF InvalidateProvider
<1>4. ASSUME NEW j \in Job, InvalidateEnd(j) PROVE TypeInv'
  <2>1. dirtyTags' \in [Replica -> SUBSET Tag]
    BY <1>4 DEF InvalidateEnd
  <2>2. quarantineTimer' \in [Replica -> BOOLEAN]
    <3>1. \E b \in BOOLEAN : \/ quarantineTimer' = [quarantineTimer EXCEPT ![At[j]] = b]
                             \/ UNCHANGED quarantineTimer
      <4>1. At[j] \in Replica /\ quarantineTimer[At[j]] \in BOOLEAN
        OBVIOUS
      <4> QED
        BY <1>4, <4>1 DEF InvalidateEnd
    <3> QED
      BY <3>1
  <2>3. RuntimeTypeOK' /\ LeadersShareKey'
    BY <1>4, <2>1, <2>2, InFlightKept DEF InvalidateEnd
  <2>4. JobsTypeOK'
    <3>1. inv' = [inv EXCEPT ![j] = Idle] /\ Idle \in JobStates
      BY <1>4 DEF InvalidateEnd, Idle, JobStates
    <3>2. inv' \in [Job -> JobStates]
      BY <3>1
    <3>3. /\ mpc' = [mpc EXCEPT ![j] = "done"] \/ mpc' = mpc
          /\ mver' = mver /\ raced' = raced /\ faults' = faults
      BY <1>4 DEF InvalidateEnd
    <3> QED
      BY <3>2, <3>3
  <2>5. ReadingTypeOK' /\ LocalsTypeOK' /\ LocalsCaptured'
    BY <1>4, InvalidateEndReaders DEF InvalidateEnd
  <2> QED
    BY <1>4, <2>3, <2>4, <2>5 DEF InvalidateEnd
<1>5. ASSUME NEW j \in Flusher, FlushQuarantine(j) PROVE TypeInv'
  <2>1. JobsTypeOK'
    BY <1>5 DEF FlushQuarantine, JobStates
  <2>2. RuntimeTypeOK' /\ LeadersShareKey'
    <3>1. UNCHANGED <<localTagEpochs, dirtyTags, inFlight, leader>>
          /\ quarantineTimer' \in [Replica -> BOOLEAN]
      BY <1>5 DEF FlushQuarantine
    <3> QED
      BY <3>1, InFlightKept
  <2> QED
    BY <1>5, <2>1, <2>2 DEF FlushQuarantine
<1>6. ASSUME NEW k \in Key, Expire(k) \/ ExpireLock(k) PROVE TypeInv'
  <2>1. ProviderTypeOK' /\ SourceTypeOK'
    <3>1. CASE Expire(k)
      BY <3>1 DEF Expire
    <3>2. CASE ExpireLock(k)
      BY <3>2 DEF ExpireLock
    <3> QED
      BY <1>6, <3>1, <3>2
  <2>2. RuntimeTypeOK' /\ LeadersShareKey'
    <3>1. UNCHANGED <<localTagEpochs, dirtyTags, quarantineTimer, inFlight, leader>>
      BY <1>6 DEF Expire, ExpireLock
    <3> QED
      BY <3>1, InFlightKept
  <2>3. ReadingTypeOK' /\ LocalsTypeOK' /\ LocalsCaptured' /\ JobsTypeOK'
    BY <1>6 DEF Expire, ExpireLock
  <2> QED
    BY <2>1, <2>2, <2>3
<1> QED
  BY <1>1, <1>2, <1>3, <1>4, <1>5, <1>6 DEF InvalidateStep

(* A GET and a step that changes nothing leave everything else as it is.    *)
others == <<source, provider, runtime, reading, inv, mpc, mver, raced, faults>>

LEMMA TypeStutter == ASSUME TypeInv, UNCHANGED others, ServedTypeOK' PROVE TypeInv'
BY DEF others, TypeInv, TypeOK, SourceTypeOK, ProviderTypeOK, RuntimeTypeOK, ReadingTypeOK,
   LocalsTypeOK, JobsTypeOK, LeadersShareKey, LocalsCaptured, source, provider, runtime, reading

(* What a GET adds to the epochs of its snapshot.                           *)
LEMMA GetServes ==
    ASSUME TypeInv, NEW c \in Reader, GetTagEpoch(c)
    PROVE  /\ UNCHANGED others
           /\ DOMAIN served' = Reader
           /\ \A d \in Reader \ {c} : served'[d] = served[d]
           /\ \A t \in DOMAIN served'[c] :
                 \/ t \in Served(c) /\ served'[c][t] = served[c][t]
                 \/ /\ t \in TagsFor(c)
                    /\ served'[c][t] = [epoch |-> tagEpochs[t], fence |-> fence[t]]
           /\ Served(c) \subseteq DOMAIN served'[c]
<1>1. PICK t \in TagsFor(c) \ Served(c) :
         served' = [served EXCEPT ![c] =
            [v \in Served(c) \cup {t} |->
                IF v = t THEN [epoch |-> tagEpochs[t], fence |-> fence[t]] ELSE served[c][v]]]
  BY DEF GetTagEpoch
<1>2. DOMAIN served = Reader
  BY DEF TypeInv, TypeOK, ServedTypeOK
<1>3. served'[c] = [v \in Served(c) \cup {t} |->
                      IF v = t THEN [epoch |-> tagEpochs[t], fence |-> fence[t]] ELSE served[c][v]]
  BY <1>1, <1>2
<1>4. DOMAIN served'[c] = Served(c) \cup {t}
  BY <1>3
<1>5. ASSUME NEW v \in DOMAIN served'[c]
      PROVE  \/ v \in Served(c) /\ served'[c][v] = served[c][v]
             \/ /\ v \in TagsFor(c)
                /\ served'[c][v] = [epoch |-> tagEpochs[v], fence |-> fence[v]]
  BY <1>3, <1>4, <1>5
<1>6. UNCHANGED others
  BY DEF GetTagEpoch, others
<1> QED
  BY <1>1, <1>2, <1>4, <1>5, <1>6

LEMMA TypeGet == ASSUME TypeInv, NEW c \in Reader, GetTagEpoch(c) PROVE TypeInv'
<1>1. \A t \in TagsFor(c) : [epoch |-> tagEpochs[t], fence |-> fence[t]] \in [epoch : Nat, fence : Nat]
  BY CacheAssumption DEF TypeInv, TypeOK, ProviderTypeOK, SourceTypeOK, TagsFor
<1>2. \A t \in Served(c) : t \in TagsFor(c) /\ served[c][t] \in [epoch : Nat, fence : Nat]
  BY DEF TypeInv, TypeOK, ServedTypeOK
<1>3. \A t \in DOMAIN served'[c] : t \in TagsFor(c) /\ served'[c][t] \in [epoch : Nat, fence : Nat]
  BY <1>1, <1>2, GetServes
<1>4. DOMAIN served' = Reader /\ \A d \in Reader \ {c} : served'[d] = served[d]
  BY GetServes
<1>5. ServedTypeOK'
  BY <1>3, <1>4 DEF TypeInv, TypeOK, ServedTypeOK, Served, TagsFor
<1> QED
  BY <1>5, GetServes, TypeStutter

LEMMA TypeInit == Init => TypeInv
BY CacheAssumption DEF Init, TypeInv, TypeOK, SourceTypeOK, ProviderTypeOK, RuntimeTypeOK,
   ReadingTypeOK, LocalsTypeOK, ServedTypeOK, Served, NoneServed, JobsTypeOK, LeadersShareKey,
   LocalsCaptured, Idle, JobStates, Labels, AfterEpochs

LEMMA TypeNext == ASSUME TypeInv, [Next \/ Quiescent]_vars PROVE TypeInv'
<1>1. CASE UNCHANGED vars
  BY <1>1, ServedTypes, TypeStutter DEF vars, others
<1> QED
  BY <1>1, TypeRead, TypeMutate, TypeGet DEF Next, Quiescent

(* Every reachable state of any instance is well typed: in particular a     *)
(* value handed to joined readers has exactly the tags of their key.        *)
THEOREM TypeCorrect == Spec => []TypeOK
<1>1. Init => TypeInv
  BY TypeInit
<1>2. TypeInv /\ [Next \/ Quiescent]_vars => TypeInv'
  BY TypeNext
<1>3. TypeInv => TypeOK
  BY DEF TypeInv
<1> QED
  BY <1>1, <1>2, <1>3, PTL DEF Spec

-----------------------------------------------------------------------------
(* Where readers stand: what a label says of its reader.                    *)

ForcedLabels == {"snapForced", "getForced", "gotForced", "fencing", "snapFenced",
                 "fetchForced", "fetchedForced", "snapForcedAfter", "checkForced",
                 "notifying", "snapWrite"}

Places ==
    \A c \in Reader :
        /\ pc[c] \in ForcedLabels => c \in Forced
        /\ pc[c] = "set" => snap[c] # None
        /\ pc[c] \in {"notifying", "snapWrite"} => c \in notified
        /\ inv[c].pc # "idle" => pc[c] \in {"fencing", "notifying"}
        /\ c \in notified => c \in Forced
        /\ c \in refreshed => pc[c] \in {"resolve", "done"}

LEMMA PlacesInit == Init => Places
BY CacheAssumption DEF Init, Places, ForcedLabels, Idle, Job

LEMMA PlacesRead ==
    ASSUME TypeInv, Places, NEW c \in Reader, Begin(c) \/ ReadStep(c)
    PROVE  Places'
<1>0. /\ DOMAIN pc = Reader /\ DOMAIN snap = Reader /\ refreshed \subseteq Reader
      /\ notified \subseteq Reader /\ DOMAIN inv = Job /\ c \in Job
  BY DEF TypeInv, TypeOK, LocalsTypeOK, ReadingTypeOK, JobsTypeOK, Job
<1>1. CASE ReadEpochs(c)
  <2>1. /\ pc[c] \in DOMAIN AfterEpochs /\ pc' = [pc EXCEPT ![c] = AfterEpochs[pc[c]]]
        /\ UNCHANGED <<inv, refreshed, notified>>
    BY <1>1 DEF ReadEpochs, GoTo
  <2>2. /\ pc'[c] \notin {"set", "notifying", "snapWrite"} /\ inv[c].pc = "idle"
        /\ pc'[c] \in ForcedLabels => pc[c] \in ForcedLabels
        /\ c \notin refreshed
    BY <1>0, <2>1 DEF AfterEpochs, Places, ForcedLabels
  <2>3. \A d \in Reader : d # c => pc'[d] = pc[d] /\ snap'[d] = snap[d]
    BY <1>0, <1>1, <2>1 DEF ReadEpochs
  <2> QED
    BY <2>1, <2>2, <2>3 DEF Places
<1>2. CASE Begin(c) \/ Bypass(c) \/ Decide(c)
  <2>1. /\ pc'[c] \notin {"set", "notifying", "snapWrite"} /\ pc[c] \in {"idle", "get", "decide"}
        /\ pc'[c] \in ForcedLabels => c \in Forced
        /\ \A d \in Reader : d # c => pc'[d] = pc[d] /\ snap'[d] = snap[d]
        /\ UNCHANGED <<inv, refreshed, notified>>
    BY <1>0, <1>2 DEF Begin, Bypass, Decide, Join, Capture, GoTo, ForcedLabels
  <2> QED
    BY <2>1 DEF Places
<1>3. CASE SafeGet(c) \/ Got(c) \/ AcquireLock(c) \/ LockWaited(c) \/ Waited(c) \/ DecideWait(c)
  <2>1. /\ pc[c] \in {"get", "getForced", "getWait", "got", "gotWait", "lock", "lockWait", "waited",
                      "decideWait"}
        /\ pc'[c] \notin {"set", "notifying", "snapWrite"}
        /\ pc'[c] \in ForcedLabels => pc[c] \in ForcedLabels
    BY <1>0, <1>3 DEF SafeGet, Got, AcquireLock, LockWaited, Waited, DecideWait, AfterGet,
       AfterMiss, Capture, GoTo, ForcedLabels
  <2>2. /\ \A d \in Reader : d # c => pc'[d] = pc[d]
        /\ UNCHANGED <<inv, refreshed, notified, snap>>
    BY <1>0, <1>3 DEF SafeGet, Got, AcquireLock, LockWaited, Waited, DecideWait, Capture, GoTo
  <2> QED
    BY <2>1, <2>2 DEF Places
<1>4. CASE Fetch(c) \/ SafeSet(c) \/ FetchForced(c) \/ FetchedForced(c)
  <2>1. /\ pc[c] \in {"fetch", "fetched", "fetchForced", "fetchedForced"}
        /\ pc'[c] \notin {"notifying", "snapWrite"}
        /\ pc'[c] = "set" => snap[c] # None
        /\ pc'[c] \in ForcedLabels => pc[c] \in ForcedLabels
        /\ \A d \in Reader : d # c => pc'[d] = pc[d]
        /\ UNCHANGED <<inv, refreshed, notified, snap>>
    BY <1>0, <1>4 DEF Fetch, SafeSet, Storable, FetchForced, FetchedForced, Capture, GoTo,
       ForcedLabels
  <2> QED
    BY <2>1 DEF Places
<1>5. CASE SetIfTagEpochsMatch(c)
  <2>1. /\ pc'[c] = "resolve" /\ pc[c] = "set" /\ refreshed' \subseteq refreshed \cup {c}
        /\ \A d \in Reader : d # c => pc'[d] = pc[d]
        /\ UNCHANGED <<inv, snap, notified>>
    BY <1>0, <1>5 DEF SetIfTagEpochsMatch, GoTo
  <2> QED
    BY <2>1 DEF Places, ForcedLabels
<1>6. CASE Resolve(c)
  <2>1. /\ \A d \in Reader : pc'[d] = pc[d] \/ (pc[d] \in {"resolve", "joined"} /\ pc'[d] = "done")
        /\ UNCHANGED <<inv, refreshed, notified, snap>>
    BY <1>0, <1>6 DEF Resolve, Settled
  <2> QED
    BY <2>1 DEF Places, ForcedLabels
<1>7. CASE ForcedGot(c) \/ CheckForced(c)
  <2>1. /\ pc[c] \in {"gotForced", "checkForced"} /\ UNCHANGED <<refreshed, snap>>
        /\ \A d \in Reader : d # c => pc'[d] = pc[d]
        /\ notified' \in {notified, notified \cup {c}}
        /\ pc'[c] \in {"notifying", "snapWrite"} => c \in notified'
        /\ pc'[c] # "set"
    BY <1>0, <1>7 DEF ForcedGot, CheckForced, GoTo
  <2>2. inv' = inv \/ (InvalidateBegin(c, TagsFor(c)) /\ pc'[c] \in {"fencing", "notifying"})
    BY <1>0, <1>7 DEF ForcedGot, CheckForced, GoTo
  <2>3. \A d \in Reader : d # c => inv'[d] = inv[d]
    <3>1. CASE InvalidateBegin(c, TagsFor(c))
      <4>1. inv' = [inv EXCEPT ![c] = [pc |-> "trying", tags |-> TagsFor(c), n |-> 1]]
        BY <3>1 DEF InvalidateBegin
      <4> QED
        BY <1>0, <4>1 DEF Job
    <3> QED
      BY <2>2, <3>1
  <2>4. inv' = inv \/ pc'[c] \in {"fencing", "notifying"}
    BY <2>2
  <2>5. c \in Forced
    BY <2>1 DEF Places, ForcedLabels
  <2> QED
    BY <2>1, <2>3, <2>4, <2>5 DEF Places
<1> QED
  BY <1>1, <1>2, <1>3, <1>4, <1>5, <1>6, <1>7 DEF ReadStep

LEMMA PlacesMutate ==
    ASSUME TypeInv, Places,
           \/ \E m \in Mutation : Commit(m) \/ Invalidate(m)
           \/ \E j \in Job : InvalidateStep(j)
           \/ \E j \in Flusher : FlushQuarantine(j)
           \/ \E k \in Key : Expire(k) \/ ExpireLock(k)
    PROVE  Places'
<1>0. DOMAIN pc = Reader /\ DOMAIN inv = Job /\ \A c \in Reader : c \in Job
  BY DEF TypeInv, TypeOK, ReadingTypeOK, JobsTypeOK, Job
<1>1. ASSUME NEW j \in Job, InvalidateEnd(j) PROVE Places'
  <2>1. /\ UNCHANGED <<snap, refreshed, notified>>
        /\ \A d \in Reader : d # j => pc'[d] = pc[d] /\ inv'[d] = inv[d]
    BY <1>0, <1>1 DEF InvalidateEnd, Capture, GoTo
  <2>2. j \in Reader => /\ pc[j] \in {"fencing", "notifying"} /\ inv'[j].pc = "idle"
                        /\ pc'[j] = IF pc[j] = "fencing" THEN "snapFenced" ELSE "snapWrite"
    <3>1. j \in Reader => Capture(j, IF pc[j] = "fencing" THEN "snapFenced" ELSE "snapWrite")
      BY <1>1, CacheAssumption DEF InvalidateEnd
    <3>2. inv'[j].pc = "idle" /\ inv[j].pc # "idle"
      BY <1>0, <1>1 DEF InvalidateEnd, Idle
    <3> QED
      BY <1>0, <3>1, <3>2 DEF Capture, GoTo, Places
  <2> QED
    BY <2>1, <2>2 DEF Places, ForcedLabels
<1>2. ASSUME NEW j \in Job, InvalidateProvider(j) PROVE Places'
  <2>1. UNCHANGED <<pc, snap, refreshed, notified>>
    BY <1>2 DEF InvalidateProvider, reading
  <2>2. \A d \in Reader : inv'[d].pc # "idle" => inv[d].pc # "idle"
    BY <1>0, <1>2 DEF InvalidateProvider
  <2> QED
    BY <2>1, <2>2 DEF Places
<1>3. CASE UNCHANGED <<pc, snap, refreshed, notified>> /\ \A c \in Reader : inv'[c] = inv[c]
  BY <1>3 DEF Places
<1>4. ASSUME NEW m \in Mutation, Invalidate(m) PROVE \A c \in Reader : inv'[c] = inv[c]
  BY <1>0, <1>4, CacheAssumption DEF Invalidate, InvalidateBegin
<1>5. ASSUME NEW j \in Flusher, FlushQuarantine(j) PROVE \A c \in Reader : inv'[c] = inv[c]
  BY <1>0, <1>5, CacheAssumption DEF FlushQuarantine
<1> QED
  BY <1>1, <1>2, <1>3, <1>4, <1>5 DEF InvalidateStep, Commit, Invalidate, FlushQuarantine, Expire,
     ExpireLock, reading

LEMMA PlacesStutter == ASSUME Places, UNCHANGED others PROVE Places'
BY DEF others, Places, reading

-----------------------------------------------------------------------------
(* The stored values that may be older than the fence: once a forced read   *)
(* has been stored its value never changes.                                 *)

LatesKept == LateRefreshes \subseteq LateRefreshes'

LEMMA KeptWhenSettled ==
    ASSUME refreshed \subseteq refreshed', notified \subseteq notified',
           \A f \in refreshed : val'[f] = val[f]
    PROVE  LatesKept
<1> SUFFICES ASSUME NEW f \in notified \cap refreshed
             PROVE  <<KeyOf[f], val[f]>> \in LateRefreshes'
  BY DEF LatesKept, LateRefreshes
<1>1. f \in notified' \cap refreshed' /\ val'[f] = val[f]
  OBVIOUS
<1> QED
  BY <1>1 DEF LateRefreshes

LEMMA SettledKeepsValue ==
    ASSUME TypeInv, Places, NEW c \in Reader, Begin(c) \/ ReadStep(c), NEW f \in refreshed
    PROVE  val'[f] = val[f]
<1>1. f \in Reader /\ pc[f] \in {"resolve", "done"} /\ DOMAIN val = Reader
  BY DEF Places, TypeInv, TypeOK, ReadingTypeOK, LocalsTypeOK
<1>2. CASE Resolve(c)
  BY <1>1, <1>2 DEF Resolve, Settled
<1>3. CASE Decide(c) \/ DecideWait(c) \/ Fetch(c) \/ FetchForced(c)
  BY <1>1, <1>3 DEF Decide, DecideWait, Fetch, FetchForced
<1>4. CASE UNCHANGED val
  BY <1>4
<1> QED
  BY <1>2, <1>3, <1>4 DEF Begin, ReadStep, ReadEpochs, Bypass, SafeGet, Got, AcquireLock,
     LockWaited, Waited, SafeSet, SetIfTagEpochsMatch, ForcedGot, FetchedForced, CheckForced

LEMMA ReadKeepsLates ==
    ASSUME TypeInv, Places, NEW c \in Reader, Begin(c) \/ ReadStep(c)
    PROVE  LatesKept
<1>1. refreshed \subseteq refreshed' /\ notified \subseteq notified'
  BY DEF Begin, ReadStep, ReadEpochs, Bypass, SafeGet, Got, Decide, AcquireLock, LockWaited, Waited,
     DecideWait, Fetch, SafeSet, SetIfTagEpochsMatch, Resolve, ForcedGot, FetchForced,
     FetchedForced, CheckForced
<1>2. \A f \in refreshed : val'[f] = val[f]
  BY SettledKeepsValue
<1> QED
  BY <1>1, <1>2, KeptWhenSettled

LEMMA MutateKeepsLates ==
    ASSUME \/ \E m \in Mutation : Commit(m) \/ Invalidate(m)
           \/ \E j \in Job : InvalidateStep(j)
           \/ \E j \in Flusher : FlushQuarantine(j)
           \/ \E k \in Key : Expire(k) \/ ExpireLock(k)
    PROVE  LatesKept
<1>1. UNCHANGED <<refreshed, notified, val>>
  BY DEF Commit, Invalidate, InvalidateStep, InvalidateProvider, InvalidateEnd, FlushQuarantine,
     Expire, ExpireLock, reading
<1> QED
  BY <1>1, KeptWhenSettled

-----------------------------------------------------------------------------
(* Fencing.                                                                 *)

FenceBelowSource == \A t \in Tag : fence[t] <= db[t]

(* A snapshot is never ahead of the provider.                               *)
Behind(s, c) == s # None => \A t \in TagsFor(c) :
                               s.external[t] \in Nat /\ s.external[t] <= tagEpochs[t]

(* Nor is an epoch that was got for a snapshot still in progress, and it is  *)
(* the provider's only as long as no later invalidation has run.            *)
ServedBehind ==
    \A c \in Reader : \A t \in Served(c) :
        served[c][t].epoch <= tagEpochs[t] /\ served[c][t].fence <= fence[t]

SnapshotsBehind == \A c \in Reader : Behind(snap[c], c) /\ Behind(snap2[c], c)

(* A computed value may be stale, but then its snapshot is too, unless the  *)
(* snapshot was taken again after onChanged.                                *)
Computed == {"fetchedForced", "snapForcedAfter", "checkForced", "notifying", "snapWrite", "fetched",
             "set"}

ComputedAfterSnapshot ==
    \A c \in Reader : pc[c] \in Computed =>
        /\ val[c] \in Versions(TagsFor(c))
        /\ \A t \in TagsFor(c) :
              /\ val[c][t] <= db[t]
              /\ c \notin notified /\ snap[c] # None /\ snap[c].external[t] = tagEpochs[t]
                    => fence[t] <= val[c][t]

FenceInv == /\ Places /\ FenceBelowSource /\ ServedBehind /\ SnapshotsBehind
            /\ ComputedAfterSnapshot /\ FencedEntries

LEMMA FenceInit == Init => FenceInv
BY PlacesInit, CacheAssumption DEF Init, FenceInv, FenceBelowSource, ServedBehind, Served, NoneServed,
   SnapshotsBehind, Behind, ComputedAfterSnapshot, Computed, FencedEntries, Job

(* Neither an epoch nor a fence is taken back, and a GET gets the present.  *)
LEMMA ServedStaysBehind ==
    ASSUME TypeInv, TypeInv', ServedBehind,
           \/ UNCHANGED served
           \/ \E c \in Reader : served' = [served EXCEPT ![c] = NoneServed],
           \A t \in Tag : tagEpochs[t] <= tagEpochs'[t] /\ fence[t] <= fence'[t]
    PROVE  ServedBehind'
<1>1. DOMAIN NoneServed = {}
  BY DEF NoneServed
<1>2. \A d \in Reader : served'[d] \in {served[d], NoneServed}
  BY DEF TypeInv, TypeOK, ServedTypeOK
<1> SUFFICES ASSUME NEW d \in Reader, NEW t \in Served(d), served'[d] = served[d]
             PROVE  served[d][t].epoch <= tagEpochs'[t] /\ served[d][t].fence <= fence'[t]
  BY <1>1, <1>2 DEF ServedBehind, Served
<1>3. t \in Tag /\ served[d][t].epoch \in Nat /\ served[d][t].fence \in Nat
  BY CacheAssumption DEF TypeInv, TypeOK, ServedTypeOK, TagsFor
<1>4. /\ tagEpochs[t] \in Nat /\ fence[t] \in Nat /\ tagEpochs'[t] \in Nat /\ fence'[t] \in Nat
  BY <1>3 DEF TypeInv, TypeOK, SourceTypeOK, ProviderTypeOK
<1>5. served[d][t].epoch <= tagEpochs[t] /\ served[d][t].fence <= fence[t]
  BY DEF ServedBehind
<1>6. tagEpochs[t] <= tagEpochs'[t] /\ fence[t] <= fence'[t]
  BY <1>3
<1> QED
  BY <1>3, <1>4, <1>5, <1>6

LEMMA GetServedBehind ==
    ASSUME TypeInv, ServedBehind, NEW c \in Reader, GetTagEpoch(c) PROVE ServedBehind'
<1>1. UNCHANGED <<tagEpochs, fence>>
  BY GetServes DEF others, source, provider
<1>2. \A t \in TagsFor(c) : tagEpochs[t] \in Nat /\ fence[t] \in Nat
  BY CacheAssumption DEF TypeInv, TypeOK, ProviderTypeOK, SourceTypeOK, TagsFor
<1>3. \A t \in DOMAIN served'[c] :
         served'[c][t].epoch <= tagEpochs[t] /\ served'[c][t].fence <= fence[t]
  <2> SUFFICES ASSUME NEW t \in DOMAIN served'[c]
               PROVE  served'[c][t].epoch <= tagEpochs[t] /\ served'[c][t].fence <= fence[t]
    OBVIOUS
  <2>1. CASE t \in Served(c) /\ served'[c][t] = served[c][t]
    BY <2>1 DEF ServedBehind
  <2>2. CASE t \in TagsFor(c) /\ served'[c][t] = [epoch |-> tagEpochs[t], fence |-> fence[t]]
    BY <1>2, <2>2
  <2> QED
    BY <2>1, <2>2, GetServes
<1>4. \A d \in Reader \ {c} : served'[d] = served[d]
  BY GetServes
<1> QED
  BY <1>1, <1>3, <1>4 DEF ServedBehind, Served

(* What a step of c leaves of it to the others.                             *)
LEMMA ComputedByOthers ==
    ASSUME TypeInv, FenceInv, NEW c \in Reader, Begin(c) \/ ReadStep(c),
           pc'[c] \in Computed =>
              /\ val'[c] \in Versions(TagsFor(c))
              /\ \A t \in TagsFor(c) :
                    /\ val'[c][t] <= db[t]
                    /\ c \notin notified' /\ snap'[c] # None /\ snap'[c].external[t] = tagEpochs[t]
                          => fence[t] <= val'[c][t]
    PROVE  ComputedAfterSnapshot'
<1>0. DOMAIN pc = Reader /\ DOMAIN snap = Reader /\ DOMAIN val = Reader
  BY DEF TypeInv, TypeOK, ReadingTypeOK, LocalsTypeOK
<1>1. UNCHANGED <<db, fence, tagEpochs>>
  BY DEF Begin, ReadStep, ReadEpochs, Bypass, SafeGet, Got, Decide, AcquireLock, LockWaited, Waited,
     DecideWait, Fetch, SafeSet, SetIfTagEpochsMatch, Resolve, ForcedGot, FetchForced,
     FetchedForced, CheckForced, source, provider
<1>2. \A d \in Reader \ {c} : d \in notified' <=> d \in notified
  BY DEF Begin, ReadStep, ReadEpochs, Bypass, SafeGet, Got, Decide, AcquireLock, LockWaited, Waited,
     DecideWait, Fetch, SafeSet, SetIfTagEpochsMatch, Resolve, ForcedGot, FetchForced,
     FetchedForced, CheckForced
<1>3. ASSUME NEW d \in Reader \ {c}, pc'[d] \in Computed
      PROVE  pc'[d] = pc[d] /\ snap'[d] = snap[d] /\ val'[d] = val[d]
  <2>1. CASE Resolve(c)
    BY <1>0, <1>3, <2>1 DEF Resolve, Computed
  <2>2. CASE ~Resolve(c)
    BY <1>0, <2>2 DEF Begin, ReadStep, ReadEpochs, Bypass, SafeGet, Got, Decide, AcquireLock,
       LockWaited, Waited, DecideWait, Fetch, SafeSet, SetIfTagEpochsMatch, ForcedGot, FetchForced,
       FetchedForced, CheckForced, Join, Capture, GoTo
  <2> QED
    BY <2>1, <2>2
<1> QED
  BY <1>1, <1>2, <1>3 DEF FenceInv, ComputedAfterSnapshot, TagsFor

(* No read takes a snapshot ahead of the provider,                          *)
LEMMA ReadsBehind ==
    ASSUME TypeInv, FenceInv, NEW c \in Reader, Begin(c) \/ ReadStep(c)
    PROVE  SnapshotsBehind'
<1>0. DOMAIN snap = Reader /\ DOMAIN snap2 = Reader
  BY DEF TypeInv, TypeOK, LocalsTypeOK
<1>1. tagEpochs' = tagEpochs
  BY DEF Begin, ReadStep, ReadEpochs, Bypass, SafeGet, Got, Decide, AcquireLock, LockWaited, Waited,
     DecideWait, Fetch, SafeSet, SetIfTagEpochsMatch, Resolve, ForcedGot, FetchForced,
     FetchedForced, CheckForced, provider
<1>2. CASE ReadEpochs(c)
  <2>1. Behind([local |-> loc[c], external |-> getTagEpochs(c)], c)
    BY CacheAssumption DEF Behind, getTagEpochs, TypeInv, TypeOK, ProviderTypeOK, ServedTypeOK,
       TagsFor, FenceInv, ServedBehind
  <2>2. \A d \in Reader : /\ snap'[d] = snap[d] \/ (d = c /\ Behind(snap'[d], d))
                          /\ snap2'[d] = snap2[d] \/ (d = c /\ Behind(snap2'[d], d))
    BY <1>0, <1>2, <2>1 DEF ReadEpochs, Behind
  <2> QED
    BY <1>1, <2>2 DEF FenceInv, SnapshotsBehind, Behind, TagsFor
<1>3. CASE Begin(c) \/ Bypass(c) \/ Decide(c) \/ DecideWait(c) \/ Resolve(c)
  <2>1. \A d \in Reader : /\ snap'[d] \in {snap[d], snap2[d], None}
                          /\ snap2'[d] \in {snap2[d], None}
    BY <1>0, <1>3 DEF Begin, Bypass, Decide, DecideWait, Resolve, Join
  <2> QED
    BY <1>1, <2>1 DEF FenceInv, SnapshotsBehind, Behind, TagsFor
<1>4. CASE UNCHANGED <<snap, snap2>>
  BY <1>1, <1>4 DEF FenceInv, SnapshotsBehind, Behind, TagsFor
<1> QED
  BY <1>2, <1>3, <1>4 DEF ReadStep, SafeGet, Got, AcquireLock, LockWaited, Waited, Fetch, SafeSet,
     SetIfTagEpochsMatch, ForcedGot, FetchForced, FetchedForced, CheckForced

(* none computes a value its snapshot does not cover,                       *)
LEMMA ReadsComputed ==
    ASSUME TypeInv, FenceInv, NEW c \in Reader, Begin(c) \/ ReadStep(c)
    PROVE  ComputedAfterSnapshot'
<1>0. DOMAIN pc = Reader /\ DOMAIN snap = Reader /\ DOMAIN val = Reader
  BY DEF TypeInv, TypeOK, ReadingTypeOK, LocalsTypeOK
<1>1. ASSUME pc'[c] \notin Computed PROVE ComputedAfterSnapshot'
  BY <1>1, ComputedByOthers
<1>2. ASSUME pc'[c] \in Computed, pc[c] \in Computed, val'[c] = val[c], notified \subseteq notified',
             c \in notified' \/ snap'[c] = snap[c]
      PROVE  ComputedAfterSnapshot'
  BY <1>2, ComputedByOthers DEF FenceInv, ComputedAfterSnapshot
<1>3. CASE Fetch(c) \/ FetchForced(c)
  <2>1. CASE val' = [val EXCEPT ![c] = [t \in TagsFor(c) |-> db[t]]]
    <3>1. val'[c] = [t \in TagsFor(c) |-> db[t]] /\ val'[c] \in Versions(TagsFor(c))
      BY <1>0, <2>1, FetchTyped
    <3>2. \A t \in TagsFor(c) : t \in Tag /\ fence[t] <= db[t] /\ db[t] \in Nat
      BY CacheAssumption DEF FenceInv, FenceBelowSource, TagsFor, TypeInv, TypeOK, SourceTypeOK
    <3> QED
      BY <3>1, <3>2, ComputedByOthers
  <2>2. CASE pc'[c] = "resolve"
    BY <1>1, <2>2 DEF Computed
  <2> QED
    BY <1>0, <1>3, <2>1, <2>2 DEF Fetch, FetchForced, GoTo
<1>4. CASE ReadEpochs(c)
  <2>1. CASE pc[c] = "snapForcedAfter"
    <3>1. pc'[c] = "checkForced" /\ UNCHANGED <<snap, val, notified>>
      BY <1>0, <1>4, <2>1 DEF ReadEpochs, GoTo, AfterEpochs, SecondSnapshot
    <3> QED
      BY <1>2, <2>1, <3>1 DEF Computed
  <2>2. CASE pc[c] = "snapWrite"
    <3>1. pc'[c] = "fetched" /\ UNCHANGED <<val, notified>> /\ c \in notified
      BY <1>0, <1>4, <2>2 DEF ReadEpochs, GoTo, AfterEpochs, FenceInv, Places
    <3> QED
      BY <1>2, <2>2, <3>1 DEF Computed
  <2>3. CASE pc[c] \notin {"snapForcedAfter", "snapWrite"}
    BY <1>0, <1>1, <1>4, <2>3 DEF ReadEpochs, GoTo, AfterEpochs, Computed
  <2> QED
    BY <2>1, <2>2, <2>3
<1>5. CASE SafeSet(c) \/ FetchedForced(c) \/ CheckForced(c)
  <2>1. pc[c] \in Computed /\ UNCHANGED <<val, snap>> /\ notified \subseteq notified'
    BY <1>5 DEF SafeSet, FetchedForced, CheckForced, Computed
  <2> QED
    BY <1>1, <1>2, <2>1
<1>6. CASE \/ Begin(c) \/ Bypass(c) \/ SafeGet(c) \/ Got(c) \/ Decide(c) \/ AcquireLock(c)
           \/ LockWaited(c) \/ Waited(c) \/ DecideWait(c) \/ SetIfTagEpochsMatch(c) \/ Resolve(c)
           \/ ForcedGot(c)
  <2>1. CASE Begin(c) \/ Bypass(c) \/ Decide(c) \/ ForcedGot(c)
    <3>1. pc'[c] \notin Computed
      BY <1>0, <2>1 DEF Begin, Bypass, Decide, ForcedGot, Join, Capture, GoTo, Computed
    <3> QED
      BY <1>1, <3>1
  <2>2. CASE SafeGet(c) \/ Got(c) \/ SetIfTagEpochsMatch(c)
    <3>1. pc'[c] \notin Computed
      BY <1>0, <2>2 DEF SafeGet, Got, SetIfTagEpochsMatch, Capture, GoTo, AfterGet, AfterMiss,
         Computed
    <3> QED
      BY <1>1, <3>1
  <2>3. CASE AcquireLock(c) \/ LockWaited(c) \/ Waited(c) \/ DecideWait(c)
    <3>1. pc'[c] \notin Computed
      BY <1>0, <2>3 DEF AcquireLock, LockWaited, Waited, DecideWait, Capture, GoTo, AfterMiss,
         Computed
    <3> QED
      BY <1>1, <3>1
  <2>4. CASE Resolve(c)
    <3>1. pc'[c] = "done"
      BY <1>0, <2>4 DEF Resolve, Settled
    <3> QED
      BY <1>1, <3>1 DEF Computed
  <2> QED
    BY <1>6, <2>1, <2>2, <2>3, <2>4
<1> QED
  BY <1>3, <1>4, <1>5, <1>6 DEF ReadStep

(* and none stores a value below the fence, but those stored late.          *)
LEMMA ReadsStoreFenced ==
    ASSUME TypeInv, FenceInv, NEW c \in Reader, Begin(c) \/ ReadStep(c)
    PROVE  FencedEntries'
<1>1. fence' = fence
  BY DEF Begin, ReadStep, ReadEpochs, Bypass, SafeGet, Got, Decide, AcquireLock, LockWaited, Waited,
     DecideWait, Fetch, SafeSet, SetIfTagEpochsMatch, Resolve, ForcedGot, FetchForced,
     FetchedForced, CheckForced, source
<1>2. LatesKept
  BY ReadKeepsLates DEF FenceInv
<1> SUFFICES ASSUME NEW k \in Key, entries'[k] # None, <<k, entries'[k]>> \notin LateRefreshes',
                    NEW t \in TagsOf[k]
             PROVE  fence[t] <= entries'[k][t]
  BY <1>1 DEF FencedEntries
<1>3. CASE entries'[k] = entries[k]
  BY <1>2, <1>3 DEF FenceInv, FencedEntries, LatesKept
<1>4. CASE entries'[k] # entries[k]
  <2>1. /\ pc[c] = "set" /\ EpochsMatch(c) /\ k = KeyOf[c] /\ entries'[k] = val[c] /\ val' = val
        /\ notified' = notified /\ refreshed' = refreshed \cup ({c} \cap Forced)
    BY <1>4 DEF Begin, ReadStep, ReadEpochs, Bypass, SafeGet, Got, Decide, AcquireLock, LockWaited,
       Waited, DecideWait, Fetch, SafeSet, SetIfTagEpochsMatch, Resolve, ForcedGot, FetchForced,
       FetchedForced, CheckForced, provider, TypeInv, TypeOK, ProviderTypeOK
  <2>2. c \notin notified
    <3>1. SUFFICES ASSUME c \in notified PROVE FALSE
      OBVIOUS
    <3>2. c \in notified' \cap refreshed'
      BY <2>1, <3>1 DEF FenceInv, Places
    <3>3. <<KeyOf[c], val'[c]>> \in LateRefreshes'
      BY <3>2 DEF LateRefreshes
    <3> QED
      BY <2>1, <3>3
  <2>3. snap[c] # None /\ t \in TagsFor(c) /\ tagEpochs[t] = snap[c].external[t]
    BY <2>1 DEF FenceInv, Places, EpochsMatch, TagsFor
  <2> QED
    BY <2>1, <2>2, <2>3 DEF FenceInv, ComputedAfterSnapshot, Computed
<1> QED
  BY <1>3, <1>4

LEMMA FenceRead ==
    ASSUME TypeInv, FenceInv, NEW c \in Reader, Begin(c) \/ ReadStep(c)
    PROVE  FenceInv'
<1>1. UNCHANGED <<db, fence>>
  BY DEF Begin, ReadStep, ReadEpochs, Bypass, SafeGet, Got, Decide, AcquireLock, LockWaited, Waited,
     DecideWait, Fetch, SafeSet, SetIfTagEpochsMatch, Resolve, ForcedGot, FetchForced,
     FetchedForced, CheckForced, source
<1>2. FenceBelowSource'
  BY <1>1 DEF FenceInv, FenceBelowSource
<1>3. ServedBehind'
  <2>1. tagEpochs' = tagEpochs
    BY DEF Begin, ReadStep, ReadEpochs, Bypass, SafeGet, Got, Decide, AcquireLock, LockWaited,
       Waited, DecideWait, Fetch, SafeSet, SetIfTagEpochsMatch, Resolve, ForcedGot, FetchForced,
       FetchedForced, CheckForced, provider
  <2>2. \A t \in Tag : tagEpochs[t] \in Nat /\ fence[t] \in Nat
    BY DEF TypeInv, TypeOK, SourceTypeOK, ProviderTypeOK
  <2>3. \A t \in Tag : tagEpochs[t] <= tagEpochs'[t] /\ fence[t] <= fence'[t]
    BY <1>1, <2>1, <2>2
  <2> QED
    BY <2>3, ReadServes, TypeRead, ServedStaysBehind DEF FenceInv
<1> QED
  BY <1>2, <1>3, PlacesRead, ReadsBehind, ReadsComputed, ReadsStoreFenced DEF FenceInv

LEMMA MutateServedBehind ==
    ASSUME TypeInv, FenceInv,
           \/ \E m \in Mutation : Commit(m) \/ Invalidate(m)
           \/ \E j \in Job : InvalidateStep(j)
           \/ \E j \in Flusher : FlushQuarantine(j)
           \/ \E k \in Key : Expire(k) \/ ExpireLock(k)
    PROVE  ServedBehind'
<1>0. \A t \in Tag : db[t] \in Nat /\ fence[t] \in Nat /\ tagEpochs[t] \in Nat
  BY DEF TypeInv, TypeOK, SourceTypeOK, ProviderTypeOK
<1>1. ASSUME NEW j \in Job, InvalidateTagScript(inv[j].tags)
      PROVE  \A t \in Tag : tagEpochs[t] <= tagEpochs'[t] /\ fence[t] <= fence'[t]
  BY <1>0, <1>1 DEF InvalidateTagScript, FenceInv, FenceBelowSource
<1>2. ASSUME UNCHANGED <<tagEpochs, fence>>
      PROVE  \A t \in Tag : tagEpochs[t] <= tagEpochs'[t] /\ fence[t] <= fence'[t]
  BY <1>0, <1>2
<1>3. \A t \in Tag : tagEpochs[t] <= tagEpochs'[t] /\ fence[t] <= fence'[t]
  BY <1>1, <1>2 DEF Commit, Invalidate, InvalidateStep, InvalidateProvider, InvalidateEnd,
     FlushQuarantine, Expire, ExpireLock, source, provider
<1> QED
  BY <1>3, MutateServes, TypeMutate, ServedStaysBehind DEF FenceInv

LEMMA FenceMutate ==
    ASSUME TypeInv, FenceInv,
           \/ \E m \in Mutation : Commit(m) \/ Invalidate(m)
           \/ \E j \in Job : InvalidateStep(j)
           \/ \E j \in Flusher : FlushQuarantine(j)
           \/ \E k \in Key : Expire(k) \/ ExpireLock(k)
    PROVE  FenceInv'
<1>0. /\ UNCHANGED <<snap, snap2, val, notified, refreshed>>
      /\ Places' /\ ServedBehind' /\ LatesKept
      /\ \A t \in Tag : db[t] \in Nat /\ fence[t] \in Nat /\ tagEpochs[t] \in Nat
      /\ \A c \in Reader : TagsFor(c) \subseteq Tag /\ TagsFor(c)' = TagsFor(c)
  BY PlacesMutate, MutateServedBehind, MutateKeepsLates, CacheAssumption DEF FenceInv, Commit, Invalidate,
     InvalidateStep, InvalidateProvider, InvalidateEnd, FlushQuarantine, Expire, ExpireLock,
     reading, TagsFor, TypeInv, TypeOK, SourceTypeOK, ProviderTypeOK
<1>1. \A c \in Reader : pc'[c] \in Computed => pc[c] \in Computed
  <2>1. ASSUME NEW j \in Job, InvalidateEnd(j), NEW c \in Reader, pc'[c] \in Computed
        PROVE  pc[c] \in Computed
    <3>1. CASE c = j
      <4>1. pc[c] \in {"fencing", "notifying"}
        BY <2>1, <3>1 DEF InvalidateEnd, FenceInv, Places
      <4>2. pc[c] = "fencing" => pc'[c] = "snapFenced"
        BY <2>1, <3>1, CacheAssumption DEF InvalidateEnd, Capture, GoTo, TypeInv, TypeOK,
           ReadingTypeOK
      <4> QED
        BY <2>1, <4>1, <4>2 DEF Computed
    <3>2. CASE c # j
      BY <2>1, <3>2 DEF InvalidateEnd, Capture, GoTo, TypeInv, TypeOK, ReadingTypeOK
    <3> QED
      BY <3>1, <3>2
  <2>2. CASE UNCHANGED pc
    BY <2>2
  <2> QED
    BY <2>1, <2>2 DEF InvalidateStep, Commit, Invalidate, InvalidateProvider, FlushQuarantine,
       Expire, ExpireLock, reading
<1>2. ASSUME UNCHANGED <<db, fence, tagEpochs>>, \A k \in Key : entries'[k] \in {entries[k], None}
      PROVE  FenceInv'
  <2>1. FenceBelowSource' /\ SnapshotsBehind' /\ ComputedAfterSnapshot'
    BY <1>0, <1>1, <1>2 DEF FenceInv, FenceBelowSource, SnapshotsBehind, Behind,
       ComputedAfterSnapshot
  <2>2. FencedEntries'
    BY <1>0, <1>2 DEF FenceInv, FencedEntries, LatesKept
  <2> QED
    BY <1>0, <2>1, <2>2 DEF FenceInv
<1>3. ASSUME NEW m \in Mutation, Commit(m) PROVE FenceInv'
  <2>1. UNCHANGED <<fence, tagEpochs, entries>> /\ \A t \in Tag : db[t] <= db'[t] /\ db'[t] \in Nat
    BY <1>0, <1>3 DEF Commit, provider
  <2>2. FenceBelowSource'
    BY <1>0, <2>1 DEF FenceInv, FenceBelowSource
  <2>3. SnapshotsBehind' /\ FencedEntries'
    BY <1>0, <2>1 DEF FenceInv, SnapshotsBehind, Behind, FencedEntries, LatesKept
  <2>4. ComputedAfterSnapshot'
    BY <1>0, <1>1, <2>1 DEF FenceInv, ComputedAfterSnapshot, Versions
  <2> QED
    BY <1>0, <2>2, <2>3, <2>4 DEF FenceInv
<1>4. ASSUME NEW j \in Job, InvalidateTagScript(inv[j].tags), UNCHANGED db PROVE FenceInv'
  <2> DEFINE ts == inv[j].tags
  <2>1. \A t \in Tag : IF t \in ts THEN tagEpochs'[t] = tagEpochs[t] + 1 /\ fence'[t] = db[t]
                       ELSE tagEpochs'[t] = tagEpochs[t] /\ fence'[t] = fence[t]
    BY <1>4 DEF InvalidateTagScript
  <2>2. \A k \in Key : entries'[k] = IF TagsOf[k] \cap ts # {} THEN None ELSE entries[k]
    BY <1>4 DEF InvalidateTagScript
  <2> HIDE DEF ts
  <2>3. FenceBelowSource'
    BY <1>0, <1>4, <2>1 DEF FenceInv, FenceBelowSource
  <2>4. SnapshotsBehind'
    BY <1>0, <2>1 DEF FenceInv, SnapshotsBehind, Behind
  <2>5. FencedEntries'
    BY <1>0, <2>1, <2>2, CacheAssumption DEF FenceInv, FencedEntries, LatesKept
  <2>6. ComputedAfterSnapshot'
    <3> SUFFICES ASSUME NEW c \in Reader, pc'[c] \in Computed
                 PROVE  /\ val[c] \in Versions(TagsFor(c))
                        /\ \A t \in TagsFor(c) :
                              /\ val[c][t] <= db'[t]
                              /\ c \notin notified /\ snap[c] # None
                                   /\ snap[c].external[t] = tagEpochs'[t] => fence'[t] <= val[c][t]
      BY <1>0 DEF ComputedAfterSnapshot
    <3>1. pc[c] \in Computed
      BY <1>1
    <3>2. \A t \in TagsFor(c) : t \in ts /\ snap[c] # None => snap[c].external[t] # tagEpochs'[t]
      BY <1>0, <2>1 DEF FenceInv, SnapshotsBehind, Behind
    <3> QED
      BY <1>0, <1>4, <2>1, <3>1, <3>2 DEF FenceInv, ComputedAfterSnapshot
  <2> QED
    BY <1>0, <2>3, <2>4, <2>5, <2>6 DEF FenceInv
<1>5. ASSUME NEW k \in Key, Expire(k) PROVE FenceInv'
  BY <1>2, <1>5 DEF Expire, source, TypeInv, TypeOK, ProviderTypeOK
<1>6. ASSUME NEW j \in Job, InvalidateProvider(j) PROVE FenceInv'
  BY <1>2, <1>4, <1>6 DEF InvalidateProvider
<1> QED
  BY <1>2, <1>3, <1>5, <1>6 DEF InvalidateStep, InvalidateEnd, Invalidate, FlushQuarantine,
     ExpireLock, source, provider

LEMMA FenceStutter == ASSUME FenceInv, UNCHANGED others, ServedBehind' PROVE FenceInv'
BY PlacesStutter DEF others, FenceInv, FenceBelowSource, SnapshotsBehind, Behind,
   ComputedAfterSnapshot, FencedEntries, LateRefreshes, TagsFor, source, provider, runtime, reading

LEMMA FenceNext == ASSUME TypeInv, FenceInv, [Next \/ Quiescent]_vars PROVE FenceInv'
<1>1. CASE UNCHANGED vars
  <2>1. ServedBehind'
    BY <1>1 DEF vars, FenceInv, ServedBehind, Served, source, provider
  <2> QED
    BY <1>1, <2>1, FenceStutter DEF vars, others
<1>2. ASSUME NEW c \in Reader, GetTagEpoch(c) PROVE FenceInv'
  BY <1>2, GetServes, GetServedBehind, FenceStutter DEF FenceInv
<1> QED
  BY <1>1, <1>2, FenceRead, FenceMutate DEF Next, Quiescent

LEMMA FenceInvariant == Spec => [](TypeInv /\ FenceInv)
<1>1. Init => TypeInv /\ FenceInv
  BY TypeInit, FenceInit
<1>2. TypeInv /\ FenceInv /\ [Next \/ Quiescent]_vars => TypeInv' /\ FenceInv'
  BY TypeNext, FenceNext
<1> QED
  BY <1>1, <1>2, PTL DEF Spec

(* No provider entry is older than the last invalidation of any of its      *)
(* tags: the conditional write (cache-redis SET_WITH_TAGS_SCRIPT) fences    *)
(* every computation safeSet lets through, in any interleaving, with forced *)
(* reads and without.  The one exception is the value a forced read stores  *)
(* after onChanged, under the snapshot revalidate then takes anew.          *)
THEOREM EntriesStayFenced == Spec => []FencedEntries
<1>1. FenceInv => FencedEntries
  BY DEF FenceInv
<1> QED
  BY <1>1, FenceInvariant, PTL

(* Every step of the runtime is a step of the fenced cache, or leaves the   *)
(* source, the fence and the entries alone, as long as no forced read that  *)
(* ran onChanged is stored.                                                 *)
Untouched == UNCHANGED <<db, fence, entries>>

NoneLate == notified \cap refreshed = {}

LEMMA ReadRefines ==
    ASSUME TypeInv, FenceInv, NoneLate', NEW c \in Reader, Begin(c) \/ ReadStep(c)
    PROVE  Cache!Next \/ Untouched
<1>1. CASE SetIfTagEpochsMatch(c)
  <2>1. CASE UNCHANGED entries
    BY <1>1, <2>1 DEF SetIfTagEpochsMatch, Untouched, source
  <2>2. CASE /\ EpochsMatch(c) /\ entries' = [entries EXCEPT ![KeyOf[c]] = val[c]]
             /\ refreshed' = refreshed \cup ({c} \cap Forced)
    <3> DEFINE k == KeyOf[c]
    <3>1. k \in Key /\ TagsFor(c) = TagsOf[k] /\ TagsOf[k] \subseteq Tag
      BY CacheAssumption DEF TagsFor
    <3>2. c \notin notified
      BY <1>1, <2>2 DEF SetIfTagEpochsMatch, NoneLate, FenceInv, Places
    <3>3. /\ val[c] \in [TagsOf[k] -> Nat]
          /\ \A t \in TagsOf[k] : fence[t] <= val[c][t] /\ val[c][t] <= db[t]
      BY <1>1, <2>2, <3>1, <3>2 DEF SetIfTagEpochsMatch, FenceInv, ComputedAfterSnapshot, Computed,
         Places, EpochsMatch, Versions
    <3>4. val[c] \in [TagsOf[k] -> UNION {fence[t] .. db[t] : t \in TagsOf[k]}]
      <4>1. \A t \in TagsOf[k] : val[c][t] \in fence[t] .. db[t]
        BY <3>1, <3>3 DEF TypeInv, TypeOK, SourceTypeOK
      <4> QED
        BY <3>3, <4>1
    <3>5. Cache!Put(k, val[c])
      BY <1>1, <2>2, <3>3 DEF SetIfTagEpochsMatch, source, Cache!Put
    <3> QED
      BY <3>1, <3>4, <3>5 DEF Cache!Next
  <2> QED
    BY <1>1, <2>1, <2>2 DEF SetIfTagEpochsMatch
<1>2. CASE ~SetIfTagEpochsMatch(c)
  BY <1>2 DEF ReadStep, Begin, ReadEpochs, Bypass, SafeGet, Got, Decide, AcquireLock, LockWaited,
     Waited, DecideWait, Fetch, SafeSet, Resolve, ForcedGot, FetchForced, FetchedForced,
     CheckForced, source, provider, Untouched
<1> QED
  BY <1>1, <1>2

LEMMA MutateRefines ==
    ASSUME \/ \E m \in Mutation : Commit(m) \/ Invalidate(m)
           \/ \E j \in Job : InvalidateStep(j)
           \/ \E j \in Flusher : FlushQuarantine(j)
           \/ \E k \in Key : Expire(k) \/ ExpireLock(k)
    PROVE  Cache!Next \/ Untouched
<1>1. ASSUME NEW m \in Mutation, Commit(m) PROVE Cache!Next
  <2>1. Cache!Write(Writes[m])
    BY <1>1 DEF Commit, Cache!Write, provider
  <2>2. Writes[m] \in SUBSET Tag
    BY CacheAssumption
  <2> QED
    BY <2>1, <2>2 DEF Cache!Next
<1>2. ASSUME NEW j \in Job, InvalidateProvider(j) PROVE Cache!Next \/ Untouched
  <2>1. CASE InvalidateTagScript(inv[j].tags)
    <3>1. Cache!Invalidate(inv[j].tags \cap Tag)
      BY <1>2, <2>1, CacheAssumption DEF InvalidateProvider, InvalidateTagScript, Cache!Invalidate
    <3> QED
      BY <3>1 DEF Cache!Next
  <2> QED
    BY <1>2, <2>1 DEF InvalidateProvider, Untouched
<1>3. ASSUME NEW k \in Key, Expire(k) PROVE Cache!Next
  BY <1>3 DEF Expire, source, Cache!Next, Cache!Drop
<1> QED
  BY <1>1, <1>2, <1>3 DEF InvalidateStep, InvalidateEnd, Invalidate, FlushQuarantine, ExpireLock,
     source, provider, Untouched

LEMMA NextRefines ==
    ASSUME TypeInv, FenceInv, NoneLate', [Next \/ Quiescent]_vars
    PROVE  [Cache!Next]_(Cache!vars)
<1>1. ASSUME NEW c \in Reader, GetTagEpoch(c) PROVE Untouched
  BY <1>1 DEF GetTagEpoch, source, provider, Untouched
<1> QED
  BY <1>1, ReadRefines, MutateRefines DEF Next, Quiescent, vars, source, provider, Untouched,
     Cache!vars

(* CacheRuntime implements FencedCache: whatever the replicas, readers,     *)
(* forced reads and mutations do, and whichever provider calls fail, the    *)
(* shared store only ever takes the steps the fenced cache allows, in every *)
(* behaviour in which no forced read is stored after onChanged.             *)
THEOREM UnlessLateRuntimeImplementsFencedCache ==
    Spec /\ [](notified \cap refreshed = {}) => FencedCacheSpec
<1>1. Init => Cache!Init
  BY DEF Init, Cache!Init
<1>2. TypeInv /\ FenceInv /\ NoneLate' /\ [Next \/ Quiescent]_vars => [Cache!Next]_(Cache!vars)
  BY NextRefines
<1>3. []NoneLate <=> [](notified \cap refreshed = {})
  BY PTL DEF NoneLate
<1> QED
  BY <1>1, <1>2, <1>3, FenceInvariant, PTL DEF Spec, FencedCacheSpec, Cache!Spec

(* In particular a runtime whose reads never force a refresh implements it. *)
THEOREM RuntimeImplementsFencedCache == ASSUME Forced = {} PROVE Spec => FencedCacheSpec
<1>1. TypeInv /\ FenceInv => notified \cap refreshed = {}
  BY DEF TypeInv, TypeOK, ReadingTypeOK, FenceInv, Places
<1> QED
  BY <1>1, UnlessLateRuntimeImplementsFencedCache, FenceInvariant, PTL

-----------------------------------------------------------------------------
(* Quarantine.  Between the begin of an invalidation and the script that    *)
(* serves it, its replica bypasses the tag, and no invalidation that could  *)
(* lift the mark has already had its answer.                                *)

Marked(m, t) == /\ t \in dirtyTags[At[m]]
                /\ \A j \in Job : At[j] = At[m] /\ inv[j].pc = "ok" => t \notin inv[j].tags

MutationsRun == \A m \in Mutation : inv[m].pc # "idle" => mpc[m] = "invalidating"

VersionsBehind ==
    \A m \in Mutation : mpc[m] # "idle" =>
        /\ mver[m] \in Versions(Writes[m])
        /\ \A t \in Writes[m] : mver[m][t] <= db[t]

Covered ==
    \A m \in Mutation \ OutOfBand : mpc[m] \in {"invalidating", "done"} =>
        \A t \in Writes[m] \ raced[m] : mver[m][t] <= fence[t] \/ Marked(m, t)

QuarantineInv == MutationsRun /\ VersionsBehind /\ Covered

LEMMA QuarantineInit == Init => QuarantineInv
BY CacheAssumption DEF Init, QuarantineInv, MutationsRun, VersionsBehind, Covered, Idle, Job

(* A step that starts invalidations, at most, keeps what is covered.        *)
LEMMA BeginsCover ==
    ASSUME TypeInv, QuarantineInv, UNCHANGED <<source, mpc, mver, raced>>,
           \A r \in Replica : dirtyTags[r] \subseteq dirtyTags'[r],
           \A j \in Job : \/ inv'[j] = inv[j]
                          \/ j \notin Mutation /\ inv'[j].pc = "trying"
    PROVE  QuarantineInv'
<1>1. \A j \in Job : At[j] \in Replica
  BY CacheAssumption
<1>2. \A m \in Mutation : m \in Job
  BY DEF Job
<1>3. ASSUME NEW m \in Mutation, NEW t, Marked(m, t) PROVE Marked(m, t)'
  BY <1>1, <1>2, <1>3 DEF Marked
<1>4. MutationsRun' /\ VersionsBehind'
  BY <1>2 DEF QuarantineInv, MutationsRun, VersionsBehind, source
<1>5. Covered'
  BY <1>3 DEF QuarantineInv, Covered, source
<1> QED
  BY <1>4, <1>5 DEF QuarantineInv

LEMMA QuarantineRead ==
    ASSUME TypeInv, QuarantineInv, NEW c \in Reader, Begin(c) \/ ReadStep(c)
    PROVE  QuarantineInv'
<1>0. /\ UNCHANGED <<source, mpc, mver, raced>> /\ DOMAIN inv = Job /\ c \in Job
      /\ At[c] \in Replica /\ dirtyTags \in [Replica -> SUBSET Tag]
  BY CacheAssumption DEF Begin, ReadStep, ReadEpochs, Bypass, SafeGet, Got, Decide, AcquireLock,
     LockWaited, Waited, DecideWait, Fetch, SafeSet, SetIfTagEpochsMatch, Resolve, ForcedGot,
     FetchForced, FetchedForced, CheckForced, TypeInv, TypeOK, JobsTypeOK, RuntimeTypeOK, Job
<1>1. \/ UNCHANGED <<inv, dirtyTags>>
      \/ /\ inv' = [inv EXCEPT ![c] = [pc |-> "trying", tags |-> TagsFor(c), n |-> 1]]
         /\ dirtyTags' = [dirtyTags EXCEPT ![At[c]] = @ \cup TagsFor(c)]
  BY DEF Begin, ReadStep, ReadEpochs, Bypass, SafeGet, Got, Decide, AcquireLock, LockWaited, Waited,
     DecideWait, Fetch, SafeSet, SetIfTagEpochsMatch, Resolve, ForcedGot, FetchForced,
     FetchedForced, CheckForced, runtime, InvalidateBegin
<1>2. \A r \in Replica : dirtyTags[r] \subseteq dirtyTags'[r]
  BY <1>0, <1>1
<1>3. \A j \in Job : inv'[j] = inv[j] \/ (j = c /\ inv'[j].pc = "trying")
  BY <1>0, <1>1
<1>4. c \notin Mutation
  BY CacheAssumption
<1> QED
  BY <1>0, <1>2, <1>3, <1>4, BeginsCover

LEMMA QuarantineMutate ==
    ASSUME TypeInv, FenceInv, QuarantineInv,
           \/ \E m \in Mutation : Commit(m) \/ Invalidate(m)
           \/ \E j \in Job : InvalidateStep(j)
           \/ \E j \in Flusher : FlushQuarantine(j)
           \/ \E k \in Key : Expire(k) \/ ExpireLock(k)
    PROVE  QuarantineInv'
<1>0. /\ inv \in [Job -> JobStates] /\ dirtyTags \in [Replica -> SUBSET Tag]
      /\ DOMAIN mpc = Mutation /\ DOMAIN mver = Mutation /\ DOMAIN raced = Mutation
      /\ \A t \in Tag : db[t] \in Nat /\ fence[t] \in Nat /\ fence[t] <= db[t]
      /\ \A m \in Mutation : m \in Job /\ Writes[m] \subseteq Tag
      /\ \A j \in Job : At[j] \in Replica
  BY CacheAssumption DEF TypeInv, TypeOK, JobsTypeOK, RuntimeTypeOK, SourceTypeOK, FenceInv,
     FenceBelowSource, Job
<1>1. ASSUME NEW m \in Mutation, Commit(m) PROVE QuarantineInv'
  <2>1. /\ UNCHANGED <<fence, dirtyTags, inv, raced>> /\ mpc[m] = "idle"
        /\ mpc' = [mpc EXCEPT ![m] = IF m \in OutOfBand THEN "done" ELSE "committed"]
        /\ mver' = [mver EXCEPT ![m] = [t \in Writes[m] |-> db[t] + 1]]
        /\ \A t \in Tag : db'[t] = IF t \in Writes[m] THEN db[t] + 1 ELSE db[t]
    BY <1>1 DEF Commit, runtime
  <2>2. MutationsRun'
    BY <1>0, <2>1 DEF QuarantineInv, MutationsRun
  <2>3. VersionsBehind'
    <3>1. ASSUME NEW n \in Mutation \ {m}, mpc'[n] # "idle"
          PROVE  mver'[n] \in Versions(Writes[n]) /\ \A t \in Writes[n] : mver'[n][t] <= db'[t]
      <4>1. /\ mver'[n] = mver[n] /\ mver[n] \in [Writes[n] -> Nat]
            /\ \A t \in Writes[n] : mver[n][t] <= db[t]
        BY <1>0, <2>1, <3>1 DEF QuarantineInv, VersionsBehind, Versions
      <4>2. \A t \in Writes[n] : db[t] <= db'[t] /\ db'[t] \in Nat /\ db[t] \in Nat
        BY <1>0, <2>1
      <4>3. \A t \in Writes[n] : mver'[n][t] <= db'[t]
        BY <4>1, <4>2
      <4> QED
        BY <4>1, <4>3 DEF Versions
    <3>2. mver'[m] \in Versions(Writes[m]) /\ \A t \in Writes[m] : mver'[m][t] <= db'[t]
      <4>1. mver'[m] = [t \in Writes[m] |-> db[t] + 1]
        BY <1>0, <2>1
      <4>2. \A t \in Writes[m] : db'[t] = db[t] + 1 /\ db[t] \in Nat
        BY <1>0, <2>1
      <4> QED
        BY <4>1, <4>2 DEF Versions
    <3> QED
      BY <3>1, <3>2 DEF VersionsBehind
  <2>4. Covered'
    <3> SUFFICES ASSUME NEW n \in Mutation \ OutOfBand, mpc'[n] \in {"invalidating", "done"},
                        NEW t \in Writes[n] \ raced[n]
                 PROVE  mver'[n][t] <= fence[t] \/ Marked(n, t)'
      BY <2>1 DEF Covered
    <3>1. n # m /\ mpc'[n] = mpc[n] /\ mver'[n] = mver[n]
      BY <1>0, <2>1
    <3>2. mver[n][t] <= fence[t] \/ Marked(n, t)
      BY <3>1 DEF QuarantineInv, Covered
    <3> QED
      BY <2>1, <3>1, <3>2 DEF Marked
  <2> QED
    BY <2>2, <2>3, <2>4 DEF QuarantineInv
<1>2. ASSUME NEW m \in Mutation, Invalidate(m) PROVE QuarantineInv'
  <2>1. /\ UNCHANGED <<db, fence, mver>> /\ mpc[m] = "committed"
        /\ mpc' = [mpc EXCEPT ![m] = "invalidating"]
        /\ raced' = [raced EXCEPT ![m] = AboutToReturn(At[m]) \cap Writes[m]]
        /\ inv' = [inv EXCEPT ![m] = [pc |-> "trying", tags |-> Writes[m], n |-> 1]]
        /\ dirtyTags' = [dirtyTags EXCEPT ![At[m]] = @ \cup Writes[m]]
    BY <1>2 DEF Invalidate, InvalidateBegin, source
  <2>2. \A j \in Job : inv'[j] = inv[j] \/ (j = m /\ inv'[j].pc = "trying")
    BY <1>0, <2>1
  <2>3. \A r \in Replica : dirtyTags[r] \subseteq dirtyTags'[r]
    BY <1>0, <2>1
  <2>4. MutationsRun' /\ VersionsBehind'
    BY <1>0, <2>1, <2>2 DEF QuarantineInv, MutationsRun, VersionsBehind
  <2>5. Covered'
    <3> SUFFICES ASSUME NEW n \in Mutation \ OutOfBand, mpc'[n] \in {"invalidating", "done"},
                        NEW t \in Writes[n] \ raced'[n]
                 PROVE  mver[n][t] <= fence[t] \/ Marked(n, t)'
      BY <2>1 DEF Covered
    <3>1. CASE n # m
      <4>1. mver[n][t] <= fence[t] \/ Marked(n, t)
        BY <1>0, <2>1, <3>1 DEF QuarantineInv, Covered
      <4> QED
        BY <1>0, <2>2, <2>3, <4>1 DEF Marked
    <3>2. CASE n = m
      <4>1. t \notin AboutToReturn(At[m])
        BY <1>0, <2>1, <3>2
      <4>2. \A j \in Job : At[j] = At[m] /\ inv[j].pc = "ok" => t \notin inv[j].tags
        BY <4>1 DEF AboutToReturn
      <4>3. t \in dirtyTags'[At[m]]
        BY <1>0, <2>1, <3>2
      <4> QED
        BY <2>2, <3>2, <4>2, <4>3 DEF Marked
    <3> QED
      BY <3>1, <3>2
  <2> QED
    BY <2>4, <2>5 DEF QuarantineInv
<1>3. ASSUME NEW j \in Job, InvalidateProvider(j) PROVE QuarantineInv'
  <2>1. UNCHANGED <<db, dirtyTags, mpc, mver, raced>> /\ inv[j].pc = "trying"
    BY <1>3 DEF InvalidateProvider, runtime
  <2>2. /\ \A i \in Job \ {j} : inv'[i] = inv[i]
        /\ inv'[j].tags = inv[j].tags
        /\ inv'[j].pc = "ok" => InvalidateTagScript(inv[j].tags)
    <3>1. \/ inv' = [inv EXCEPT ![j].pc = "ok"] /\ InvalidateTagScript(inv[j].tags)
          \/ inv' = [inv EXCEPT ![j].n = @ + 1]
          \/ inv' = [inv EXCEPT ![j].pc = "failed"]
      BY <1>3 DEF InvalidateProvider
    <3> QED
      BY <1>0, <2>1, <3>1 DEF JobStates
  <2>3. \A t \in Tag : \/ fence'[t] = fence[t]
                       \/ fence'[t] = db[t] /\ t \in inv[j].tags
    BY <1>3 DEF InvalidateProvider, InvalidateTagScript
  <2>4. inv'[j].pc = "ok" => \A t \in Tag : t \in inv[j].tags => fence'[t] = db[t]
    BY <2>2 DEF InvalidateTagScript
  <2>5. MutationsRun' /\ VersionsBehind'
    BY <1>0, <2>1, <2>2 DEF QuarantineInv, MutationsRun, VersionsBehind
  <2>6. Covered'
    <3> SUFFICES ASSUME NEW n \in Mutation \ OutOfBand, mpc[n] \in {"invalidating", "done"},
                        NEW t \in Writes[n] \ raced[n]
                 PROVE  mver[n][t] <= fence'[t] \/ Marked(n, t)'
      BY <2>1 DEF Covered
    <3>1. /\ mver[n][t] <= fence[t] \/ Marked(n, t)
          /\ mver[n][t] <= db[t] /\ mver[n][t] \in Nat /\ t \in Tag
      BY <1>0 DEF QuarantineInv, Covered, VersionsBehind, Versions
    <3>2. CASE mver[n][t] <= fence[t]
      BY <1>0, <2>3, <3>1, <3>2
    <3>3. CASE Marked(n, t)
      <4>1. CASE inv'[j].pc = "ok" /\ t \in inv[j].tags
        BY <2>4, <3>1, <4>1
      <4>2. CASE ~(inv'[j].pc = "ok" /\ t \in inv[j].tags)
        BY <2>1, <2>2, <3>3, <4>2 DEF Marked
      <4> QED
        BY <4>1, <4>2
    <3> QED
      BY <3>1, <3>2, <3>3
  <2> QED
    BY <2>5, <2>6 DEF QuarantineInv
<1>4. ASSUME NEW j \in Job, InvalidateEnd(j) PROVE QuarantineInv'
  <2>1. /\ UNCHANGED <<db, fence, mver, raced>> /\ inv[j].pc \in {"ok", "failed"}
        /\ inv' = [inv EXCEPT ![j] = Idle]
        /\ dirtyTags' = [dirtyTags EXCEPT ![At[j]] = dirtyTags[At[j]] \ Lifted(j)]
    BY <1>4 DEF InvalidateEnd, source
  <2>2. \A n \in Mutation : /\ n # j => mpc'[n] = mpc[n]
                            /\ n = j => mpc'[n] = "done" /\ mpc[n] = "invalidating"
    <3>1. j \in Mutation => mpc' = [mpc EXCEPT ![j] = "done"]
      BY <1>4, CacheAssumption DEF InvalidateEnd
    <3>2. j \notin Mutation => mpc' = mpc
      BY <1>4 DEF InvalidateEnd
    <3>3. j \in Mutation => mpc[j] = "invalidating"
      BY <2>1 DEF QuarantineInv, MutationsRun
    <3> QED
      BY <1>0, <3>1, <3>2, <3>3
  <2>3. \A i \in Job : (i # j => inv'[i] = inv[i]) /\ (i = j => inv'[i].pc = "idle")
    BY <1>0, <2>1 DEF Idle
  <2>4. MutationsRun' /\ VersionsBehind'
    BY <1>0, <2>1, <2>2, <2>3 DEF QuarantineInv, MutationsRun, VersionsBehind
  <2>5. Covered'
    <3> SUFFICES ASSUME NEW n \in Mutation \ OutOfBand, mpc'[n] \in {"invalidating", "done"},
                        NEW t \in Writes[n] \ raced[n]
                 PROVE  mver[n][t] <= fence[t] \/ Marked(n, t)'
      BY <2>1 DEF Covered
    <3>1. mver[n][t] <= fence[t] \/ Marked(n, t)
      BY <2>2 DEF QuarantineInv, Covered
    <3>2. ASSUME Marked(n, t) PROVE Marked(n, t)'
      <4>1. \A i \in Job : At[i] = At[n] /\ inv'[i].pc = "ok" => t \notin inv'[i].tags
        BY <2>3, <3>2 DEF Marked
      <4>2. At[j] = At[n] => t \notin Lifted(j)
        BY <3>2 DEF Marked, Lifted
      <4>3. t \in dirtyTags'[At[n]]
        BY <1>0, <2>1, <3>2, <4>2 DEF Marked
      <4> QED
        BY <4>1, <4>3 DEF Marked
    <3> QED
      BY <3>1, <3>2
  <2> QED
    BY <2>4, <2>5 DEF QuarantineInv
<1>5. ASSUME NEW j \in Flusher, FlushQuarantine(j) PROVE QuarantineInv'
  <2>1. UNCHANGED <<source, mpc, mver, raced, dirtyTags>>
    BY <1>5 DEF FlushQuarantine
  <2>2. \A i \in Job : inv'[i] = inv[i] \/ (i = j /\ inv'[i].pc = "trying")
    BY <1>0, <1>5 DEF FlushQuarantine
  <2>3. j \notin Mutation
    BY CacheAssumption
  <2> QED
    BY <2>1, <2>2, <2>3, BeginsCover
<1>6. ASSUME NEW k \in Key, Expire(k) \/ ExpireLock(k) PROVE QuarantineInv'
  BY <1>6, BeginsCover DEF Expire, ExpireLock, runtime
<1> QED
  BY <1>1, <1>2, <1>3, <1>4, <1>5, <1>6 DEF InvalidateStep

LEMMA QuarantineStutter == ASSUME TypeInv, QuarantineInv, UNCHANGED others PROVE QuarantineInv'
BY BeginsCover DEF others, runtime

(* What invalidateTags promises the mutation it returns to, in any          *)
(* interleaving with other invalidations, flushes and provider failures:    *)
(* the provider has fenced the tag at the mutation's version or later, or   *)
(* the replica still bypasses it.  The one exception is a tag with another  *)
(* invalidation of the replica whose script had run but which had not       *)
(* returned when this one began: it takes the mark that both share.         *)
THEOREM QuarantineHolds == Spec => []QuarantineCovers
<1>1. Init => QuarantineInv
  BY QuarantineInit
<1>2. TypeInv /\ FenceInv /\ QuarantineInv /\ [Next \/ Quiescent]_vars => QuarantineInv'
  <2>1. UNCHANGED vars => UNCHANGED others
    BY DEF vars, others
  <2> QED
    BY <2>1, QuarantineRead, QuarantineMutate, QuarantineStutter, GetServes DEF Next, Quiescent
<1>3. QuarantineInv => QuarantineCovers
  BY DEF QuarantineInv, Covered, Marked, QuarantineCovers
<1> QED
  BY <1>1, <1>2, <1>3, FenceInvariant, PTL DEF Spec

-----------------------------------------------------------------------------
(* What a read is answered with.  The values a computation may still       *)
(* answer with are compared with the fence while its epochs are the        *)
(* provider's, and with the floors of the readers that joined it, or may   *)
(* yet join it.                                                            *)

(* Where a reader stands: a lock waiter that has its reply, one that asks   *)
(* the cache, one that computes for itself and those who joined it, and one *)
(* that may hold a value of its own.                                        *)
WaitGot == {"gotWait", "snapWaitAfter", "decideWait"}
Asking == {"get", "got", "snapAfter", "decide"}
Computing == {"lock", "lockWait", "snapWait", "waited", "getWait", "fetch", "fetched", "set",
              "resolve"} \cup WaitGot
Late == Computed \cup {"resolve", "done"}
Second == {"decide", "decideWait", "checkForced", "notifying", "snapWrite", "fetched", "set", "resolve"}
Holding == {"got", "snapAfter", "decide", "gotForced", "fencing", "snapFenced", "fetchForced",
            "resolve"} \cup WaitGot \cup Computed

(* A value of key k holds version n of tag t or a later one, or was stored  *)
(* late.                                                                    *)
Sees(k, v, t, n) == v # None => n <= v[t] \/ <<k, v>> \in LateRefreshes
SeesLater(k, v, t, n) == v # None => n <= v[t] \/ <<k, v>> \in LateRefreshes'

LEMMA SeesLasts ==
    ASSUME LatesKept PROVE \A k, v, t, n : Sees(k, v, t, n) => SeesLater(k, v, t, n)
BY DEF LatesKept, Sees, SeesLater

(* Each value that c may answer with does,                                  *)
AllSee(c, t, n) == /\ Sees(KeyOf[c], val[c], t, n)
                   /\ pc[c] \in WaitGot => Sees(KeyOf[c], cached[c], t, n)

(* and each it holds after a step.                                          *)
SeesNext(c, t, n) == /\ SeesLater(KeyOf[c], val'[c], t, n)
                     /\ pc'[c] \in WaitGot => SeesLater(KeyOf[c], cached'[c], t, n)

(* The snapshot a reader that asks the cache would join under.              *)
Latest(d) == IF snap2[d] # None THEN snap2[d] ELSE snap[d]

(* A floor is what the fence was: never more than it is.                    *)
FloorsBehind ==
    /\ DOMAIN floor = Reader
    /\ \A c \in Reader : pc[c] # "idle" =>
          \A t \in TagsFor(c) : floor[c][t] \in Nat /\ floor[c][t] <= fence[t]

(* Only a reader past its fetch holds a value.                              *)
ValuesLate == \A c \in Reader : val[c] # None => pc[c] \in Late

(* The second snapshot is taken for the decision that uses it.              *)
SecondIsLate == \A c \in Reader : snap2[c] # None => pc[c] \in Second

(* A computation in flight is run by a reader of that replica and key.      *)
LeadersCompute ==
    \A r \in Replica, k \in Key : inFlight[r][k] # None =>
        /\ At[inFlight[r][k].leader] = r
        /\ KeyOf[inFlight[r][k].leader] = k
        /\ pc[inFlight[r][k].leader] \in Computing

(* The snapshot it was started under is not ahead of the provider.          *)
SharedBehind ==
    \A r \in Replica, k \in Key : inFlight[r][k] # None /\ inFlight[r][k].snapshot # None =>
        \A t \in TagsOf[k] : inFlight[r][k].snapshot.external[t] <= tagEpochs[t]

(* Whoever has joined waits for a reader that is still computing.           *)
JoinersLed == \A d \in Reader : pc[d] = "joined" =>
                 leader[d] \in Reader /\ pc[leader[d]] \in Computing

(* A cached value may be old, but then an epoch has changed since the first *)
(* snapshot.                                                                *)
CachedCurrent ==
    \A c \in Reader : pc[c] \in {"got", "snapAfter"} =>
        /\ snap[c] # None
        /\ \A t \in TagsFor(c) : snap[c].external[t] = tagEpochs[t] =>
              Sees(KeyOf[c], cached[c], t, fence[t])

(* Equal snapshots around the get make the cached value new enough.         *)
HitSeesFloor ==
    \A c \in Reader : pc[c] = "decide" /\ cached[c] # None /\ snap2[c] # None =>
        \A t \in TagsFor(c) : snap[c].external[t] = snap2[c].external[t] =>
           Sees(KeyOf[c], cached[c], t, floor[c][t])

(* What a reader may answer with is not below its floor.                    *)
OwnSeesFloor ==
    \A c \in Reader : pc[c] # "done" \/ snap[c] # None =>
        \A t \in TagsFor(c) : AllSee(c, t, floor[c][t])

(* A value computed for others may be old, but then an epoch has changed    *)
(* since the snapshot they share.                                           *)
LeadersCurrent ==
    \A r \in Replica, k \in Key : inFlight[r][k] # None /\ inFlight[r][k].snapshot # None =>
        \A t \in TagsOf[k] : inFlight[r][k].snapshot.external[t] = tagEpochs[t] =>
            AllSee(inFlight[r][k].leader, t, fence[t])

(* It is not below the floor of anyone who joined,                          *)
JoinersSeeFloor ==
    \A d \in Reader : pc[d] = "joined" /\ snap[d] # None =>
        \A t \in TagsFor(d) : AllSee(leader[d], t, floor[d][t])

(* nor of a reader that is about to join under an equal snapshot.           *)
LateJoin(d) ==
    LET f == inFlight[At[d]][KeyOf[d]] IN
    pc[d] \in Asking /\ Latest(d) # None /\ f # None /\ f.snapshot # None =>
        \A t \in TagsFor(d) : f.snapshot.external[t] = Latest(d).external[t] =>
            AllSee(f.leader, t, floor[d][t])

LateJoinersSeeFloor == \A d \in Reader : LateJoin(d)

(* A cached value is kept from its get to the decision on it.               *)
GotLate == \A c \in Reader : cached[c] # None => pc[c] \in Holding

ReadInv == /\ FloorsBehind /\ ValuesLate /\ GotLate /\ SecondIsLate /\ LeadersCompute /\ SharedBehind
           /\ JoinersLed /\ CachedCurrent /\ HitSeesFloor /\ OwnSeesFloor /\ LeadersCurrent
           /\ JoinersSeeFloor /\ LateJoinersSeeFloor

(* While a second snapshot is in progress, an epoch got for it may be old,  *)
(* but one equal to the first snapshot's comes with a cached value that is  *)
(* new enough for it.                                                       *)
ServedReading == \A c \in Reader : Served(c) # {} => pc[c] \in DOMAIN AfterEpochs

ServedCached ==
    \A c \in Reader : pc[c] = "snapAfter" =>
        \A t \in Served(c) : snap[c].external[t] = served[c][t].epoch =>
            Sees(KeyOf[c], cached[c], t, served[c][t].fence)

(* So it is with the computation that a reader may yet join.                *)
ServedShared(d) ==
    LET f == inFlight[At[d]][KeyOf[d]] IN
    pc[d] \in {"snapBefore", "snapAfter"} /\ f # None /\ f.snapshot # None =>
        \A t \in Served(d) : f.snapshot.external[t] = served[d][t].epoch =>
            AllSee(f.leader, t, served[d][t].fence)

ServedInv == ServedReading /\ ServedCached /\ \A d \in Reader : ServedShared(d)

(* What a step leaves of the computations in flight: a value seen by one,   *)
(* and not newer than the fence, is still seen; a new one holds none yet.   *)
LeadersKeep ==
    \A r \in Replica, k \in Key : inFlight'[r][k] # None =>
        \A t \in TagsOf[k], n \in Nat :
            n <= fence[t]
              /\ (inFlight'[r][k] = inFlight[r][k] => AllSee(inFlight[r][k].leader, t, n))
            => SeesNext(inFlight'[r][k].leader, t, n)

(* A step that only moves c on, within what the invariant tells apart.      *)
Stays(c) ==
    /\ UNCHANGED <<source, tagEpochs, inFlight, leader, floor, snap, snap2, cached, val>>
    /\ \A d \in Reader \ {c} : pc'[d] = pc[d]
    /\ \/ pc[c] = "got" /\ pc'[c] = "snapAfter"
       \/ pc[c] = "gotWait" /\ pc'[c] = "snapWaitAfter"
       \/ /\ pc[c] \in Computing \ WaitGot /\ pc'[c] \in Computing \ WaitGot
          /\ pc[c] \in {"fetched", "set", "resolve"} => pc'[c] \in {"set", "resolve"}

(* The steps of a reader that change nothing the invariant is about.        *)
LEMMA MovesStay ==
    ASSUME TypeInv, NEW c \in Reader,
           Got(c) \/ AcquireLock(c) \/ LockWaited(c) \/ Waited(c) \/ SafeSet(c)
           \/ SetIfTagEpochsMatch(c)
    PROVE  Stays(c)
<1> USE DEF Stays, Computing, WaitGot, GoTo, source, provider, runtime, reading, TypeInv,
        TypeOK, ReadingTypeOK
<1>1. CASE Got(c)
  BY <1>1 DEF Got, Capture
<1>2. CASE AcquireLock(c)
  BY <1>2 DEF AcquireLock
<1>3. CASE LockWaited(c)
  BY <1>3 DEF LockWaited, Capture
<1>4. CASE Waited(c)
  BY <1>4 DEF Waited
<1>5. CASE SafeSet(c)
  BY <1>5 DEF SafeSet
<1>6. CASE SetIfTagEpochsMatch(c)
  BY <1>6 DEF SetIfTagEpochsMatch
<1> QED
  BY <1>1, <1>2, <1>3, <1>4, <1>5, <1>6

(* Such a step keeps the invariant.                                         *)
LEMMA StaysKeeps ==
    ASSUME TypeInv, ReadInv, LatesKept, NEW c \in Reader, Stays(c)
    PROVE  ReadInv' /\ LeadersKeep
<1>1. UNCHANGED <<fence, tagEpochs, inFlight, leader, floor, snap, snap2, cached, val>>
  BY DEF Stays, source
<1>2. \A d \in Reader : /\ pc[d] # "idle" <=> pc'[d] # "idle"
                        /\ pc[d] = "done" <=> pc'[d] = "done"
                        /\ pc[d] = "joined" <=> pc'[d] = "joined"
                        /\ pc[d] = "decide" <=> pc'[d] = "decide"
                        /\ pc[d] \in WaitGot <=> pc'[d] \in WaitGot
                        /\ pc[d] \in Computing <=> pc'[d] \in Computing
                        /\ pc[d] \in Asking <=> pc'[d] \in Asking
                        /\ pc[d] \in {"got", "snapAfter"} <=> pc'[d] \in {"got", "snapAfter"}
                        /\ pc[d] \in Holding => pc'[d] \in Holding
                        /\ pc[d] \in Late => pc'[d] \in Late
                        /\ pc[d] \in Second => pc'[d] \in Second
  BY DEF Stays, WaitGot, Computing, Asking, Late, Holding, Second, Computed
<1>3. \A d \in Reader : \A t, n : AllSee(d, t, n) => SeesNext(d, t, n)
  BY <1>1, <1>2, SeesLasts DEF AllSee, SeesNext
<1>4. FloorsBehind' /\ ValuesLate' /\ GotLate' /\ SecondIsLate'
  BY <1>1, <1>2 DEF ReadInv, FloorsBehind, ValuesLate, GotLate, SecondIsLate
<1>10. CachedCurrent'
  BY <1>1, <1>2 DEF ReadInv, CachedCurrent, Sees, LatesKept
<1>11. HitSeesFloor'
  BY <1>1, <1>2 DEF ReadInv, HitSeesFloor, Sees, LatesKept
<1>5. LeadersCompute' /\ SharedBehind' /\ JoinersLed'
  BY SMTT(30), <1>1, <1>2 DEF ReadInv, LeadersCompute, SharedBehind, JoinersLed, TypeInv, TypeOK,
     RuntimeTypeOK
<1>6. OwnSeesFloor'
  BY <1>1, <1>2, <1>3 DEF ReadInv, OwnSeesFloor, AllSee, SeesNext, Sees, SeesLater
<1>7. LeadersCurrent'
  BY ZenonT(60), <1>1, <1>3 DEF ReadInv, LeadersCurrent, TypeInv, TypeOK, RuntimeTypeOK, AllSee,
     SeesNext, Sees, SeesLater
<1>8. JoinersSeeFloor'
  BY <1>1, <1>2, <1>3 DEF ReadInv, JoinersSeeFloor, JoinersLed, AllSee, SeesNext, Sees, SeesLater
<1>9. LateJoinersSeeFloor'
  <2>1. \A d \in Reader : At[d] \in Replica /\ KeyOf[d] \in Key
    BY CacheAssumption DEF Job
  <2> SUFFICES ASSUME NEW d \in Reader PROVE LateJoin(d)'
    BY DEF LateJoinersSeeFloor
  <2>2. inFlight[At[d]][KeyOf[d]] # None => inFlight[At[d]][KeyOf[d]].leader \in Reader
    BY <2>1 DEF TypeInv, TypeOK, RuntimeTypeOK
  <2>3. Latest(d)' = Latest(d) /\ LateJoin(d)
    BY <1>1 DEF Latest, ReadInv, LateJoinersSeeFloor
  <2> QED
    BY <1>1, <1>2, <1>3, <2>2, <2>3 DEF LateJoin, AllSee, SeesNext, Sees, SeesLater
<1>12. LeadersKeep
  BY <1>1, <1>3 DEF LeadersKeep, TypeInv, TypeOK, RuntimeTypeOK
<1> QED
  BY <1>4, <1>5, <1>6, <1>7, <1>8, <1>9, <1>10, <1>11, <1>12 DEF ReadInv

(* A reader that does not compute leads nothing.                            *)
LEMMA OthersLead ==
    ASSUME TypeInv, LeadersCompute, NEW c \in Reader, pc[c] \notin Computing,
           NEW r \in Replica, NEW k \in Key, inFlight[r][k] # None
    PROVE  inFlight[r][k].leader \in Reader \ {c}
BY DEF LeadersCompute, TypeInv, TypeOK, RuntimeTypeOK

(* A step of c that leaves the shared computations alone: what a leader     *)
(* holds after it is no older than the fence, or was held before.           *)
Owns(c) ==
    /\ UNCHANGED <<source, tagEpochs, inFlight, leader>>
    /\ \A d \in Reader \ {c} : /\ pc'[d] = pc[d] /\ floor'[d] = floor[d]
                               /\ snap'[d] = snap[d] /\ snap2'[d] = snap2[d]
                               /\ cached'[d] = cached[d] /\ val'[d] = val[d]
    /\ pc'[c] # "joined"
    /\ pc[c] \in Computing => pc'[c] \in Computing
    /\ \A t \in TagsFor(c), n \in Nat :
          n <= fence[t] /\ pc[c] \in Computing /\ AllSee(c, t, n) => SeesNext(c, t, n)

(* What others see of a computation survives such a step of its reader.     *)
LEMMA OwnsKeeps ==
    ASSUME TypeInv, ReadInv, LatesKept, NEW c \in Reader, Owns(c)
    PROVE  /\ LeadersCompute' /\ SharedBehind' /\ JoinersLed' /\ LeadersCurrent'
           /\ JoinersSeeFloor' /\ LeadersKeep
           /\ \A d \in Reader \ {c} : LateJoin(d)'
<1>1. UNCHANGED <<fence, tagEpochs, inFlight, leader>>
  BY DEF Owns, source
<1>2. \A d \in Reader : pc[d] \in Computing => pc'[d] \in Computing
  BY DEF Owns
<1>3. \A d \in Reader : \A t, n : d # c /\ AllSee(d, t, n) => SeesNext(d, t, n)
  BY SeesLasts DEF Owns, AllSee, SeesNext
<1>4. \A d \in Reader : \A t \in TagsFor(d), n \in Nat :
         n <= fence[t] /\ pc[d] \in Computing /\ AllSee(d, t, n) => SeesNext(d, t, n)
  BY <1>3 DEF Owns
<1>5. LeadersCompute' /\ SharedBehind'
  BY <1>1, <1>2 DEF ReadInv, LeadersCompute, SharedBehind, TypeInv, TypeOK, RuntimeTypeOK
<1>6. JoinersLed'
  BY <1>1, <1>2 DEF ReadInv, JoinersLed, Owns
<1>7. LeadersCurrent'
  <2> SUFFICES ASSUME NEW r \in Replica, NEW k \in Key, NEW t \in TagsOf[k],
                      inFlight[r][k] # None, inFlight[r][k].snapshot # None,
                      inFlight[r][k].snapshot.external[t] = tagEpochs[t]
               PROVE  SeesNext(inFlight[r][k].leader, t, fence[t])
    BY <1>1 DEF LeadersCurrent, AllSee, SeesNext, Sees, SeesLater
  <2>1. inFlight[r][k].leader \in Reader /\ t \in TagsFor(inFlight[r][k].leader)
    BY DEF ReadInv, LeadersCompute, TypeInv, TypeOK, RuntimeTypeOK, TagsFor
  <2>2. fence[t] \in Nat /\ fence[t] <= fence[t]
    BY CacheAssumption DEF TypeInv, TypeOK, SourceTypeOK
  <2>3. AllSee(inFlight[r][k].leader, t, fence[t])
    BY DEF ReadInv, LeadersCurrent
  <2>4. pc[inFlight[r][k].leader] \in Computing
    BY DEF ReadInv, LeadersCompute
  <2> QED
    BY <1>1, <1>4, <2>1, <2>2, <2>3, <2>4
<1>8. JoinersSeeFloor'
  <2> SUFFICES ASSUME NEW d \in Reader, pc'[d] = "joined", snap'[d] # None, NEW t \in TagsFor(d)
               PROVE  SeesNext(leader[d], t, floor'[d][t])
    BY SMTT(40), <1>1 DEF JoinersSeeFloor, AllSee, SeesNext, Sees, SeesLater, Owns, TagsFor
  <2>1. d # c /\ pc[d] = "joined" /\ snap[d] # None /\ floor'[d] = floor[d]
    BY DEF Owns
  <2>2. leader[d] \in Reader /\ pc[leader[d]] \in Computing
    BY <2>1 DEF ReadInv, JoinersLed
  <2>4. leader[d] # None => KeyOf[leader[d]] = KeyOf[d]
    BY DEF TypeInv, LeadersShareKey
  <2>5. t \in TagsFor(leader[d])
    BY <2>2, <2>4, CacheAssumption DEF TagsFor
  <2>3. AllSee(leader[d], t, floor[d][t]) /\ floor[d][t] \in Nat /\ floor[d][t] <= fence[t]
    BY <2>1 DEF ReadInv, JoinersSeeFloor, FloorsBehind
  <2> QED
    BY <1>4, <2>1, <2>2, <2>3, <2>5
<1>9. ASSUME NEW d \in Reader \ {c} PROVE LateJoin(d)'
  <2> DEFINE f == inFlight[At[d]][KeyOf[d]]
  <2>0. pc'[d] = pc[d] /\ floor'[d] = floor[d] /\ snap'[d] = snap[d] /\ snap2'[d] = snap2[d]
    BY DEF Owns
  <2> SUFFICES ASSUME pc[d] \in Asking, Latest(d) # None, f # None, f.snapshot # None,
                      NEW t \in TagsFor(d), f.snapshot.external[t] = Latest(d).external[t]
               PROVE  SeesNext(f.leader, t, floor[d][t])
    BY <1>1, <2>0 DEF LateJoin, Latest, AllSee, SeesNext, Sees, SeesLater, TagsFor
  <2>1. At[d] \in Replica /\ KeyOf[d] \in Key
    BY CacheAssumption DEF Job
  <2>2. f.leader \in Reader /\ pc[f.leader] \in Computing /\ t \in TagsFor(f.leader)
    BY <2>1 DEF ReadInv, LeadersCompute, TypeInv, TypeOK, RuntimeTypeOK, TagsFor
  <2>3. AllSee(f.leader, t, floor[d][t])
    BY DEF ReadInv, LateJoinersSeeFloor, LateJoin
  <2>4. floor[d][t] \in Nat /\ floor[d][t] <= fence[t]
    BY DEF ReadInv, FloorsBehind, Asking
  <2> HIDE DEF f
  <2> QED
    BY <1>4, <2>2, <2>3, <2>4
<1>10. LeadersKeep
  <2> SUFFICES ASSUME NEW r \in Replica, NEW k \in Key, NEW t \in TagsOf[k], NEW n \in Nat,
                      inFlight[r][k] # None, n <= fence[t], AllSee(inFlight[r][k].leader, t, n)
               PROVE  SeesNext(inFlight[r][k].leader, t, n)
    BY <1>1 DEF LeadersKeep
  <2>1. /\ inFlight[r][k].leader \in Reader /\ t \in TagsFor(inFlight[r][k].leader)
        /\ pc[inFlight[r][k].leader] \in Computing
    BY DEF ReadInv, LeadersCompute, TypeInv, TypeOK, RuntimeTypeOK, TagsFor
  <2> QED
    BY <1>4, <2>1
<1> QED
  BY <1>5, <1>6, <1>7, <1>8, <1>9, <1>10

(* Reading the epochs is such a step,                                       *)
LEMMA EpochsOwn ==
    ASSUME TypeInv, FenceInv, ReadInv, LatesKept, NEW c \in Reader, ReadEpochs(c)
    PROVE  Owns(c)
<1> USE DEF ReadEpochs, Owns, AfterEpochs, SecondSnapshot, GoTo, Computing, WaitGot, source,
        provider, runtime, TypeInv, TypeOK, ReadingTypeOK, LocalsTypeOK, ReadInv, FloorsBehind
<1>1. \A t, n : AllSee(c, t, n) /\ pc[c] \in Computing => SeesNext(c, t, n)
  BY SeesLasts DEF AllSee, SeesNext
<1> QED
  BY <1>1

(* so is the get of a reader or of a lock waiter: entries are fenced,       *)
LEMMA GetOwns ==
    ASSUME TypeInv, FenceInv, ReadInv, LatesKept, NEW c \in Reader, SafeGet(c)
    PROVE  Owns(c)
<1> USE DEF SafeGet, Owns, AfterGet, AfterMiss, GoTo, Computing, WaitGot, source,
   provider, runtime, TypeInv, TypeOK, ReadingTypeOK, LocalsTypeOK, ReadInv, FloorsBehind
<1>1. KeyOf[c] \in Key /\ TagsFor(c) = TagsOf[KeyOf[c]] /\ TagsFor(c) \subseteq Tag
  BY CacheAssumption DEF TagsFor
<1>2. ASSUME NEW t \in TagsFor(c), NEW n \in Nat, n <= fence[t], AllSee(c, t, n)
      PROVE  SeesNext(c, t, n)
  <2>1. CASE cached' = [cached EXCEPT ![c] = entries[KeyOf[c]]]
    <3>1. Sees(KeyOf[c], entries[KeyOf[c]], t, fence[t])
      BY <1>1 DEF FenceInv, FencedEntries, Sees
    <3>2. entries[KeyOf[c]] # None => entries[KeyOf[c]][t] \in Nat
      BY <1>1 DEF ProviderTypeOK, Versions
    <3>3. fence[t] \in Nat
      BY <1>1 DEF SourceTypeOK
    <3>4. SeesLater(KeyOf[c], entries[KeyOf[c]], t, n)
      BY <1>2, <3>1, <3>2, <3>3 DEF Sees, SeesLater, LatesKept
    <3>5. SeesLater(KeyOf[c], val'[c], t, n)
      BY <1>2, SeesLasts DEF AllSee
    <3> QED
      BY <2>1, <3>4, <3>5 DEF SeesNext
  <2>2. CASE UNCHANGED cached
    <3>1. pc[c] \in {"get", "getWait", "getForced"} /\ UNCHANGED val
      OBVIOUS
    <3>2. cached[c] = None
      BY <3>1 DEF GotLate, Holding, Computed
    <3>3. SeesLater(KeyOf[c], val'[c], t, n)
      BY <1>2, <3>1, SeesLasts DEF AllSee
    <3> QED
      BY <2>2, <3>2, <3>3 DEF SeesNext, SeesLater
  <2> QED
    BY <2>1, <2>2
<1> QED
  BY <1>2

(* so is the decision of a lock waiter,                                     *)
LEMMA DecideWaitOwns ==
    ASSUME TypeInv, ReadInv, LatesKept, NEW c \in Reader, DecideWait(c)
    PROVE  Owns(c)
BY DEF DecideWait, Owns, GoTo, AllSee, SeesNext, Sees, SeesLater, LatesKept, Computing, WaitGot,
   source, Hit, provider, runtime, TypeInv, TypeOK, ReadingTypeOK, LocalsTypeOK, ReadInv,
   FloorsBehind

(* and a fetch: the source is never behind the fence.                       *)
LEMMA FetchOwns ==
    ASSUME TypeInv, FenceInv, ReadInv, LatesKept, NEW c \in Reader, Fetch(c)
    PROVE  Owns(c)
<1> USE DEF Fetch, Owns, GoTo, Computing, WaitGot, source,
   provider, runtime, TypeInv, TypeOK, ReadingTypeOK, LocalsTypeOK, ReadInv, FloorsBehind
<1>1. TagsFor(c) \subseteq Tag
  BY CacheAssumption DEF TagsFor
<1>2. ASSUME NEW t \in TagsFor(c), NEW n \in Nat, n <= fence[t], AllSee(c, t, n)
      PROVE  SeesNext(c, t, n)
  <2>1. fence[t] <= db[t] /\ fence[t] \in Nat /\ db[t] \in Nat
    BY <1>1 DEF FenceInv, FenceBelowSource, SourceTypeOK
  <2>2. n <= db[t]
    BY <1>2, <2>1
  <2> QED
    BY <1>2, <2>2 DEF AllSee, SeesNext, Sees, SeesLater, LatesKept
<1> QED
  BY <1>2

(* The invariant over the get of safeGet.                                   *)
LEMMA GetKeeps ==
    ASSUME TypeInv, FenceInv, ReadInv, LatesKept, NEW c \in Reader, SafeGet(c),
           pc[c] # "getForced"
    PROVE  ReadInv' /\ LeadersKeep
<1> USE CacheAssumption DEF SafeGet, TypeInv, TypeOK, ReadingTypeOK, LocalsTypeOK, ReadInv, GoTo,
        source, provider, runtime, TagsFor, AfterGet, AfterMiss
<1>1. Owns(c)
  BY GetOwns
<1>2. /\ LeadersCompute' /\ SharedBehind' /\ JoinersLed' /\ LeadersCurrent'
      /\ JoinersSeeFloor' /\ LeadersKeep
      /\ \A d \in Reader \ {c} : LateJoin(d)'
  BY <1>1, OwnsKeeps
<1>3. FloorsBehind'
  BY DEF FloorsBehind
<1>4. ValuesLate'
  BY DEF ValuesLate, Late, Computed
<1>5. GotLate'
  BY DEF GotLate, Holding, Computed, WaitGot
<1>6. SecondIsLate'
  BY DEF SecondIsLate, Second
<1>7. CachedCurrent'
  BY DEF CachedCurrent, FenceInv, FencedEntries, Sees, LatesKept
<1>8. HitSeesFloor'
  BY DEF HitSeesFloor, CachedCurrent, GotLate, Holding, Computed, WaitGot, Sees, LatesKept
<1>9. OwnSeesFloor'
  BY SMTT(40), <1>1 DEF OwnSeesFloor, AllSee, SeesNext, Sees, SeesLater, LatesKept, Owns, WaitGot,
     Computing, FloorsBehind
<1>10. LateJoin(c)'
  <2> DEFINE f == inFlight[At[c]][KeyOf[c]]
  <2>1. CASE pc[c] = "get"
    <3>1. At[c] \in Replica /\ KeyOf[c] \in Key /\ pc[c] \notin Computing
      BY <2>1 DEF Job, Computing, WaitGot
    <3>2. f # None => f.leader \in Reader \ {c}
      BY <3>1, OthersLead
    <3>3. Latest(c)' = Latest(c) /\ UNCHANGED <<inFlight, floor, val>>
      BY DEF Latest
    <3>4. \A d \in Reader \ {c} : pc'[d] = pc[d] /\ cached'[d] = cached[d]
      OBVIOUS
    <3>5. LateJoin(c) /\ pc[c] \in Asking
      BY <2>1 DEF LateJoinersSeeFloor, Asking
    <3>6. f # None => \A t, n : AllSee(f.leader, t, n) => SeesNext(f.leader, t, n)
      BY <3>2, <3>3, <3>4, SeesLasts DEF AllSee, SeesNext
    <3> QED
      BY ZenonT(60), <3>3, <3>5, <3>6 DEF LateJoin, AllSee, SeesNext, Sees, SeesLater
  <2>2. CASE pc[c] # "get"
    BY <2>2 DEF LateJoin, Asking
  <2> QED
    BY <2>1, <2>2
<1> QED
  BY <1>2, <1>3, <1>4, <1>5, <1>6, <1>7, <1>8, <1>9, <1>10 DEF ReadInv, LateJoinersSeeFloor

(* The invariant over the recheck of a lock waiter.                         *)
LEMMA DecideWaitKeeps ==
    ASSUME TypeInv, FenceInv, ReadInv, LatesKept, NEW c \in Reader, DecideWait(c)
    PROVE  ReadInv' /\ LeadersKeep
<1> USE CacheAssumption DEF DecideWait, TypeInv, TypeOK, ReadingTypeOK, LocalsTypeOK, ReadInv, GoTo,
        source, provider, runtime, TagsFor, Hit
<1>1. Owns(c)
  BY DecideWaitOwns
<1>2. /\ LeadersCompute' /\ SharedBehind' /\ JoinersLed' /\ LeadersCurrent'
      /\ JoinersSeeFloor' /\ LeadersKeep
      /\ \A d \in Reader \ {c} : LateJoin(d)'
  BY <1>1, OwnsKeeps
<1>3. FloorsBehind'
  BY DEF FloorsBehind
<1>4. ValuesLate'
  BY DEF ValuesLate, Late, Computed
<1>5. GotLate'
  BY DEF GotLate, Holding, Computed, WaitGot
<1>6. SecondIsLate'
  BY DEF SecondIsLate, Second
<1>7. CachedCurrent'
  BY DEF CachedCurrent, FenceInv, FencedEntries, Sees, LatesKept
<1>8. HitSeesFloor'
  BY DEF HitSeesFloor, CachedCurrent, GotLate, Holding, Computed, WaitGot, Sees, LatesKept
<1>9. OwnSeesFloor'
  BY <1>1 DEF OwnSeesFloor, AllSee, SeesNext, Sees, SeesLater, LatesKept, Owns, WaitGot, Computing,
     FloorsBehind
<1>10. LateJoin(c)'
  BY DEF LateJoin, Asking
<1> QED
  BY <1>2, <1>3, <1>4, <1>5, <1>6, <1>7, <1>8, <1>9, <1>10 DEF ReadInv, LateJoinersSeeFloor

(* The invariant over fetch.                                                *)
LEMMA FetchKeeps ==
    ASSUME TypeInv, FenceInv, ReadInv, LatesKept, NEW c \in Reader, Fetch(c)
    PROVE  ReadInv' /\ LeadersKeep
<1> USE CacheAssumption DEF Fetch, TypeInv, TypeOK, ReadingTypeOK, LocalsTypeOK, ReadInv, GoTo,
        source, provider, runtime, TagsFor, SourceTypeOK
<1>1. Owns(c)
  BY FetchOwns
<1>2. /\ LeadersCompute' /\ SharedBehind' /\ JoinersLed' /\ LeadersCurrent'
      /\ JoinersSeeFloor' /\ LeadersKeep
      /\ \A d \in Reader \ {c} : LateJoin(d)'
  BY <1>1, OwnsKeeps
<1>3. FloorsBehind'
  BY DEF FloorsBehind
<1>4. ValuesLate'
  BY DEF ValuesLate, Late, Computed
<1>5. GotLate'
  BY DEF GotLate, Holding, Computed, WaitGot
<1>6. SecondIsLate'
  BY DEF SecondIsLate, Second
<1>7. CachedCurrent'
  BY DEF CachedCurrent, FenceInv, FencedEntries, Sees, LatesKept
<1>8. HitSeesFloor'
  BY DEF HitSeesFloor, CachedCurrent, GotLate, Holding, Computed, WaitGot, Sees, LatesKept
<1>9. OwnSeesFloor'
  <2> SUFFICES ASSUME NEW d \in Reader, pc'[d] # "done" \/ snap'[d] # None, NEW t \in TagsFor(d)
               PROVE  SeesNext(d, t, floor'[d][t])
    BY DEF OwnSeesFloor, AllSee, SeesNext, Sees, SeesLater, TagsFor
  <2>1. floor'[d] = floor[d] /\ snap'[d] = snap[d] /\ (pc'[d] = "done" => pc[d] = "done")
    BY <1>1 DEF Owns
  <2>2. AllSee(d, t, floor[d][t])
    BY <2>1 DEF OwnSeesFloor
  <2>3. CASE d = c
    <3>1. floor[c][t] \in Nat /\ floor[c][t] <= fence[t] /\ pc[c] \in Computing
      BY <2>3 DEF FloorsBehind, Computing
    <3> QED
      BY <1>1, <2>1, <2>2, <2>3, <3>1 DEF Owns, TagsFor
  <2>4. CASE d # c
    BY <1>1, <2>1, <2>2, <2>4 DEF Owns, AllSee, Sees, SeesNext, SeesLater, LatesKept
  <2> QED
    BY <2>3, <2>4
<1>10. LateJoin(c)'
  BY DEF LateJoin, Asking
<1> QED
  BY <1>2, <1>3, <1>4, <1>5, <1>6, <1>7, <1>8, <1>9, <1>10 DEF ReadInv, LateJoinersSeeFloor

(* The invariant over the awaited half of snapshot.                         *)
LEMMA EpochsKeep ==
    ASSUME TypeInv, FenceInv, ReadInv, ServedInv, LatesKept, NEW c \in Reader, ReadEpochs(c),
           pc[c] \notin ForcedLabels
    PROVE  ReadInv' /\ LeadersKeep
<1> DEFINE Fenced == FencesRead(c)
           Asked  == [local |-> loc[c], external |-> getTagEpochs(c)]
<1> USE CacheAssumption DEF TypeInv, TypeOK, ReadingTypeOK, LocalsTypeOK, ReadInv
<1>1. Owns(c)
  BY EpochsOwn
<1>2. /\ LeadersCompute' /\ SharedBehind' /\ JoinersLed' /\ LeadersCurrent'
      /\ JoinersSeeFloor' /\ LeadersKeep
      /\ \A d \in Reader \ {c} : LateJoin(d)'
  BY <1>1, OwnsKeeps
<1>3. \A t \in TagsFor(c) :
         \/ /\ t \in Served(c)
            /\ Asked.external[t] = served[c][t].epoch /\ Fenced[t] = served[c][t].fence
         \/ Asked.external[t] = tagEpochs[t] /\ Fenced[t] = fence[t]
  BY DEF getTagEpochs, FencesRead
<1>14. \A t \in TagsFor(c) : Fenced[t] \in Nat /\ Fenced[t] <= fence[t]
  <2>1. \A t \in TagsFor(c) : fence[t] \in Nat
    BY DEF SourceTypeOK, TagsFor
  <2>2. \A t \in Served(c) : served[c][t].fence \in Nat /\ served[c][t].fence <= fence[t]
    BY DEF ServedTypeOK, FenceInv, ServedBehind
  <2> QED
    BY <1>3, <2>1, <2>2
<1>4. UNCHANGED <<fence, tagEpochs, inFlight, cached, val>>
  BY DEF ReadEpochs, source, provider, runtime
<1>5. /\ \A d \in Reader \ {c} : /\ pc'[d] = pc[d] /\ floor'[d] = floor[d]
                                 /\ snap'[d] = snap[d] /\ snap2'[d] = snap2[d]
      /\ DOMAIN floor' = Reader
  BY <1>1 DEF Owns, ReadEpochs, FloorsBehind
<1>6. \/ /\ pc[c] = "snapBefore" /\ pc'[c] = "get"
         /\ snap2'[c] = snap2[c]
         /\ \/ snap'[c] = Asked /\ Asked # None /\ floor'[c] = Fenced
            \/ snap'[c] = None /\ floor'[c] = floor[c]
      \/ /\ pc[c] = "snapAfter" /\ pc'[c] = "decide"
         /\ snap'[c] = snap[c]
         /\ \/ snap2'[c] = Asked /\ Asked # None /\ floor'[c] = Fenced
            \/ snap2'[c] = None /\ floor'[c] = floor[c]
      \/ /\ pc[c] = "snapWait" /\ pc'[c] = "waited"
         /\ snap2'[c] = snap2[c] /\ floor'[c] = floor[c]
      \/ /\ pc[c] = "snapWaitAfter" /\ pc'[c] = "decideWait"
         /\ snap'[c] = snap[c] /\ floor'[c] = floor[c]
  <2>1. pc[c] \in {"snapBefore", "snapAfter", "snapWait", "snapWaitAfter"}
    BY DEF ReadEpochs, AfterEpochs, ForcedLabels
  <2>2. /\ pc'[c] = AfterEpochs[pc[c]]
        /\ \E s \in {None, Asked} :
              /\ floor'[c] = IF s # None /\ pc[c] \in {"snapBefore", "snapAfter"}
                             THEN Fenced ELSE floor[c]
              /\ IF pc[c] \in SecondSnapshot
                 THEN snap2'[c] = s /\ snap'[c] = snap[c]
                 ELSE snap'[c] = s /\ snap2'[c] = snap2[c]
    BY DEF ReadEpochs, GoTo, FloorsBehind
  <2> HIDE DEF Fenced, Asked
  <2> QED
    BY <2>1, <2>2 DEF AfterEpochs, SecondSnapshot
<1> HIDE DEF Fenced, Asked
<1>7. FloorsBehind'
  <2>1. DOMAIN floor' = Reader
    BY <1>5 DEF FloorsBehind
  <2>2. \A t \in TagsFor(c) : floor'[c][t] \in Nat /\ floor'[c][t] <= fence[t]
    BY <1>6, <1>14 DEF FloorsBehind
  <2> QED
    BY <1>4, <1>5, <2>1, <2>2 DEF FloorsBehind, TagsFor
<1>8. ValuesLate' /\ GotLate'
  BY <1>4, <1>5, <1>6 DEF ValuesLate, GotLate, Late, Holding, Computed, WaitGot
<1>9. SecondIsLate'
  BY <1>5, <1>6 DEF SecondIsLate, Second
<1>10. CachedCurrent'
  BY <1>4, <1>5, <1>6 DEF CachedCurrent, TagsFor, Sees, LatesKept
<1>11. HitSeesFloor'
  <2>1. CASE pc[c] = "snapAfter" /\ snap2'[c] = Asked /\ floor'[c] = Fenced /\ cached[c] # None
    <3>1. \A t \in TagsFor(c) : snap[c].external[t] = Asked.external[t] =>
             Sees(KeyOf[c], cached[c], t, Fenced[t])
      BY <1>3, <2>1 DEF CachedCurrent, ServedInv, ServedCached
    <3>2. snap'[c] = snap[c]
      BY <1>6, <2>1
    <3>3. \A t \in TagsFor(c) : snap'[c].external[t] = snap2'[c].external[t] =>
             SeesLater(KeyOf[c], cached'[c], t, floor'[c][t])
      BY <1>4, <2>1, <3>1, <3>2, SeesLasts
    <3> QED
      BY <1>4, <1>5, <3>3 DEF HitSeesFloor, Sees, SeesLater, LatesKept, TagsFor
  <2>2. CASE ~(pc'[c] = "decide" /\ snap2'[c] # None /\ cached[c] # None)
    BY <1>4, <1>5, <2>2 DEF HitSeesFloor, Sees, LatesKept, TagsFor
  <2> QED
    BY <1>6, <2>1, <2>2
<1>12. OwnSeesFloor'
  <2>1. \A t \in TagsFor(c) : AllSee(c, t, floor[c][t])'
    <3>1. CASE pc[c] \in {"snapBefore", "snapAfter"}
      BY <1>4, <1>6, <3>1 DEF AllSee, Sees, ValuesLate, Late, Computed, WaitGot
    <3>2. CASE pc[c] \in {"snapWait", "snapWaitAfter"}
      <4>1. UNCHANGED cached /\ cached[c] # None => pc[c] = "snapWaitAfter"
        BY <1>4, <3>2 DEF GotLate, Holding, Computed, WaitGot
      <4>2. floor'[c] = floor[c]
        BY <1>6, <3>2
      <4>3. \A t \in TagsFor(c) : AllSee(c, t, floor[c][t])
        BY <3>2 DEF OwnSeesFloor
      <4>4. \A t \in TagsFor(c) : SeesNext(c, t, floor[c][t])
        BY <1>4, <3>2, <4>1, <4>3 DEF AllSee, SeesNext, Sees, SeesLater, LatesKept, WaitGot
      <4> QED
        BY <4>2, <4>4 DEF AllSee, SeesNext, Sees, SeesLater
    <3> QED
      BY <1>6, <3>1, <3>2
  <2> QED
    BY <1>4, <1>5, <2>1 DEF OwnSeesFloor, AllSee, Sees, LatesKept, TagsFor
<1>13. LateJoin(c)'
  <2> DEFINE f == inFlight[At[c]][KeyOf[c]]
  <2>1. At[c] \in Replica /\ KeyOf[c] \in Key
    BY DEF Job
  <2> SUFFICES ASSUME pc'[c] \in Asking, Latest(c)' # None, f # None, f.snapshot # None,
                      NEW t \in TagsFor(c), f.snapshot.external[t] = (Latest(c)').external[t]
               PROVE  SeesNext(f.leader, t, floor'[c][t])
    BY <1>4 DEF LateJoin, AllSee, SeesNext, Sees, SeesLater, TagsFor
  <2>2. f.leader \in Reader \ {c} /\ t \in TagsFor(f.leader)
    <3>1. f.leader \in Reader /\ pc[f.leader] \in Computing /\ KeyOf[f.leader] = KeyOf[c]
      BY <2>1 DEF LeadersCompute, RuntimeTypeOK
    <3>2. pc[c] \notin Computing
      BY <1>6 DEF Asking, Computing, WaitGot
    <3> QED
      BY <3>1, <3>2 DEF TagsFor
  <2>3. pc'[f.leader] = pc[f.leader]
    BY <1>5, <2>2
  <2>4. AllSee(f.leader, t, floor'[c][t])
    <3>1. CASE Latest(c)' = Asked /\ floor'[c] = Fenced
      <4>1. CASE /\ t \in Served(c) /\ Asked.external[t] = served[c][t].epoch
                 /\ Fenced[t] = served[c][t].fence
        <5>1. pc[c] \in {"snapBefore", "snapAfter"}
          BY <1>6 DEF Asking
        <5>2. AllSee(f.leader, t, served[c][t].fence)
          BY <3>1, <4>1, <5>1 DEF ServedInv, ServedShared
        <5> QED
          BY <3>1, <4>1, <5>2
      <4>2. CASE Asked.external[t] = tagEpochs[t] /\ Fenced[t] = fence[t]
        <5>1. AllSee(f.leader, t, fence[t])
          BY <2>1, <3>1, <4>2 DEF LeadersCurrent, TagsFor
        <5> QED
          BY <3>1, <4>2, <5>1
      <4> QED
        BY <1>3, <4>1, <4>2
    <3>2. CASE Latest(c)' = Latest(c) /\ floor'[c] = floor[c] /\ pc[c] \in Asking
      BY <3>2 DEF LateJoinersSeeFloor, LateJoin
    <3> QED
      BY <1>6, <3>1, <3>2 DEF Latest, Asking, SecondIsLate, Second
  <2> HIDE DEF f
  <2> QED
    BY <1>4, <2>3, <2>4, SeesLasts DEF AllSee, SeesNext
<1> QED
  BY <1>2, <1>7, <1>8, <1>9, <1>10, <1>11, <1>12, <1>13 DEF LateJoinersSeeFloor

(* The invariant over a hit of read.                                        *)
LEMMA HitKeeps ==
    ASSUME TypeInv, ReadInv, LatesKept, NEW c \in Reader, Decide(c), Hit(c)
    PROVE  ReadInv' /\ LeadersKeep
<1> USE DEF Decide, Hit, TypeInv, TypeOK, ReadingTypeOK, LocalsTypeOK, ReadInv, GoTo, source,
        provider, runtime, TagsFor
<1>1. Owns(c)
  BY DEF Owns, Computing, WaitGot
<1>2. /\ LeadersCompute' /\ SharedBehind' /\ JoinersLed' /\ LeadersCurrent'
      /\ JoinersSeeFloor' /\ LeadersKeep
      /\ \A d \in Reader \ {c} : LateJoin(d)'
  BY <1>1, OwnsKeeps
<1>3. FloorsBehind'
  BY DEF FloorsBehind
<1>4. ValuesLate' /\ GotLate' /\ SecondIsLate'
  BY DEF ValuesLate, GotLate, SecondIsLate, Late, Holding, Second, Computed, WaitGot
<1>5. CachedCurrent' /\ HitSeesFloor'
  BY DEF CachedCurrent, HitSeesFloor, Sees, LatesKept
<1>6. OwnSeesFloor'
  <2>1. snap[c] # None => \A t \in TagsFor(c) : Sees(KeyOf[c], cached[c], t, floor[c][t])
    BY DEF HitSeesFloor
  <2>2. \A d \in Reader \ {c} : pc'[d] = pc[d] /\ cached'[d] = cached[d] /\ val'[d] = val[d]
    BY <1>1 DEF Owns
  <2>3. UNCHANGED <<floor, snap>> /\ val'[c] = cached[c] /\ pc'[c] = "done"
    OBVIOUS
  <2> QED
    BY <2>1, <2>2, <2>3 DEF OwnSeesFloor, AllSee, Sees, LatesKept, WaitGot
<1>7. LateJoin(c)'
  BY DEF LateJoin, Asking
<1> QED
  BY <1>2, <1>3, <1>4, <1>5, <1>6, <1>7 DEF LateJoinersSeeFloor

(* c takes part in the computation under snapshot s: an equal one that runs *)
(* already, or one of its own.                                              *)
Joins(c, s) ==
    /\ UNCHANGED <<source, tagEpochs>>
    /\ \A d \in Reader \ {c} : /\ pc'[d] = pc[d] /\ floor'[d] = floor[d]
                               /\ snap'[d] = snap[d] /\ snap2'[d] = snap2[d]
                               /\ cached'[d] = cached[d] /\ val'[d] = val[d]
                               /\ leader'[d] = leader[d]
    /\ pc[c] \in {"idle", "get", "decide"}
    /\ DOMAIN floor' = Reader
    /\ \A t \in TagsFor(c) : floor'[c][t] \in Nat /\ floor'[c][t] <= fence[t]
    /\ s # None => s = Latest(c) /\ pc[c] = "decide" /\ floor'[c] = floor[c]
    /\ snap'[c] = s /\ snap2'[c] = None /\ cached'[c] = None /\ val'[c] = None
    /\ \/ /\ Shares(c, s)
          /\ pc'[c] = "joined" /\ leader'[c] = inFlight[At[c]][KeyOf[c]].leader
          /\ UNCHANGED inFlight
       \/ /\ pc'[c] \in {"lock", "fetch"}
          /\ \A r \in Replica, k \in Key : inFlight'[r][k] =
                IF r = At[c] /\ k = KeyOf[c] THEN [snapshot |-> s, leader |-> c]
                ELSE inFlight[r][k]

(* readThroughInFlight is such a step.                                      *)
LEMMA JoinJoins ==
    ASSUME TypeInv, ReadInv, LatesKept, NEW c \in Reader, NEW s, Join(c, s), pc[c] \in {"idle", "get", "decide"},
           UNCHANGED <<source, tagEpochs, val>>, DOMAIN floor' = Reader,
           \A d \in Reader \ {c} : /\ floor'[d] = floor[d] /\ snap2'[d] = snap2[d]
                                   /\ cached'[d] = cached[d],
           snap2'[c] = None, cached'[c] = None,
           \A t \in TagsFor(c) : floor'[c][t] \in Nat /\ floor'[c][t] <= fence[t],
           s # None => s = Latest(c) /\ pc[c] = "decide" /\ floor'[c] = floor[c]
    PROVE  Joins(c, s)
<1> USE DEF TypeInv, TypeOK, ReadingTypeOK, LocalsTypeOK, Join, GoTo
<1>1. val[c] = None
  BY DEF ReadInv, ValuesLate, Late, Computed
<1>2. At[c] \in Replica /\ KeyOf[c] \in Key
  BY CacheAssumption DEF Job
<1>3. CASE Shares(c, s)
  BY <1>1, <1>3 DEF Joins
<1>4. CASE ~Shares(c, s)
  <2>1. \A r \in Replica, k \in Key : inFlight'[r][k] =
           IF r = At[c] /\ k = KeyOf[c] THEN [snapshot |-> s, leader |-> c] ELSE inFlight[r][k]
    BY <1>2, <1>4 DEF RuntimeTypeOK
  <2> QED
    BY <1>1, <1>4, <2>1 DEF Joins
<1> QED
  BY <1>3, <1>4

(* The invariant over joining: equal snapshots make the shared value late   *)
(* enough for the joiner, a new computation has no value yet.               *)
LEMMA JoinsKeeps ==
    ASSUME TypeInv, FenceInv, ReadInv, LatesKept, NEW c \in Reader, NEW s, Joins(c, s)
    PROVE  ReadInv' /\ LeadersKeep
<1> USE CacheAssumption DEF ReadInv
<1>1. UNCHANGED <<fence, tagEpochs>>
  BY DEF Joins, source
<1>2. \A d \in Reader \ {c} : /\ pc'[d] = pc[d] /\ floor'[d] = floor[d]
                              /\ snap'[d] = snap[d] /\ snap2'[d] = snap2[d]
                              /\ cached'[d] = cached[d] /\ val'[d] = val[d]
                              /\ leader'[d] = leader[d]
  BY DEF Joins
<1>3. /\ pc[c] \notin Computing /\ pc'[c] \in {"joined", "lock", "fetch"}
      /\ snap'[c] = s /\ snap2'[c] = None /\ cached'[c] = None /\ val'[c] = None
  BY DEF Joins, Computing, WaitGot
<1>4. At[c] \in Replica /\ KeyOf[c] \in Key
  BY DEF Job
<1>5. \A d \in Reader \ {c} : \A t, n : AllSee(d, t, n) => SeesNext(d, t, n)
  BY <1>2, SeesLasts DEF AllSee, SeesNext
<1>6. \A t, n : SeesNext(c, t, n)
  BY <1>3 DEF SeesNext, SeesLater
<1>7. \A r \in Replica, k \in Key : inFlight'[r][k] # None =>
         \/ /\ inFlight'[r][k] = inFlight[r][k] /\ inFlight[r][k].leader \in Reader \ {c}
         \/ /\ r = At[c] /\ k = KeyOf[c] /\ pc'[c] \in Computing
            /\ inFlight'[r][k].leader = c /\ inFlight'[r][k].snapshot = s
  BY <1>3, OthersLead DEF Joins, Computing
<1>8. FloorsBehind'
  BY <1>1, <1>2 DEF FloorsBehind, Joins, TagsFor
<1>9. /\ ValuesLate' /\ GotLate' /\ SecondIsLate'
      /\ CachedCurrent' /\ HitSeesFloor'
  <2>1. ValuesLate' /\ GotLate' /\ SecondIsLate'
    BY <1>2, <1>3 DEF ValuesLate, GotLate, SecondIsLate
  <2>2. CachedCurrent' /\ HitSeesFloor'
    BY <1>1, <1>2, <1>3 DEF CachedCurrent, HitSeesFloor, Sees, LatesKept, TagsFor
  <2> QED
    BY <2>1, <2>2
<1>10. OwnSeesFloor'
  BY <1>2, <1>3, <1>5, <1>6 DEF OwnSeesFloor, AllSee, SeesNext, Sees, SeesLater, TagsFor
<1>11. LeadersCompute'
  BY <1>2, <1>7 DEF LeadersCompute
<1>12. SharedBehind'
  <2>1. s # None => \A t \in TagsFor(c) : s.external[t] <= tagEpochs[t]
    BY DEF Joins, Latest, FenceInv, SnapshotsBehind, Behind
  <2> QED
    BY <1>1, <1>7, <2>1 DEF SharedBehind, TagsFor
<1>13. JoinersLed'
  <2>1. CASE pc'[c] = "joined"
    BY <1>2, <1>3, <1>4, <2>1, OthersLead DEF JoinersLed, Joins, Shares, LeadersCompute
  <2>2. CASE pc'[c] # "joined"
    BY <1>2, <1>3, <2>2 DEF JoinersLed
  <2> QED
    BY <2>1, <2>2
<1>14. LeadersCurrent'
  <2> SUFFICES ASSUME NEW r \in Replica, NEW k \in Key, NEW t \in TagsOf[k],
                      inFlight'[r][k] # None, inFlight'[r][k].snapshot # None,
                      inFlight'[r][k].snapshot.external[t] = tagEpochs[t]
               PROVE  SeesNext(inFlight'[r][k].leader, t, fence[t])
    BY ZenonT(60), <1>1 DEF LeadersCurrent, AllSee, SeesNext, Sees, SeesLater
  <2>1. CASE inFlight'[r][k].leader = c
    BY <1>6, <2>1
  <2>2. CASE inFlight'[r][k] = inFlight[r][k] /\ inFlight[r][k].leader \in Reader \ {c}
    <3>1. AllSee(inFlight[r][k].leader, t, fence[t])
      BY <2>2 DEF LeadersCurrent
    <3> QED
      BY <1>5, <2>2, <3>1
  <2> QED
    BY <1>7, <2>1, <2>2
<1>15. JoinersSeeFloor'
  <2> SUFFICES ASSUME NEW d \in Reader, pc'[d] = "joined", snap'[d] # None, NEW t \in TagsFor(d)
               PROVE  SeesNext(leader'[d], t, floor'[d][t])
    BY DEF JoinersSeeFloor, AllSee, SeesNext, Sees, SeesLater, TagsFor
  <2>1. CASE d # c
    <3>1. AllSee(leader[d], t, floor[d][t]) /\ leader[d] \in Reader \ {c}
      BY <1>2, <1>3, <2>1 DEF JoinersSeeFloor, JoinersLed
    <3> QED
      BY <1>2, <1>5, <2>1, <3>1
  <2>2. CASE d = c
    <3> DEFINE f == inFlight[At[c]][KeyOf[c]]
    <3>1. f # None /\ f.snapshot = s /\ leader'[c] = f.leader
      BY <2>2 DEF Joins, Shares
    <3>2. s # None /\ s = Latest(c) /\ pc[c] = "decide" /\ floor'[c] = floor[c]
      BY <1>3, <2>2 DEF Joins
    <3>3. AllSee(f.leader, t, floor[c][t])
      BY <2>2, <3>1, <3>2 DEF LateJoinersSeeFloor, LateJoin, Asking
    <3>4. f.leader \in Reader \ {c}
      BY <1>3, <1>4, <3>1, OthersLead
    <3> QED
      BY <1>5, <2>2, <3>1, <3>2, <3>3, <3>4
  <2> QED
    BY <2>1, <2>2
<1>16. LateJoinersSeeFloor'
  <2> SUFFICES ASSUME NEW d \in Reader, pc'[d] \in Asking, Latest(d)' # None,
                      inFlight'[At[d]][KeyOf[d]] # None,
                      inFlight'[At[d]][KeyOf[d]].snapshot # None, NEW t \in TagsFor(d),
                      inFlight'[At[d]][KeyOf[d]].snapshot.external[t] = (Latest(d)').external[t]
               PROVE  SeesNext(inFlight'[At[d]][KeyOf[d]].leader, t, floor'[d][t])
    BY DEF LateJoinersSeeFloor, LateJoin, AllSee, SeesNext, Sees, SeesLater, TagsFor
  <2>1. d # c /\ Latest(d)' = Latest(d) /\ pc[d] \in Asking /\ floor'[d] = floor[d]
    BY <1>2, <1>3 DEF Asking, Latest
  <2>2. At[d] \in Replica /\ KeyOf[d] \in Key
    BY DEF Job
  <2>3. CASE inFlight'[At[d]][KeyOf[d]].leader = c
    BY <1>6, <2>3
  <2>4. CASE /\ inFlight'[At[d]][KeyOf[d]] = inFlight[At[d]][KeyOf[d]]
             /\ inFlight[At[d]][KeyOf[d]].leader \in Reader \ {c}
    <3>1. AllSee(inFlight[At[d]][KeyOf[d]].leader, t, floor[d][t])
      BY <2>1, <2>4 DEF LateJoinersSeeFloor, LateJoin
    <3> QED
      BY <1>5, <2>1, <2>4, <3>1
  <2> QED
    BY <1>7, <2>2, <2>3, <2>4
<1>17. LeadersKeep
  BY <1>5, <1>6, <1>7 DEF LeadersKeep
<1> QED
  BY <1>8, <1>9, <1>10, <1>11, <1>12, <1>13, <1>14, <1>15, <1>16, <1>17

(* The three places that join: without epochs,                              *)
LEMMA BypassKeeps ==
    ASSUME TypeInv, FenceInv, ReadInv, LatesKept, NEW c \in Reader, Bypass(c)
    PROVE  ReadInv' /\ LeadersKeep
<1>1. Joins(c, None)
  BY JoinJoins DEF Bypass, ReadInv, FloorsBehind, SecondIsLate, Second, GotLate, Holding, Computed,
     WaitGot, source, provider
<1> QED
  BY <1>1, JoinsKeeps

(* after a miss,                                                            *)
LEMMA MissKeeps ==
    ASSUME TypeInv, FenceInv, ReadInv, LatesKept, NEW c \in Reader, Decide(c), ~Hit(c)
    PROVE  ReadInv' /\ LeadersKeep
<1>1. Joins(c, Latest(c))
  BY JoinJoins DEF Decide, Latest, ReadInv, FloorsBehind, source, provider, TypeInv, TypeOK,
     LocalsTypeOK
<1> QED
  BY <1>1, JoinsKeeps

(* and at once, uncached or in quarantine.                                  *)
LEMMA BeginKeeps ==
    ASSUME TypeInv, FenceInv, ReadInv, LatesKept, NEW c \in Reader, Begin(c)
    PROVE  ReadInv' /\ LeadersKeep
<1> DEFINE Fenced == [t \in TagsFor(c) |-> fence[t]]
<1>1. floor' = [floor EXCEPT ![c] = Fenced] /\ DOMAIN floor = Reader
  BY DEF Begin, ReadInv, FloorsBehind
<1>2. \A t \in TagsFor(c) : Fenced[t] = fence[t] /\ fence[t] \in Nat
  BY CacheAssumption DEF TypeInv, TypeOK, SourceTypeOK, TagsFor
<1>3. \A t \in TagsFor(c) : floor'[c][t] \in Nat /\ floor'[c][t] <= fence[t]
  BY <1>1, <1>2
<1> HIDE DEF Fenced
<1>4. snap2[c] = None /\ cached[c] = None /\ val[c] = None
  BY DEF Begin, ReadInv, SecondIsLate, Second, GotLate, Holding, ValuesLate, Late, WaitGot, Computed
<1>5. CASE Join(c, None)
  <2>1. Joins(c, None)
    BY <1>1, <1>3, <1>4, <1>5, JoinJoins DEF Begin, source, provider
  <2> QED
    BY <2>1, JoinsKeeps
<1>6. CASE /\ UNCHANGED <<inFlight, snap, leader>>
           /\ \E l \in {"snapBefore", "snapForced", "fetchForced"} : pc' = [pc EXCEPT ![c] = l]
  <2> USE <1>1, <1>3, <1>4, <1>6 DEF ReadInv, TypeInv, TypeOK, ReadingTypeOK, LocalsTypeOK
  <2>1. UNCHANGED <<source, fence, tagEpochs, snap2, cached, val>> /\ pc[c] = "idle"
    BY DEF Begin, source, provider
  <2>2. Owns(c)
    BY <2>1 DEF Owns, Computing, WaitGot
  <2>3. /\ LeadersCompute' /\ SharedBehind' /\ JoinersLed' /\ LeadersCurrent'
        /\ JoinersSeeFloor' /\ LeadersKeep
        /\ \A d \in Reader \ {c} : LateJoin(d)'
    BY <2>2, OwnsKeeps
  <2>4. FloorsBehind'
    BY <2>1 DEF FloorsBehind, TagsFor
  <2>5. ValuesLate' /\ GotLate' /\ SecondIsLate'
    BY <2>1 DEF ValuesLate, GotLate, SecondIsLate
  <2>6. CachedCurrent' /\ HitSeesFloor'
    BY <2>1 DEF CachedCurrent, HitSeesFloor, Sees, LatesKept, TagsFor
  <2>7. OwnSeesFloor'
    BY <2>1 DEF OwnSeesFloor, AllSee, Sees, LatesKept, TagsFor, WaitGot
  <2>8. LateJoin(c)'
    BY DEF LateJoin, Asking
  <2> QED
    BY <2>3, <2>4, <2>5, <2>6, <2>7, <2>8 DEF LateJoinersSeeFloor
<1> QED
  BY <1>5, <1>6, CacheAssumption DEF Begin, Capture, GoTo, Enabled

(* The invariant over the settling of a computation.                        *)
LEMMA ResolveKeeps ==
    ASSUME TypeInv, ReadInv, LatesKept, NEW c \in Reader, Resolve(c)
    PROVE  ReadInv' /\ LeadersKeep
<1> USE CacheAssumption DEF ReadInv
<1>1. UNCHANGED <<fence, tagEpochs, floor, snap, leader>>
  BY DEF Resolve, source
<1>2. pc[c] = "resolve" /\ \A d \in Settled(c) : d = c \/ (pc[d] = "joined" /\ leader[d] = c)
  BY DEF Resolve, Settled
<1>3. \A d \in Reader : IF d \in Settled(c)
                       THEN pc'[d] = "done" /\ val'[d] = val[c]
                       ELSE pc'[d] = pc[d] /\ val'[d] = val[d]
  BY DEF Resolve
<1>4. /\ cached'[c] = None /\ snap2'[c] = None
      /\ \A d \in Reader \ {c} : cached'[d] = cached[d] /\ snap2'[d] = snap2[d]
  BY DEF Resolve, TypeInv, TypeOK, LocalsTypeOK
<1>5. \A d \in Reader : pc[d] \in Computing /\ d # c => d \notin Settled(c)
  BY <1>2 DEF Computing, WaitGot
<1>6. \A d \in Reader : \A t, n : d \notin Settled(c) /\ AllSee(d, t, n) => SeesNext(d, t, n)
  BY <1>3, <1>4, SeesLasts DEF AllSee, SeesNext, Settled
<1>7. \A r \in Replica, k \in Key : inFlight'[r][k] # None =>
         /\ inFlight'[r][k] = inFlight[r][k] /\ inFlight[r][k].leader \in Reader \ {c}
         /\ pc[inFlight[r][k].leader] \in Computing
  <2> SUFFICES ASSUME NEW r \in Replica, NEW k \in Key, inFlight'[r][k] # None
               PROVE  /\ inFlight'[r][k] = inFlight[r][k]
                      /\ inFlight[r][k].leader \in Reader \ {c}
                      /\ pc[inFlight[r][k].leader] \in Computing
    OBVIOUS
  <2>1. At[c] \in Replica /\ KeyOf[c] \in Key
    BY DEF Job
  <2>2. \/ UNCHANGED inFlight
        \/ inFlight' = [inFlight EXCEPT ![At[c]][KeyOf[c]] = None]
    BY DEF Resolve
  <2>3. inFlight'[r][k] = inFlight[r][k]
    <3>1. DOMAIN inFlight = Replica /\ DOMAIN inFlight[r] = Key
      BY DEF TypeInv, TypeOK, RuntimeTypeOK
    <3>2. CASE inFlight' = [inFlight EXCEPT ![At[c]][KeyOf[c]] = None]
      BY <2>1, <3>1, <3>2
    <3> QED
      BY <2>2, <3>2
  <2>4. inFlight[r][k].leader \in Reader /\ pc[inFlight[r][k].leader] \in Computing
    BY <2>3 DEF LeadersCompute, TypeInv, TypeOK, RuntimeTypeOK
  <2>5. inFlight[r][k].leader = c => r = At[c] /\ k = KeyOf[c]
    BY <2>3 DEF LeadersCompute
  <2>6. inFlight[At[c]][KeyOf[c]] # None /\ inFlight[At[c]][KeyOf[c]].leader = c
           => inFlight'[At[c]][KeyOf[c]] = None
    BY <2>1 DEF Resolve, TypeInv, TypeOK, RuntimeTypeOK
  <2> QED
    BY <2>3, <2>4, <2>5, <2>6
<1>8. \A d \in Reader : /\ pc'[d] \notin {"joined", "idle", "done"} => pc'[d] = pc[d] /\ d # c
                        /\ pc'[d] = "joined" => pc[d] = "joined" /\ leader[d] # c
                        /\ pc'[d] = "idle" <=> pc[d] = "idle"
  BY <1>2, <1>3 DEF Settled
<1>9. FloorsBehind'
  BY <1>1, <1>8 DEF FloorsBehind, TagsFor
<1>10. ValuesLate' /\ GotLate' /\ SecondIsLate'
  BY <1>2, <1>3, <1>4 DEF ValuesLate, GotLate, SecondIsLate, Late, Holding, Second, Computed,
     WaitGot
<1>11. CachedCurrent' /\ HitSeesFloor'
  BY <1>1, <1>4, <1>8 DEF CachedCurrent, HitSeesFloor, Sees, LatesKept, TagsFor
<1>12. LeadersCompute'
  BY <1>3, <1>5, <1>7 DEF LeadersCompute
<1>13. SharedBehind'
  BY <1>1, <1>7 DEF SharedBehind
<1>14. JoinersLed'
  BY <1>1, <1>3, <1>5, <1>8 DEF JoinersLed
<1>15. OwnSeesFloor'
  <2> SUFFICES ASSUME NEW d \in Reader, pc'[d] # "done" \/ snap[d] # None, NEW t \in TagsFor(d)
               PROVE  SeesNext(d, t, floor[d][t])
    BY <1>1 DEF OwnSeesFloor, AllSee, SeesNext, Sees, SeesLater, TagsFor
  <2>1. CASE d \notin Settled(c)
    BY <1>3, <1>6, <2>1 DEF OwnSeesFloor
  <2>2. CASE d = c
    BY <1>2, <1>3, <1>4, <2>2 DEF OwnSeesFloor, AllSee, SeesNext, Sees, SeesLater, LatesKept,
       Settled, WaitGot
  <2>3. CASE d \in Settled(c) /\ d # c
    <3>1. AllSee(c, t, floor[d][t])
      BY <1>2, <1>3, <2>3 DEF JoinersSeeFloor
    <3>2. KeyOf[c] = KeyOf[d] /\ pc'[d] = "done" /\ val'[d] = val[c]
      BY <1>2, <1>3, <2>3 DEF TypeInv, LeadersShareKey
    <3> QED
      BY <3>1, <3>2, SeesLasts DEF AllSee, SeesNext, WaitGot
  <2> QED
    BY <2>1, <2>2, <2>3
<1>16. LeadersCurrent'
  <2> SUFFICES ASSUME NEW r \in Replica, NEW k \in Key, NEW t \in TagsOf[k],
                      inFlight'[r][k] # None, inFlight'[r][k].snapshot # None,
                      inFlight'[r][k].snapshot.external[t] = tagEpochs[t]
               PROVE  SeesNext(inFlight'[r][k].leader, t, fence[t])
    BY ZenonT(60), <1>1 DEF LeadersCurrent, AllSee, SeesNext, Sees, SeesLater
  <2>1. inFlight'[r][k] = inFlight[r][k] /\ inFlight[r][k].leader \in Reader \ Settled(c)
    BY <1>5, <1>7
  <2>2. AllSee(inFlight[r][k].leader, t, fence[t])
    BY <2>1 DEF LeadersCurrent
  <2> QED
    BY <1>6, <2>1, <2>2
<1>17. JoinersSeeFloor'
  <2> SUFFICES ASSUME NEW d \in Reader, pc'[d] = "joined", snap[d] # None, NEW t \in TagsFor(d)
               PROVE  SeesNext(leader[d], t, floor[d][t])
    BY <1>1 DEF JoinersSeeFloor, AllSee, SeesNext, Sees, SeesLater, TagsFor
  <2>1. AllSee(leader[d], t, floor[d][t]) /\ leader[d] \in Reader \ Settled(c)
    BY <1>5, <1>8 DEF JoinersSeeFloor, JoinersLed
  <2> QED
    BY <1>6, <2>1
<1>18. LateJoinersSeeFloor'
  <2> SUFFICES ASSUME NEW d \in Reader, pc'[d] \in Asking, Latest(d)' # None,
                      inFlight'[At[d]][KeyOf[d]] # None,
                      inFlight'[At[d]][KeyOf[d]].snapshot # None, NEW t \in TagsFor(d),
                      inFlight'[At[d]][KeyOf[d]].snapshot.external[t] = (Latest(d)').external[t]
               PROVE  SeesNext(inFlight'[At[d]][KeyOf[d]].leader, t, floor[d][t])
    BY <1>1 DEF LateJoinersSeeFloor, LateJoin, AllSee, SeesNext, Sees, SeesLater, TagsFor
  <2>1. pc[d] \in Asking /\ Latest(d)' = Latest(d)
    BY <1>1, <1>4, <1>8 DEF Latest, Asking
  <2>2. At[d] \in Replica /\ KeyOf[d] \in Key
    BY DEF Job
  <2>3. /\ inFlight'[At[d]][KeyOf[d]] = inFlight[At[d]][KeyOf[d]]
        /\ inFlight[At[d]][KeyOf[d]].leader \in Reader \ Settled(c)
    BY <1>5, <1>7, <2>2
  <2>4. AllSee(inFlight[At[d]][KeyOf[d]].leader, t, floor[d][t])
    BY <2>1, <2>3 DEF LateJoinersSeeFloor, LateJoin
  <2> QED
    BY <1>6, <2>3, <2>4
<1>19. LeadersKeep
  BY <1>5, <1>6, <1>7 DEF LeadersKeep
<1> QED
  BY <1>9, <1>10, <1>11, <1>12, <1>13, <1>14, <1>15, <1>16, <1>17, <1>18, <1>19

(* A step of c on its way through revalidate: it shares nothing, and the    *)
(* value it has fetched is no older than its floor.                         *)
Forces(c) ==
    /\ UNCHANGED <<source, tagEpochs, inFlight, leader, floor>>
    /\ \A d \in Reader \ {c} : /\ pc'[d] = pc[d] /\ snap'[d] = snap[d] /\ snap2'[d] = snap2[d]
                               /\ cached'[d] = cached[d] /\ val'[d] = val[d]
    /\ pc[c] \in ForcedLabels /\ pc'[c] \in ForcedLabels \cup {"fetched", "resolve"}
    /\ val'[c] # None => pc'[c] \in Late
    /\ snap2'[c] # None => pc'[c] \in Second
    /\ cached'[c] # None => pc'[c] \in Holding
    /\ \A t \in TagsFor(c) : SeesLater(KeyOf[c], val'[c], t, floor[c][t])

ForcedStep(c) ==
    \/ ForcedGot(c) \/ FetchForced(c) \/ FetchedForced(c) \/ CheckForced(c)
    \/ ReadEpochs(c) /\ pc[c] \in ForcedLabels
    \/ SafeGet(c) /\ pc[c] = "getForced"

LEMMA ForcedStepsForce ==
    ASSUME TypeInv, FenceInv, ReadInv, LatesKept, NEW c \in Reader,
           ForcedStep(c) \/ (c \in Job /\ InvalidateEnd(c))
    PROVE  Forces(c)
<1>0. /\ DOMAIN pc = Reader /\ DOMAIN snap = Reader /\ DOMAIN snap2 = Reader
      /\ DOMAIN cached = Reader /\ DOMAIN val = Reader
      /\ val[c] # None => pc[c] \in Late
      /\ snap2[c] # None => pc[c] \in Second
      /\ cached[c] # None => pc[c] \in Holding
  BY DEF TypeInv, TypeOK, ReadingTypeOK, LocalsTypeOK, ReadInv, ValuesLate, SecondIsLate, GotLate
<1>1. /\ UNCHANGED <<source, tagEpochs, inFlight, leader>>
      /\ \A d \in Reader \ {c} : /\ pc'[d] = pc[d] /\ snap'[d] = snap[d] /\ snap2'[d] = snap2[d]
                                 /\ cached'[d] = cached[d] /\ val'[d] = val[d]
  BY <1>0 DEF ForcedStep, ForcedGot, FetchForced, FetchedForced, CheckForced, ReadEpochs, SafeGet,
     InvalidateEnd, Capture, GoTo, provider, runtime
<1>2. /\ floor' = floor /\ pc[c] \in ForcedLabels
      /\ pc'[c] \in ForcedLabels \cup {"fetched", "resolve"}
      /\ pc[c] \in Late => pc'[c] \in Late
      /\ pc[c] \in Second => pc'[c] \in Second
      /\ pc[c] \in Holding => pc'[c] \in Holding
  <2> USE <1>0 DEF GoTo, Capture, ForcedLabels, Late, Second, Holding, Computed, WaitGot
  <2>1. CASE ForcedGot(c) \/ FetchForced(c) \/ FetchedForced(c) \/ CheckForced(c)
    BY <2>1 DEF ForcedGot, FetchForced, FetchedForced, CheckForced
  <2>2. CASE ReadEpochs(c) /\ pc[c] \in ForcedLabels
    BY <2>2 DEF ReadEpochs, AfterEpochs
  <2>3. CASE SafeGet(c) /\ pc[c] = "getForced"
    BY <2>3 DEF SafeGet, AfterGet, AfterMiss
  <2>4. CASE c \in Job /\ InvalidateEnd(c)
    <3>1. pc[c] \in {"fencing", "notifying"}
      BY <2>4 DEF InvalidateEnd, FenceInv, Places
    <3>2. pc' = [pc EXCEPT ![c] = IF pc[c] = "fencing" THEN "snapFenced" ELSE "snapWrite"]
      BY <2>4, CacheAssumption DEF InvalidateEnd
    <3>3. floor' = floor
      BY <2>4 DEF InvalidateEnd
    <3> QED
      BY <3>1, <3>2, <3>3
  <2> QED
    BY <2>1, <2>2, <2>3, <2>4 DEF ForcedStep
<1>3. val'[c] # None => pc'[c] \in Late
  <2>1. CASE FetchForced(c)
    BY <1>0, <2>1 DEF FetchForced, GoTo, Late, Computed
  <2>2. CASE ~FetchForced(c)
    <3>1. val' = val
      BY <2>2 DEF ForcedStep, ForcedGot, FetchedForced, CheckForced, ReadEpochs, SafeGet,
         InvalidateEnd
    <3> QED
      BY <1>0, <1>2, <3>1
  <2> QED
    BY <2>1, <2>2
<1>4. snap2'[c] # None => pc'[c] \in Second
  <2>1. CASE ReadEpochs(c) /\ pc[c] = "snapForcedAfter"
    BY <1>0, <2>1 DEF ReadEpochs, AfterEpochs, GoTo, Second
  <2>2. CASE ~(ReadEpochs(c) /\ pc[c] = "snapForcedAfter")
    <3>1. snap2' = snap2
      BY <2>2, <1>2 DEF ForcedStep, ForcedGot, FetchForced, FetchedForced, CheckForced, ReadEpochs,
         SafeGet, InvalidateEnd, SecondSnapshot, ForcedLabels
    <3> QED
      BY <1>0, <1>2, <3>1
  <2> QED
    BY <2>1, <2>2
<1>5. cached'[c] # None => pc'[c] \in Holding
  <2>1. CASE SafeGet(c) /\ pc[c] = "getForced"
    BY <1>0, <2>1 DEF SafeGet, AfterGet, AfterMiss, GoTo, Holding
  <2>2. CASE ~(SafeGet(c) /\ pc[c] = "getForced")
    <3>1. cached' = cached
      BY <2>2 DEF ForcedStep, ForcedGot, FetchForced, FetchedForced, CheckForced, ReadEpochs,
         InvalidateEnd
    <3> QED
      BY <1>0, <1>2, <3>1
  <2> QED
    BY <2>1, <2>2
<1>6. ASSUME NEW t \in TagsFor(c) PROVE SeesLater(KeyOf[c], val'[c], t, floor[c][t])
  <2>1. CASE val' = val
    <3>1. pc[c] # "done"
      BY <1>2 DEF ForcedLabels
    <3>2. Sees(KeyOf[c], val[c], t, floor[c][t])
      BY <3>1 DEF ReadInv, OwnSeesFloor, AllSee
    <3> QED
      BY <2>1, <3>2, SeesLasts
  <2>2. CASE FetchForced(c) /\ val' = [val EXCEPT ![c] = [u \in TagsFor(c) |-> db[u]]]
    <3>1. t \in Tag /\ fence[t] <= db[t] /\ fence[t] \in Nat /\ db[t] \in Nat
      BY CacheAssumption DEF TagsFor, FenceInv, FenceBelowSource, TypeInv, TypeOK, SourceTypeOK
    <3>2. floor[c][t] \in Nat /\ floor[c][t] <= fence[t]
      BY <1>2 DEF ReadInv, FloorsBehind, ForcedLabels
    <3>3. val'[c][t] = db[t]
      BY <1>0, <2>2
    <3> QED
      BY <3>1, <3>2, <3>3 DEF SeesLater
  <2> QED
    BY <2>1, <2>2 DEF ForcedStep, ForcedGot, FetchForced, FetchedForced, CheckForced, ReadEpochs,
       SafeGet, InvalidateEnd
<1> QED
  BY <1>1, <1>2, <1>3, <1>4, <1>5, <1>6 DEF Forces

(* The invariant over such a step.                                          *)
LEMMA ForcesKeeps ==
    ASSUME TypeInv, ReadInv, LatesKept, NEW c \in Reader, Forces(c)
    PROVE  ReadInv' /\ LeadersKeep
<1> USE DEF ReadInv
<1>1. /\ UNCHANGED <<fence, tagEpochs, inFlight, leader, floor>>
      /\ \A d \in Reader \ {c} : /\ pc'[d] = pc[d] /\ snap'[d] = snap[d] /\ snap2'[d] = snap2[d]
                                 /\ cached'[d] = cached[d] /\ val'[d] = val[d]
  BY DEF Forces, source
<1>2. /\ pc[c] \notin Computing \cup {"idle"}
      /\ pc'[c] \notin Asking \cup WaitGot \cup {"joined", "idle", "done"}
      /\ pc'[c] \notin {"got", "snapAfter", "decide"}
  BY DEF Forces, ForcedLabels, Computing, WaitGot, Asking
<1>3. Owns(c)
  BY <1>1, <1>2 DEF Owns, Forces
<1>4. /\ LeadersCompute' /\ SharedBehind' /\ JoinersLed' /\ LeadersCurrent'
      /\ JoinersSeeFloor' /\ LeadersKeep
      /\ \A d \in Reader \ {c} : LateJoin(d)'
  BY <1>3, OwnsKeeps
<1>5. FloorsBehind'
  BY <1>1, <1>2 DEF FloorsBehind, TagsFor
<1>6. ValuesLate' /\ GotLate' /\ SecondIsLate'
  BY <1>1 DEF Forces, ValuesLate, GotLate, SecondIsLate
<1>7. CachedCurrent' /\ HitSeesFloor'
  BY <1>1, <1>2 DEF CachedCurrent, HitSeesFloor, Sees, LatesKept, TagsFor
<1>8. OwnSeesFloor'
  <2>1. \A t \in TagsFor(c) : SeesLater(KeyOf[c], val'[c], t, floor[c][t])
    BY DEF Forces
  <2> QED
    BY <1>1, <1>2, <2>1 DEF OwnSeesFloor, AllSee, Sees, SeesLater, LatesKept, TagsFor
<1>9. LateJoin(c)'
  BY <1>2 DEF LateJoin
<1> QED
  BY <1>4, <1>5, <1>6, <1>7, <1>8, <1>9 DEF LateJoinersSeeFloor

(* The invariant over every step of a reader.                               *)
LEMMA ReadKeeps ==
    ASSUME TypeInv, FenceInv, ReadInv, ServedInv, NEW c \in Reader, Begin(c) \/ ReadStep(c)
    PROVE  ReadInv' /\ LeadersKeep
<1>0. LatesKept
  BY ReadKeepsLates DEF FenceInv
<1>1. CASE Begin(c)
  BY <1>0, <1>1, BeginKeeps
<1>2. CASE Decide(c)
  BY <1>0, <1>2, HitKeeps, MissKeeps
<1>3. CASE Got(c) \/ AcquireLock(c) \/ LockWaited(c) \/ Waited(c) \/ SafeSet(c)
         \/ SetIfTagEpochsMatch(c)
  BY <1>0, <1>3, MovesStay, StaysKeeps
<1>4. CASE ForcedGot(c) \/ FetchForced(c) \/ FetchedForced(c) \/ CheckForced(c)
  BY <1>0, <1>4, ForcedStepsForce, ForcesKeeps DEF ForcedStep
<1>5. CASE ReadEpochs(c)
  BY <1>0, <1>5, EpochsKeep, ForcedStepsForce, ForcesKeeps DEF ForcedStep
<1>6. CASE SafeGet(c)
  BY <1>0, <1>6, GetKeeps, ForcedStepsForce, ForcesKeeps DEF ForcedStep
<1> QED
  BY <1>0, <1>1, <1>2, <1>3, <1>4, <1>5, <1>6, BypassKeeps, DecideWaitKeeps, FetchKeeps,
     ResolveKeeps DEF ReadStep

(* A step outside the readers: the source moves on, or the provider runs an *)
(* invalidation, whose tags get new epochs.                                 *)
Outside ==
    /\ UNCHANGED <<inFlight, pc, snap, snap2, cached, val, leader, floor>>
    /\ \A t \in Tag : \/ tagEpochs'[t] = tagEpochs[t] /\ fence'[t] = fence[t]
                      \/ tagEpochs'[t] > tagEpochs[t] /\ fence'[t] >= fence[t]

(* Mutations, invalidations, flushes and evictions are such steps, up to    *)
(* the return of an invalidation to a forced read.                          *)
LEMMA MutationsOutside ==
    ASSUME TypeInv, FenceInv, \A c \in Reader : ~InvalidateEnd(c),
           \/ \E m \in Mutation : Commit(m) \/ Invalidate(m)
           \/ \E j \in Job : InvalidateStep(j)
           \/ \E j \in Flusher : FlushQuarantine(j)
           \/ \E k \in Key : Expire(k) \/ ExpireLock(k)
    PROVE  Outside
<1> USE CacheAssumption DEF Outside, source, provider, runtime, reading
<1>1. ASSUME NEW m \in Mutation, Commit(m) \/ Invalidate(m) PROVE Outside
  BY <1>1 DEF Commit, Invalidate
<1>2. ASSUME NEW j \in Job, InvalidateProvider(j) PROVE Outside
  <2>1. CASE UNCHANGED <<tagEpochs, entries, fence>>
    BY <1>2, <2>1 DEF InvalidateProvider
  <2>2. CASE InvalidateTagScript(inv[j].tags)
    <3>1. \A t \in Tag : tagEpochs[t] \in Nat /\ fence[t] <= db[t] /\ fence[t] \in Nat /\ db[t] \in Nat
      BY DEF TypeInv, TypeOK, SourceTypeOK, ProviderTypeOK, FenceInv, FenceBelowSource
    <3> QED
      BY <1>2, <2>2, <3>1 DEF InvalidateProvider, InvalidateTagScript
  <2> QED
    BY <1>2, <2>1, <2>2 DEF InvalidateProvider
<1>3. ASSUME NEW j \in Job, InvalidateEnd(j) PROVE Outside
  <2>1. j \notin Reader
    BY <1>3
  <2> QED
    BY <1>3, <2>1 DEF InvalidateEnd
<1>4. ASSUME NEW j \in Flusher, FlushQuarantine(j) PROVE Outside
  BY <1>4 DEF FlushQuarantine
<1>5. ASSUME NEW k \in Key, Expire(k) \/ ExpireLock(k) PROVE Outside
  BY <1>5 DEF Expire, ExpireLock
<1> QED
  BY <1>1, <1>2, <1>3, <1>4, <1>5 DEF InvalidateStep

(* The invariant over them: a tag whose fence moves has a new epoch.        *)
LEMMA OutsideKeeps ==
    ASSUME TypeInv, TypeInv', FenceInv, ReadInv, LatesKept, Outside
    PROVE  ReadInv' /\ LeadersKeep
<1> USE CacheAssumption DEF Outside, ReadInv
<1>1. \A t \in Tag : /\ tagEpochs[t] \in Nat /\ tagEpochs'[t] \in Nat
                     /\ fence[t] \in Nat /\ fence'[t] \in Nat
  BY DEF TypeInv, TypeOK, SourceTypeOK, ProviderTypeOK
<1>2. \A c \in Reader : TagsFor(c) \subseteq Tag
  BY DEF TagsFor
<1>3. FloorsBehind'
  BY <1>1, <1>2 DEF FloorsBehind, TagsFor
<1>4. /\ ValuesLate' /\ GotLate' /\ SecondIsLate'
      /\ LeadersCompute' /\ JoinersLed' /\ HitSeesFloor'
  <2>1. ValuesLate' /\ GotLate' /\ SecondIsLate'
    BY DEF ValuesLate, GotLate, SecondIsLate
  <2>2. LeadersCompute' /\ JoinersLed' /\ HitSeesFloor'
    BY DEF LeadersCompute, JoinersLed, HitSeesFloor, Sees, LatesKept, TagsFor
  <2> QED
    BY <2>1, <2>2
<1>5. OwnSeesFloor' /\ JoinersSeeFloor' /\ LateJoinersSeeFloor'
  BY ZenonT(60) DEF OwnSeesFloor, JoinersSeeFloor, LateJoinersSeeFloor, LateJoin, Latest, AllSee,
     Sees, LatesKept, TagsFor
<1>6. \A r \in Replica, k \in Key : inFlight[r][k] # None /\ inFlight[r][k].snapshot # None =>
         \A t \in TagsOf[k] : inFlight[r][k].snapshot.external[t] \in Nat
  <2> SUFFICES ASSUME NEW r \in Replica, NEW k \in Key, inFlight[r][k] # None,
                      inFlight[r][k].snapshot # None
               PROVE  \A t \in TagsOf[k] : inFlight[r][k].snapshot.external[t] \in Nat
    OBVIOUS
  <2>1. TagsFor(inFlight[r][k].leader) = TagsOf[k]
    BY DEF LeadersCompute, TagsFor
  <2>2. inFlight[r][k].snapshot \in Snapshots(inFlight[r][k].leader)
    BY DEF TypeInv, TypeOK, RuntimeTypeOK
  <2> QED
    BY <2>1, <2>2 DEF Snapshots, Versions
<1>7. \A r \in Replica, k \in Key : inFlight[r][k] # None /\ inFlight[r][k].snapshot # None =>
         \A t \in TagsOf[k] : /\ inFlight[r][k].snapshot.external[t] <= tagEpochs[t]
                              /\ t \in Tag
  BY DEF SharedBehind
<1>8. SharedBehind'
  BY <1>1, <1>6, <1>7 DEF SharedBehind
<1>9. LeadersCurrent'
  <2> SUFFICES ASSUME NEW r \in Replica, NEW k \in Key, NEW t \in TagsOf[k],
                      inFlight[r][k] # None, inFlight[r][k].snapshot # None,
                      inFlight[r][k].snapshot.external[t] = tagEpochs'[t]
               PROVE  SeesNext(inFlight[r][k].leader, t, fence'[t])
    BY ZenonT(60) DEF LeadersCurrent, AllSee, SeesNext, Sees, SeesLater
  <2>1. tagEpochs'[t] = tagEpochs[t] /\ fence'[t] = fence[t]
    BY <1>1, <1>6, <1>7
  <2>2. AllSee(inFlight[r][k].leader, t, fence[t])
    BY <2>1 DEF LeadersCurrent
  <2> QED
    BY <2>1, <2>2, SeesLasts DEF AllSee, SeesNext
<1>10. CachedCurrent'
  <2> SUFFICES ASSUME NEW c \in Reader, pc[c] \in {"got", "snapAfter"},
                      NEW t \in TagsFor(c), snap[c].external[t] = tagEpochs'[t]
               PROVE  SeesLater(KeyOf[c], cached[c], t, fence'[t])
    BY DEF CachedCurrent, Sees, SeesLater, TagsFor
  <2>1. snap[c].external[t] \in Nat /\ snap[c].external[t] <= tagEpochs[t]
    BY DEF CachedCurrent, FenceInv, SnapshotsBehind, Behind
  <2>2. tagEpochs'[t] = tagEpochs[t] /\ fence'[t] = fence[t]
    BY <1>1, <1>2, <2>1
  <2> QED
    BY <2>2, SeesLasts DEF CachedCurrent
<1>11. LeadersKeep
  BY SeesLasts DEF LeadersKeep, AllSee, SeesNext
<1> QED
  BY <1>3, <1>4, <1>5, <1>8, <1>9, <1>10, <1>11

(* The invariant holds at first,                                            *)
LEMMA ReadInit == Init => ReadInv
BY CacheAssumption DEF Init, ReadInv, FloorsBehind, ValuesLate, GotLate, SecondIsLate,
   LeadersCompute, SharedBehind, JoinersLed, CachedCurrent, HitSeesFloor, OwnSeesFloor,
   LeadersCurrent, JoinersSeeFloor, LateJoinersSeeFloor, LateJoin, AllSee, Sees, Asking, WaitGot,
   Job

(* and when nothing but the epochs got so far changes.                      *)
LEMMA ReadStutter == ASSUME ReadInv, UNCHANGED others PROVE ReadInv'
<1>1. UNCHANGED <<db, fence, tagEpochs, inFlight, pc, snap, snap2, cached, val, leader, floor,
                  LateRefreshes>>
  BY DEF others, source, provider, runtime, reading, LateRefreshes
<1>2. FloorsBehind' /\ ValuesLate' /\ GotLate' /\ SecondIsLate' /\ LeadersCompute' /\ SharedBehind'
      /\ JoinersLed'
  BY <1>1 DEF ReadInv, FloorsBehind, ValuesLate, GotLate, SecondIsLate, LeadersCompute,
     SharedBehind, JoinersLed, TagsFor
<1>3. CachedCurrent' /\ HitSeesFloor' /\ OwnSeesFloor' /\ LeadersCurrent' /\ JoinersSeeFloor'
  BY SMTT(40), <1>1 DEF ReadInv, CachedCurrent, HitSeesFloor, OwnSeesFloor, LeadersCurrent,
     JoinersSeeFloor, AllSee, Sees, TagsFor
<1>4. LateJoinersSeeFloor'
  BY <1>1 DEF ReadInv, LateJoinersSeeFloor, LateJoin, Latest, AllSee, Sees, TagsFor
<1> QED
  BY <1>2, <1>3, <1>4 DEF ReadInv

LEMMA ServedInit == Init => ServedInv
BY CacheAssumption DEF Init, ServedInv, ServedReading, ServedCached, ServedShared, Served, NoneServed

(* A reader whose epochs are being got takes no other step, and what the    *)
(* others do to the computation it may join, the invariant allows.          *)
LEMMA ServedKeeps ==
    ASSUME TypeInv, FenceInv, ReadInv, ServedInv, LatesKept, LeadersKeep,
           \A d \in Reader : Served(d)' # {} =>
              /\ served'[d] = served[d] /\ pc'[d] = pc[d]
              /\ snap'[d] = snap[d] /\ cached'[d] = cached[d]
    PROVE  ServedInv'
<1>1. ServedReading'
  BY DEF ServedInv, ServedReading, Served
<1>2. ServedCached'
  <2> SUFFICES ASSUME NEW d \in Reader, pc'[d] = "snapAfter", NEW t \in Served(d)',
                      snap'[d].external[t] = served'[d][t].epoch
               PROVE  SeesLater(KeyOf[d], cached'[d], t, served'[d][t].fence)
    BY DEF ServedCached, Sees, SeesLater
  <2>1. served'[d] = served[d] /\ pc'[d] = pc[d] /\ snap'[d] = snap[d] /\ cached'[d] = cached[d]
    OBVIOUS
  <2>2. Sees(KeyOf[d], cached[d], t, served[d][t].fence)
    BY <2>1 DEF ServedInv, ServedCached, Served
  <2> QED
    BY <2>1, <2>2, SeesLasts
<1>3. ASSUME NEW d \in Reader PROVE ServedShared(d)'
  <2> DEFINE f == inFlight[At[d]][KeyOf[d]]
             g == inFlight'[At[d]][KeyOf[d]]
  <2> SUFFICES ASSUME pc'[d] \in {"snapBefore", "snapAfter"}, g # None, g.snapshot # None,
                      NEW t \in Served(d)', g.snapshot.external[t] = served'[d][t].epoch
               PROVE  SeesNext(g.leader, t, served'[d][t].fence)
    BY DEF ServedShared, AllSee, SeesNext, Sees, SeesLater
  <2>1. served'[d] = served[d] /\ pc'[d] = pc[d] /\ t \in Served(d)
    BY DEF Served
  <2>2. At[d] \in Replica /\ KeyOf[d] \in Key /\ t \in TagsOf[KeyOf[d]]
    BY <2>1, CacheAssumption DEF Job, TypeInv, TypeOK, ServedTypeOK, TagsFor
  <2>3. served[d][t].fence \in Nat /\ served[d][t].fence <= fence[t]
    BY <2>1 DEF TypeInv, TypeOK, ServedTypeOK, FenceInv, ServedBehind
  <2>4. g = f => AllSee(f.leader, t, served[d][t].fence)
    BY <2>1 DEF ServedInv, ServedShared
  <2> QED
    BY <2>1, <2>2, <2>3, <2>4 DEF LeadersKeep
<1> QED
  BY <1>1, <1>2, <1>3 DEF ServedInv

(* So it does over the steps of readers,                                    *)
LEMMA ServedRead ==
    ASSUME TypeInv, FenceInv, ReadInv, ServedInv, LeadersKeep, NEW c \in Reader,
           Begin(c) \/ ReadStep(c)
    PROVE  ServedInv'
<1>0. /\ DOMAIN pc = Reader /\ DOMAIN snap = Reader /\ DOMAIN cached = Reader
      /\ DOMAIN served = Reader
  BY DEF TypeInv, TypeOK, ReadingTypeOK, LocalsTypeOK, ServedTypeOK
<1>1. ASSUME NEW d \in Reader, Served(d)' # {}
      PROVE  d # c /\ served'[d] = served[d] /\ pc[d] \in DOMAIN AfterEpochs
  <2>1. DOMAIN NoneServed = {}
    BY DEF NoneServed
  <2>2. CASE UNCHANGED served /\ ~ReadEpochs(c)
    <3>1. pc[d] \in DOMAIN AfterEpochs
      BY <1>1, <2>2 DEF ServedInv, ServedReading, Served
    <3>2. pc[c] \notin DOMAIN AfterEpochs
      BY <2>2 DEF Begin, ReadStep, Bypass, SafeGet, Got, Decide, AcquireLock, LockWaited, Waited,
         DecideWait, Fetch, SafeSet, SetIfTagEpochsMatch, Resolve, ForcedGot, FetchForced,
         FetchedForced, CheckForced, AfterGet, AfterEpochs
    <3> QED
      BY <2>2, <3>1, <3>2
  <2>3. CASE served' = [served EXCEPT ![c] = NoneServed] /\ ReadEpochs(c)
    <3>1. d # c /\ served'[d] = served[d]
      BY <1>0, <1>1, <2>1, <2>3 DEF Served
    <3> QED
      BY <1>1, <3>1 DEF ServedInv, ServedReading, Served
  <2> QED
    BY <2>2, <2>3, ReadServes
<1>2. ASSUME NEW d \in Reader \ {c}, pc[d] \in DOMAIN AfterEpochs
      PROVE  pc'[d] = pc[d] /\ snap'[d] = snap[d] /\ cached'[d] = cached[d]
  <2>1. CASE Resolve(c)
    BY <1>0, <1>2, <2>1 DEF Resolve, Settled, AfterEpochs
  <2>2. CASE ~Resolve(c)
    BY <1>0, <2>2 DEF Begin, ReadStep, ReadEpochs, Bypass, SafeGet, Got, Decide, AcquireLock,
       LockWaited, Waited, DecideWait, Fetch, SafeSet, SetIfTagEpochsMatch, ForcedGot, FetchForced,
       FetchedForced, CheckForced, Join, Capture, GoTo
  <2> QED
    BY <2>1, <2>2
<1>3. LatesKept
  BY ReadKeepsLates DEF FenceInv
<1> QED
  BY <1>1, <1>2, <1>3, ServedKeeps

(* over those of the others,                                                *)
LEMMA ServedMutate ==
    ASSUME TypeInv, FenceInv, ReadInv, ServedInv, LeadersKeep,
           \/ \E m \in Mutation : Commit(m) \/ Invalidate(m)
           \/ \E j \in Job : InvalidateStep(j)
           \/ \E j \in Flusher : FlushQuarantine(j)
           \/ \E k \in Key : Expire(k) \/ ExpireLock(k)
    PROVE  ServedInv'
<1>1. UNCHANGED <<served, snap, cached>>
  BY MutateServes DEF Commit, Invalidate, InvalidateStep, InvalidateProvider, InvalidateEnd,
     FlushQuarantine, Expire, ExpireLock, reading
<1>2. ASSUME NEW j \in Job, InvalidateEnd(j), NEW d \in Reader, pc[d] \in DOMAIN AfterEpochs
      PROVE  pc'[d] = pc[d]
  <2>1. DOMAIN pc = Reader
    BY DEF TypeInv, TypeOK, ReadingTypeOK
  <2>2. d # j
    BY <1>2 DEF InvalidateEnd, FenceInv, Places, AfterEpochs
  <2> QED
    BY <1>2, <2>1, <2>2 DEF InvalidateEnd, Capture, GoTo
<1>3. \A d \in Reader : pc[d] \in DOMAIN AfterEpochs => pc'[d] = pc[d]
  BY <1>2 DEF Commit, Invalidate, InvalidateStep, InvalidateProvider, FlushQuarantine, Expire,
     ExpireLock, reading
<1>4. \A d \in Reader : Served(d)' # {} => pc[d] \in DOMAIN AfterEpochs
  BY <1>1 DEF ServedInv, ServedReading, Served
<1>5. LatesKept
  BY MutateKeepsLates
<1> QED
  BY <1>1, <1>3, <1>4, <1>5, ServedKeeps

(* and a GET adds the present epoch.                                        *)
LEMMA ServedGet ==
    ASSUME TypeInv, FenceInv, ReadInv, ServedInv, NEW c \in Reader, GetTagEpoch(c)
    PROVE  ServedInv'
<1>1. /\ UNCHANGED <<tagEpochs, fence, pc, snap, cached, val, inFlight, LateRefreshes>>
      /\ pc[c] \in DOMAIN AfterEpochs
  BY GetServes DEF GetTagEpoch, others, source, provider, runtime, reading, LateRefreshes
<1>2. \A d \in Reader \ {c} : served'[d] = served[d]
  BY GetServes
<1>3. ServedReading'
  BY <1>1, <1>2 DEF ServedInv, ServedReading, Served
<1>4. \A d \in Reader :
        \A t, n : Sees(KeyOf[d], cached[d], t, n) => Sees(KeyOf[d], cached[d], t, n)'
  BY <1>1 DEF Sees
<1>5. ServedCached'
  <2> SUFFICES ASSUME NEW d \in Reader, pc[d] = "snapAfter", NEW t \in DOMAIN served'[d],
                      snap[d].external[t] = served'[d][t].epoch
               PROVE  Sees(KeyOf[d], cached[d], t, served'[d][t].fence)
    BY <1>1 DEF ServedCached, Served, Sees
  <2>1. CASE t \in Served(d) /\ served'[d][t] = served[d][t]
    BY <2>1 DEF ServedInv, ServedCached
  <2>2. CASE t \in TagsFor(d) /\ served'[d][t] = [epoch |-> tagEpochs[t], fence |-> fence[t]]
    BY <2>2 DEF ReadInv, CachedCurrent
  <2> QED
    BY <1>2, <2>1, <2>2, GetServes DEF Served
<1>6. ASSUME NEW d \in Reader PROVE ServedShared(d)'
  <2> DEFINE f == inFlight[At[d]][KeyOf[d]]
  <2> SUFFICES ASSUME pc[d] \in {"snapBefore", "snapAfter"}, f # None, f.snapshot # None,
                      NEW t \in DOMAIN served'[d], f.snapshot.external[t] = served'[d][t].epoch
               PROVE  AllSee(f.leader, t, served'[d][t].fence)
    BY <1>1 DEF ServedShared, Served, AllSee, Sees
  <2>1. CASE t \in Served(d) /\ served'[d][t] = served[d][t]
    BY <2>1 DEF ServedInv, ServedShared
  <2>2. CASE t \in TagsFor(d) /\ served'[d][t] = [epoch |-> tagEpochs[t], fence |-> fence[t]]
    <3>1. At[d] \in Replica /\ KeyOf[d] \in Key /\ t \in TagsOf[KeyOf[d]]
      BY <2>2, CacheAssumption DEF Job, TagsFor
    <3>2. AllSee(f.leader, t, fence[t])
      BY <2>2, <3>1 DEF ReadInv, LeadersCurrent
    <3> QED
      BY <2>2, <3>2
  <2> QED
    BY <1>2, <2>1, <2>2, GetServes DEF Served
<1> QED
  BY <1>3, <1>5, <1>6 DEF ServedInv

LEMMA ReadNext ==
    ASSUME TypeInv, TypeInv', FenceInv, ReadInv, ServedInv, [Next \/ Quiescent]_vars
    PROVE  ReadInv' /\ ServedInv'
<1>1. ASSUME NEW c \in Reader, Begin(c) \/ ReadStep(c) PROVE ReadInv' /\ ServedInv'
  BY <1>1, ReadKeeps, ServedRead
<1>2. ASSUME \/ \E m \in Mutation : Commit(m) \/ Invalidate(m)
             \/ \E j \in Job : InvalidateStep(j)
             \/ \E j \in Flusher : FlushQuarantine(j)
             \/ \E k \in Key : Expire(k) \/ ExpireLock(k)
      PROVE  ReadInv' /\ ServedInv'
  <2>1. LatesKept
    BY <1>2, MutateKeepsLates
  <2>2. ASSUME NEW c \in Reader, InvalidateEnd(c) PROVE ReadInv' /\ LeadersKeep
    BY <2>1, <2>2, ForcedStepsForce, ForcesKeeps DEF Job
  <2>3. ASSUME \A c \in Reader : ~InvalidateEnd(c) PROVE ReadInv' /\ LeadersKeep
    BY <1>2, <2>1, <2>3, MutationsOutside, OutsideKeeps
  <2> QED
    BY <1>2, <2>2, <2>3, ServedMutate
<1>3. ASSUME NEW c \in Reader, GetTagEpoch(c) PROVE ReadInv' /\ ServedInv'
  BY <1>3, GetServes, ReadStutter, ServedGet
<1>4. CASE UNCHANGED vars
  <2>1. UNCHANGED others /\ UNCHANGED served
    BY <1>4 DEF vars, others
  <2>2. ServedInv'
    <3>1. UNCHANGED <<pc, snap, cached, val, inFlight, served, LateRefreshes>>
      BY <2>1 DEF others, runtime, reading, LateRefreshes
    <3> QED
      BY <3>1 DEF ServedInv, ServedReading, ServedCached, ServedShared, Served, AllSee, Sees
  <2> QED
    BY <2>1, <2>2, ReadStutter
<1> QED
  BY <1>1, <1>2, <1>3, <1>4 DEF Next, Quiescent

(* A read answered from the cache or from a shared computation under an     *)
(* epoch snapshot reflects, of each tag, every invalidation that had run    *)
(* when it last got that tag's epoch, whatever ran between the GETs of its  *)
(* tags and while other reads force refreshes: the recheck around get       *)
(* (read) and the comparison of snapshots (readThroughInFlight) let no      *)
(* older value through but one that a forced read stored after onChanged.   *)
THEOREM ReadsSeeTheirFence == Spec => []ReadSeesFence
<1>1. TypeInv /\ FenceInv /\ ReadInv /\ ServedInv /\ TypeInv' /\ [Next \/ Quiescent]_vars
         => ReadInv' /\ ServedInv'
  BY ReadNext
<1>2. ReadInv => ReadSeesFence
  BY DEF ReadInv, OwnSeesFloor, AllSee, Sees, ReadSeesFence, Answered
<1> QED
  BY <1>1, <1>2, ReadInit, ServedInit, FenceInvariant, PTL DEF Spec

-----------------------------------------------------------------------------
(* What a forced read promises.  The computation it fences was started      *)
(* under epochs that the fence has changed, on its replica at once and in   *)
(* the provider before the forced read goes on.                             *)

\* No step takes an epoch back.
EpochsGrow ==
    /\ \A t \in Tag : tagEpochs[t] <= tagEpochs'[t]
    /\ \A r \in Replica, t \in Tag : localTagEpochs[r][t] <= localTagEpochs'[r][t]

LEMMA BeginGrows ==
    ASSUME TypeInv, NEW j \in Job, NEW ts \in SUBSET Tag, InvalidateBegin(j, ts)
    PROVE  /\ \A r \in Replica, t \in Tag : localTagEpochs[r][t] <= localTagEpochs'[r][t]
           /\ \A t \in ts : localTagEpochs[At[j]][t] < localTagEpochs'[At[j]][t]
<1>1. At[j] \in Replica /\ localTagEpochs \in [Replica -> [Tag -> Nat]]
  BY CacheAssumption DEF TypeInv, TypeOK, RuntimeTypeOK
<1>2. \A r \in Replica, t \in Tag :
         localTagEpochs'[r][t] = IF r = At[j] /\ t \in ts THEN localTagEpochs[r][t] + 1
                                 ELSE localTagEpochs[r][t]
  BY <1>1 DEF InvalidateBegin
<1>3. \A r \in Replica, t \in Tag : localTagEpochs[r][t] \in Nat
  BY <1>1
<1> QED
  BY <1>1, <1>2, <1>3

LEMMA ReadGrows ==
    ASSUME TypeInv, NEW c \in Reader, Begin(c) \/ ReadStep(c)
    PROVE  EpochsGrow
<1>1. tagEpochs' = tagEpochs /\ tagEpochs \in [Tag -> Nat] /\ localTagEpochs \in [Replica -> [Tag -> Nat]]
  BY DEF Begin, ReadStep, ReadEpochs, Bypass, SafeGet, Got, Decide, AcquireLock, LockWaited, Waited,
     DecideWait, Fetch, SafeSet, SetIfTagEpochsMatch, Resolve, ForcedGot, FetchForced,
     FetchedForced, CheckForced, provider, TypeInv, TypeOK, ProviderTypeOK, RuntimeTypeOK
<1>2. localTagEpochs' = localTagEpochs \/ InvalidateBegin(c, TagsFor(c))
  BY DEF Begin, ReadStep, ReadEpochs, Bypass, SafeGet, Got, Decide, AcquireLock, LockWaited, Waited,
     DecideWait, Fetch, SafeSet, SetIfTagEpochsMatch, Resolve, ForcedGot, FetchForced,
     FetchedForced, CheckForced, runtime
<1>3. c \in Job /\ TagsFor(c) \in SUBSET Tag
  BY CacheAssumption DEF TagsFor, Job
<1>4. CASE InvalidateBegin(c, TagsFor(c))
  BY <1>1, <1>3, <1>4, BeginGrows DEF EpochsGrow
<1>5. CASE localTagEpochs' = localTagEpochs
  BY <1>1, <1>5 DEF EpochsGrow
<1> QED
  BY <1>2, <1>4, <1>5

LEMMA MutateGrows ==
    ASSUME TypeInv,
           \/ \E m \in Mutation : Commit(m) \/ Invalidate(m)
           \/ \E j \in Job : InvalidateStep(j)
           \/ \E j \in Flusher : FlushQuarantine(j)
           \/ \E k \in Key : Expire(k) \/ ExpireLock(k)
    PROVE  EpochsGrow
<1>0. tagEpochs \in [Tag -> Nat] /\ localTagEpochs \in [Replica -> [Tag -> Nat]]
  BY DEF TypeInv, TypeOK, ProviderTypeOK, RuntimeTypeOK
<1>1. ASSUME NEW m \in Mutation, Invalidate(m) PROVE EpochsGrow
  <2>1. m \in Job /\ Writes[m] \in SUBSET Tag
    BY CacheAssumption DEF Job
  <2>2. InvalidateBegin(m, Writes[m]) /\ tagEpochs' = tagEpochs
    BY <1>1 DEF Invalidate, provider
  <2> QED
    BY <1>0, <2>1, <2>2, BeginGrows DEF EpochsGrow
<1>2. ASSUME NEW j \in Job, InvalidateProvider(j) PROVE EpochsGrow
  <2>1. localTagEpochs' = localTagEpochs
    BY <1>2 DEF InvalidateProvider, runtime
  <2>2. \A t \in Tag : tagEpochs[t] <= tagEpochs'[t]
    BY <1>0, <1>2 DEF InvalidateProvider, InvalidateTagScript
  <2> QED
    BY <1>0, <2>1, <2>2 DEF EpochsGrow
<1>3. CASE UNCHANGED <<tagEpochs, localTagEpochs>>
  BY <1>0, <1>3 DEF EpochsGrow
<1> QED
  BY <1>1, <1>2, <1>3 DEF Commit, InvalidateStep, InvalidateEnd, FlushQuarantine, Expire,
     ExpireLock,
     provider, runtime

-----------------------------------------------------------------------------
(* A snapshot is never ahead of the epochs.                                 *)

SnapBehind(s, c) ==
    s # None => \A t \in TagsFor(c) : /\ s.external[t] <= tagEpochs[t]
                                      /\ s.local[t] <= localTagEpochs[At[c]][t]

SnapsBehind ==
    \A c \in Reader : /\ SnapBehind(snap[c], c) /\ SnapBehind(snap2[c], c)
                      /\ pc[c] \in DOMAIN AfterEpochs =>
                            \A t \in TagsFor(c) : loc[c][t] <= localTagEpochs[At[c]][t]

(* The snapshot a reader takes is of that moment at the latest.             *)
LEMMA NewSnapBehind ==
    ASSUME TypeInv, ServedBehind, SnapsBehind, NEW c \in Reader, pc[c] \in DOMAIN AfterEpochs
    PROVE  SnapBehind([local |-> loc[c], external |-> getTagEpochs(c)], c)
<1>1. \A t \in TagsFor(c) : t \in Tag /\ tagEpochs[t] \in Nat
  BY CacheAssumption DEF TypeInv, TypeOK, ProviderTypeOK, TagsFor
<1>2. \A t \in Served(c) : served[c][t].epoch <= tagEpochs[t]
  BY DEF ServedBehind
<1> QED
  BY <1>1, <1>2 DEF SnapBehind, SnapsBehind, getTagEpochs

LEMMA BehindLater ==
    ASSUME TypeInv, TypeInv', EpochsGrow, NEW c \in Reader, NEW s \in Snapshots(c) \cup {None},
           SnapBehind(s, c)
    PROVE  s # None => \A t \in TagsFor(c) : /\ s.external[t] <= tagEpochs'[t]
                                             /\ s.local[t] <= localTagEpochs'[At[c]][t]
<1> SUFFICES ASSUME s # None, NEW t \in TagsFor(c)
             PROVE  s.external[t] <= tagEpochs'[t] /\ s.local[t] <= localTagEpochs'[At[c]][t]
  OBVIOUS
<1>1. t \in Tag /\ At[c] \in Replica
  BY CacheAssumption DEF TagsFor, Job
<1>2. s.external[t] \in Nat /\ s.local[t] \in Nat
  BY DEF Snapshots, Versions
<1>3. tagEpochs[t] \in Nat /\ localTagEpochs[At[c]][t] \in Nat
  BY <1>1 DEF TypeInv, TypeOK, ProviderTypeOK, RuntimeTypeOK
<1>4. tagEpochs'[t] \in Nat /\ localTagEpochs'[At[c]][t] \in Nat
  BY <1>1 DEF TypeInv, TypeOK, ProviderTypeOK, RuntimeTypeOK
<1>5. s.external[t] <= tagEpochs[t] /\ s.local[t] <= localTagEpochs[At[c]][t]
  BY DEF SnapBehind
<1>6. tagEpochs[t] <= tagEpochs'[t] /\ localTagEpochs[At[c]][t] <= localTagEpochs'[At[c]][t]
  BY <1>1 DEF EpochsGrow
<1> QED
  BY <1>2, <1>3, <1>4, <1>5, <1>6

\* Where the snapshots of d may come from in one step.
NewSnap(d) == [local |-> loc[d], external |-> getTagEpochs(d)]
Known(d) == {None, snap[d], snap2[d]} \cup {s \in {NewSnap(d)} : pc[d] \in DOMAIN AfterEpochs}

Captures(d) ==
    /\ snap'[d] \in Known(d) /\ snap2'[d] \in Known(d)
    /\ pc'[d] \in DOMAIN AfterEpochs =>
          \/ pc[d] \in DOMAIN AfterEpochs /\ loc'[d] = loc[d]
          \/ loc'[d] = LocalEpochs(d)

LEMMA ReadCaptures ==
    ASSUME TypeInv, NEW c \in Reader, Begin(c) \/ ReadStep(c), NEW d \in Reader
    PROVE  Captures(d)
<1>0. DOMAIN snap = Reader /\ DOMAIN snap2 = Reader /\ DOMAIN loc = Reader /\ DOMAIN pc = Reader
  BY DEF TypeInv, TypeOK, LocalsTypeOK, ReadingTypeOK
<1>1. CASE ReadEpochs(c)
  <2>1. pc'[c] \notin DOMAIN AfterEpochs
    BY <1>0, <1>1, AfterEpochsLabels DEF ReadEpochs, GoTo
  <2> QED
    BY <1>0, <1>1, <2>1 DEF ReadEpochs, GoTo, Captures, Known, NewSnap
<1>2. CASE Begin(c)
  BY <1>0, <1>2 DEF Begin, Capture, Join, GoTo, Captures, Known, AfterEpochs
<1>3. CASE Bypass(c)
  BY <1>0, <1>3 DEF Bypass, Join, GoTo, Captures, Known, AfterEpochs
<1>4. CASE Decide(c)
  <2>1. snap' = snap \/ snap' = [snap EXCEPT ![c] = IF snap2[c] # None THEN snap2[c] ELSE snap[c]]
    BY <1>4 DEF Decide, Join
  <2>2. snap2' = [snap2 EXCEPT ![c] = None] /\ loc' = loc
    BY <1>4 DEF Decide
  <2>3. pc'[d] # pc[d] => pc'[d] \notin DOMAIN AfterEpochs
    BY <1>0, <1>4 DEF Decide, Join, GoTo, AfterEpochs
  <2> QED
    BY <1>0, <2>1, <2>2, <2>3 DEF Captures, Known
<1>5. CASE SafeGet(c)
  <2>1. pc'[d] # pc[d] => pc'[d] \notin DOMAIN AfterEpochs
    BY <1>0, <1>5, AfterGetLabels DEF SafeGet, GoTo, AfterEpochs
  <2> QED
    BY <1>5, <2>1 DEF SafeGet, Captures, Known
<1>6. CASE Resolve(c)
  BY <1>0, <1>6 DEF Resolve, Captures, Known, AfterEpochs
<1>7. CASE Got(c) \/ LockWaited(c) \/ FetchedForced(c)
  BY <1>0, <1>7 DEF Got, LockWaited, FetchedForced, Capture, GoTo, Captures, Known
<1>8. CASE DecideWait(c)
  BY <1>0, <1>8 DEF DecideWait, GoTo, Captures, Known, AfterEpochs
<1>9. CASE AcquireLock(c) \/ Waited(c) \/ Fetch(c) \/ SafeSet(c) \/ SetIfTagEpochsMatch(c)
          \/ ForcedGot(c) \/ FetchForced(c) \/ CheckForced(c)
  <2>1. UNCHANGED <<snap, snap2, loc>>
    BY <1>9 DEF AcquireLock, Waited, Fetch, SafeSet, SetIfTagEpochsMatch, ForcedGot, FetchForced,
       CheckForced
  <2>2. pc'[d] # pc[d] => pc'[d] \notin DOMAIN AfterEpochs
    BY <1>0, <1>9 DEF AcquireLock, Waited, Fetch, SafeSet, SetIfTagEpochsMatch, ForcedGot,
       FetchForced, CheckForced, GoTo, AfterEpochs
  <2> QED
    BY <2>1, <2>2 DEF Captures, Known
<1> QED
  BY <1>1, <1>2, <1>3, <1>4, <1>5, <1>6, <1>7, <1>8, <1>9 DEF ReadStep

LEMMA MutateCaptures ==
    ASSUME TypeInv, NEW d \in Reader,
           \/ \E m \in Mutation : Commit(m) \/ Invalidate(m)
           \/ \E j \in Job : InvalidateStep(j)
           \/ \E j \in Flusher : FlushQuarantine(j)
           \/ \E k \in Key : Expire(k) \/ ExpireLock(k)
    PROVE  Captures(d)
<1>0. DOMAIN snap = Reader /\ DOMAIN snap2 = Reader /\ DOMAIN loc = Reader /\ DOMAIN pc = Reader
  BY DEF TypeInv, TypeOK, LocalsTypeOK, ReadingTypeOK
<1>1. ASSUME NEW j \in Job, InvalidateEnd(j) PROVE Captures(d)
  <2>1. UNCHANGED <<snap, snap2>>
    BY <1>1 DEF InvalidateEnd
  <2>2. UNCHANGED <<pc, loc>> \/ (loc' = [loc EXCEPT ![j] = LocalEpochs(j)]
          /\ \A e \in Reader : e # j => pc'[e] = pc[e])
    BY <1>0, <1>1 DEF InvalidateEnd, Capture, GoTo
  <2> QED
    BY <1>0, <2>1, <2>2 DEF Captures, Known
<1>2. CASE UNCHANGED <<pc, loc, snap, snap2>>
  BY <1>2 DEF Captures, Known
<1> QED
  BY <1>1, <1>2 DEF InvalidateStep, InvalidateProvider, Commit, Invalidate, FlushQuarantine, Expire,
     ExpireLock, reading

LEMMA SnapsKeep ==
    ASSUME TypeInv, TypeInv', ServedBehind, SnapsBehind, EpochsGrow, \A d \in Reader : Captures(d)
    PROVE  SnapsBehind'
<1> SUFFICES ASSUME NEW d \in Reader
             PROVE  /\ SnapBehind(snap[d], d)' /\ SnapBehind(snap2[d], d)'
                    /\ pc'[d] \in DOMAIN AfterEpochs =>
                          \A t \in TagsFor(d) : loc'[d][t] <= localTagEpochs'[At[d]][t]
  BY DEF SnapsBehind, TagsFor
<1>1. ASSUME NEW s \in Known(d)
      PROVE  s # None => \A t \in TagsFor(d) : /\ s.external[t] <= tagEpochs'[t]
                                               /\ s.local[t] <= localTagEpochs'[At[d]][t]
  <2>1. s \in Snapshots(d) \cup {None}
    BY SnapshotTyped DEF Known, NewSnap, TypeInv, TypeOK, LocalsTypeOK
  <2>2. SnapBehind(s, d)
    BY NewSnapBehind DEF Known, NewSnap, SnapsBehind, SnapBehind
  <2> QED
    BY <2>1, <2>2, BehindLater
<1>2. snap'[d] \in Known(d) /\ snap2'[d] \in Known(d)
  BY DEF Captures
<1>3. ASSUME pc'[d] \in DOMAIN AfterEpochs, NEW t \in TagsFor(d)
      PROVE  loc'[d][t] <= localTagEpochs'[At[d]][t]
  <2>1. t \in Tag /\ At[d] \in Replica
    BY CacheAssumption DEF TagsFor, Job
  <2>2. /\ localTagEpochs[At[d]][t] \in Nat /\ localTagEpochs'[At[d]][t] \in Nat
        /\ localTagEpochs[At[d]][t] <= localTagEpochs'[At[d]][t]
    BY <2>1 DEF EpochsGrow, TypeInv, TypeOK, RuntimeTypeOK
  <2>3. CASE pc[d] \in DOMAIN AfterEpochs /\ loc'[d] = loc[d]
    <3>1. loc[d][t] \in Nat /\ loc[d][t] <= localTagEpochs[At[d]][t]
      BY <2>3 DEF SnapsBehind, TypeInv, LocalsCaptured, Versions
    <3> QED
      BY <2>2, <2>3, <3>1
  <2>4. CASE loc'[d] = LocalEpochs(d)
    BY <2>2, <2>4 DEF LocalEpochs
  <2> QED
    BY <1>3, <2>3, <2>4 DEF Captures
<1> QED
  BY <1>1, <1>2, <1>3 DEF SnapBehind, TagsFor

-----------------------------------------------------------------------------
(* Where readers stand that run no lock, and invalidations that succeed.    *)

Waiting == {"lock", "lockWait", "snapWait", "waited", "getWait", "gotWait", "snapWaitAfter",
            "decideWait"}

Course == Places /\ \A c \in Reader : pc[c] \notin Waiting

\* An attempt is left for every failure that may still come.
RetriesLeft ==
    \A j \in Job : /\ inv[j].pc # "failed"
                   /\ inv[j].pc = "trying" => inv[j].n <= faults + 1

LEMMA CourseRead ==
    ASSUME TypeInv, Course, Locking = {}, NEW c \in Reader, Begin(c) \/ ReadStep(c)
    PROVE  Course'
<1>0. DOMAIN pc = Reader
  BY DEF TypeInv, TypeOK, ReadingTypeOK
<1>1. CASE ReadEpochs(c)
  <2>1. pc[c] \in DOMAIN AfterEpochs \ Waiting /\ pc' = [pc EXCEPT ![c] = AfterEpochs[pc[c]]]
    BY <1>1 DEF ReadEpochs, GoTo, Course
  <2>2. pc'[c] \notin Waiting
    BY <1>0, <2>1 DEF AfterEpochs, Waiting
  <2> QED
    BY <2>1, <2>2, PlacesRead DEF Course
<1>2. CASE Resolve(c)
  <2>1. \A d \in Reader : pc'[d] = pc[d] \/ pc'[d] = "done"
    BY <1>0, <1>2 DEF Resolve, Settled
  <2> QED
    BY <2>1, PlacesRead DEF Course, Waiting
<1>3. ASSUME Begin(c) \/ Bypass(c) \/ SafeGet(c) \/ Got(c) \/ Decide(c) PROVE pc'[c] \notin Waiting
  BY <1>0, <1>3 DEF Begin, Bypass, SafeGet, Got, Decide, AfterGet, AfterMiss, Join, Capture, GoTo,
     Waiting, Course
<1>4. ASSUME AcquireLock(c) \/ LockWaited(c) \/ Waited(c) \/ DecideWait(c) PROVE FALSE
  BY <1>4 DEF AcquireLock, LockWaited, Waited, DecideWait, Waiting, Course
<1>5. ASSUME \/ Fetch(c) \/ SafeSet(c) \/ SetIfTagEpochsMatch(c) \/ ForcedGot(c) \/ FetchForced(c)
             \/ FetchedForced(c) \/ CheckForced(c)
      PROVE  pc'[c] \notin Waiting
  BY <1>0, <1>5 DEF Fetch, SafeSet, SetIfTagEpochsMatch, ForcedGot, FetchForced, FetchedForced,
     CheckForced, Capture, GoTo, Waiting
<1>6. CASE ~ReadEpochs(c) /\ ~Resolve(c)
  <2>1. pc'[c] \notin Waiting
    BY <1>3, <1>4, <1>5, <1>6 DEF ReadStep
  <2>2. \A d \in Reader : d # c => pc'[d] = pc[d]
    BY <1>0, <1>6 DEF Begin, ReadStep, Bypass, SafeGet, Got, Decide, AcquireLock, LockWaited,
       Waited, DecideWait, Fetch, SafeSet, SetIfTagEpochsMatch, ForcedGot, FetchForced,
       FetchedForced, CheckForced, Join, Capture, GoTo
  <2> QED
    BY <2>1, <2>2, PlacesRead DEF Course
<1> QED
  BY <1>1, <1>2, <1>6

LEMMA CourseMutate ==
    ASSUME TypeInv, Course,
           \/ \E m \in Mutation : Commit(m) \/ Invalidate(m)
           \/ \E j \in Job : InvalidateStep(j)
           \/ \E j \in Flusher : FlushQuarantine(j)
           \/ \E k \in Key : Expire(k) \/ ExpireLock(k)
    PROVE  Course'
<1>0. DOMAIN pc = Reader
  BY DEF TypeInv, TypeOK, ReadingTypeOK
<1>1. \A d \in Reader : pc'[d] \in {pc[d], "snapFenced", "snapWrite"}
  BY <1>0 DEF Commit, Invalidate, InvalidateStep, InvalidateProvider, InvalidateEnd, Capture, GoTo,
     FlushQuarantine, Expire, ExpireLock, reading
<1> QED
  BY <1>1, PlacesMutate DEF Course, Waiting

LEMMA RetriesRead ==
    ASSUME TypeInv, TypeInv', RetriesLeft, NEW c \in Reader, Begin(c) \/ ReadStep(c)
    PROVE  RetriesLeft'
<1>0. DOMAIN inv = Job /\ faults \in Nat /\ \A j \in Job : inv[j].n \in Nat
  BY CacheAssumption DEF TypeInv, TypeOK, JobsTypeOK, JobStates
<1>1. faults' = faults \/ faults' = faults + 1
  BY DEF Begin, ReadStep, ReadEpochs, Bypass, SafeGet, Got, Decide, AcquireLock, LockWaited, Waited,
     DecideWait, Fetch, SafeSet, SetIfTagEpochsMatch, Resolve, ForcedGot, FetchForced,
     FetchedForced, CheckForced, Fault, NoFault
<1>2. inv' = inv \/ InvalidateBegin(c, TagsFor(c))
  BY DEF Begin, ReadStep, ReadEpochs, Bypass, SafeGet, Got, Decide, AcquireLock, LockWaited, Waited,
     DecideWait, Fetch, SafeSet, SetIfTagEpochsMatch, Resolve, ForcedGot, FetchForced,
     FetchedForced, CheckForced
<1>3. \A j \in Job : inv'[j] = inv[j] \/ (inv'[j].pc = "trying" /\ inv'[j].n = 1)
  BY <1>0, <1>2 DEF InvalidateBegin
<1> QED
  BY <1>0, <1>1, <1>3 DEF RetriesLeft

LEMMA RetriesMutate ==
    ASSUME TypeInv, TypeInv', RetriesLeft, MaxFaults < Attempts,
           \/ \E m \in Mutation : Commit(m) \/ Invalidate(m)
           \/ \E j \in Job : InvalidateStep(j)
           \/ \E j \in Flusher : FlushQuarantine(j)
           \/ \E k \in Key : Expire(k) \/ ExpireLock(k)
    PROVE  RetriesLeft'
<1>0. /\ DOMAIN inv = Job /\ faults \in Nat /\ MaxFaults \in Nat /\ Attempts \in Nat
      /\ \A j \in Job : inv[j].n \in Nat
  BY CacheAssumption DEF TypeInv, TypeOK, JobsTypeOK, JobStates
<1>1. ASSUME NEW j \in Job, InvalidateProvider(j) PROVE RetriesLeft'
  <2>1. \A i \in Job : i # j => inv'[i] = inv[i]
    BY <1>0, <1>1 DEF InvalidateProvider
  <2>2. CASE faults' = faults /\ inv' = [inv EXCEPT ![j].pc = "ok"]
    BY <1>0, <2>2 DEF RetriesLeft
  <2>3. CASE Fault /\ inv' = IF inv[j].n < Attempts THEN [inv EXCEPT ![j].n = @ + 1]
                              ELSE [inv EXCEPT ![j].pc = "failed"]
    <3>1. inv[j].n <= faults + 1 /\ faults < MaxFaults /\ faults' = faults + 1
      BY <1>1, <2>3 DEF RetriesLeft, InvalidateProvider, Fault
    <3>2. inv' = [inv EXCEPT ![j].n = @ + 1]
      BY <1>0, <2>3, <3>1
    <3>3. inv'[j].pc = inv[j].pc /\ inv'[j].n = inv[j].n + 1
      BY <1>0, <3>2
    <3> QED
      BY <1>0, <2>1, <3>1, <3>3 DEF RetriesLeft
  <2> QED
    BY <1>1, <2>2, <2>3 DEF InvalidateProvider, NoFault
<1>2. ASSUME faults' = faults,
             \A j \in Job : \/ inv'[j] = inv[j]
                            \/ inv'[j].pc = "idle"
                            \/ inv'[j].pc = "trying" /\ inv'[j].n = 1
      PROVE  RetriesLeft'
  BY <1>0, <1>2 DEF RetriesLeft
<1>3. ASSUME NEW m \in Mutation, Invalidate(m) PROVE RetriesLeft'
  BY <1>0, <1>2, <1>3 DEF Invalidate, InvalidateBegin
<1>4. ASSUME NEW i \in Job, InvalidateEnd(i) PROVE RetriesLeft'
  BY <1>0, <1>2, <1>4 DEF InvalidateEnd, Idle
<1>5. ASSUME NEW i \in Flusher, FlushQuarantine(i) PROVE RetriesLeft'
  BY <1>0, <1>2, <1>5 DEF FlushQuarantine
<1>6. CASE UNCHANGED <<faults, inv>>
  BY <1>2, <1>6
<1> QED
  BY <1>1, <1>3, <1>4, <1>5, <1>6 DEF InvalidateStep, Commit, Expire, ExpireLock

-----------------------------------------------------------------------------
(* The computations in flight, and what becomes of those that were fenced.  *)

InFlightPcs == {"fetch", "fetched", "set", "resolve"}

Led ==
    \A r \in Replica, k \in Key : inFlight[r][k] # None =>
        At[inFlight[r][k].leader] = r /\ pc[inFlight[r][k].leader] \in InFlightPcs

\* Without the lock a computation keeps its snapshot, and only moves on.
MovesOn(c) ==
    /\ pc[c] \in InFlightPcs => pc'[c] \in InFlightPcs \cup {"done"} /\ snap'[c] = snap[c]
    /\ pc[c] = "done" => pc'[c] = "done" /\ snap'[c] = snap[c]

LEMMA ReadMovesOn ==
    ASSUME TypeInv, NEW c \in Reader, Begin(c) \/ ReadStep(c), NEW d \in Reader
    PROVE  MovesOn(d)
<1>0. DOMAIN pc = Reader /\ DOMAIN snap = Reader
  BY DEF TypeInv, TypeOK, LocalsTypeOK, ReadingTypeOK
<1>1. CASE Fetch(c) \/ SafeSet(c) \/ SetIfTagEpochsMatch(c)
  BY <1>0, <1>1 DEF Fetch, SafeSet, SetIfTagEpochsMatch, GoTo, MovesOn, InFlightPcs
<1>2. CASE Resolve(c)
  BY <1>0, <1>2 DEF Resolve, Settled, MovesOn, InFlightPcs
<1>3. CASE Begin(c) \/ ReadEpochs(c) \/ Bypass(c) \/ SafeGet(c) \/ Got(c) \/ Decide(c)
  <2>1. /\ pc[c] \notin InFlightPcs \cup {"done"}
        /\ \A e \in Reader : e # c => pc'[e] = pc[e] /\ snap'[e] = snap[e]
    BY <1>0, <1>3 DEF Begin, ReadEpochs, Bypass, SafeGet, Got, Decide, AfterEpochs, AfterGet, Join,
       Capture, GoTo, InFlightPcs
  <2> QED
    BY <2>1 DEF MovesOn
<1>4. CASE AcquireLock(c) \/ LockWaited(c) \/ Waited(c) \/ DecideWait(c) \/ ForcedGot(c)
           \/ FetchForced(c) \/ FetchedForced(c) \/ CheckForced(c)
  <2>1. /\ pc[c] \notin InFlightPcs \cup {"done"}
        /\ \A e \in Reader : e # c => pc'[e] = pc[e] /\ snap'[e] = snap[e]
    BY <1>0, <1>4 DEF AcquireLock, LockWaited, Waited, DecideWait, ForcedGot, FetchForced,
       FetchedForced, CheckForced, Capture, GoTo, InFlightPcs
  <2> QED
    BY <2>1 DEF MovesOn
<1> QED
  BY <1>1, <1>2, <1>3, <1>4 DEF ReadStep

LEMMA MutateMovesOn ==
    ASSUME TypeInv, Course, NEW d \in Reader,
           \/ \E m \in Mutation : Commit(m) \/ Invalidate(m)
           \/ \E j \in Job : InvalidateStep(j)
           \/ \E j \in Flusher : FlushQuarantine(j)
           \/ \E k \in Key : Expire(k) \/ ExpireLock(k)
    PROVE  MovesOn(d)
<1>1. ASSUME NEW j \in Job, InvalidateEnd(j) PROVE MovesOn(d)
  <2>1. snap' = snap /\ (d # j => pc'[d] = pc[d])
    BY <1>1 DEF InvalidateEnd, Capture, GoTo, TypeInv, TypeOK, ReadingTypeOK
  <2>2. d = j => pc[d] \in {"fencing", "notifying"}
    BY <1>1 DEF InvalidateEnd, Course, Places
  <2> QED
    BY <2>1, <2>2 DEF MovesOn, InFlightPcs
<1>2. CASE UNCHANGED <<pc, snap>>
  BY <1>2 DEF MovesOn
<1> QED
  BY <1>1, <1>2 DEF InvalidateStep, InvalidateProvider, Commit, Invalidate, FlushQuarantine, Expire,
     ExpireLock, reading

LEMMA LedRead ==
    ASSUME TypeInv, TypeInv', Course, Led, Locking = {}, NEW c \in Reader, Begin(c) \/ ReadStep(c)
    PROVE  Led'
<1>0. At[c] \in Replica /\ KeyOf[c] \in Key /\ DOMAIN pc = Reader
      /\ DOMAIN inFlight = Replica /\ \A r \in Replica : DOMAIN inFlight[r] = Key
  BY CacheAssumption DEF TypeInv, TypeOK, RuntimeTypeOK, ReadingTypeOK, Job
<1> SUFFICES ASSUME NEW r \in Replica, NEW k \in Key, inFlight'[r][k] # None
             PROVE  At[inFlight'[r][k].leader] = r /\ pc'[inFlight'[r][k].leader] \in InFlightPcs
  BY DEF Led
<1> DEFINE l == inFlight[r][k].leader
<1>1. ASSUME NEW s, Join(c, s)
      PROVE  \/ inFlight'[r][k] = inFlight[r][k]
             \/ inFlight'[r][k].leader = c /\ r = At[c] /\ pc'[c] = "fetch"
  <2>1. CASE Shares(c, s)
    BY <1>1, <2>1 DEF Join
  <2>2. CASE ~Shares(c, s)
    <3>1. pc'[c] = "fetch"
      BY <1>0, <1>1, <2>2 DEF Join, GoTo
    <3>2. inFlight' = [inFlight EXCEPT ![At[c]][KeyOf[c]] = [snapshot |-> s, leader |-> c]]
      BY <1>1, <2>2 DEF Join
    <3>3. inFlight'[r][k] = IF r = At[c] /\ k = KeyOf[c] THEN [snapshot |-> s, leader |-> c]
                            ELSE inFlight[r][k]
      BY <1>0, <3>2
    <3> QED
      BY <3>1, <3>3
  <2> QED
    BY <2>1, <2>2
<1>2. \/ inFlight'[r][k] = inFlight[r][k]
      \/ inFlight'[r][k].leader = c /\ r = At[c] /\ pc'[c] = "fetch"
  <2>1. CASE Begin(c)
    BY <1>1, <2>1 DEF Begin
  <2>2. CASE Bypass(c)
    BY <1>1, <2>2 DEF Bypass
  <2>3. CASE Decide(c)
    BY <1>1, <2>3 DEF Decide
  <2>4. CASE Resolve(c)
    BY <1>0, <2>4 DEF Resolve
  <2>5. CASE ~Begin(c) /\ ~Bypass(c) /\ ~Decide(c) /\ ~Resolve(c)
    <3>1. inFlight' = inFlight
      BY <2>5 DEF ReadStep, ReadEpochs, SafeGet, Got, AcquireLock, LockWaited, Waited, DecideWait,
         Fetch, SafeSet, SetIfTagEpochsMatch, ForcedGot, FetchForced, FetchedForced, CheckForced,
         InvalidateBegin, runtime
    <3> QED
      BY <3>1
  <2> QED
    BY <2>1, <2>2, <2>3, <2>4, <2>5
<1>3. CASE inFlight'[r][k] = inFlight[r][k]
  <2>1. l \in Reader /\ At[l] = r /\ pc[l] \in InFlightPcs /\ KeyOf[l] = k
    BY <1>3 DEF Led, TypeInv, TypeOK, RuntimeTypeOK, LeadersShareKey
  <2>2. MovesOn(l)
    BY <2>1, ReadMovesOn
  <2>3. pc'[l] # "done"
    <3>1. CASE Resolve(c)
      <4>1. l # c
        BY <1>0, <1>3, <2>1, <3>1 DEF Resolve
      <4>2. pc[l] # "joined"
        BY <2>1 DEF InFlightPcs
      <4> QED
        BY <2>1, <3>1, <4>1, <4>2 DEF Resolve, Settled, InFlightPcs
    <3>2. CASE ~Resolve(c)
      <4>1. l # c => pc'[l] = pc[l]
        BY <1>0, <2>1, <3>2 DEF ReadStep, Begin, ReadEpochs, Bypass, SafeGet, Got, Decide,
           AcquireLock, LockWaited, Waited, DecideWait, Fetch, SafeSet, SetIfTagEpochsMatch,
           ForcedGot, FetchForced, FetchedForced, CheckForced, Join, Capture, GoTo
      <4>2. l = c => pc'[l] # "done"
        BY <1>0, <2>1, <3>2 DEF ReadStep, Begin, ReadEpochs, Bypass, SafeGet, Got, Decide,
           AcquireLock, LockWaited, Waited, DecideWait, Fetch, SafeSet, SetIfTagEpochsMatch,
           ForcedGot, FetchForced, FetchedForced, CheckForced, Join, Capture, GoTo, AfterEpochs,
           AfterGet, InFlightPcs
      <4> QED
        BY <2>1, <4>1, <4>2 DEF InFlightPcs
    <3> QED
      BY <3>1, <3>2
  <2> QED
    BY <1>3, <2>1, <2>2, <2>3 DEF MovesOn
<1>4. CASE inFlight'[r][k].leader = c /\ r = At[c] /\ pc'[c] = "fetch"
  BY <1>4 DEF InFlightPcs
<1> QED
  BY <1>2, <1>3, <1>4

LEMMA LedMutate ==
    ASSUME TypeInv, Course, Led,
           \/ \E m \in Mutation : Commit(m) \/ Invalidate(m)
           \/ \E j \in Job : InvalidateStep(j)
           \/ \E j \in Flusher : FlushQuarantine(j)
           \/ \E k \in Key : Expire(k) \/ ExpireLock(k)
    PROVE  Led'
<1>1. inFlight' = inFlight
  BY DEF InvalidateStep, InvalidateProvider, InvalidateEnd, Commit, Invalidate, InvalidateBegin,
     FlushQuarantine, Expire, ExpireLock, runtime
<1>2. ASSUME NEW d \in Reader, pc[d] \in InFlightPcs PROVE pc'[d] = pc[d]
  <2>1. ASSUME NEW j \in Job, InvalidateEnd(j) PROVE pc'[d] = pc[d]
    <3>1. d # j
      BY <1>2, <2>1 DEF InvalidateEnd, Course, Places, InFlightPcs
    <3> QED
      BY <2>1, <3>1 DEF InvalidateEnd, Capture, GoTo, TypeInv, TypeOK, ReadingTypeOK
  <2>2. CASE UNCHANGED pc
    BY <2>2
  <2> QED
    BY <2>1, <2>2 DEF InvalidateStep, InvalidateProvider, Commit, Invalidate, FlushQuarantine,
       Expire, ExpireLock, reading
<1>3. \A r \in Replica, k \in Key : inFlight[r][k] # None => inFlight[r][k].leader \in Reader
  BY DEF TypeInv, TypeOK, RuntimeTypeOK
<1> QED
  BY <1>1, <1>2, <1>3 DEF Led

\* A computation that f has fenced: either the fence is still on its way, or
\* the provider has left the epochs of the computation behind.
Fenced(f, c) ==
    /\ KeyOf[c] = KeyOf[f] /\ pc[c] \in InFlightPcs \cup {"done"}
    /\ \/ pc[f] = "fencing" /\ inv[f].pc = "trying" /\ inv[f].tags = TagsFor(f)
       \/ snap[c] = None
       \/ \A t \in TagsFor(c) : snap[c].external[t] < tagEpochs[t]

SupersededFenced == \A f \in Reader : \A c \in superseded[f] : Fenced(f, c)

\* What was fenced for good stays so.
LEMMA FencedLasts ==
    ASSUME TypeInv, TypeInv', EpochsGrow, NEW c \in Reader, NEW f \in Reader, Fenced(f, c),
           MovesOn(c),
           snap[c] = None \/ \A t \in TagsFor(c) : snap[c].external[t] < tagEpochs[t]
    PROVE  Fenced(f, c)'
<1>1. snap'[c] = snap[c] /\ pc'[c] \in InFlightPcs \cup {"done"}
  BY DEF Fenced, MovesOn, InFlightPcs
<1>2. ASSUME NEW t \in TagsFor(c), snap[c] # None, snap[c].external[t] < tagEpochs[t]
      PROVE  snap[c].external[t] < tagEpochs'[t]
  <2>1. t \in Tag
    BY CacheAssumption DEF TagsFor
  <2>2. /\ snap[c].external[t] \in Nat /\ tagEpochs[t] \in Nat /\ tagEpochs'[t] \in Nat
        /\ tagEpochs[t] <= tagEpochs'[t]
    BY <1>2, <2>1 DEF EpochsGrow, TypeInv, TypeOK, ProviderTypeOK, LocalsTypeOK, Snapshots, Versions
  <2> QED
    BY <1>2, <2>2
<1>3. snap'[c] = None \/ \A t \in TagsFor(c) : snap'[c].external[t] < tagEpochs'[t]
  BY <1>1, <1>2
<1> QED
  BY <1>1, <1>3 DEF Fenced, TagsFor

\* While the fence is on its way the forced read stands still.
LEMMA FencingStays ==
    ASSUME TypeInv, NEW f \in Reader, pc[f] = "fencing", NEW c \in Reader, Begin(c) \/ ReadStep(c)
    PROVE  pc'[f] = pc[f] /\ inv'[f] = inv[f]
<1>0. DOMAIN pc = Reader /\ DOMAIN inv = Job /\ c \in Job /\ f \in Job
  BY DEF TypeInv, TypeOK, ReadingTypeOK, JobsTypeOK, Job
<1>1. c # f
  BY DEF ReadStep, Begin, ReadEpochs, Bypass, SafeGet, Got, Decide, AcquireLock, LockWaited, Waited,
     DecideWait, Fetch, SafeSet, SetIfTagEpochsMatch, Resolve, ForcedGot, FetchForced,
     FetchedForced, CheckForced, AfterEpochs, AfterGet
<1>2. pc'[f] = pc[f]
  BY <1>0, <1>1 DEF ReadStep, Begin, ReadEpochs, Bypass, SafeGet, Got, Decide, AcquireLock,
     LockWaited, Waited, DecideWait, Fetch, SafeSet, SetIfTagEpochsMatch, Resolve, Settled,
     ForcedGot, FetchForced, FetchedForced, CheckForced, Join, Capture, GoTo
<1>3. inv' = inv \/ inv' = [inv EXCEPT ![c] = [pc |-> "trying", tags |-> TagsFor(c), n |-> 1]]
  BY DEF ReadStep, Begin, ReadEpochs, Bypass, SafeGet, Got, Decide, AcquireLock, LockWaited, Waited,
     DecideWait, Fetch, SafeSet, SetIfTagEpochsMatch, Resolve, ForcedGot, FetchForced,
     FetchedForced, CheckForced, InvalidateBegin
<1> QED
  BY <1>0, <1>1, <1>2, <1>3

LEMMA FencedKeptByRead ==
    ASSUME TypeInv, TypeInv', EpochsGrow, NEW d \in Reader, Begin(d) \/ ReadStep(d),
           NEW f \in Reader, NEW c \in Reader, Fenced(f, c)
    PROVE  Fenced(f, c)'
<1>1. MovesOn(c)
  BY ReadMovesOn
<1>2. CASE pc[f] = "fencing" /\ inv[f].pc = "trying" /\ inv[f].tags = TagsFor(f)
  BY <1>1, <1>2, FencingStays DEF Fenced, MovesOn, TagsFor
<1>3. CASE ~(pc[f] = "fencing" /\ inv[f].pc = "trying" /\ inv[f].tags = TagsFor(f))
  BY <1>1, <1>3, FencedLasts DEF Fenced
<1> QED
  BY <1>2, <1>3

LEMMA FencedRead ==
    ASSUME TypeInv, TypeInv', EpochsGrow, Led, SupersededFenced,
           NEW d \in Reader, Begin(d) \/ ReadStep(d)
    PROVE  SupersededFenced'
<1>0. superseded \in [Reader -> SUBSET Reader]
  BY DEF TypeInv, TypeOK, ReadingTypeOK
<1> SUFFICES ASSUME NEW f \in Reader, NEW c \in superseded'[f]
             PROVE  Fenced(f, c)'
  BY DEF SupersededFenced
<1>1. CASE c \in superseded[f]
  BY <1>0, <1>1, FencedKeptByRead DEF SupersededFenced
<1>2. CASE c \notin superseded[f]
  <2> DEFINE running == inFlight[At[d]][KeyOf[d]]
  <2>1. f = d /\ ForcedGot(d) /\ running # None /\ c = running.leader
    <3>1. superseded' = superseded \/ (ForcedGot(d) /\ running # None
                                        /\ superseded' = [superseded EXCEPT ![d] = {running.leader}])
      BY DEF ReadStep, Begin, ReadEpochs, Bypass, SafeGet, Got, Decide, AcquireLock, LockWaited,
         Waited, DecideWait, Fetch, SafeSet, SetIfTagEpochsMatch, Resolve, ForcedGot, FetchForced,
         FetchedForced, CheckForced
    <3> HIDE DEF running
    <3> QED
      BY <1>0, <1>2, <3>1
  <2>2. At[d] \in Replica /\ KeyOf[d] \in Key /\ d \in Job
    BY CacheAssumption DEF Job
  <2>3. c \in Reader /\ pc[c] \in InFlightPcs /\ KeyOf[c] = KeyOf[d]
    BY <2>1, <2>2 DEF Led, TypeInv, TypeOK, RuntimeTypeOK, LeadersShareKey
  <2>4. /\ pc' = [pc EXCEPT ![d] = "fencing"] /\ pc[d] = "gotForced"
        /\ inv' = [inv EXCEPT ![d] = [pc |-> "trying", tags |-> TagsFor(d), n |-> 1]]
    BY <2>1 DEF ForcedGot, InvalidateBegin, GoTo
  <2>5. pc'[d] = "fencing" /\ pc'[c] = pc[c]
    BY <2>3, <2>4 DEF TypeInv, TypeOK, ReadingTypeOK, InFlightPcs
  <2>6. inv'[d].pc = "trying" /\ inv'[d].tags = TagsFor(d)
    BY <2>2, <2>4 DEF TypeInv, TypeOK, JobsTypeOK
  <2> QED
    BY <2>1, <2>3, <2>5, <2>6 DEF Fenced, TagsFor
<1> QED
  BY <1>1, <1>2

LEMMA FencedMutate ==
    ASSUME TypeInv, TypeInv', EpochsGrow, SnapsBehind, RetriesLeft', Course, SupersededFenced,
           \/ \E m \in Mutation : Commit(m) \/ Invalidate(m)
           \/ \E j \in Job : InvalidateStep(j)
           \/ \E j \in Flusher : FlushQuarantine(j)
           \/ \E k \in Key : Expire(k) \/ ExpireLock(k)
    PROVE  SupersededFenced'
<1>0. superseded' = superseded /\ superseded \in [Reader -> SUBSET Reader]
  BY DEF InvalidateStep, InvalidateProvider, InvalidateEnd, Commit, Invalidate, FlushQuarantine,
     Expire, ExpireLock, reading, TypeInv, TypeOK, ReadingTypeOK
<1> SUFFICES ASSUME NEW f \in Reader, NEW c \in superseded[f]
             PROVE  Fenced(f, c)'
  BY <1>0 DEF SupersededFenced
<1>1. Fenced(f, c) /\ c \in Reader /\ MovesOn(c) /\ f \in Job /\ DOMAIN inv = Job /\ DOMAIN pc = Reader
  BY <1>0, MutateMovesOn DEF SupersededFenced, Job, TypeInv, TypeOK, JobsTypeOK, ReadingTypeOK
<1>2. CASE pc[f] = "fencing" /\ inv[f].pc = "trying" /\ inv[f].tags = TagsFor(f)
  <2>1. CASE InvalidateProvider(f) /\ InvalidateTagScript(inv[f].tags)
    <3>1. ASSUME NEW t \in TagsFor(c), snap[c] # None PROVE snap[c].external[t] < tagEpochs'[t]
      <4>1. t \in Tag /\ t \in inv[f].tags
        BY <1>1, <1>2, CacheAssumption DEF TagsFor, Fenced
      <4>2. snap[c].external[t] \in Nat /\ tagEpochs[t] \in Nat /\ snap[c].external[t] <= tagEpochs[t]
        BY <1>1, <3>1, <4>1 DEF SnapsBehind, SnapBehind, TypeInv, TypeOK, ProviderTypeOK,
           LocalsTypeOK, Snapshots, Versions
      <4>3. tagEpochs'[t] = tagEpochs[t] + 1
        BY <2>1, <4>1 DEF InvalidateTagScript
      <4> QED
        BY <4>2, <4>3
    <3>2. snap'[c] = snap[c] /\ pc'[c] \in InFlightPcs \cup {"done"}
      BY <1>1 DEF Fenced, MovesOn
    <3>3. snap'[c] = None \/ \A t \in TagsFor(c) : snap'[c].external[t] < tagEpochs'[t]
      BY <3>1, <3>2
    <3> QED
      BY <1>1, <3>2, <3>3 DEF Fenced, TagsFor
  <2>2. CASE InvalidateProvider(f) /\ ~InvalidateTagScript(inv[f].tags)
    <3>1. pc'[f] = pc[f]
      BY <2>2 DEF InvalidateProvider, reading
    <3>2. inv' = [inv EXCEPT ![f].n = @ + 1] \/ inv' = [inv EXCEPT ![f].pc = "failed"]
      BY <2>2 DEF InvalidateProvider
    <3>3. /\ inv[f] \in JobStates
          /\ inv'[f] = [inv[f] EXCEPT !.n = @ + 1] \/ inv'[f] = [inv[f] EXCEPT !.pc = "failed"]
      BY <1>1, <3>2 DEF TypeInv, TypeOK, JobsTypeOK
    <3>4. inv'[f].pc = "trying"
      BY <1>1, <1>2, <3>3 DEF RetriesLeft, JobStates
    <3>5. inv'[f].tags = inv[f].tags
      BY <3>3 DEF JobStates
    <3> QED
      BY <1>1, <1>2, <3>1, <3>4, <3>5 DEF Fenced, MovesOn, TagsFor
  <2>3. CASE ~InvalidateProvider(f)
    <3>1. ASSUME NEW j \in Job, InvalidateStep(j) PROVE pc'[f] = pc[f] /\ inv'[f] = inv[f]
      <4>1. j # f
        BY <1>2, <2>3, <3>1 DEF InvalidateStep, InvalidateEnd
      <4>2. inv'[f] = inv[f]
        BY <1>1, <3>1, <4>1 DEF InvalidateStep, InvalidateEnd, InvalidateProvider
      <4>3. pc'[f] = pc[f]
        BY <1>1, <3>1, <4>1 DEF InvalidateStep, InvalidateEnd, InvalidateProvider, Capture, GoTo,
           reading
      <4> QED
        BY <4>2, <4>3
    <3>2. ASSUME NEW m \in Mutation, Invalidate(m) PROVE pc'[f] = pc[f] /\ inv'[f] = inv[f]
      BY <1>1, <3>2, CacheAssumption DEF Invalidate, InvalidateBegin, reading
    <3>3. ASSUME NEW j \in Flusher, FlushQuarantine(j) PROVE pc'[f] = pc[f] /\ inv'[f] = inv[f]
      BY <1>1, <3>3, CacheAssumption DEF FlushQuarantine, reading
    <3>4. pc'[f] = pc[f] /\ inv'[f] = inv[f]
      BY <3>1, <3>2, <3>3 DEF Commit, Expire, ExpireLock, reading
    <3> QED
      BY <1>1, <1>2, <3>4 DEF Fenced, MovesOn, TagsFor
  <2> QED
    BY <2>1, <2>2, <2>3
<1>3. CASE ~(pc[f] = "fencing" /\ inv[f].pc = "trying" /\ inv[f].tags = TagsFor(f))
  BY <1>1, <1>3, FencedLasts DEF Fenced
<1> QED
  BY <1>2, <1>3

-----------------------------------------------------------------------------
RefreshInv == SnapsBehind /\ Course /\ RetriesLeft /\ Led /\ SupersededFenced

LEMMA RefreshInit == Init => RefreshInv
BY PlacesInit, CacheAssumption DEF Init, RefreshInv, SnapsBehind, SnapBehind, Course, RetriesLeft,
   Led, SupersededFenced, AfterEpochs, Waiting, Idle, Job

LEMMA RefreshRead ==
    ASSUME TypeInv, TypeInv', FenceInv, RefreshInv, Locking = {}, NEW c \in Reader,
           Begin(c) \/ ReadStep(c)
    PROVE  RefreshInv'
<1>1. EpochsGrow /\ \A d \in Reader : Captures(d)
  BY ReadGrows, ReadCaptures
<1>2. SnapsBehind'
  BY <1>1, SnapsKeep DEF RefreshInv, FenceInv
<1>3. Course' /\ RetriesLeft' /\ Led'
  BY CourseRead, RetriesRead, LedRead DEF RefreshInv
<1>4. SupersededFenced'
  BY <1>1, FencedRead DEF RefreshInv
<1> QED
  BY <1>2, <1>3, <1>4 DEF RefreshInv

LEMMA RefreshMutate ==
    ASSUME TypeInv, TypeInv', FenceInv, RefreshInv, MaxFaults < Attempts,
           \/ \E m \in Mutation : Commit(m) \/ Invalidate(m)
           \/ \E j \in Job : InvalidateStep(j)
           \/ \E j \in Flusher : FlushQuarantine(j)
           \/ \E k \in Key : Expire(k) \/ ExpireLock(k)
    PROVE  RefreshInv'
<1>1. EpochsGrow /\ \A d \in Reader : Captures(d)
  BY MutateGrows, MutateCaptures
<1>2. SnapsBehind'
  BY <1>1, SnapsKeep DEF RefreshInv, FenceInv
<1>3. Course' /\ RetriesLeft' /\ Led'
  BY CourseMutate, RetriesMutate, LedMutate DEF RefreshInv
<1>4. SupersededFenced'
  BY <1>1, <1>3, FencedMutate DEF RefreshInv
<1> QED
  BY <1>2, <1>3, <1>4 DEF RefreshInv

LEMMA RefreshStutter == ASSUME RefreshInv, UNCHANGED others PROVE RefreshInv'
<1>1. UNCHANGED <<tagEpochs, localTagEpochs, inFlight, pc, loc, snap, snap2, superseded, refreshed,
                  notified, inv, faults>>
  BY DEF others, provider, runtime, reading
<1>2. SnapsBehind' /\ Course' /\ RetriesLeft' /\ Led'
  BY <1>1 DEF RefreshInv, SnapsBehind, SnapBehind, Course, Places, RetriesLeft, Led, TagsFor
<1>3. SupersededFenced'
  BY <1>1 DEF RefreshInv, SupersededFenced, Fenced, TagsFor
<1> QED
  BY <1>2, <1>3 DEF RefreshInv

\* Neither a write that may still come nor one after it gets through.
LEMMA OvertakenWritesNothing ==
    ASSUME TypeInv, RefreshInv, \A k \in Key : TagsOf[k] # {}, [Next \/ Quiescent]_vars,
           NEW f \in refreshed, NEW c \in superseded[f], pc[c] = "set", pc'[c] = "resolve"
    PROVE  entries' = entries
<1>1. f \in Reader /\ c \in Reader /\ KeyOf[c] \in Key /\ DOMAIN pc = Reader
  BY CacheAssumption DEF TypeInv, TypeOK, ReadingTypeOK
<1>2. pc[f] # "fencing" /\ snap[c] # None
  BY <1>1 DEF RefreshInv, Course, Places
<1>3. \A t \in TagsFor(c) : snap[c].external[t] < tagEpochs[t]
  BY <1>1, <1>2 DEF RefreshInv, SupersededFenced, Fenced
<1>4. PICK t \in TagsFor(c) : t \in Tag /\ snap[c].external[t] \in Nat /\ tagEpochs[t] \in Nat
  BY <1>1, <1>2, CacheAssumption DEF TagsFor, TypeInv, TypeOK, ProviderTypeOK, LocalsTypeOK,
     Snapshots, Versions
<1>5. ~EpochsMatch(c)
  BY <1>3, <1>4 DEF EpochsMatch
<1>6. ASSUME NEW d \in Reader, Begin(d) \/ ReadStep(d) PROVE entries' = entries
  <2>1. CASE SetIfTagEpochsMatch(d)
    <3>1. d = c
      BY <1>1, <2>1 DEF SetIfTagEpochsMatch, GoTo
    <3> QED
      BY <1>5, <2>1, <3>1 DEF SetIfTagEpochsMatch
  <2>2. CASE ~SetIfTagEpochsMatch(d)
    BY <1>6, <2>2 DEF ReadStep, Begin, ReadEpochs, Bypass, SafeGet, Got, Decide, AcquireLock,
       LockWaited, Waited, DecideWait, Fetch, SafeSet, Resolve, ForcedGot, FetchForced,
       FetchedForced, CheckForced, provider
  <2> QED
    BY <2>1, <2>2
<1>7. pc' # pc
  OBVIOUS
<1>8. ASSUME NEW j \in Job, InvalidateEnd(j) PROVE entries' = entries
  BY <1>8 DEF InvalidateEnd, provider
<1>9. ASSUME NEW d \in Reader, GetTagEpoch(d) PROVE entries' = entries
  BY <1>9 DEF GetTagEpoch, provider
<1> QED
  BY <1>6, <1>7, <1>8, <1>9 DEF Next, Quiescent, vars, InvalidateStep, InvalidateProvider, Commit,
     Invalidate, FlushQuarantine, Expire, ExpireLock, reading

(* As long as an invalidation is tried more often than the provider fails,  *)
(* a computation that a forced read has fenced never overwrites what the    *)
(* forced read stored: between the fence (revalidate) and the conditional   *)
(* write of the older computation the provider has changed its epochs.      *)
(* A computation that waits for the cross-replica lock takes a newer        *)
(* snapshot and is not bound by this; nor is one without tags.              *)
THEOREM RefreshesAreKept ==
    ASSUME MaxFaults < Attempts, Locking = {}, \A k \in Key : TagsOf[k] # {}
    PROVE  Spec => SupersededNeverOverwrites
<1>1. Init => RefreshInv
  BY RefreshInit
<1>2. TypeInv /\ FenceInv /\ TypeInv' /\ RefreshInv /\ [Next \/ Quiescent]_vars => RefreshInv'
  <2>1. UNCHANGED vars => UNCHANGED others
    BY DEF vars, others
  <2> QED
    BY <2>1, RefreshRead, RefreshMutate, RefreshStutter, GetServes DEF Next, Quiescent
<1>3. TypeInv /\ RefreshInv /\ [Next \/ Quiescent]_vars =>
        [\A f \in refreshed : \A c \in superseded[f] :
            pc[c] = "set" /\ pc'[c] = "resolve" => entries' = entries]_vars
  BY OvertakenWritesNothing
<1> QED
  BY <1>1, <1>2, <1>3, FenceInvariant, PTL DEF Spec, SupersededNeverOverwrites
=============================================================================
