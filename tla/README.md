# modern-admin: TLA+ models, checks and proofs

modern-admin is a TypeScript framework for admin panels: a core that turns ORM
resources into actions (`packages/core`), a NestJS host (`packages/nest`),
adapters, caches, a realtime bus, a job queue, media generation, a GraphQL
transport and a React client. Most of it is sequential work on one request.
The parts where the order of events decides whether the result is right are the
subject of this directory. All paths below are relative to `packages/`.

## 1. Inventory

| Component | State it keeps | Operations | Interacts with | What makes it correct |
|---|---|---|---|---|
| Cache runtime (`core/src/actions/cache-runtime.ts`) | per replica: local tag epochs, quarantined tags, computations in flight, a retry timer | `read`, forced `read`, `invalidateTags`, quarantine flush | provider (entries, epochs, locks), data source, every action and the HTTP interceptor | nothing older than an invalidation is stored or answered; failures delay, they never revive |
| Redis cache provider (`cache-redis`) | entries, tag sets, tag epochs, locks | Lua scripts, each atomic | cache runtime | the conditional write compares every epoch |
| Mutation pipeline (`core/src/modern-admin.ts`, `invoke`) | none of its own | access, before-hooks, handler, after-hooks, invalidation, redaction, events | cache runtime, realtime bus, features' hooks | read-your-writes; an event never precedes the invalidation it announces |
| Media tasks (`nest/src/media-generation.service.ts`) | task row (shared store), poll loops and apply chains (process) | create, cancel, webhook, poll, apply, bootstrap | provider, upload storage, record store, realtime bus | one paid job per request; terminal states stay; every task ends; files accounted for |
| Media budget (same file) | the user's tasks of the month, `budgetChains` | reserve, sum, refuse | task store | no overspend, no refusal without need |
| Cron tasks (`queue/src/cron`) | schedulers, jobs and lock keys in Redis | start (synchronise schedulers), process, purge | BullMQ, several instances and versions | no overlap of `skipIfRunning` tasks; schedulers follow the code |
| Retention (`queue/src/retention`) | none | one cron task | cron tasks, history and log stores | registered although it starts late |
| Redis realtime bus (`realtime/src/redis-bus.ts`) | handlers, one subscriber connection | publish, subscribe, close | Redis, gateway, GraphQL subscriptions, cross-instance cache | every handler sees every event in order |
| Subscription iterator (`graphql/src/subscription-iterator.ts`) | queue, waiting `next()` calls | next, return, throw | bus, graphql-js | exactly the stream asked for; no lost wake-up, no leaked handler |
| Realtime gateway (`realtime/src/gateway.ts`) | rooms | connect, subscribe, unsubscribe, broadcast | bus, socket.io, access checks | rooms follow the client's last request |
| Browser client (`react/src/client.ts`, `realtime*.ts`, `hooks.ts`) | query cache | fetch, mutate, invalidate on events | HTTP API, gateway | converges to the server's state |
| HTTP cache interceptor (`nest/src/cache.interceptor.ts`) | none (uses the cache runtime) | GET through the cache | cache runtime, principals | never answers a principal with another's body |
| Cross-instance cache, memory provider (`core/src/ports`, `core/src/system`) | per-process entries | get, set, invalidate over the bus | bus, cache runtime | invalidation reaches every process |
| AI assistant (`nest/src/ai-assistant.*`, `react/src/components/ai-assistant-widget.tsx`) | task rows, queue jobs; in the browser the conversation, the questions waiting and the task followed | post, run, poll, new chat, history | task store, BullMQ, LLM provider | every question is answered once, in its conversation, in order |
| Upload (`feature-upload`, the edit page and its file fields) | files, pending uploads (process), the page's draft | upload, cancel, confirm, sweep | storage, hooks of new, edit and delete | no saved file lost, none left behind |
| Many-to-many (`feature-m2m`), history (`feature-history`) | junction rows, revisions | after-hooks | mutation pipeline | consistent with the record |
| Adapters, filters, decorators, i18n, licence, telemetry, UI, scaffolding | none shared | pure functions, rendering, tools | | not concurrent |

Hard behaviours: interleaving at every `await` (cache, media, budget, iterator),
several processes over one store (cache, budget, cron), crashes and restarts
(media, cron), lost or repeated calls (webhooks, stalled jobs, refused
connections), expiry of locks, entries and deadlines, retries. `PROJECT.json`
lists each hazard at its line, with the properties that watch it or the reason
why none does.

## 2. Modules

| Module | Models | Grain of an action |
|---|---|---|
| `FencedCache` | what the read cache promises, without epochs or replicas | one write, invalidation, store or eviction |
| `CacheRuntime` | `CacheRuntime` of several replicas over one provider | the code between two awaits, or one provider script |
| `CacheRuntimeProofs` | theorems about it | |
| `MediaTask` | one task row and every call that works on it | the code between two awaits; one store statement |
| `MediaTaskProofs` | theorems about it | |
| `MediaBudget` | reservations of one user's month over several instances | one store statement with the code up to the next |
| `MediaBudgetProofs` | theorems about it | |
| `CronTasks` | instances, worker slots, schedulers, locks, purge | one Redis command; one BullMQ transition |
| `CronTasksProofs` | theorems about it | |
| `RealtimeStream` | the Redis bus and the iterators of one process | one callback or promise continuation |
| `RealtimeStreamProofs` | theorems about it | |
| `ReferenceGraph` | which resources show another one's data: the server's dependents, the browser's linked resources | an operator |
| `MutationPipeline` | a write from `invoke` to the other users' screens: caches, events, rooms, queries | the code between two awaits; one query, one invalidation |
| `MutationPipelineProofs` | theorems about it and about `ReferenceGraph` | |
| `UploadLifecycle` | files between the edit page, the upload controller, the hooks of `uploadFeature` and the sweep | one request, hook, event of the page |
| `UploadLifecycleProofs` | theorems about it | |
| `AiAssistant` | the chat widget, the tasks of its questions and the worker | one store statement with the code up to it; one event of the widget |
| `AiAssistantProofs` | theorems about it | |
| `MC*` | the instances TLC checks: model values, small functions, symmetry | |

### CacheRuntime
A cached value is the function from the tags of its key to the version of the data
it was computed from; `db` holds the current versions, `fence` (history) the version
at a tag's last invalidation. `read` is the chain of labels in `pc`: snapshot of
local and external epochs (`Capture`, `GetTagEpoch`, `AfterEpochs`), `safeGet`,
second snapshot, `Hit` or `Join` (`sameSnapshot`), optionally the lock and its wait,
`Fetch`, `SafeSet` with the provider's comparison of epochs, `Resolve` for all
joined readers. The Redis provider gets the epochs of a snapshot with one GET per
tag (`cache-redis/src/index.ts:307-314`), between which other commands are served;
`served` holds what the first of them have answered, and the fence of each tag at
that moment (history). Its scripts, by contrast, are atomic over all tags. A forced
read goes through `ForcedGot`, `FetchForced`, `CheckForced` and the `onChanged`
callback; `superseded[f]` are the computations in flight that its invalidation
fenced, `notified` the forced reads that called `onChanged`, `refreshed` those whose
value the provider took; the values of both kinds at once are the `LateRefreshes`
(D1). `Invalidate*` is `invalidateTags` with its attempts, `FlushQuarantine` the
timer's run; `raced[m]` are the tags of `m` with another invalidation on its replica
whose script had run but which had not returned when `m`'s began (D9). `superseded`,
`notified`, `refreshed` and `raced` are history: no guard reads them. Left out:
statistics, `dispose`, `fallbackConditionalSet`, which serves providers without the
atomic write, and the Redis provider's path for clients without EVAL. Any provider
call and the fetch may fail, `MaxFaults` times.

### MediaTask
`row` is the task of one `requestId`; every `createTask` call of the model has
the same one (calls of different requests share only the budget). `creator`,
`canceller`, `webhook`, `poller`, `applier` say where each call stands, with
the locals it holds over an await: the output read by `cancelTask`, the result
polled, the field read by `applyResultLocked`. Guarded writes
(`expectedStatus`) and unconditional ones are different operators, as they are
different statements. A crash loses the calls and the poll loop; a restart runs
`onApplicationBootstrap`. Fields, prices, permissions and settings are checked
before any of these steps and are left out; their refusal is an `applyResult`
that settles early. The edit of the record is one `invoke` of another component:
it may throw before it writes or, with `"hooks"` among the faults, after
(`ApplyEdit`), and `uploadFeature` removes the files it replaces as far as its hook
gets. `torn` (history) are the uploads whose edit did the latter. `Faults` names the
dependencies that may fail.

### MediaBudget
A call looks its key up, joins its instance's chain, enqueues, sums, is refused
or goes on to the claim and the submission. Keys stand for requests; two calls
with one key are a retry. The details of the task's life are `MediaTask`'s:
here the submission ends well or not, and a running task ends in any way. `Cost`
gives every set of tasks the sum of their estimated costs; all that is assumed of
it is that the costs of disjoint sets add up.

### CronTasks
`instance[i]` walks through `onModuleInit` (list, remove stale, upsert, then the
modules that register late). `Late` is real: `RetentionService` registers in its
own `onModuleInit`. `slot` is a worker, `lock` the Redis key with the id of the
job that set it. A purge keeps what it failed to remove in `purge.left`, as the
code logs it and goes on. BullMQ is external: a scheduler produces a job when none of
its jobs waits for its first run, a job that throws is tried again, a job
whose worker is gone or does not renew its lease is delivered once more.

### MutationPipeline
Data is the version of each record, a cache entry the versions it was built
from. `Handle`, `WriteHook`, `HookInvalidate`, `InvalidateTarget`,
`InvalidateRoles`, `Publish`, `Answer` are `invoke` of a writing action in its
order, `BeginBulk` and `CommitBulk` the transaction of `bulkDelete`. A fetch
(`FetchStep`) walks through the interceptor's cache, the role's permissions, the
action cache, the query with its populated references, the m2m read hook, and the
permissions once more for the rows' actions; each is an await and may be
overtaken. The caches behave as `FencedCache` promises (`fresh`: the keys whose
tags were not invalidated since the read began), which is what
`RuntimeImplementsFencedCache` allows. The browser keeps one query; an
invalidation marks it stale and, if the query has data, cancels its fetch, as
TanStack Query does (5.105: `Query.fetch` cancels a running fetch only if there is
data, and `placeholderData` is none). A first load goes on, and its success clears
the mark: `overtaken` (history) until the page is fetched again (D25). `Visit` opens
another page, `Remount` the same one with its data older than `staleTime`.
`ReferenceGraph` says which tags and which queries a change reaches, `Joins` which
records a junction's row names (`PipelineAssumption` fixes their types). One
principal: entries of other scopes are other keys that behave alike.

### UploadLifecycle
`stored`, `deleting` and `pending` are the storage, the deletes under way and the
registry; `page`, `value`, `mine` and `draft` an opened form with its file keys,
the ones it uploaded, and the draft that outlives it; `call` its save or
delete on the server, with the record `invoke` loaded before the handler (what
the hook takes for the old keys). `invoke` runs the after-hooks in order and
`uploadFeature` appends its own behind those of other features: `HookThrows` is one
of these that throws after the write. `happened` collects the circumstances the code
does not guard against, at most `MaxMishaps` kinds in a behaviour; each property
names the ones it does not survive, and holds through all the others.
One file property of one resource; a page may edit a record only while no other
does.

### AiAssistant
A question carries one number through its post, task, job and answer. The widget
is `messages`, `queue`, `active` (`activeTaskId`), `requests` (`chat.isPending`)
and `opening` (a `getTask` whose answer is still to be shown). The effect that
sends the next question runs before the user's next event, as React flushes
effects, so user actions are guarded by `~DequeueDue`. `runs` are calls of
`runChatJob`: a job that stalls is delivered again while the late worker may go
on, and both write the row. A conversation opened from the history may name any
of its tasks, since the list the user sees may be old.

### RealtimeStream
Each connection has the reply to its SUBSCRIBE and an inbox; `Message` runs all
handlers in one step, as the listener does. `iter[s]` is an iterator: `queue`,
the number of waiting `next()` calls, and `got`, what the client received.

## 3. Runs

| Run | Instance and bounds | Shows |
|---|---|---|
| `CacheFencing` | 2 replicas, a lock-taking reader and a mutation on each, 1 key with 2 tags, of which each mutation invalidates one; ~8*10^5 states | types, fencing of answers, refinement of `FencedCache` |
| `CacheFaults` | 2 joined readers, 1 mutation with 2 attempts, 1 flusher, 2 failures anywhere | the quarantine drains, reads settle |
| `CacheRefresh` | 2 readers of one replica, one of which may force, a mutation, an out-of-band write, 1 flusher, 1 failure and 1 attempt; ~1.3*10^6 states | entries stay fenced but for `LateRefreshes`; the quarantine covers; a computation that a forced read fenced never overwrites what it stored |
| `MediaCreate` | 3 `createTask` calls, poll loop with deadline, cancel, apply, all faults, 1 crash | one provider job; success has files |
| `MediaFinish` | 1 `createTask`, 1 cancel, a webhook, 2 applies, edits that throw before or after they write, poll loop within its deadline, 2 crashes | watched, finished, cancellation sticks; applied once, uploads accounted for, applies settle |
| `MediaBudget` | 5 calls (1 retry) on 2 instances, 4 tasks, budget for 1 or 2 of them | budget, refusals, chain |
| `CronLock` | 2 instances of 2 slots, 2 jobs of 2 attempts, stalls, failing handlers and scheduler commands | no overlap, no needless skip |
| `CronRecovery` | 2 instances, 1 crash, failing commands on locks and of the purge, a guarded, a late and a retired task | locks released, schedulers back, a purge leaves only what it failed to remove |
| `StreamEvents` | 2 subscriptions, 2 events, 2 connections, refusals, `close()` | exact streams, wake-ups, no leaked handler |
| `MutationPipeline` | posts with tags through a junction, and roles; one write of any of five kinds, a page on the post or the junction's list, 1 disconnection | read-your-writes; pages converge; own writes are shown |
| `UploadLifecycle` | 2 openings of the form, 2 files, one kind of mishap at a time | saved files stay; unused files go |
| `AiAssistant` | 2 questions, 2 conversations, 1 stall, 1 mishap | answers belong, questions take turns and settle |

The bounds are the least at which the hazard needs every actor it has. Cache: a
stale write takes one reader, one mutation and, with the lock, a reader on the other
replica; with two tags an invalidation of one or of the other falls between the GETs
of a snapshot (with a floor taken at the reply instead of at each GET, TLC finds
`ReadSeesFence` violated); with a mutation that invalidates both the properties hold
as well, in 3*10^6 states, too many for a run; two failures let the retry of an
invalidation fail as well as its first attempt. In `CacheRefresh` the unforced
reader stores what the forced one compares with and is the computation it fences; a
late value needs two changes of the source, one for `onChanged` to report and one
during it, and the flusher's return can lift the mark of a mutation whose only
attempt fails. Without the exceptions TLC finds `FencedEntries` and
`QuarantineCovers` violated in this instance. An answer with a late value takes a
third reader, whose state space exceeds a run's time: `ReadSeesFence` is checked in
`CacheFencing`, and for forced reads it rests on the theorem. Media: the third
creator sees the claim of the second race's winner; the second crash falls after a
restart has resumed the loop; the second apply waits for the first. Budget: with a
retry and two contenders on each side every pair races within and across instances.
Cron: a stalled job is in two slots at once, so two jobs fill all four slots.
Stream: two events are needed for order, two connections for a subscription that
begins while the bus closes. Pipeline: the post embeds all four resources (its own
row, a tag by reference, the junction, the role), so one write of each kind reaches
it by every path; a second write only repeats the race with other versions; its page
is left, opened again and mounted again. Upload: one form abandons or saves what the
other one replaces or deletes. Assistant: the second question waits for the first or
is asked in another conversation; in larger instances (3 questions without stalls; 2
attempts without stalls) the properties hold too.

Symmetry is used only in runs without liveness (`MediaCreate`, `CronLock`);
calls, instances and jobs of one kind are compared with nothing but each other.
Deadlock is not checked where everything may stop: in `StreamEvents` once the
clients stop asking, in `MutationPipeline`, `UploadLifecycle` and `AiAssistant`
once the users do, whose bounded actions are used up. Elsewhere an explicit
`Quiescent` step says what a legal rest is: a call that still runs makes a
stop a deadlock, a call that waits for the chain in front of it is left to the
liveness properties.

A type invariant `TypeOK` stands in each module; four runs check it. The
properties that a test would hardly reach:

* `FencedEntries`, `ReadSeesFence`: four to eight steps of two requests before
  a stale value could be stored or answered, under a snapshot that may be of no
  single moment. `EpochsIgnored` and
  `HitWithoutRecheck`, the mutants, are the two checks the code makes for it.
* `QuarantineCovers`: relates what `invalidateTags` returned with the provider
  and the local mark, whichever of them holds the line while invalidations
  overlap and fail.
* `SupersededNeverOverwrites`: what a forced read promises about others: a step of
  the computation it fenced, long after the two have parted.
* `OneProviderJob`, `SucceededHasFiles`, `CancellationSticks`: over retries,
  crashes and late answers.
* `ActiveIsWatched`, `SubmittedTasksFinish`: a restart must resume the loop.
* `AppliedOnce`, `UploadsAccounted`: three awaits between guard and marker; a
  crash may strand one upload, and the next apply then makes another. The catch
  block removes the upload of a failed edit without asking what the edit has done.
* `InBudget`, `NoOverRejection`, `RefusedStopsCounting`.
* `NoOverlap`, `SkipOnlyWhileRunning`, `LocksReleased`, `SchedulersRecover`,
  `PurgeLeavesNothing`.
* `StreamIsExact`, `NoLostWakeup`, `ClosedLeavesNoHandler`, `EventsArrive`.
* `ReadYourWrites`: over two caches, the role's permissions and the hooks' own
  queries, whose keys carry different tags. `ViewsConverge`: an event may come
  in the middle of a refetch. `OwnWritesShown`: without a socket, by the browser's
  own idea of what is linked. Both name the first loads that an invalidation
  overtakes, which the code does not repeat.
* `SavedFilesExist`, `NoOrphans`: who deletes a file, and that somebody does,
  among a page, a draft, a hook, a cancellation and a timer.
* `AnswersBelong`, `QuestionsTakeTurns`, `QuestionsSettle`: a conversation is
  put together from a mutation, a poll, an effect and a history.

Every property has a mutant in `PROJECT.json`: an operator of the module,
defined beside the one it replaces, that is a bug the code could have had.

## 4. Fairness

Promises are settled and timers fire while a process runs: weak fairness of the
steps of each started call, poll round, reader, flush and cron execution. The
world owes what the code counts on: the provider finishes its jobs, a
supervisor restarts a dead process, Redis answers and expires keys. Clients owe
nothing: no fairness on starting a request, a cancellation, an apply, a `next()`
or a `return()`, on publishing, on BullMQ's ticks or on crashes; nor do users on
opening, leaving or submitting a page, asking, or choosing a conversation, nor
sockets on connecting. Strong fairness
is asked of one action, the poll loop's deadline, which is passed between any
two rounds once it has gone by; `MediaFinish` has no deadline and does not use
it.

## 5. Proofs

For every value of the constants allowed by the modules' assumptions:

| Theorem | States |
|---|---|
| `CacheRuntimeProofs!TypeCorrect` | `Spec => []TypeOK` |
| `CacheRuntimeProofs!EntriesStayFenced` | `[]FencedEntries` |
| `CacheRuntimeProofs!ReadsSeeTheirFence` | `[]ReadSeesFence`, for keys of any number of tags |
| `CacheRuntimeProofs!QuarantineHolds` | `[]QuarantineCovers` |
| `CacheRuntimeProofs!RefreshesAreKept` | the action property `SupersededNeverOverwrites` if invalidations have attempts left and no lock is used (below) |
| `CacheRuntimeProofs!UnlessLateRuntimeImplementsFencedCache` | the runtime implements `FencedCache` in behaviours where no value is stored after `onChanged` |
| `CacheRuntimeProofs!RuntimeImplementsFencedCache` | in particular without forced reads |
| `MediaTaskProofs!TypeCorrect` | `Spec => []TypeOK` |
| `MediaTaskProofs!SubmittedOnce` | `[]OneProviderJob` |
| `MediaTaskProofs!SuccessComesWithFiles` | `[]SucceededHasFiles` |
| `MediaTaskProofs!AppliedAtMostOnce` | without storage faults, `[]AppliedOnce` |
| `MediaTaskProofs!UploadsStayAccounted` | without storage faults, `[]UploadsAccounted`; edits may throw before or after they write |
| `MediaTaskProofs!ActiveStaysWatched` | `[]ActiveIsWatched` if only the storage and an edit's hooks fail and results keep to `maxFiles` |
| `MediaTaskProofs!CancelledSticks` | the action property `CancellationSticks` under the run's hypotheses (below) |
| `MediaBudgetProofs!TypeCorrect` | `Spec => []TypeOK` |
| `MediaBudgetProofs!BudgetHolds` | `[]InBudget` |
| `MediaBudgetProofs!RefusalsHold` | `[]RefusedStopsCounting` |
| `MediaBudgetProofs!RefusalsAreDue` | the action property `NoOverRejection` |
| `RealtimeStreamProofs!TypeCorrect` | `Spec => []TypeOK` |
| `RealtimeStreamProofs!StreamsAreExact` | `[]StreamIsExact` |
| `RealtimeStreamProofs!WakeupsAreNotLost` | `[]NoLostWakeup` if no SUBSCRIBE is refused or no client waits twice at a time |
| `RealtimeStreamProofs!HandlersAreRemoved` | `[]ClosedLeavesNoHandler` |
| `UploadLifecycleProofs!TypeCorrect` | `Spec => []TypeOK` |
| `UploadLifecycleProofs!SavedFilesAreKept` | `[]SavedFilesExist` |
| `MutationPipelineProofs!LinkedTables` | `LinkedCoversDependents` |
| `MutationPipelineProofs!AnswersAreSeen` | `[]ReadYourWrites` for declared requests and plain m2m relations (below) |
| `MutationPipelineProofs!TypeCorrect` | `[]TypeOK`, of the same deployments |
| `AiAssistantProofs!TypeCorrect` | `Spec => []TypeOK` |
| `AiAssistantProofs!Belonging` | `[]AnswersBelong` |
| `AiAssistantProofs!TakingTurns` | `[]QuestionsTakeTurns` |
| `CronTasksProofs!TypeCorrect` | `Spec => []TypeOK` |
| `CronTasksProofs!ExclusiveTasksNeverOverlap` | `[]NoOverlap` if no handler outlasts its lock |
| `CronTasksProofs!SkipsGiveWay` | `SkipOnlyWhileRunning` without crashes and lock faults |
| `CronTasksProofs!PurgeIsComplete` | `[]PurgeLeavesNothing` |

*Cache.* `TypeOK` is not inductive: a joined reader's leader must ask for the
same key, and a captured local snapshot must be a function on the reader's
tags (`TypeInv`). Fencing needs `FenceInv`: a label says which snapshot its reader
holds and whether it has notified (`Places`); the fence is never above the
source; a snapshot is never ahead of the provider's epochs; and a value computed
under a snapshot that is still current is at or above the fence, unless its
reader has notified. The conditional write compares exactly those epochs, so its
step maps to `Put` when no late value is stored; invalidation maps to
`Invalidate`, expiry to `Drop`, everything else stutters. Forced reads are in:
what D1 does to the store is a name (`LateRefreshes`) and not a hypothesis, and
once a value is in that set it stays (`LatesKept`), since its reader has settled.

`ReadSeesFence` speaks of what readers get, not of what is stored, and needs the
path of a value to them (`ReadInv`): what the provider returned was at or above
the fence when it was read, or late, and equal epochs before and after mean that
the fence did not move; a reader's floor is at most the fence of its time; a
reader joins only a computation under its own snapshot, whose leader captured no
earlier than the reader's floor demands. A forced read's own value is at least as
new as the fence that came before it (`Forces`). The epochs of a snapshot come one
by one, so the floor of a tag is what its fence was when its own GET was served, and
between the first GET and the last `ServedInv` keeps what the recheck will conclude:
an epoch got for the second snapshot that equals the first one's comes with a cached
value new enough for it (`ServedCached`), and one that equals the snapshot of a
computation in flight with whatever that computation has seen (`ServedShared`). Each
step of the invariant says what it leaves of the computations in flight
(`LeadersKeep`) for that.

`QuarantineCovers` needs `QuarantineInv`: from the begin of an invalidation on,
each of its tags that is not `raced` is either fenced at the mutation's version or
`Marked`: on the replica's list, with no invalidation of that tag on the
replica whose script has run and which has yet to return. `Marked` is what makes
it inductive, because only such an invalidation lifts a mark. Another one that still
tries when this one begins cannot hurt: if its script runs it does so after the
commit, and fences this mutation's version too.

A forced read and the computation it fences meet only at the provider. `RefreshInv`
follows both: no snapshot is ahead of the epochs (`SnapsBehind`); a value is stored
only under a snapshot, and a forced read that has stored is past its fence
(`Course`); a computation in flight is run by a reader that has not answered yet
(`Led`); and once it is fenced, either the fence is still trying or every epoch of
its snapshot is behind the provider's (`SupersededFenced`), which the conditional
write compares. The end of the fence must then mean that the script ran, which is
what `RetriesLeft` carries: an attempt remains for every failure that may still come
(`MaxFaults < Attempts`). Without it the statement is false, by the mark shared
among invalidations (D9): TLC finds two overlapping writes that lift the mark of a
fence that failed. In `CacheRefresh` a fence may fail for good (`MaxFaults =
Attempts`) beside one mutation, which the theorem leaves out. The other two
hypotheses exclude what nothing in the code fences: a waiter for the lock (D23), and
a key without tags.

*Budget.* A call stands in its instance's chain until its reservation settles, and
what is being summed or refused is the head of its chain (`ChainOrder`); so no other
call of the instance is between its insertion and its decision, which is
`NoOverRejection`. For `RefusedStopsCounting`, what writes a refused task's row again
is a submission of the same key, and then the task is `Disputed`. The sum
of `InBudget` runs over a set that grows at one step only, a `Check` that lets a
task through, and there it lies within what has just been summed; every other step
keeps or shrinks it (`CountedShrinks`), and costs of subsets are no larger
(`CostGrows`).

*Media.* `TypeOK` needs `JobsExist` (a status or result is read only of a job
that exists) and `WorksAtHead` (an apply call that works is the head of its
chain, so settling removes that very call). One job: at most one call has got
past the claim (`OneWinner`), and from then on no statement makes the row
`pending` again (`NeverClaimableAgain`). Success with files: the row, and the
output an apply call holds while it works, list files (`WorksWithFiles`), which
the marker's unconditional write preserves. `AppliedOnce` and `UploadsAccounted`
count files: apply calls of one task are serialized, so a call that uploads
found neither marker nor file, and every other file is owed to a crash. An edit that
threw after it had written loses its upload to the catch block, and the record then
names a file that is gone: `torn`, and only that (D24). Their
hypothesis excludes failing deletes and a `getUrl` that throws, after which the
code does leave a second file (D5). `ActiveIsWatched` follows the handover of the
task from creator to poller, including the bootstrap's; a provider or event-log
fault, or a result over `maxFiles`, ends the loop for good (D4), hence the
hypothesis. `CancellationSticks` needs one creator, no faults, no expiry and no
result over `maxFiles` (an edit's hooks may throw): each of those is an
unconditional write of the status (D2, D3). What is left are the writes guarded by
`expectedStatus`, and the marker, whose copy of the row is no older than the success
it names.

*Cron.* `TypeOK` needs that a slot in use holds a job that has a task
(`SlotsHoldJobs`). No overlap needs `LockIsHeld`: each slot inside a guarded
handler holds the lock of its task under its own job's id, and is the only one.
A stalled job in two slots is why the invariant speaks of slots, not of jobs.
The assumption `MayOutlast = FALSE` is the TTL; without it the statement is
false (D6). A skip gives way because a lock that is held belongs to a slot inside
a handler (`HeldIsRunning`), as long as nothing that holds one dies and no DEL
fails (D7); a handler may outlast its lock here. The purge needs no hypothesis:
at each of its places what is not yet in the listing is removed or left
(`PurgeProgress`), no instance upserts a scheduler of a task it does not define
(`StartsDefinedTasks`), and a job that a worker took counts as tried, so it is
not the purge's any more (`TakenIsTried`).

*Stream.* An iterator's events are those handed over, queued, and in its connection's
inbox; their concatenation grows only at its end, and the end is the counter of
published events, so it is sorted and complete from the later of the iterator's
birth and the connection's. `StreamIsExact` needs no hypothesis. `NoLostWakeup`
needs that teardown ends every waiting `next()`; a refused SUBSCRIBE ends only
one (D11). `ClosedLeavesNoHandler` needs for each handler a registration that
still knows its teardown.

*Upload.* `Base` holds whatever happens: types, that a page takes for pending only
what it uploaded and holds, and that a page waits exactly while its call runs.
The rest (`Careful`) holds while none of the circumstances that
`SavedFilesExist` excuses has happened, so the invariant is
`Base /\ (Good => Careful)`. Its heart is `DoomedUnwanted`: a file that is gone,
being deleted, cancelled while pending or about to be removed by a hook is in
no record, no draft, no unanswered upload and no form that can still write.
Nothing becomes wanted again (`WantedShrinks`), and whatever dooms a file does so
to an unwanted one (`DoomedGrows`): the sweep by `Held`; a cancellation because
the page that uploaded a file is its only carrier (`OneCarrier`) and a pending
file is in a record only between the handler and the after-hook
(`PendingWritten`); the after-hook because the form is its record's only editor
and was begun with the record's files (`OneEditor`, `OldIsStored`, `Keeps`). The
proof attempt found a behaviour of four pages that the property as first
written did not excuse (a new page restores a draft with a file that another
page's save still carries on the server); `Open` now records it.

*Pipeline.* `LinkedCoversDependents` is what the browser's comment says of both
cache layers: the browser has no edge for an m2m property, so it needs that a
junction references the tables it joins (`JunctionsReference`).

`ReadYourWrites` needs to know how old a value may be at every place it passes
through. `Due(k, s)` is what a value stored under the key `k` has to have of the
record `s`: the versions answered, and those written by a mutation that is past
`k` (`Passed`), one with none of `k`'s tags left to invalidate (`Pending`). The
invariant says that a cached value has what is due of all it covers
(`EntriesDue`); that a fetch has it for every read it may still store, of what it
has read so far for that read, and has its own floor in what it has seen
(`FetchDue`, with `Seen`, `Got` and `Live` for the places of a fetch); and that
nothing is ahead of the database (`Behind`). Two facts carry it. A page's key in
the HTTP cache has the tags of the inner keys, so less is due under it, and what
an inner cache gives is recent enough for it (`DueWithin`). And a mutation that
writes a record has, from then until it is past them, a tag of every key that
covers the record still to invalidate: `RecordsDropped` for the rows its request
names, `LinksDropped` for those the m2m hook writes, `BulkLinksDropped` for those
of a bulk deletion, whose hook has invalidated too early. A step of a mutation
then adds nothing to what is due under the keys it leaves (`MutationKeeps`), and
its answer nothing at all, as it is past every key. These three lemmas are where
the deployment matters. `Declared`: requests name rows of their resource, and a
custom action lists it under `invalidates`. `PlainRelations`: the m2m properties
are between different tables (D21). `OpenJunctions`, if rows are deleted in bulk:
who shows a junction's rows shows the tables it joins as well (D22).
`MCMutationPipeline` assumes the three of its instance, so TLC evaluates them.

*Assistant.* Types need `TasksExist`: a job, a call of `runChatJob` and a post that
got so far have a stored task, since the widget opens the conversation a task
names. The two list properties need that one question at a time is on its way
(`OnePost`, `OneInFlight`); that every question shown is answered, given up or the
one on its way (`ListShown`); and that whatever is posted, stored or about to be
reopened is such a list with its question last (`ListsPosted`), because a
conversation reopened from a task becomes the list shown. The last three hold
until a conversation is left during a post (`crossed`, D19). The lemmas on lists
say what appending a question or an answer does to them.

Model-checked only: all liveness (out of the prover's reach, as is ENABLED). Every
invariant and every action property of a run is also a theorem, some under the
hypotheses named above.

## 6. Divergences met while modelling

Where the code and a sentence in the repository, or two parts of the code, differ.
Each fails in the modules of section 2 under constants, or without the exception,
that its passing run names; the hazards list them at their lines.

* **D1** `revalidate` takes its write snapshot after awaiting `onChanged`; a
  mutation in between is not noticed and the older value stays until its TTL,
  though the comment above says that the value is not cached
  (`core/src/actions/cache-runtime.ts:434-447`). `FencedEntries`, `ReadSeesFence` and
  the refinement except these values, `LateRefreshes`, and nothing else; with one
  change of the source only, as a test would have it, none ever is too old.
* **D2** `createTask` writes `running` unconditionally after `provider.create`,
  undoing a cancellation (`nest/src/media-generation.service.ts:255`), while
  "Completion never overwrites cancellation." (`core/CHANGELOG.md:111`).
  `CancellationSticks` fails with two creators.
* **D3** Cancellation is also overwritten by the poll loop's expiry (`:842`,
  `MayExpire`), by the catch block after an event log failure (`:279`, `Faults =
  {"events"}`), and by the apply marker when a cancellation that had read the
  running task lands late (`:451`); that late cancellation in turn overwrites the
  success and its files (`:303`). `CancellationSticks` is about completion: it
  does not speak of the marker, and its run has one creator, no expiry and no fault
  but in the hooks of an edit.
* **D4** A running task is never finished if the process died before its job id was
  stored (`:147`), if `buildWebhookUrl` threw after the claim, outside the `try`,
  for a bad configuration (`:245`, not modelled), if one `getStatus` threw (`:822`),
  or if the provider returned more than `maxFiles` files. `SubmittedTasksFinish`
  speaks of stored jobs, and its run has no provider faults and keeps to `maxFiles`.
* **D5** `applyResult` after a failed `getUrl` uploads a second file (`:445`), and
  so does the one after a crash between the upload and the marker; `AppliedOnce`
  and `UploadsAccounted` allow one per crash, and their run has no storage faults.
* **D6** A handler that outlasts the 300 s lock overlaps the next invocation, whose
  lock its unconditional DEL then removes; `cron-task.decorator.ts:12-13`
  promises a skip. `CronLock` has `MayOutlast = FALSE`.
* **D7** After a crash, or a DEL that failed, the redelivered job finds its own
  lock, is skipped and counts as completed (`cron.processor.ts:57`).
  `SkipOnlyWhileRunning` is checked without crashes and lock faults.
* **D8** Each start removes the scheduler of a task that registers late, with the
  iteration that was armed; `SchedulersRecover` says it comes back.
* **D9** Two overlapping invalidations of a tag share one quarantine mark, so the
  one that succeeds lifts the mark the failing one needs (`cache-runtime.ts:484`).
  That matters only if the script of the first has run and it has not returned
  when the second begins; `QuarantineCovers` excepts those tags (`raced`) and the
  theorem says that no other overlap can. The fence of a forced read is such an
  invalidation: if it fails, two overlapping writes may lift its mark, and the
  computation it fenced then overwrites what the forced read stored
  (`SupersededNeverOverwrites` with `Attempts = 1` and two mutations that are not
  `OutOfBand`). `RefreshesAreKept` asks for an attempt more than there are failures.
* **D10** While a tag is quarantined all snapshots are null and equal, so a read
  begun after a write joins a computation begun before it. `ReadSeesFence` speaks
  of reads under an epoch snapshot.
* **D11** A refused SUBSCRIBE leaves the handler in the bus, ends only one of
  several waiting `next()` calls, and makes every later `subscribe` fail until
  `close()`. `ClosedLeavesNoHandler` speaks of registered subscriptions;
  `MaxPulls = 1` is what graphql-js does, which awaits each `next()`.
* **D12** `close()` of the bus drops handlers that subscribed meanwhile;
  `StreamIsExact` and `EventsArrive` end with `close()`.
* **D13** A retry refused because another instance holds a reservation fails the
  running task of its own request and frees its cost. `InBudget` leaves out
  exactly these disputed tasks; the service's comment declares cross-instance
  exactness out of scope.
* **D14** An after-hook that throws (the m2m hook, say) skips the invalidation
  that follows the hooks, although the handler has written
  (`core/src/modern-admin.ts:584`); the old value stays cached until its TTL.
  `ReadYourWrites` speaks of writes that were answered. What it does to the upload's
  own hook and to an applied media result is in D17, D18 and D24.
* **D15** A page fetched before its socket has joined the rooms, or in a gap between
  two connections, misses events, and nothing refetches after a reconnection
  (`react/src/realtime-socket.ts:47`). `ViewsConverge` speaks of pages fetched
  within a connection (`covered`), and not of the rows' actions: editing a role
  makes no other page refetch them.
* **D16** A custom action with `invalidates` drops the caches but publishes no
  event (`modern-admin.ts:682`); a GET of `edit` or `new` publishes one.
* **D17** An upload may finish after its form was submitted (submitting is not
  blocked meanwhile) or left; it then replaces and cancels a file that is being
  saved or is in the draft (`react/src/property-renderer.tsx:650`). A draft may
  also be restored after its files were swept, and a create whose reply was lost
  leaves a draft that makes a second record with the same files. And `uploadFeature`
  appends its after-hooks behind those of other features
  (`feature-upload/src/upload-feature.ts:16-18`): if one of them throws after the
  write, the saved key is never confirmed and the sweeper deletes its file.
  `SavedFilesExist` names these circumstances.
* **D18** `bulkDelete` runs no upload hook, and the registry is lost with the process
  (`feature-upload/src/pending-registry.ts:63`): the files stay for ever. So do the
  files that a save replaced, or a deleted record had, if another feature's
  after-hook threw before the upload's. `NoOrphans` names these circumstances.
* **D19** A conversation left while its post is in flight: `onSuccess` makes the
  widget follow the task of the one that was left, appends its answer to the one
  now open (`ai-assistant-widget.tsx:138`), and displaces the task it followed.
  `AnswersBelong` and `QuestionsSettle` leave out these posts (`crossed`).
* **D20** A chat task stays `running` if the settings refuse it after it was marked
  (`ai-assistant.service.ts:262-274`), and `pending` if `queue.add` failed; a job
  that stalls a second time is one more than BullMQ's `maxStalledCount` of 1
  forgives: it fails without another `runChatJob`, `onFailed` only logs
  (`ai-assistant.processor.ts:28`) and the task stays `running`, so
  `QuestionsSettle` is about one stall (`MaxStalls = 1`). A task whose first poll
  failed is not polled again. In each case the widget follows it, and queues
  questions behind it, until the user leaves the conversation. A task reported as
  failed may also succeed later, when BullMQ tries again, and a conversation
  reopened after a failure does not mention it.
* **D21** `getCacheDependents` skips a resource's own entry
  (`core/src/modern-admin.ts:306`), and an invalidation that names rows spares the
  others' pages (`:342-354`). The page of a record with an m2m property onto its own
  table embeds other rows of it and keeps their old version until its TTL.
  `AnswersAreSeen` asks for `PlainRelations`.
* **D22** The delete hooks of `bulkDelete` run, and invalidate the junction's tags,
  inside the transaction (`core/src/actions/built-in/bulk-delete.ts:46-80`): a read
  before the commit stores the old rows again. The invalidation after the handler
  reaches the pages that depend on the deleting resource; a page of another one
  that shows the junction keeps rows that are gone. `AnswersAreSeen` asks for
  `OpenJunctions`.
* **D23** "A forced read supersedes an older fetch of this key, [...] so it cannot
  later overwrite the refreshed response" (`cache-runtime.ts:416-418`), but the
  older fetch that waits for the cross-replica lock takes a new snapshot
  when it gets its turn, after the fence, and may store over the refreshed value:
  `SupersededNeverOverwrites` fails with `Locking = {c2, c4}`. Nor is a
  computation fenced that a read under a null snapshot has displaced from
  `inFlight`: the forced read looks for it there.
* **D24** `applyResult` takes any error of the edit for one that wrote nothing and
  deletes the uploaded file (`nest/src/media-generation.service.ts:437-440`), but
  `invoke` may also throw after the handler has written, in an after-hook or while it
  annotates the answer (`core/src/modern-admin.ts:584-603`): the record then names a
  file that is gone. `UploadsAccounted` names these uploads (`torn`).
* **D25** "Marks stale (active queries refetch immediately, inactive on next mount)"
  (`react/src/hooks.ts:113-114`). TanStack Query (5.105.3, `Query.fetch`) cancels a
  running fetch only if the query has data, and `placeholderData` (`:231`) is none:
  an invalidation during the first load of a page joins that load, whose success
  clears the mark. What was read before the write stays on the page until the next
  invalidation, or a mount after `staleTime` (`react/src/provider.tsx:28-29`);
  events and the page's own writes are alike in this. `ViewsConverge` and
  `OwnWritesShown` name these loads (`overtaken`).

## 7. Not modelled

Adapters, filters, decorators, GraphQL schema generation, controllers, the list
page, the settings, the dialogs and charts, and the tools are sequential
translations of data without shared state. Better Auth, BullMQ, Redis, socket.io,
TanStack Query, the LLM and the media provider are external and modelled by what the
code counts on. In `MutationPipeline`: access denial, unsubscribing, TTLs and
principals of several roles. In `UploadLifecycle`: two people editing one record at
a time (the later save of the whole form may bring back a key whose file the earlier
one deleted). In `MutationPipeline`, what the query cache keeps of pages visited
earlier: a page is opened without data or mounted again with its own. In
`MediaTask`, a `store.list` that fails at the start: it is logged and nothing is
resumed (`media-generation.service.ts:131-143`). In `CronTasks`, a SET that sets the
lock and whose reply is lost. In `RealtimeStream`, a handler that throws
synchronously, which keeps the later ones from the event (`redis-bus.ts:92-94`). In
`AiAssistant`: the tools and their side effects, and the lookup of a repeated
`requestId`, which the widget never sends twice. The dashboard's blob, read, changed
and written as a whole by its page and by the assistant's tools, has no guard
against a lost update and so nothing to check. Retention, history, the
cross-instance cache and authentication have no module yet.

## 8. Plan

1. `CrossInstanceCache`: lost and late invalidation events between processes.
2. History as an after-hook of `MutationPipeline` that may fail, and the revert.
3. Overlapping edits: `applyDiff` of the m2m feature row by row.
4. Pure algorithms (filter parsing, record diff) against reference definitions.

Compositions: `MutationPipeline` uses what `FencedCache` promises in place of
`CacheRuntime`, which `UnlessLateRuntimeImplementsFencedCache` justifies up to D1,
and extends `ReferenceGraph`.

Next theorems: `RefreshesAreKept` with readers that take the lock, once a waiter's
newer snapshot is fenced too (D23).

Checking: `tlc -workers 2 -config <Run>.cfg <module>` with the module named in
`PROJECT.json`, `tlapm <module>.tla` for the proofs.
