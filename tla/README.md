# A specification of the engine's concurrent and stateful core

The repository is a C++ engine: ten library modules under `src/modules`, a
studio application, a command line tool for extensions, and sample extensions.
This directory holds TLA+ models of the parts whose correctness depends on the
order in which things happen, the TLC configurations that check them on small
instances, and theorems about them, proved with the TLA+ proof system.

Every definition is translated from the C++ sources; `PROJECT.json` maps each of
them to the lines it stands for, and lists the hazards of the code, the runs, a
mutation of the code for every property, which makes it fail, the findings and the
theorems. Paths below are relative to `src/modules`.

Contents: 1 inventory, 2 plan, 3 the modules, 4 the runs, 5 fairness, 6 the
proofs, 7 findings, 8 known weaknesses, 9 what is not modelled.

## 1. Inventory

### Tasks (`core`, `task/`)

| Part | State | Operations |
|---|---|---|
| `ThreadPool`, behind `Scheduler` and `IoExecutor` | one mutex, a bounded deque, `stopping`, a condition variable, the worker threads | `Submit`, `RequestStop`, `Join`, the loop of each worker |
| `CompletionQueue` | one mutex, a bounded deque, `stopped` | `SubmitWork`, `Drain`, `RequestStop` |
| `Future`, `Promise` | a result and a list of continuations under one mutex, `ready_cv` | `Set`, `Attach`, `Then`, `Wait`, `Schedule` |
| `WhenAll` | `remaining`, values or errors, `completion_claimed`, the output promise | attaching, the callbacks, the last look |
| `ParallelFor` | atomic `next`, `remaining`, `failed`, the first error | submitting, claiming chunks, `finish` |

*Interaction.* A work is a pair of functions, run and reject. Executors call one
of them. Run and reject set a promise; setting a promise runs its continuations
on the same thread, and each of these submits a work to an executor, which may
refuse it, in which case another promise is set on the same thread.

*Hard.* Notifications are sent after the lock is released. Jobs call the pool they
run on: they submit, stop it and join it. A stop takes the queue away under the
lock and rejects its works without it. A full executor turns a continuation into a
nested `Set`. Loop counters are `size_t`.

*Correct.* Every accepted work is run or rejected, once, in order, and nothing
starts after a stop; no worker sleeps beside work or through a stop; every future
that was returned is set, every continuation is run once and reads a result that is
there; combinators complete once, with what their parts came to.

### Assets (`asset`) and the file watcher (`platform`)

| Part | State | Operations |
|---|---|---|
| `AssetManager` | records per asset (state, revision, generation, load in flight, waiters), resident bytes, prefetch slots, a publication queue | `Request`, load, validate, publish, `Pump`, `Invalidate`, `ReleaseUnused`, `PublishAtomic` |
| `AssetDatabase`, `ReloadCoordinator` | records and an epoch; pending hints | transactions, `Save`; `Push`, `Pump` |
| `DependencyGraph` | edges and reverse edges | `Replace`, `Remove`, `TransitiveDependents` |
| product cache | a file, a lock directory, temporary and quarantined files | `Load`, `Store`, `Remove` |
| file watcher (Linux) | watches by path, a bounded list of events, flags, one thread | `Run`, `Handle`, `Rebuild`, `Drain`, `Stop` |

*Interaction.* The watcher's owner turns events into hints; the coordinator commits
what changed to the database and invalidates in the manager; loaders on the I/O
lanes commit to the same database and save it. The manager's record is changed by
callers, by the lanes and by the owner's pump.

*Hard.* `Request` releases its mutex between looking at the record, scheduling the
load and registering it. Loads outlive the revision they were started for. Any of
three executors can refuse. Transactions work on copies. The cache is shared by
processes that may die at any point. The tree changes while its watches change.

*Correct.* One load per asset at a time; nobody is answered with content older than
what had been invalidated when they asked; `Ready` means the latest content; every
request is answered; bytes and slots are accounted for. A commit loses nobody's
changes. What a caller was told is on disk is there. Invalidation reaches exactly
the dependents. The owner learns of every change.

### Extensions (`extension`)

| Part | State | Operations |
|---|---|---|
| package store | per id: a package directory, staging directories, backups, one lock file | `InstallDirectory`, `InstallArchive`, `Remove`, recovery of what was interrupted |
| manager, runtime, event queue | registry, sessions, statuses, a bounded queue of events | scan, load, tick, dispatch, command, unload, drain |

*Hard.* A process may die between any two file operations. Guests emit events, fail
and are loaded from inside the publication of an event.

*Correct.* What a command left installed is never lost; events are published in order
or discarded with the activation that emitted them; the registry says what runs.

### Rendering (`gfx`, `rhi`)

| Part | State | Operations |
|---|---|---|
| `BufferPool` | free list, slots with generations, deferred releases | allocate, free, mark used, collect |
| `UploadScheduler`, texture and mesh libraries | queue, batches in flight, tokens, budgets | enqueue, submit, complete, lose the device |
| `ReadbackService` | entries by ticket, buffers mapped | request, cancel, release, pump, map callbacks |
| `RenderRuntime`: frames | ring of contexts, tickets, recovery state | `Frame`, its ways out, shutdown |
| `RenderRuntime`: surfaces | slots with generations, a swapchain and an acquired image each, retired swapchains | create, reconfigure, destroy, `RenderFrame`, recover |
| scenes | ids, versions, journals, snapshots | mutations, commit, drain, coalesce, apply |
| `GpuScene` | dense table of records, dirty ranges, device buffer | `Synchronize`, upload, recover |
| render graph | versions, passes, order, slots | declare, cull, order, place |
| WebGPU queue | next epoch, watermark, tracking status | `Submit`, completion callbacks |
| encoders (validation and null layers) | flags of encoders and passes, buffers, submissions | record, finish, submit, tick |

*Hard.* Memory the GPU still reads; handles of what was released; what is pending when
the device is lost; callbacks late and out of order; changes of one object by several
writers; two layers that each keep their own flags.

*Correct.* Live ranges do not overlap and free ones cover the rest; nothing is used anew
before the submission that used it is complete; what is shown has landed and is the
newest; committed changes are shown; a pass sees the version it asked for.

### Entities, data structures, user interface (`ecs`, `core/data`, `ui`)

The entity registry (generations, storages, views walked while it changes), slot maps,
and the interaction state of the UI runtime (captures, pressed elements and focus over
a tree reconciled by key). *Correct:* stale handles stay stale, a view visits each
entity it owes a visit once, the UI points to what is in its tree.

### The rest

Mathematics, configuration, importers and encoders, engine bindings, applications and
samples: section 9.

## 2. Plan

Done, in this order: executors and futures; the asset manager; proofs of the pool and
of the completion queue; the database, reload, dependency graph and cache; the package
store and the extension host; buffer pools, uploads, frames and readbacks; scenes, the
device's table, entities, slot maps and the render graph; the file watcher, surfaces,
encoders, submissions and the UI's interaction state; the proofs of section 6.

Left: (1) the watcher and the reload coordinator composed, so that a discarded change
can be followed up to the stale answer; offscreen targets and canvases that sample
them; docking layout and windows. (2) Proofs, in this order: versions of scenes; the
resources of the GPU.

## 3. The modules

Each module's header says what it models and what it leaves out.

**Tasks.** `ExecutorSpec` is the abstract specification of an executor: `pending`,
`running`, `ran`, `disposed`, `stopped`; accept (bounded, refused after a stop), start
(the oldest, never after a stop), return, stop, dispose. `TaskExecutor`
(`core/src/task/executor.cpp`) has an action per critical section or step outside the
lock; a worker in state `scan` is about to hold the lock and evaluate the predicate of
its wait; every actor, client or job, may call any operation. One assumption comes from
the use of the code and not from the code: a `Join` is entered by one thread at a time,
since `threads_` has no lock. `CompletionQueue` keeps, per thread, the stack of `Drain`
calls it is in. Both implement `ExecutorSpec`. `TaskFuture` (`future.hpp`, `Schedule`)
uses an executor at that promise: `frames` is the stack of `Set` calls of a thread, a
refused continuation pushes another. `TaskWhenAll` and `TaskParallelFor`
(`algorithms.hpp`) each model one call, the latter with arithmetic modulo `SizeMax + 1`;
its caller submits the works in turn and waits for none, so that several are queued at
once, a full queue refuses one, and a stop disposes of all that are queued.

**Assets.** `AssetManager` splits `Request` where the code releases the mutex, and a
load in lane, validation, publication; `source` counts the changes of an asset so that
the age of what is served can be stated. `AssetReload` has the coordinator and the
loaders as transactions over a copy of the table and the file they save it to.
`DependencyGraph` has both maps of edges, the depth-first search that refuses cycles as a
function from turn to turn over marks and the path of calls, and the worklist of an
invalidation. `ProductCache` has an action per file
operation of `Store`, `Load` and `Remove`, and the faults of a disk and of processes.
`FileWatcher` has a tree that changes, the kernel's queue of inotify events (external),
the thread's steps and the owner that drains and looks; `blind` holds the paths whose
change nobody is told of (finding 4 and section 8).

**Extensions.** `PackageStore` has an action per rename or removal, any of which may
fail or be the last of its process. `ExtensionHost` keeps the call in progress and those
it interrupted (`call`, `nested`), because everything runs on one thread but nests.

**Rendering.** `BufferPool` is the allocator with its bytes, best fit and coalescing
included, and the deferred releases over it. `UploadScheduler` is the scheduler with
its clients in the order of a frame. `RenderFrames` and `ReadbackService` keep tickets as
how far the GPU is behind them, so that they stay bounded without bounding the frames.
`SurfacePresentation` is `RenderFrame` from acquisition to present with its ways out. A
lost device is recovered where the code does it, inside `Frame`, when the images of the
frame are acquired: the slots and swapchains are replaced under its outputs (`replaced`).
`RenderScene` takes mutations of several threads through writer, journal and coalescing
to the snapshot; `Kind` chooses between objects (patches) and lights (whole values).
`Commit` releases what the mutation destroyed when each identifier is still in use;
`CommitStale` is its way out at the first that is not.
`GpuScene` is the table and its copy on the device. `RenderGraph` builds graphs and
compiles each, with one exported version or none (those of one resource, `Exportable`): culling, order, lifetimes, slots. `SubmissionTracking` is the
watermark of the WebGPU queue, with the compare-exchange as a read and a write.
`CommandRecording` is the validation layer over the null device.

**Data and interface.** `EntityRegistry`, `SlotMap`, `UiInteraction`.

**Proofs.** `TaskExecutorProofs`, `CompletionQueueProofs`, `AlgorithmsProofs`,
`ApplicationProofs`, `SceneProofs`, `AssetManagerProofs`, `AssetsProofs`, and
`SequenceFacts` with the lemmas they share (section 6).

**The `MC` modules** give constants their values and combine modules for a run. Most
combine several modules that share no state: `part` says which of them a behaviour is
of, the others stay as they begin, and a property speaks of the part it is about. What
is checked is exactly the sum of the parts; no interaction is claimed. Definitions
commented as variants are definitions of a module with one mistake: no specification
uses them; they serve to see a property fail.

## 4. The runs

| Run | Parts and bounds | Properties |
|---|---|---|
| `pool` | 3 workers, 2 clients, 3 works (one without reject handler), capacity 2 | `TypeOK`, `WorksAccounted` (`InOrder`, `SettledOnce`), `NobodyOversleeps` (`NoLostWakeup`, `StopSeen`), `ImplementsExecutor`, `PoolSettles` |
| `queue` | queue: 2 threads, 3 works, capacity 2, limits 0, 1 and 3, drains nested twice. Futures: 1 worker, 2 callers, 3 futures, capacity 1 | `TypeOK`, `WorksAccounted`, `ImplementsExecutor`, `FuturesFaithful`, `EverythingSettles` |
| `task_algorithms` | loop: `SizeMax` 15, ranges up to 4, chunks of 1 and 2, up to 3 works, capacity 2. WhenAll: 3 positions over 2 futures and the invalid one | `LoopFaithful`, `CompletesTruthfully`, `OutputsSettle` |
| `manager` | callers: 1 asset, 2 requests, 2 threads, lane and publications may refuse, 2 changes. Budget: 2 assets of sizes 1 and 2, budget 3, batches of one or both | `ServesFresh`, `WithinBounds` |
| `assets` | manager: 1 caller, 2 requests, the lane may refuse. Reload: 2 assets, 2 contents, 2 loaders, 1 hint, loads start before epoch 2. Graph: 4 assets. Cache: 2 processes, 2 faults. Watcher: a file, a directory of 2 names, room for 1 event, kernel queue 2, 3 changes | `ReadyIsCurrent`, `AnsweredIsKept`, `GraphExact`, `NothingMissed`, `TableFaithful`, `AssetWorkEnds` |
| `application` | tracking: 4 submissions. Host: 2 extensions, queue of 2 events, 1 per drain. Store: 2 processes, 2 versions of one package. Surfaces: 2 sizes, 2 surfaces, 2 frames, 1 recovery. Commands: 2 encoders, 2 commands each, 2 submissions. UI: 2 keys of content, 2 of a component, 2 pointers, 4 elements | `HostConsistent`, `Recoverable`, `SuccessLeavesNoStaging`, `SurfacesFaithful`, `CommandsRunOnce`, `WatermarkTruthful`, `WatermarkAdvances`, `InteractionFaithful`, `CallsEnd` |
| `gpu` | pool: 8 bytes, requests of 1, 3 (aligned 2) and 2 (aligned 4), 3 allocations, 2 submissions. Uploads: 1 mesh of 2 levels, 1 texture of 2 generations, 5 bytes and 4 requests queued, 2 and 2 a batch, 8 works. Frames: 2 contexts, 3 submissions in flight, 1 abort, 1 loss. Readbacks: 3 tickets, 2 queued, 1 loss | `ResourcesAccounted`, `NothingReusedInFlight`, `LandedBeforeShown`, `NothingGoesBack`, `WaitsEnd` |
| `scene` | slots: 3, 3 generations. Scene: 2 mutations, 2 fields, 2 objects, 3 changes, 3 frames. Table: room for 2 at first, 7 steps over 7 snapshots of 2 scenes. Registry: 2 components, 2 entities, 2 generations. Graph: 2 resources of 2 cells, 3 passes | `ShowsWhatWasCommitted`, `HandlesExact`, `ViewVisitsAll`, `GraphSound`, `VersionsAdvance` |
| `manager_superseded` | 1 thread, atomic publication of one asset | a violation of `ReadyIsCurrent`, finding 1 |
| `package_names` | ids `woki.hello` and `woki.hello.pro` | a violation of `Recoverable`, finding 2 |
| `scene_lights` | 1 light | a violation of `CreatedIsShown`, finding 3 |
| `watcher_rebuild` | the watcher of `assets` | a violation of `EveryChangeTold`, finding 4 |

*Composite properties.* Where several invariants answer one question about one part,
the run checks their conjunction under one name, defined in the module or in the `MC`
module, where each conjunct is named and described: `AnsweredIsKept`, for instance, is
what a caller may rely on after an answer, for the table of the database and for the
product cache alike.

*Liveness as `[]<>P`.* The runs' liveness properties say that something comes to hold
again and again. Where P, once reached for a given work, stays (a work that was settled,
a future that was set), this is that every one of them ends so; where it does not (a
lock given back, a call returned), it says that nobody stays in the call for ever, which
is what a leads-to from each call to its return says. One tableau then does for many.

*The bounds.* `pool`: with three workers one can run, one sleep and one be between the
predicate and the wait; capacity 2 and three works fill the queue and leave one to
refuse, and a stop finds works held and queued. `queue`: two threads are two drains at
once, depth 2 a drain inside a published work; limit 0 takes nothing, 1 leaves works
behind, 3 is more than there is; three futures are a chain, or two continuations of one;
capacity 1 makes continuations be refused. `task_algorithms`: up to four chunks for three
works, two of which overrun the end; a queue of two is full when the third is submitted,
and holds two when it is stopped. `manager`: two requests are enough for one that
joins, supersedes or races another, since loads take part in the record only through
`in_flight` and the revision; two assets share the budget and make a batch. `assets`: one
caller, because with two the loads are duplicated (section 8); two writers of each kind
meet in the table and in the cache; four assets have chains and diamonds; a watcher with
room for one event overflows at the second and the kernel at the third. `application`:
two extensions are one that is loaded by the other's event; two surfaces are a slot and
its successor; two encoders are a submission that fails in its second buffer; four
submissions are callbacks in every order. `gpu`: eight bytes hold ranges with gaps of
alignment between them; the pieces of the texture fill one batch and begin another; two
contexts wrap around, and one abort leaves the ring a context; a ring with every context
leaked refuses all frames for good (section 8) and is outside the bound. `scene`: slots reach their last generation; two mutations interleave
in one journal, and one may release what the other is about to; the third change
overflows it; three passes are a producer, a consumer
and one that writes in between; resource 2, transient or persistent, is the one exported.

*Deadlock* is checked in `pool` and `package_names` only. The other configurations say
`CHECK_DEADLOCK FALSE`, because the system comes to rest there: a stopped executor with
nothing to settle, a manager that has answered everything, a watcher that was stopped, a
bound that was reached.

*Symmetry* is used where members of a set are alike and no liveness is checked:
requests in `manager`, mutations and cells in `scene`.

## 5. Fairness

* Threads in the middle of an operation, and workers, are weakly fair: the operating
  system schedules them, and a mutex is held for a few statements.
* A job returns. `core/docs/task.md` asks for short, finite works. As a job may call the
  pool and be interrupted by its own calls, `Return` is strongly fair.
* Nobody has to submit, join, stop, cancel or invalidate, no spurious wake-up is assumed
  to happen, and no fault, loss or refusal is.
* One thread keeps calling `Drain` with a limit above zero, the owner keeps pumping the
  manager (strongly fair, since it may be inside other calls in between), frames and
  ticks go on: that is the application's loop. Texture uploads are submitted under
  strong fairness, since other clients of the frame fill the batch in between.
* The GPU finishes what was submitted and backends call back, unless the device is lost.
* A process that died takes no further step: a process is fair only while it works, a
  command only while it holds the lock.
* The owner of the watcher keeps draining it and looks at what it is told of.

## 6. The proofs

Seven modules and one of shared lemmas. Each `EXTENDS` the `MC` module of its run, so that its theorems are about
the specification and the properties the run checks, for every value of the constants
under the named assumptions. A proof about one part of a run is about the instance of its
module; a last lemma (`OneStep`, `OneSceneStep`, `OneAssetStep`) says that a step of the
composition is a step of every part or leaves it alone, so that each part keeps its own
invariant, and the theorems follow from the conjunction of them.

`TaskExecutorProofs`, for any number of clients, workers and works, any capacity and
any set of works with a reject handler, under `PoolAssumption` (at least one worker, a
capacity of at least one, both ensured by the constructor):

| Theorem | Property | Argument |
|---|---|---|
| `TypeCorrect` | `TypeOK` | inductive with `JobHeld`: a worker is `running` exactly while it holds a work, without which `Return` could not be shown to record a work |
| `AcceptanceOrder` | `InOrder` | inductive with `StopPhase`: after a stop nothing is queued, before it nothing is abandoned. Without it a submission could append behind abandoned works |
| `EachSettledOnce` | `SettledOnce` | inductive over the types, the order and `StopPhase`; the lemma `WhereWorksAre` turns the order into membership: a work that is queued or abandoned was neither taken nor disposed of |
| `WorksAreAccounted` | `WorksAccounted` | the two above |
| `WakeupsNotLost` | `NoLostWakeup` | a submission adds a work and makes one sleeper a scanner; a worker that stops scanning takes a work or found the queue empty. Cardinalities come from the lemma `WorkersFinite` |
| `StopIsSeen` | `StopSeen` | inductive: falling asleep requires that the pool is not stopping |
| `NobodyIsForgotten` | `NobodyOversleeps` | the two above |
| `StopIsFinal` | `NothingStartsAfterStop` | an action property from `StopPhase`: after the stop the queue is empty |
| `PoolImplementsExecutor` | `ImplementsExecutor` | the mapping `pending <- abandoned \o queue`, `running <-` the works that workers hold; every action maps to a step of the promise or to a stutter |

`CompletionQueueProofs`, for any number of threads and works, any capacity, limits and
depth of nested drains, under `QueueAssumption` (a capacity of at least one, ensured by
the constructor; limits that are natural numbers), and for any number of threads,
workers and futures under `FuturesAssumption` (actors are told apart; a capacity of at
least one):

| Theorem | Property | Argument |
|---|---|---|
| `TypeCorrect` | `TypeOK` | inductive with `Counted`: a drain that publishes a work still counts it against its limit, so the decrement after it does not go below zero |
| `AcceptanceOrder` | `InOrder` | inductive with `StopPhase`, as for the pool |
| `EachSettledOnce` | `SettledOnce` | inductive with `HeldOnce`: no two drains, nested in one another or on two threads, publish the same work. `TopReplaced`, `FrameAdded` and `FrameRemoved` say what a step does to the stacks of drains, `HeldTaken`, `HeldReturned` and `HeldKept` what that means for the works that are held |
| `WorksAreAccounted` | `WorksAccounted` | the two above |
| `QueueImplementsExecutor` | `ImplementsExecutor` | `pending <- abandoned \o queue`, `running <- Held`; `HeldOnce` makes the return of a work remove it from `running` |
| `FuturesAreFaithful` | `FuturesFaithful` | the inductive invariant `FutureInv`: the types; `Numbered` (futures are made in order, so a new one is in no place yet); `Apart` (a thread in a `Set` runs nothing inline, a worker's work is held by the executor); `Follows` (a continuation is attached to its parent, and leaves it only when that is set); `NoLostNotify`; `Once`, which gives every future that has not settled exactly one place: attached, taken by one `Set`, or run inline. `OnceSame` and its fellows say what a step does to the places, apart from what it does to results |

With both implementations proved, what `TaskFuture` and `TaskParallelFor` show over
`ExecutorSpec` holds over a pool as well as over a completion queue.

`AlgorithmsProofs`, for `WhenAll` over any number of positions and any futures under
`PositionsAssumption` (at least one position, an empty vector being answered at once;
the caller and the future without state are told apart from the futures), and for
`ParallelFor` over any ranges, chunks and works under `LoopAssumption` and `CallsFit`:
the counter of a loop stays below `SizeMax` when every work has passed the end. The
last is not ensured by the code; without it the property is false (section 8).

| Theorem | Property | Argument |
|---|---|---|
| `LoopCorrect`, `LoopsAreFaithful` | `LoopFaithful` | the inductive invariant `LoopInv`: `QueuedOnce`; `ClaimsApart` (the counter passes the end at most once for each work, so it does not wrap, and what two works have claimed is disjoint); `VisitsOnce` (an index below the counter is visited or claimed, unless a work gave up); `CountExact` (`remaining` counts the works that have not counted themselves out); `ErrorsKept` (an error is stored before its work is counted out) |
| `CompletesWithTheTruth` | `CompletionTruthful` | `AllInv`: the types; `AllPlaced`, a callback is in one place, attached to its future, with the thread that sets it or with the caller; the counter is the number of positions that are `AllUncounted`, which no counter of the code names and without which a callback could not be shown to count once; `AllRecorded`, what was counted left its value or an error; `AllOneCompletion` |
| `CompletesOnce` | `ClaimedOnce` | `AllOneCompletion`: what was claimed is with one actor until it is the output. The caller's last look and the last callback exclude each other, because the counter passes 1 once |
| `CompletionsAreTruthful` | `CompletesTruthfully` | the two above |

`ApplicationProofs`, under `ApplicationAssumption`, which names the assumptions of the
parts, and `EpochsAssumption`:

| Theorem | Property | Argument |
|---|---|---|
| `WatermarkIsTruthful` | `WatermarkTruthful` | for any number of submissions, `TrackingInv`: `completed <= finished < next`; `ReadsArePast`, what a callback has read of the watermark is no later than it, and a callback runs about something finished, so that the exchange that succeeds raises it to something finished; `HealthyIsExact`, while tracking is healthy every submission has a callback and one that is done has left the watermark at its epoch or beyond, which makes the watermark exact when all are done |
| `WatermarkNeverGoesBack` | `WatermarkAdvances` | an action property from `ReadsArePast`: the exchange happens only when its epoch is above what was read, and what was read is what is there |
| `HostIsConsistent` | `HostConsistent` | for any extensions, permissions and limits, `HostInv`: `HostOrdered` (an event is queued once, the first before the second), `HostProgress` (operations that load go over packages of the registry; those that unload are the only ones to replace it, once nothing runs), and the accounts of events |
| `InstalledIsRecoverable` | `Recoverable` | for any extensions, versions and processes, when the name of an extension has a dot in it (so that none is the name `archive` under which archives are staged) and no name is the beginning of another, without which the property is false (finding 2). `StoreInv` with `StoreOnItsWay`, which says what each step of a command may rely on: it holds the lock; before backups are purged, what was promised is in place, because a restore takes the one backup there can be; when the installed package is moved away, no other backup is left, because the purge came before; the backup is dropped when the new package is in place. A command may fail, end or die at any point |
| `SurfacesAreFaithful` | `SurfacesFaithful` | for any number of surfaces, sizes, frames and recoveries, `SurfacesInv`: `ImagesSound`, what a frame acquired has a surface of some size and a swapchain, which holds an image exactly unless the swapchains were replaced during the frame (a surface with a size gets a swapchain again, without an image); each slot is one of `Sound` (an image the surface holds is held by its swapchain; no surface, no swapchain; what was drawn into was marked); `HandlesSound`, no handle is of a generation its slot has not reached, so that the generations given out again are new; `FreeSound`, what is free is free once and without a surface; `HeldSound`, an image that is held is held for the frame at work or was kept by a refused one, which needs that a frame holds nothing before its canvas (`FrameSound`) |
| `CommandsAreRunOnce` | `CommandsRunOnce` | for any encoders, commands and submissions, `CommandsInv`: an encoder that has not finished holds all it recorded, numbered in order, and a buffer what its encoder had recorded (`EncodersSound`); only what is marked ran (`RanSound`), so that a list of buffers without a marked one adds commands of encoders none of whose commands ran (`RunsKeepOrder`, by induction along the list); what a ticket names is marked and ran (`TicketsSound`) |
| `InstallsLeaveNothingStaged` | `SuccessLeavesNoStaging` | an action property from `StoreSwept`: staging directories of earlier commands are swept before a package is staged, or before it is committed when only its content says which extension it is, and only the holder of the lock makes new ones |

`SceneProofs`, for any number of slots and generations (`BoundsAssumption`), of
mutations, objects, fields and frames, any snapshots and capacity of the table, and any
number of entities and components (`SceneAssumption`: what is counted is a natural
number, generations of objects begin with one):

| Theorem | Property | Argument |
|---|---|---|
| `HandlesAreExact` | `HandlesExact` | four invariants. `SlotsInv`: `RemovedIsPast`, the generation of a removed handle is below that of its slot, or is the last one, and then the slot is neither occupied nor free for another value. `ScenesInv`: `Accounted`, `Known` and `Journals`, an identifier is free once or in use, and changes on their way name identifiers that were given out, also after a commit that failed at an identifier another mutation had released. `TablesInv`: `Consistent`, dense records and their indices point at each other, also after a record was swapped into another's place. `RegistryInv`: `TableInv` (generations, positions, free list, dead handles are past) and `Stored` (sparse and dense parts of a storage) |
| `ViewsVisitAll` | `ViewVisitsAll` | `ViewInv`: what is left of a walk holds everything it still owes a visit, without repetition, whatever the callback creates, destroys, adds and removes |

`AssetManagerProofs`, under `ManagerAssumption` and `BudgetAssumption` (`None` is no
request and no asset; the owner is a thread; limits are natural numbers; finitely many
assets; no asset twice in a batch):

| Theorem | Property | Argument |
|---|---|---|
| `AnswersAreFresh` | `ServesFresh` | for any number of requests, threads, assets and changes and any choice of executors that refuse, `FreshInv`: the revision of a record counts the changes of its source, and what is in flight was requested at the current one (`RecordsSound`), so an answer that is given because a load was superseded is not mistaken for one that was not; a load reads its source after its request was made (`LoadsSound`); whoever waits for a load was at its revision, and holds what it read only when it is over (`WaitersSound`); a publication is queued once, while its load waits for it (`QueueSound`) |
| `AccountsExact` | `WithinBounds` | `BoundsInv`: the prefetch slots are the records being prefetched and within their limit. `HeldInv`: `resident` is the sum of the resident generations and within its limit. A step changes the sum by what it makes resident or evicts: `TotalChanges` for one asset, `TotalSplits` and `BatchTotal` for a batch or an eviction of many; the sum is a fold over an order of the assets, reasoned about by `AllNaturals` along that order (`TotalSums`) |

Both theorems have the hypothesis `Batches = {}`, as the run has it for the callers: the
records of the callers' part are published by loads alone. With batches there, freshness
is false, because `PublishAtomic` leaves the revision as it was (finding 1). The budget's
own part has any batches (`BudgetBatches`).

`AssetsProofs`, under `ReloadAssumption` (`None` is no asset, content, loader or
record) and `AssetsAssumption` (finitely many assets; `None` is no process and no
request; the watcher's `WatcherAssumption`: no name of the directory is empty or that of
the file, and the capacities and the bound on changes are numbers):

| Theorem | Property | Argument |
|---|---|---|
| `ReadyRecordsAreCurrent` | `ReadyIsCurrent` | for any number of requests by one caller, `ManagerInv`: `FreshInv` and `BoundsInv` of `AssetManagerProofs`, by `INSTANCE`, for this manager (`ManagersAlike`, `ManagersStep`: its steps are steps of that module), and `OneCaller`: a request that is between its sections is the only one, and the record is `load`ing it (`CallerOwns`); a load that was not told to stop, requested at the current revision, is the one in flight (`OneLoad`), so no second one begins beside it. With two callers this is false (section 8) |
| `AnswersAreKept` | `AnsweredIsKept` | for any number of assets, contents and loaders, `ReloadInv`: a transaction that nobody came before holds the table but for its own changes (`PumpFollows`, `LoadsFollow`), no record is ever taken out of the table (`Saved`), and, for the types, no revision exceeds the hints that were pushed (`Bounded`, `Revisions`: a pump raises a revision once for each hint it takes). For any number of processes and faults, `CacheInv`: the lock of a product is held until its owner removes it (`LockHeld`), nobody removes another's, also not that of a process that died; a store answers Ok when it read a good file or renamed one into place |
| `TableIsFaithful` | `TableFaithful` | an action property from `PumpFollows` and `LoadsFollow`: the epoch is compared when a copy replaces the table |
| `NothingIsMissed` | `NothingMissed` | for any names, capacities, kernel queue and number of changes, `WatcherInv`. `ChangesKnown`: a version the owner does not know is in what it drained, in the list of events, or in an event of the kernel that the thread has not handled and that tells of the path or raises the alarm (an overflow, a move); while the watches are to be rebuilt only the first two count, because the rebuilding asks for a rescan at its end. `WatchesSound`: unless such an alarm is on its way, the watches are those of the tree, or the event after which one is added or dropped is under way. It is needed because `watches_` is stale between a rename or a removal and its event, and an event is read by the path that map gives. `UnhandledSound`: an event names a watch that was given, and none follows the event that says its watch is gone, so that `watches_` forgets it once. `StopSound`: a thread that ended has said before that it does not run |
| `GraphIsExact` | `GraphExact` | for any finite set of assets. The search of `Validate`: `SearchInv` says that the assets being visited are a path of the graph, that of a followed edge the end is complete or the next on the path, and that among the complete ones, whose edges stay among them, there is no cycle; a visited end closes a cycle along the path, and `Measure` (edges left, twice the new assets, length of the path) falls with each turn, so that the search ends within `Turns`. The worklist of `TransitiveDependents`: `WorkInv` says that what was found depends on the asset, and that the dependents of what was taken from the list are among the result; `WorkLeft` falls with each turn. `GraphInv`: the edges have no cycle and the reverse edges are theirs |

`SequenceFacts` holds the lemmas these proofs share: sequences whose elements differ,
what an append, a concatenation, a removal at the head and a removal by swapping do to
them, and four lemmas for induction: `AllNaturals` (a set of numbers that holds 0 and
with a number its successor holds all), `LeastOf` (a set of numbers that is not empty has
a least one), `FoldExists` (a function that is computed step by step exists) and
`KeptAlongFold`. They take sets where the library's induction theorems
take an operator, which no installed prover can instantiate, and so let first-order
recursive functions, such as `Search` and the worklist, be reasoned about. TLC checked
each invariant before it was proved.

Only model-checked:

* liveness, because the proof system handles neither fairness nor `ENABLED`;
* `InteractionFaithful`, `ResourcesAccounted`, `LandedBeforeShown`,
  `NothingReusedInFlight`, `NothingGoesBack` (GPU), `ShowsWhatWasCommitted`, `VersionsAdvance`, `GraphSound` (scenes, render graph).
  Of these, the definitions of `BufferPool`, `RenderGraph` and `UploadScheduler` use folds with an operator argument, `SetToSortSeq`, `FlattenSeq` or
  `RECURSIVE`, whose values for every input cannot be proved here; the others are in the
  plan.

## 7. Findings

Each is a run in which TLC finds a behaviour of the code that violates what a document
or a test of the repository says.

1. `manager_superseded` (`asset/src/manager.cpp:291`): `PublishAtomic` does not advance
   the revision, so a load that was in flight, past the check of its token, is published
   over the newer generation, and the record says `Ready` with old content.
2. `package_names` (`extension/src/package.cpp:234`): artifacts of an interrupted
   replacement are found by the beginning of their names. Installing `woki.hello`
   takes the backup of `woki.hello.pro`, the only copy of that package.
3. `scene_lights` (`gfx/src/render_world.cpp:181`): a light or a view that is created and
   updated before one frame drains the journal becomes an update of something nobody
   knows, and is dropped.
4. `watcher_rebuild` (`platform/src/file_watcher_linux.cpp:132`): the watcher asks for the
   rescan before it rebuilds its watches and discards what the kernel reports meanwhile;
   an owner that rescans in between never learns of a change made then.

## 8. Known weaknesses

The models reproduce these behaviours of the code. Where a property would forbid one, it
is stated with that case as its condition, and the hazard's note says so.

*Tasks.* `ParallelFor` computes the number of chunks as `end - begin + chunk_size - 1`,
which wraps for chunk sizes or ranges near the largest `size_t`: no work is submitted and
the future is never set (`algorithms.hpp:175`).

*Assets.* Two threads that ask for one asset at once both load it (`manager.cpp:107`). A
load whose publication is refused leaves its record in `Loading` (146). A prefetch slot
leaks when an invalidation and a new request overwrite the flag of a load that still holds
it. A request that joins a load the lane has given up is answered `Cancelled`, though its
own token was not. The lock directory of a process that died is never taken over
(`cache.cpp:139`). A pump whose commit is refused has erased its hints
(`reload.cpp:59-62`). `ParseAndReplace` reads the epoch after it has parsed
(`database.cpp:198`), and `Upsert` of a loader writes revision 0 (`bootstrap.cpp:256`).

*Watcher.* An entry that vanishes while `Rebuild` adds the tree's watches stops the
watcher for good; it says so, and asks for a rescan. A directory that was made has no watch
until its event is handled: an owner that rescans in between finds a file in it, and when
that file is gone before the watch is there (`file_watcher_linux.cpp:93`), only the
directory is reported, never the file. TLC shows it with five changes of one name.

*Extensions.* When a replacement cannot clean up its backup, a later `Remove` and a
failed `Install` restore the old package from it (`package.cpp:266`, `351`).

*Memory and uploads.* A texture larger than a batch never becomes resident
(`texture_library.cpp:396-403`); a request at the head that cannot be encoded blocks those
behind it (`upload.cpp:217-224`). A frame given up between `Acquire` and its end keeps its
context (`frame.cpp:437`). A failed allocation in `GpuScene::EnsureCapacity` leaks
(`gpu_scene.cpp:110`). Generations of the buffer allocator and of the entity registry wrap
(`buffer_pool.cpp:75-77`, `registry.hpp:31`).

*Frames.* When views of a frame were submitted and the pump of its compute work and
readbacks then fails, its context is cancelled to `Available` and may be begun again while
that work is on the GPU (`frame.cpp:711-714`). `NoReuseInFlight` exempts exactly these
contexts (`cancelled`).

*Scenes and graphs.* `Cancel` puts versions back (`scenes.cpp:152`), and the destruction of
a light may then carry the version of an earlier change. `Commit` publishes its changes
before it releases what it destroyed, and stops at the first identifier that another
mutation has released (`scenes.cpp:130-133`): the changes are drawn, the identifiers after
it stay in use though their objects are gone, every later `Commit` fails in the same way,
and `Cancel`, or the destructor, puts back the versions of what was published.
`SettledShowsCommitted` leaves scenes so torn out. Passes are ordered against the
directly previous version only, not against older ones that are still read
(`dependencies.cpp:26-39`).

*Surfaces.* The device is recovered inside `Frame`, after `RenderFrame` has acquired its
images (`frame.cpp:293-301`), and the slots are replaced with their swapchains
(`recovery.cpp:135`): the outputs of that frame still name views of the old swapchains, it
draws into those, and `Present` fails on the new swapchains, which hold no image, so that
the surfaces are `Lost` until they are reconfigured although the recovery succeeded
(`presentation.cpp:415-421`). A frame refused because its scene is stale keeps the images it acquired: later
frames of the canvas are refused, and a reconfiguration to the same size does not release
it (`wgpu_swapchain.cpp:57`). A configuration that failed at a size is not tried again at
that size. A `CreateSurface` or `CreateOffscreenTarget` that fails leaves its slot used. A
canvas on a surface that is not ready refuses the whole frame, offscreen views included,
whereas `gfx/docs/module.md:59` has them go on. The last use of an offscreen target that
a canvas samples is not marked (`frame.cpp:681-686`).

*Submissions and commands.* Nothing in `gfx` reads the status of submission tracking: when
it has failed, whoever waits for a ticket waits for good. A write into an encoder that has
finished answers Ok and is never run. A `Finish` in an open pass closes the validation
layer's encoder for good. A submission that is refused half-way leaves its earlier buffers
marked and executed.

*User interface.* A component that rebuilds itself in `Prepare` frees elements that
`captured_` and `focused_` still point to; `ui/tests/runtime.cpp:79` tests that a
replacement of the content releases captures, which is the path that looks. The phase in
which a pinch begins is decided by the last scale being 1 in the gesture recognizer.

## 9. What is not modelled

* Within the modelled components: the single-threaded pool of Emscripten builds, which
  runs works inside `Submit`; two threads inside `Join` at once, a data race; works that
  wait for works of their own pool; the manager's destructor and dependency hashes;
  `ParseAndReplace`, which is called before anything else runs; validation of manifests
  and archives, copying of files; permissions beyond a grant that may be refused; what
  passes draw; transitions and imported resources of the graph, more than one exported
  version, and passes that read a later one's output (builders run one after the other, a
  pass can only read versions that exist); offscreen targets; an element of the UI that is
  disabled while it has the focus (`Focusable` is a constant); culling of objects; memory arena; `ReadbackManager`, which has no user; watchers of other systems,
  windows, input and gestures; layout, painting, docking and motion of the UI.
* **Virtual file system**: mount snapshots replaced as a whole behind one shared mutex,
  and parsing of paths.
* **Asset products, manifests and packages; extension manifests and host interface;
  configuration; core utilities**: formats, parsing, hashing and checks of single calls,
  functions of their input which tests reach better than models do.
* **WebAssembly engines; most of the render hardware interface**: bindings of external
  libraries, with tables of enumerations and conversions (the largest source files).
* **Render features and asset libraries; graphics content and formats; mathematics**:
  numeric and drawing code, importers, encoders, shader compilation.
* **Studio and command line tools; samples, assets, build files.**

The share of the implementation that the map covers is small for that reason: most of its
lines are tables, bindings, formats, numeric and drawing code and tools, which have no
behaviour over time to model.
