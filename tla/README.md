# Wavefront Path Tracer: specifications and proofs

The renderer traces paths on CUDA devices. It runs alone, or as one coordinator
and any number of workers that render tasks (a tile and a range of samples) and
send back sums of radiance. These specifications are about the part whose
correctness depends on order, failure and concurrency and that no unit test can
cover: who renders what, what is added to the framebuffer, what is on disk, and
who waits for whom. Paths below are relative to the repository's root.

## 1. The system

| Part | State | Operations | Talks to |
|---|---|---|---|
| coordinator (`src/distributed/coordinator.cpp`) | task records (state, worker, expiry), pending queue, completed counter, radiance and sample counts | leaseNext, commitResult, renewWorkerLeases, releaseWorkerLeases, requeueExpired, restore, snapshot, complete; all under one mutex | sessions, main loop |
| checkpoint file (`checkpoint.cpp`) | the file and its `.tmp` | write: open, fill, rename; read and validate | writer thread, main thread |
| checkpoint writer (`checkpoint_writer.cpp`) | pending snapshot, writing, stopping, failed, a thread | enqueue, flush, failed, shutdown; run() | main thread by mutex and two condition variables |
| session (`worker.cpp`, `CoordinatorWorkerSession`) | registered, worker ID; a detached thread each | handleMessage: hello, task request, result, heartbeat, asset request; disconnect | coordinator by calls, client by TCP |
| client and worker loop (`worker.cpp`, `worker_app.cu`) | assignment, hasTask; a heartbeat thread while it renders | connect, synchronizeAssets, requestTask, submitResult, heartbeat | session by TCP, one connection for both threads |
| coordinator process (`coordinator_app.cpp`) | sequence number, next checkpoint time, active sessions, final image written | the loop: failed writer, periodic snapshot, completion, wait, accept | all of the above |
| task table (`task.cpp`, `tile_scheduler.cpp`) | none | createRenderTasks, createRenderTiles | coordinator, driver |
| assets (`assets.cpp`, `synchronizeAssets`) | catalogue, cache directory | catalogue, chunks, cache check | session, client, file system |
| transport and protocol (`transport.cpp`, `protocol.cpp`) | a socket | framing, encoding | session, client |
| local driver (`render_driver.cu`, `render_task.cu`, `render_session.cu`) | device buffers, sample index, captured graph | prepare, renderSamples, one task | kernels, asynchronous checkpoints |
| asynchronous checkpoints (`render_checkpoint.cpp`) | slots, a thread each, latest written sample | enqueue, finish, load | driver, device stream |
| wavefront kernels (`renderer.cu`, `queue_compaction.cuh`) | two ray queues, path states | generate, intersect, shade, compact; the persistent kernel with grid barriers | device |
| photon map (`photon_mapping.cu`) | photon array, grid of lists | emit, trace, insert, gather | kernels |
| acceleration structures (`bvh.cpp`, `bvh_sbvh.cpp`, `device_traversal.cuh`) | nodes, references | build, traverse with a bounded stack | kernels |
| scene, configuration, fingerprint, image (`scene/`, `config.cpp`, ...) | none that lives on | load, parse, hash, write | everything |

Threads of a coordinator process: the main one, the writer's, and one per
connected worker. A worker process has its main thread and, while it renders, a
heartbeat thread. What is hard here:

* **Concurrency.** A session takes the coordinator's mutex once per operation, so
  between the expiry scan, the commit, the test for completion and the next lease
  of one message, all other sessions may run. The writer's thread and the main
  thread share flags and, in turn, the checkpoint file. Two threads of a worker
  share its connection.
* **Failure.** Workers die, vanish or hang; answers do not arrive; writes fail;
  the coordinator is killed and restarted with or without `--resume`.
* **Time.** Leases expire by a clock each session reads before it gets the mutex.
  A result may come after its task has been leased to someone else.
* **Kernels.** Warps of one kernel interleave and share queues and counters with
  atomics; only barriers of the grid and the order of the stream separate one bounce
  from the next, one tile from the next, and a copy of the framebuffer from both.
* **Termination.** The coordinator must end, but not before the final image, the
  final checkpoint and its sessions are done with.

What makes each part correct is stated in section 3 with the module that models
it; `PROJECT.json` lists every hazard at its line with the properties that cover it.

## 2. The modules

    TaskLedger  <=implements=  Coordinator  <-extends-  DistributedRender
                                                               ^
                                                     DistributedRenderProofs

    CheckpointFile  <-extends-  CheckpointWriter  <-extends-  CoordinatorApp
          ^                                                         ^
          |                                               CoordinatorAppProofs
          +-----extends---  LocalRender  <--  LocalRenderProofs

    Protocol  <-extends-  AssetCatalog  <-extends-  WorkerStartup
                          TaskTable     <-extends------+   ^
                                                           |
                                                WorkerStartupProofs

    PixelLedger  <-extends-  WavefrontQueues  <-extends-  PersistentWavefront
         ^                     ^        ^                        |       ^
         |                     |        +--  CapturedWavefront   |       |
         +---steps implement---|------------------+--------------+       |
                               |                  ^                      |
               WavefrontQueuesProofs  <-  CapturedWavefrontProofs        |
                               ^----------------------------  PersistentWavefrontProofs

    TriangleTree, PhotonMap  <-extends-  DeviceScene  <--  DeviceSceneProofs

`MC` modules give the constants of the module they are named after their values.

* `Coordinator` - `DistributedCoordinator`. Variables are the members, under
  their names; each public operation is one action because it holds the mutex
  throughout. `Serve` lets any worker call anything at any time with a clock
  reading up to `ClockLag` old, so a result may come from a worker that never
  held the task, twice, or long after its lease. `phase`, `checkpoint`, `Crash`,
  `Construct`, `Restore` and `Start` are the object's life in
  `coordinator_app.cpp`. Radiance is abstracted to *how often* a task has been
  added; the pixels of a tile share a count, as every operation treats them alike.
* `TaskLedger` - what the coordinator promises with leases, queue and workers
  forgotten: merge at most once, save, roll back to the saved ledger or to nothing.
* `CheckpointFile` - `writeDistributedCheckpoint` in the three steps a crash or
  another writer can come between. The content of a file is a sequence number,
  `Partial` or `Absent`.
* `CheckpointWriter` - one step per critical section; notifications, file
  operations and the join are steps outside the mutex, and waiters may wake for no
  reason. `StaleStopping` is what the memory of `stopping_` may hold while the
  constructor, which starts the thread before it initialises that member, has not
  finished.
* `DistributedRender` - sessions and worker processes around `Coordinator`, whose
  actions it uses unchanged. `client` and `heartbeat` are the places of a worker's
  two threads, `session` is that of the session's thread: one step per acquisition
  of the coordinator's mutex and one per send or receive. `Fail` covers a killed
  process, a failed render and a broken connection; that a host vanishes without
  a sign is the absence of fairness for `ReceiveFails`.
* `CoordinatorApp` - the main loop of `runDistributedCoordinator` around
  `CheckpointWriter`, the detached session threads and the restarts of the process.
  Here the coordinator is only the number of merged tasks.

* `PixelLedger` - what a renderer promises: tile after tile and sample after sample,
  every pixel receives one path's radiance, once, and a tile is begun when the one before
  it is complete. `LedgerNext` is both modes' abstract next-state relation.
* `WavefrontQueues` - the device memory both execution modes share and what one warp
  does with it. `Shade` is `shadePaths` and `shadePersistentPath` from the intersection
  to the flag `active`: it ends a path, adding its radiance to its pixel, or lets it
  go on, in any combination over the warp's lanes; misses, lights, roulette and debug
  modes are ways to end it. `Reserve` and `Store` are `appendWarpCompacted`, between
  which other warps may reserve and store. The lanes that
  `__activemask()` names are any that have yet to append, and what the shuffle returns
  to a group without lane zero is any slot; `leaderless` remembers that such a group had
  something to append. The queues start with one
  of two path indices everywhere, for the contents `cudaMalloc` leaves.
* `PersistentWavefront` - `persistentWavefrontTrace` and its launch. Each warp has
  its own `bounce`, `currentCount` and `chunkStart`, as its registers are its own.
  `grid.sync()` is a step that all launched warps take together. A launch has as many
  blocks as the tile needs or the device holds, so warps take several chunks.
* `CapturedWavefront` - the graph of `createWavefrontGraph`, node by node, with the
  warps of each kernel interleaved. Its length does not depend on how many paths are
  left, so kernels run on empty queues too; `results` is the hit buffer between
  `intersectScene` and `shadePaths`.
* `LocalRender` - `RenderDriver::run` as a host that enqueues, a stream that works
  off, and a thread per checkpoint slot. Framebuffer, copies and files are the number
  of samples in them; `Content` is whole only if the pixels are those of the sample
  its header names. `Kill` may come anywhere, and a failed write calls `exit`.

* `TaskTable` - the loops of `createRenderTasks` and `createRenderTiles` as pure
  operators over words of `Word` values, with what a worker refuses to render.
* `Protocol` - `ByteWriter`, `ByteReader`, the encoders and decoders of all twelve
  messages and of the configuration, and the framing's length limit. A byte has
  `Base` values and numbers are shorter, which changes limits but no order.
* `AssetCatalog` - which files the OBJ and glTF loaders open, what the catalog of
  them lists, what a worker accepts of it, chunk requests and the cache check. A
  file is its bytes and the paths it names.
* `WorkerStartup` - a worker process from its start to its first results, its
  session, and the coordinator's start: one step per message, file and refusal.
  Files are edited, coordinators restarted, connections lost and workers killed
  wherever it can matter. Loading the scene and the fingerprint the renderer takes of its
  files are two steps, between which another worker may write to a shared cache. Leases and heartbeats are `DistributedRender`'s subject, so here a
  request is answered by any task or none. `Restart` is a new coordinator over whatever is on the
  disk by then; the worker keeps what it has cached.
* `TriangleTree` - one call of `buildNode` of both builders (SAH bins, object and
  spatial splits, leaves, the depth limit) and one turn of the loop of a traversal, in its
  binary and its eight-way form and for closest hits and shadow rays.
* `PhotonMap` - which photons are stored, the cell of a position, and a
  gather: the cells it searches, their lists, and the nearest photons it keeps
  (`gatherCaustics`).
* `DeviceScene` - both at work: `uploadScene` with the light table and its alias
  pairs, `buildPhotonMap` with a thread for each photon whose exchange of the head and
  later store of the link are steps of their own, then rays and gathers.

Each module has a section of *faults*: operations with one plausible mistake. They
are used by no specification; `PROJECT.json` pairs each with the property that
must notice it, which shows that the property depends on that line of the code.

## 3. What is model-checked

Every run finishes in about a minute and a half or less with two TLC workers.

**`coordinator`** (`MCCoordinator`, 34 thousand states). Three tasks, two of them
batches of one tile, two workers, a lease of two time units and a clock up to three. The
sample counts may go up to exactly the samples per pixel, so the overflow test is
at its limit.
`ExactlyOnce`: a completed task is in the framebuffer once, any other not at all.
`SampleCountsExact`: the divisors of the final image are the numbers of distinct
samples. `BookkeepingExact`: queue, counter and worker IDs agree with the records.
`NoSpuriousReject`: no unfinished task can be refused for lack of room.
`NeverOvertaken`: no step moves a waiting task back in the queue. `ImplementsLedger`:
refinement of `TaskLedger`.

**`checkpoint_writer`** (3 thousand states). Four snapshots, any calls, any write
may fail. `NewestRetained`: the newest accepted snapshot is pending, being written
or in the file. `ShutdownDrains`, `FlushMeansWritten`: what the two calls promise
when they return. `FileAdvances`: the file is always a whole snapshot and never
goes back. `EveryCallReturns`, `AcceptedIsWritten`: no lost wake-up.

**`distributed_render`** (1.6 million states). Three workers, two tasks; `c3` is
`c2` restarted under the same ID, possibly while the old session lives. One lease
can run out while its holder renders. `LeasesAreServed`: a lost worker's tasks come
back at the disconnect. `RepliesMatchRequests`: no thread of a worker reads the
other's answer. `AcknowledgedIsMerged`: results are never refused, whoever holds the lease by
then, and what is acknowledged is merged. `DoneMeansComplete`: no worker leaves with success early.
`KeepsItsTask`: the other sessions do not take a task from a worker with an ID of
its own. `UsesCoordinator`: the composed system implements `Coordinator`'s `Spec`,
so what is proved of it holds of the composition.

**`distributed_render_live`** (88 thousand states). One reliable worker, one that may vanish, one
of another job, and leases that have always run out (`LeaseDuration = 0`), the
worst case for progress. `JobCompletes` and `WorkersLeave`.

**`coordinator_app`** (473 thousand states). Two processes, two sessions, four snapshots, crashes
anywhere. `FinalCheckpointComplete`: no late periodic snapshot replaces the final
one. `CleanReturn`: the writer's thread is gone before the locals are, and a
success leaves no session behind. `CheckpointKeepsProgress`: no process replaces its
own or the resumed checkpoint by a poorer one. `ProcessEnds`: once the job is
complete or a write has failed the process ends, or the final image is written and a
session whose peer neither answers nor closes its connection keeps it for ever, as
sessions have no read timeout.

**`persistent_wavefront`** (775 thousand states). Tiles of five and two pixels, two
resident blocks of one warp of two lanes, three bounces. The lanes of a warp append in any
groups, one after the other, all of them together being one way. `ExactWhileLed`: between
bounces the queue lists every path that is still active once, at the depth of the
bounce, and no other; no counter passes the capacity. `LedgerWhileLed`: each step is one
of `PixelLedger`. `RenderEnds`: every sample is finished, so no warp waits at a barrier
for one that left. All three hold until a group without lane zero has something to append
(`leaderless`). Nothing in the code keeps a warp from that (see below), so this is how far
the code's own guarantee reaches. From then on they say nothing for ever, so the
constraint `StillLed` leaves out only states in which nothing is asked.

**`captured_wavefront`** (2 million states). Two samples of tiles of three and one
pixels on two blocks. The same two safety properties, and that each thread of `shadePaths`
finds the intersection of its own ray. That the steps of both modes are those of one ledger
is what makes them interchangeable: they differ in the order of additions only.

**`local_render`** (92 thousand states). Six samples, a checkpoint behind each but the
last, two slots, three starts. `CheckpointsAdvance`:
whatever order the threads get the mutex in, the file is whole, advances, and never
claims more than the device has done. `ImageIsComplete`: also a resumed render has every sample
once. `EveryRunEnds`: no slot, thread or mutex is held for ever.

**`worker_startup`** (27 thousand states). One worker and 95 jobs: scenes of one
to four files with names in and above their folder, settings pushed or not, worker hosts with all,
some or none of the files, task tables of 82 sizes up to and past the end of a word of 32
values, where tiles are counted modulo the same word. Per job at most one edit, one restart of the coordinator and one lost
connection or killed worker. `RendersCatalogue`: what a result was rendered from is
byte for byte what this coordinator offers. `CatalogueComplete`: the catalog names
every file the loaders will open. `PlanExact`: the loops end, their tasks cover every
sample of every pixel once, and no two have one ID where tiles can be numbered in a word. `WireExact`: every message is read as what was sent and
nothing cut short is read at all. `StartupSucceeds`: a worker that is served gets to its
tasks whatever it finds in its cache.

**`device_scene`** (36 thousand states). Nine host scenes: flat and stacked triangles, triangles that
straddle every plane, a staircase on which the depth limit stops the builder,
instanced meshes with lights, instances with a material of their own (which name no
light), and trees of the external builder, of two and of eight
children. `TracesExact`: however the builder has cut the triangles up, a ray ends
with its closest hit, a shadow ray finds a blocker if there is one, and no stack
overflows; that the external builder's binary trees are no deeper than the
repository's own is assumed. `LightsExact`: a hit names the light it is, and the table draws each in
proportion to its weight. `GatherIsNearest`: whichever order the threads insert the
photons in, a gather returns the nearest ones. Deadlock is checked here: no call of a
builder and no thread is left over.

Two runs show disagreements between the code and what the repository says of it:

* **`checkpoint_writer_stale`**: `thread_` is declared before `writing_`,
  `stopping_`, `failed_` and `error_`, so the thread runs before they are initialised. If the
  memory is not zero it reads `stopping_` as true, leaves, and accepted snapshots
  are lost, which the writer's own test calls "shutdown lost the final queued
  checkpoint". Declaring the thread last repairs it. The runs `checkpoint_writer` and
  `coordinator_app` take `StaleStopping = {FALSE}`: they show what holds once it is repaired.
* **`coordinator_app_locals`**: every error return of `runDistributedCoordinator`
  destroys the coordinator and the session counter while detached session threads
  hold references to them; only the successful return waits, for the reason its
  comment gives.

Disagreements and limits that were met on the way and that no run shows:

* `ARCHITECTURE.md:40` says that `--profile-queues` reports the last tile's
  occupancy. `queueCounts` is never cleared and the kernel stops writing it when the
  paths run out (`renderer.cu:85-88`), so later bounces keep an earlier tile's numbers.
* `docs/REFACTORING.md:52-53` asks that every active lane writes once.
  `appendWarpCompacted` takes its mask from `__activemask()` behind divergent code
  (`queue_compaction.cuh:17`), which since Volta may name a part of the warp. TLC refutes
  `QueueExact` without `leaderless` before it: a group without lane zero reserves
  nothing. The compiler usually makes the lanes meet again, but nothing in the source does;
  `ExactWhileLed` is what the source itself guarantees.
* A texture of a material library in another folder than its OBJ file is listed
  relative to the library and opened relative to the OBJ file (`assets.cpp:144`,
  `obj_loader.cpp:87`), and the external images of a `.glb` are not listed at all:
  a worker without its own files cannot load such a scene. The catalog tells the kind of
  a scene by the extension of its file (`assets.cpp:213`), the loaders by the
  options (`scene_host.cpp:256-264`), so a scene of another extension is read but its
  dependencies are not sent. `CatalogueComplete` exempts the three (`Flat`).
* A result too large for a message is refused after it has been rendered
  (`protocol.cpp:66`, `217`), and its task leased again, for ever. `StartupSucceeds`
  therefore promises a task and not its result.
* The task loops wrap for sizes near 2^32 (`task.cpp:56`): `PlanExact` says `NoWrap`. The
  tiles are counted in 32 bits too (`task.cpp:55`): from 2^32 tiles on two have one number,
  and `PlanExact` promises IDs of their own below that only (`TilesNumbered`). An image of
  so many tiles has more pixels than the renderer takes (`ImagesAreNumbered`).
* A coordinator that is restarted without `--resume` replaces the checkpoint of its
  predecessor at once (`coordinator_app.cpp:147`); `CheckpointKeepsProgress` is about what a
  process itself has written or resumed.
* The fingerprint hashes only the primary file (`docs/REFACTORING.md:98-101` knows it): a worker that
  does not transfer assets may render from other dependencies. `RendersCatalogue`
  therefore speaks of dependencies only where the assets are transferred.
* Two workers of one host share `.pathtracer-assets/` by default (`README.md:94`). One may
  find a file incomplete while the other is still fetching it (`worker.cpp:288`), and
  truncate it (`worker.cpp:292`) when the other has completed and verified it and is about to
  load. The fingerprints cover the primary file only, so the other renders without
  its material library and its results are merged; or it loads a truncated primary file
  that is whole again when the renderer takes its fingerprint. With one directory for two
  workers of `WorkerStartup` TLC finds both, so neither half of `RendersCatalogue` is
  true of a shared cache: the run gives each worker its own, the theorem says `OwnCaches`.
* The SBVH builder drops a reference that is flat in the split plane
  (`bvh_sbvh.cpp:171-175`). `TracesExact` exempts such triangles (`Kept`).
* Photons on a wall may be rounded out of the grid and are dropped
  (`photon_mapping.cu:90`); `GatherIsNearest` speaks of those that are stored. The map is not deterministic
  (`ARCHITECTURE.md:239`): with equal distances the order of the lists decides.
* How many cells a gather searches to each side is computed for the x axis and used on
  all three (`photon_mapping.cu:105`), but the grid is lower than it is wide
  (`render_driver.cu:207-208`). With the default `--caustic-radius` the four cells do: 3.84 are
  needed in y. With 0.1 there are six and 6.4 are needed, so that photons above and
  below a hit can be missed. The run has the default; the theorem says `CellsReach`.
* The BVH8 traversal drops children when its 96 entries are full
  (`device_traversal.cuh:692`). `TracesExact` says that none is dropped; for larger trees
  than one with 96 triangles that depends on how deep the external builder's trees are,
  which nothing in `src/` limits, so the theorem has it as a hypothesis (`StacksSuffice`).

**Bounds.** Three tasks are the fewest in which two are batches of one tile, a
third is not, and a requeue can reorder two others. Two workers suffice for
`Coordinator`, where a task concerns its holder and at most one other; three
processes are needed where one shares another's ID. `MaxTime` lets a lease run out
and be renewed at least once in `MCCoordinator`; in `MCDistributedRender` it lets
each lease run out once. Four snapshots allow a pending, a
written and a replaced one and the final one. In the wavefront runs
a warp has two lanes, enough for a rank, for lanes that append together or apart in
either order, and a warp that is only partly filled; two warps run side by side, one of them ahead of the other by as
much as the barriers allow, and three bounces use each queue as input, output and
input again. Blocks are single warps there: nothing in the kernels is shared by a
block but its index. A whole warp traces and shades a chunk in one step: a path
belongs to one lane of the grid, so no order of shading can be told apart. In
`MCWorkerStartup` a byte has four values, a string at most four bytes and a chunk two,
so that names, lists and files lie on both sides of their limits and a file takes
several chunks; one edit, one restart and one fault each can hit every step of a
transfer. In `MCDeviceScene` leaves hold two triangles, trees are two deep and stacks
have the three entries that takes; coordinates go up to eight, so that the eight
bins differ; photons lie on a grid of 64 cells each way, in units that make
cells and search radius whole, and a gather has room for two.
`MaxSequence`, `MaxTime`, `MaxStarts`, `MaxBlocks` and `MaxSessions` are bounds of the models and not of the code; they are tested
in guards only. No symmetry is used, since the workers of a run differ in what they may do.

**Deadlock** is not checked where the system may stop: a writer whose owner makes
no further call, a completed job, a coordinator that has ended for the last time.

**Fairness.** In the host's modules, weak fairness for each thread's steps, since the scheduler runs every
thread and no action here waits for a lock that is held across a wait. Weak
fairness is enough because a thread's step, once possible, stays so until taken.
Workers get it only if they are `Reliable`; heartbeats are never forced;
`ReceiveFails` is not fair, as sockets have no timeouts and a host may vanish. For the
same reason nothing makes sessions end in `CoordinatorApp`, and `ProcessEnds` says so. In `PersistentWavefront` every warp
is fair because a cooperative launch keeps all its blocks resident; in
`CapturedWavefront` because a kernel's blocks are all scheduled before it ends. In
`LocalRender` the mutex is granted with strong fairness: a thread that waits while the
other takes it again and again gets it at last. Nothing there is fair to restarts. In
`WorkerStartup` both programs run on and the coordinator does not stay in its
preparation; nobody has to edit a file, lose a connection or start a program again.
`DeviceScene` has no fairness: only safety is asked of it.

## 4. What is proved

The first part of `DistributedRenderProofs` proves for every number of tasks, every plan that satisfies
`PlanAssumption`, every set of workers, lease duration, clock lag and bound on the
clock:

| Theorem | States |
|---|---|
| `InductiveInvariant` | `Spec => []IInv` |
| `TypeCorrect`, `MergedExactlyOnce`, `SamplesCountedExactly`, `BookkeepingCorrect`, `RoomForEveryResult` | the invariants of the run `coordinator` |
| `WaitingTasksAdvance` | its action property |
| `LeasesHonoured` | `LeaseHonoured`: a step takes a task from its holder only when the lease has run out or the holder loses all its leases (the run `distributed_render` checks the sharper `KeepsItsTask`) |
| `CoordinatorImplementsLedger` | `Spec => Ledger!LedgerSpec` |

*Assumptions.* `PlanAssumption` says what `createRenderTasks` makes of a job: each
task renders a stretch of its tile's samples below `SamplesPerPixel`, and no two
tasks the same sample of a tile. `SizesAssumption` bounds the samples per pixel by
the 32-bit maximum, as their type does.

*The argument.* None of the invariants is inductive alone. `ExactlyOnce` needs
that what `Restore` copies from a file is itself exact (`CheckpointConsistent`), and
that the table it finds holds no leases (`FreshTable`). That a late commit removes
its task from the queue, and only then, needs that the queue lists exactly the
pending tasks, each once (`PendingQueueExact`). `IInv` is their conjunction. It is
preserved because each operation updates queue, counter, IDs and records together
and because the only operation that adds radiance completes the record it adds for.
`SampleCountsExact` uses that disjoint stretches add up, and `NoSpuriousReject` that
the samples of a tile, all below `SamplesPerPixel`, cannot outnumber it. For
`NeverOvertaken` the queue only loses elements in front of a waiting task or gains
them behind.

The first part of `CoordinatorAppProofs` proves of `CheckpointWriter`, for every bound
on the sequence numbers:

| Theorem | States |
|---|---|
| `InductiveInvariant` | `Spec => []IInv` |
| `WriterTypeCorrect`, `NewestNeverLost`, `FlushIsDurable`, `FileOnlyAdvances` | the safety properties of the run `checkpoint_writer`, whatever the memory of the new object held |
| `ShutdownLosesNothing` | `DrainsOnceRunning`, for any memory of the new object: shutdown drains unless the thread left before it took a snapshot, which is the case of the run `checkpoint_writer_stale`; if the memory is zero this is `ShutdownDrains` |

*The argument.* `NewestRetained` is not inductive: that the file holds the newest
snapshot once nothing is pending follows from where it was before. `IInv` says that
the newest is pending or was taken last (`NewestIsPendingOrTaken`), that file, taken
and pending snapshot are in the order in which they were accepted, with the taken one
in the temporary file when it is renamed (`InOrder`), and which places of the thread
go with `writing_`, `failed_` and `stopping_` (`BusyWhileWriting`, `FailureIsFinal`,
`LeavesEmpty`). `LeavesEmpty` has the exception: a thread that finds `stopping_` set by
accident leaves with snapshots still to come, but then it has taken none, as the
constructor clears the member for good before any call is made (`Running`).

The first part of `WorkerStartupProofs` proves of `TaskTable`, for images of every size
and words of every width in which the loops do not wrap (`Legal`):

| Theorem | States |
|---|---|
| `TasksCoverImage` | every sample of every pixel is in exactly one task |
| `TaskIdsIdentifyTasks` | no two tasks have one ID, if the tiles can be numbered in a word (`TilesNumbered`) |

The second condition is needed because `tileOrdinal` wraps; `ImagesAreNumbered` shows it of
all images with fewer pixels than a word has values, and the renderer refuses others.

Its second part carries them over: `PlanIsExact` is `PlanExact` for all jobs,
from `PlanInv`, which says how far the coordinator gets with which table. The
argument is that a loop which does not wrap visits exactly the multiples of its
step (`RoundsExact`), and that each pixel lies behind one of them by less than a step.

Its third part is about what a worker renders, for all jobs, disks, edits and numbers of
workers, of the specification without its fairness:

| Theorem | States |
|---|---|
| `ConversationInvariant` | `Spec => []ConversationIInv` |
| `RendererIsOfTheJob` | no result is submitted whose renderer took another fingerprint than the coordinator's |
| `RendersFromCatalogue` | `RendersCatalogue`, if no two workers share a cache directory (`OwnCaches`) |
| `CatalogueIsComplete` | `CatalogueComplete` |

*The argument.* A worker learns the fingerprint from the coordinator at the other end of
its connection, and a connection does not survive a coordinator, so all that is under way
speaks for the coordinator there is now (`SpeaksForCoordinator`, `KnowsCoordinator`). That
needs nothing of the cache, but it does not say what was loaded: the renderer takes its
fingerprint after the scene was built, and between the two another worker may
fill a file again that it had truncated. That the scene has this fingerprint
(`LoadedFingerprint`), and that what was *transferred* stays what it was, is true while nobody else
writes there (`OwnCaches`): `StartupIInv` says
how many files of the list are in the cache as they were listed and that the one being
fetched is none of them (`TransferExact`). The latter rests on the catalog: a path that
is listed twice, because two folders have it, has the size and checksum of one file
on the coordinator's disk (`CatalogIsOffer`). Without `OwnCaches` the
theorem is false (section 3). `CatalogueComplete` follows from the two codes' lists alone:
each request of an OBJ file, a library or a glTF file is one request of the catalog
(`RequestsInOrder`), the first of several for one path is added (`AddedComplete`), and a
file of a disk has no `..` in its path nor another file's path as its folder, so what is
left of it below the root is a path a worker takes (`CatalogIsComplete`).

Induction is on sets (`Induction`), as the library's theorems take an operator; the
recursive functions `Normal` and `FlattenSeq` are shown to exist before anything is said of
their values (`Recursion`, `FlattenSeqs`).

The second part of `DistributedRenderProofs` proves for every number of workers and
tasks, every lease duration and every way in which workers share IDs:

| Theorem | States |
|---|---|
| `RenderInvariant` | `RenderSpec => []RenderIInv` |
| `SessionsUseCoordinator` | the composition implements `Coordinator`, so all that is proved of `Coordinator` holds of it |
| `LeasesAlwaysServed`, `RepliesReachTheirThread`, `NoWorkIsRefused`, `NobodyLeavesEarly` | the invariants of the run `distributed_render` |
| `WorkersKeepTheirTasks` | its action property |

*The argument.* `RenderIInv` says for each client where its two threads, its
connection and its session can be together (`Conversation`), and what the messages
under way say of the coordinator (`Truthful`). The second stays true whatever the
others do, because they only say that tasks are completed, and completed tasks
stay so. A step touches one client's conversation, so each lemma looks at one.
`LagAssumption` (`MaxTime <= ClockLag`) lets a session wait for the mutex
arbitrarily long after it has read the clock, as the code does.

The second part of `CoordinatorAppProofs` proves for every number of tasks, sessions and processes, and
whatever the memory of a new writer holds:

| Theorem | States |
|---|---|
| `AppInvariant` | `AppSpec => []AppIInv` |
| `FinalCheckpointStays`, `ReturnIsClean` | `FinalCheckpointComplete`, `CleanReturn` |
| `ProgressIsKept` | `CheckpointKeepsProgress` |

*The argument.* Which call of the writer the main thread is in says whether the
writer's thread can still write: after the join it cannot, and only then is the final
checkpoint written. And the snapshots of a process, all newer than those it
inherited, reach the file in the order in which they were taken, while the number
of merged tasks they count never shrinks.

`LocalRenderProofs` proves for every number of samples, slots and starts and every
distance between checkpoints:

| Theorem | States |
|---|---|
| `LocalInvariant` | `Spec => []LocalIInv` |
| `EverySampleIsInTheImage` | `ImageIsComplete` |
| `CheckpointsOnlyAdvance` | `CheckpointsAdvance` |

*The argument.* The framebuffer behind every operation that is still in the stream is
known when it is enqueued (`StreamKeepsItsWord`): behind a copy it has the samples
that the slot's thread was started for. So copies are whole when they are
written, those of different slots are of different samples (`CheckpointsDiffer`), and
of two threads under the mutex the later finds the file newer or makes it so (`OneWriter`).

`WavefrontQueuesProofs` holds what the two execution modes share, about `WavefrontQueues`
alone. The ranks of the lanes that append are the numbers below their count, so a
reservation by lane zero is shared out without a gap or an overlap. Hence each slot
below the counter of a kernel's output is stored, or is the slot of one lane that is
about to store, whatever the order of the warps (`OutputExact`). Different slots have
different paths, so the counter never passes the capacity, and every active path is
held by the output, carried by a lane, or an item of the input that is still unshaded
(`Accounted`). It is parameterised by what is unshaded, which is where the modes
differ. None of this assumes that the lanes of a warp append together. They may append in
any groups; a group with lane zero reserves for all its lanes, and the others of the warp
wait their turn. A group without lane zero is beyond repair, so what
is proved with the invariants `WaveIInv` and `GridIInv` below is about the states before one has
appended anything (`leaderless`).

`CapturedWavefrontProofs` proves for tiles, blocks, warps and queues of every size and
paths of every depth, and lanes that append in any groups:

| Theorem | States |
|---|---|
| `WaveInvariant` | `Spec => [](leaderless \/ WaveIInv)` |
| `QueuesAreExact` | `ExactWhileLed` |
| `CapturedPixelsAddedOnce` | while not `leaderless`, a pixel of the running tile gets its sample once, no other pixel any |
| `CapturedImplementsLedger` | `LedgerWhileLed`: every step is one of the ledger, while not `leaderless` |

*The argument.* Unshaded are the items of the warps that have not begun, as each shades
one chunk. When the kernel has ended nothing is carried and its output lists the active
paths (`Lists`). A path that ends was therefore active until then, which is to say that
its pixel has had nothing in this sample (`TileIInv`).

`PersistentWavefrontProofs` proves the same of the other mode, and besides for every
number of resident blocks:

| Theorem | States |
|---|---|
| `PersistentInvariant` | `Spec => [](leaderless \/ GridIInv)` |
| `PersistentQueueExact` | `ExactWhileLed` |
| `PersistentPixelsAddedOnce` | while not `leaderless`, a pixel of the running tile gets its sample once, no other pixel any |
| `PersistentImplementsLedger` | `LedgerWhileLed`: every step is one of the ledger, while not `leaderless` |

*The argument.* `QueueExact` speaks of the moments when a queue is read, and each warp
knows its length, the bounce and its chunk from registers of its own. The invariant has
to say that these agree and that no warp is a phase ahead (`Lockstep`), which only the
barriers see to. In each phase it says how far the warps are: the paths that exist are
those of the pixels of warps that have generated (`Generated`); between two bounces the
queue lists the active paths, every warp that read a length read the same, and the
warps that left found it empty (`Listing`); while it is drained what is unshaded are the
chunks ahead of each warp, in strides of the grid (`Drained`). That a block's chunks
are its own, so that no item is shaded twice, is the arithmetic of these strides, for
blocks of any size. A launch that has ended leaves no active path (`Resting`).

`DeviceSceneProofs` proves for every scene, whatever it has of triangles, meshes, instances,
lights and photons, for every acceleration policy and ray, every size of a leaf and of a
stack, and every grid, radius and number of places:

| Theorem | States |
|---|---|
| `LightsAreExact` | `Spec => []LightsExact` |
| `GathersAreNearest` | `Spec => []GatherIsNearest`, if `CellsReach` |
| `TracesAreExact` | `Spec => []TracesExact`, if `StacksSuffice` |

*The argument about lights.* A triangle's light index is the number of emissive ones before it in its
mesh, which is its place when these are listed in order (`InOrderLists`), and the offset of
an instance is where `FlattenSeq` puts its list (`FlattenInPlace`). Of the table,
`LightsIInv` says while its loop runs that each light which is not yet in the table is in one
of the two lists, once, on its side of one share (`ListsApart`); that these lights have
together one share each; and that what the table gives to a light, with what is still open
of it, is what its weight asks for (`Balanced`). A turn of the loop changes two summands of
either sum, by amounts that cancel. When one list is empty all open lights are on one side
of their mean, so each has one share exactly, and `FinishLights` may give it that
(`TableEnds`). The weights are integers and the shares exact: the code's are single
precision, so its table is this one up to rounding. Sums are a recursive function (`Total`);
that it has values is `Recursion`, as in `WorkerStartupProofs`.

*The argument about photons.* Between a thread's exchange and its store the list of a cell
is broken in memory: the head is the new photon, which does not point to the rest yet. If
each photon is taken to point already to what its thread has got (`Link`), every cell
has one whole list at any time, of the photons whose threads have begun (`PhotonsIInv`):
an exchange puts a photon before it (`ListGrows`) and a store changes nothing. When
all threads are done the links in memory are these. A gather then finds each cell's list
(`ChainIsList`) and searches each cell once, because a cell's index is its own
(`SearchedCells`), so that its walk meets no photon twice (`GridIsWalked`). Whatever is within the radius
lies in a cell that is searched (`NearInCells`), as rounding, division and clamping
bring cells no further apart: that is where `CellsReach` is needed, which says that
`CellRadius` cells are at least the radius wide on every axis. It is an assumption of
the theorem, for the program can be given radii for which it is false (section 3); the
run's grid and radius, which are the program's, satisfy it. Along the walk the places hold
the nearest of the photons met so far, and their farthest distance is the one
remembered (`IsKept`, `KeepKeeps`), also when the farthest is replaced and the first of the new
farthest is looked for.

*The argument about trees.* The invariant `TracesIInv` has two parts, about the tree and
about the ray in it. A node in memory is a box and indices; the tree is right because of
what it was built from, so `IsTree` says that there are, for each node, references, a depth and
parts it stands for (`IsNode`), and that each of its children is a node with the references
of its part (`IsChild`) or a call of `buildNode` still to come (`IsCalled`). One call keeps
that, whatever the builder (`TreeGrows`, `BuildNodeGrows`). What is asked of each builder's
parts is `Divides` (`PartsDivide`): they lose no point of a triangle that is
kept, and there is room for them. The first is where a reference that lies in the plane
has to be excepted (`SplitCovers`); the second follows from the depth limit, from the halves
of the median builder, which leave at most `Leaves[k]` leaves to a node `k` levels above the end,
and in an eight-way tree from the number of triangles a node does not have
(`Slot`). Of a ray `NothingMissed` says that each of its points that lies in the box of a kept
and untested triangle, before the closest hit, also lies in a node on the stack: a box
with such a point is entered (`EntersBefore`), so a node that is popped as missed has none, and the
children that are pushed have all those of their parent (`PushAwaits`). A leaf's triangles
are tested, and none of their answers is nearer than the closest hit is then. When
the stack is empty nothing is left that could be nearer. Each entry is at a place its depth allows
(`StackFits`), so that no stack overflows and an eight-way node has room for all its children.

`StacksSuffice` asks something of two policies only, whose trees no constant limits: of the
median builder, that there are at most `MaxTrianglesPerLeaf` times 2^(`StackSize` - 1)
triangles, which is true of every 32-bit count with the code's stack of 64; and of the library's eight-way
trees, that there are no more triangles than their stack has entries. The second is
weaker than what the code relies on, as the depth of these trees is not known. The run's
scenes satisfy both. That the library's binary trees are no deeper than
`MaxBvhDepth` is in the model of the library (`AnyParts`), not in the theorem.

*Assumptions on constants* are in the modules that declare them and are evaluated by
the runs: `SizesAssumption`, `PlanAssumption`, `ClientsAssumption`, `LagAssumption`,
`StaleAssumption`, `FileAssumption`, `AppAssumption`, `LocalAssumption`,
`WordAssumption`, `StartupAssumption`, `QueueAssumption`, `BlocksAssumption`,
`TileAssumption`, `ResidentAssumption`, `GridAssumption`, `HostAssumption`,
`HitsAssumption`, `RaysAssumption`, `TreeAssumption`. `PlanAssumption` of `Coordinator` is what
`TasksCoverImage` establishes for the tables the code makes.

*Model-checked only.* `WireExact`, whose codec recurses over data; and liveness (`JobCompletes`,
`WorkersLeave`, `RenderEnds`, `ProcessEnds`, `EveryCallReturns`, `AcceptedIsWritten`, `EveryRunEnds`,
`StartupSucceeds`), which needs fairness and `ENABLED` and is out of the prover's reach
in any case.

## 5. What is not modelled

* **TCP transport** (`transport.cpp`): framing by a length over a reliable byte stream,
  blocking, without timeouts and with no state but the socket. The limit on a message is in
  `Protocol`; otherwise the modules take from its use that a whole message arrives or the
  connection has failed. A model of partial reads would only show that a loop
  until all bytes are there ends with all bytes there.
* **Configuration and command line** (`config.cpp`): one pass over the arguments
  that fills a record or reports an error; no state lives on.
* **Parsing** of OBJ, MTL, JSON and image files: `AssetCatalog` models which paths
  loaders and catalog take from them, not the texts. Two paths that differ in spelling only
  and share a key (`assets.cpp:62`) are therefore one.
* **Numerics**: intersection, shading, sampling, emission of photons and their
  flux, random numbers, tone mapping. `DeviceScene` takes coordinates as integers, a triangle as its box,
  its centroid and, for each ray, a point of the box or none, and rays as diagonals; a ray
  parallel to an axis in the plane of a box, whose slabs are NaN in floating-point,
  is therefore not among them.
* **The Nexus builder** and the rest of `extern/`: external. Any binary or eight-way
  tree within its assumed depth; its quantised boxes are taken as exact.
* **Layout of the checkpoint file**: a reader finds a whole snapshot or nothing,
  by size and checksum.
* **Power failures** between a rename and the disk: a crash here is that of a
  process. The clock of `Coordinator` is shared by all sessions, as they are threads of one process.
* **The disks of workers' hosts** are not edited while a worker runs. Two workers on one
  cache directory are in the model and in the theorems without `OwnCaches`, but not in
  the run; what they do to each other's liveness is not checked.

Of `LocalRender`: the test for a checkpoint with more samples than the target
(`render_driver.cu:462`) can never succeed, because the samples per pixel are part of
the fingerprint that was compared before; checkpoints of other scenes or formats are
rejected at once and leave nothing behind. CUDA errors end the process, as `Kill` may.
The tiles of a sample are one operation of its stream; what happens inside it is the
subject of the wavefront modules.

## 6. Plan

Done: `Coordinator` with `TaskLedger`; the checkpoint file and writer;
`DistributedRender`; `CoordinatorApp`; `TaskTable`; `LocalRender`; the wavefront modules
over `PixelLedger`; asset transfer and protocol in `WorkerStartup`; builders, traversal, lights
and photon grid in `DeviceScene`; proofs about all of these, of every invariant the runs check but
`WireExact`.

What would come next:

1. The proof of `WireExact`, which takes an induction over what a message is made of; and
   a bound on the depth of the library's eight-way trees, with which
   `StacksSuffice` could be weakened.
2. Edits on the workers' own disks in `WorkerStartup`, and progress of two workers on one
   cache directory: both are expressible, but take the run past its time.
3. The refinement of a reliable channel by `TcpConnection`, if its blocking calls ever get
   timeouts or partial messages.
4. Counts of references and nodes of the builders against the memory they reserve.
