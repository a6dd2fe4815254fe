------------------------------ MODULE TaskTable ------------------------------
(***************************************************************************)
(* The split of an image into tiles and of its samples into batches:       *)
(* createRenderTasks (src/distributed/task.cpp), which both a new and a    *)
(* restarted coordinator call, createRenderTiles (renderer/                *)
(* tile_scheduler.cpp), and what RenderTaskRenderer::render                *)
(* (renderer/render_task.cu) accepts. The loops advance by additions of    *)
(* 32 bits.                                                                *)
(***************************************************************************)
EXTENDS Integers, FiniteSets

CONSTANT Word               \* 2^32

ASSUME WordAssumption == Word \in Nat \ {0}

Dimensions == {"width", "height", "tileWidth", "tileHeight",
               "samplesPerPixel", "samplesPerTask"}
Jobs == [Dimensions -> 0..Word - 1]

\* Where a loop that starts at zero is after k rounds.
Position(step, k) == (k * step) % Word
-----------------------------------------------------------------------------
(* Faults.                                                                 *)

\* A tile at the border keeps its full size.
Extent_Full(limit, step, k) == step

\* The loop also runs for the border itself.
Rounds_Inclusive(limit, step) ==
    {k \in 0..limit : \A j \in 0..k : Position(step, j) <= limit}

\* The columns are counted without the last, partial one.
TileOrdinal_Floor(job, row, column) ==
    (row * (job.width \div job.tileWidth) + column) % Word
-----------------------------------------------------------------------------
\* The rounds of for (p = 0; p < limit; p += step). A loop that has not left
\* after `limit` rounds has wrapped round and does not end.
Rounds(limit, step) == {k \in 0..limit : \A j \in 0..k : Position(step, j) < limit}
LoopEnds(limit, step) == limit \notin Rounds(limit, step)

\* min(step, limit - p)
Extent(limit, step, k) ==
    IF step < limit - Position(step, k) THEN step ELSE limit - Position(step, k)

Rows(job) == Rounds(job.height, job.tileHeight)
Columns(job) == Rounds(job.width, job.tileWidth)
Batches(job) == Rounds(job.samplesPerPixel, job.samplesPerTask)

\* The tiles are numbered row by row, in 32 bits.
TileOrdinal(job, row, column) == (row * Cardinality(Columns(job)) + column) % Word

Tile(job, row, column) ==
    [x |-> Position(job.tileWidth, column),
     y |-> Position(job.tileHeight, row),
     width |-> Extent(job.width, job.tileWidth, column),
     height |-> Extent(job.height, job.tileHeight, row)]

RenderTask(job, row, column, batch) ==
    [tileOrdinal |-> TileOrdinal(job, row, column),
     sampleStart |-> Position(job.samplesPerTask, batch),
     sampleCount |-> Extent(job.samplesPerPixel, job.samplesPerTask, batch),
     tile |-> Tile(job, row, column)]

RenderTasks(job) ==
    IF \E d \in Dimensions : job[d] = 0 THEN {}
    ELSE {RenderTask(job, place[1], place[2], place[3]) :
             place \in Rows(job) \X Columns(job) \X Batches(job)}

RenderTiles(job) ==
    {Tile(job, place[1], place[2]) : place \in Rows(job) \X Columns(job)}

\* With tiled rendering; without, the capacity is that of the image, which holds every
\* tile within it.
QueueCapacity(job) == job.tileWidth * job.tileHeight

\* What a worker that was prepared for the job renders and does not refuse.
Renders(job, task) ==
    /\ task.tile.width > 0 /\ task.tile.height > 0
    /\ task.tile.x < job.width /\ task.tile.y < job.height
    /\ task.tile.width <= job.width - task.tile.x
    /\ task.tile.height <= job.height - task.tile.y
    /\ (task.tile.width * task.tile.height) % Word <= QueueCapacity(job)
    /\ task.sampleCount > 0
    /\ task.sampleStart <= job.samplesPerPixel
    /\ task.sampleCount <= job.samplesPerPixel - task.sampleStart
-----------------------------------------------------------------------------
(* Properties.                                                             *)

Covers(task, x, y, sample) ==
    /\ x \in task.tile.x..task.tile.x + task.tile.width - 1
    /\ y \in task.tile.y..task.tile.y + task.tile.height - 1
    /\ sample \in task.sampleStart..task.sampleStart + task.sampleCount - 1

\* No loop passes the end of the 32 bits.
NoWrap(job) ==
    /\ job.width + job.tileWidth <= Word
    /\ job.height + job.tileHeight <= Word
    /\ job.samplesPerPixel + job.samplesPerTask <= Word

\* There is a number for each tile, as there is for every image that RenderDriver
\* prepares for: those of 2^32 pixels and more it refuses.
TilesNumbered(job) == Cardinality(Rows(job)) * Cardinality(Columns(job)) <= Word

\* Two tasks of one number and sample range are the same task.
TaskIdsAreUnique(job) ==
    \A a, b \in RenderTasks(job) :
        a.tileOrdinal = b.tileOrdinal /\ a.sampleStart = b.sampleStart => a = b

\* Every sample of every pixel is in exactly one task, and a worker renders it.
CoversImage(job) ==
    /\ \A x \in 0..job.width - 1, y \in 0..job.height - 1,
          sample \in 0..job.samplesPerPixel - 1 :
          \E task \in RenderTasks(job) :
              /\ Covers(task, x, y, sample)
              /\ \A other \in RenderTasks(job) : Covers(other, x, y, sample) => other = task
    /\ \A task \in RenderTasks(job) : Renders(job, task)
=============================================================================
