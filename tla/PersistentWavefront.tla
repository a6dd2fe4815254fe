------------------------- MODULE PersistentWavefront -------------------------
(***************************************************************************)
(* launchPersistentTile (src/renderer/render_driver.cu) and the kernel     *)
(* persistentWavefrontTrace (src/renderer/renderer.cu): the warps of a     *)
(* cooperative launch generate the paths of a tile, then drain the queues  *)
(* bounce by bounce between barriers of the whole grid. The bounce, the    *)
(* queue it reads and its length are registers each warp keeps for itself. *)
(* grid.sync() is a step all launched warps take together.                 *)
(***************************************************************************)
EXTENDS WavefrontQueues

CONSTANT
    ResidentBlocks      \* how many blocks the device can keep resident

ASSUME ResidentAssumption ==
    ResidentBlocks \in Nat \ {0} /\ MaxBlocks >= BlocksFor(Capacity)

VARIABLES
    bounce,             \* each warp's bounce
    currentCount,       \* each warp's copy of the length of its queue
    chunkStart,         \* the chunk each warp's block is at
    blocks,             \* how many blocks the launch has
    queueCounts         \* the occupancy --profile-queues reports, by bounce

gridVars == <<bounce, currentCount, chunkStart, blocks, queueCounts>>
vars == <<ledgerVars, queueVars, place, laneVars, gridVars>>

\* preparePersistentLaunch
PersistentBlockCount ==
    IF BlocksFor(Capacity) < ResidentBlocks THEN BlocksFor(Capacity) ELSE ResidentBlocks

LaunchBlockCount(t) ==
    IF BlocksFor(TilePixels[t]) < PersistentBlockCount
    THEN BlocksFor(TilePixels[t]) ELSE PersistentBlockCount

Launched == {w \in Warps : w[1] < blocks}
WorkerZero == <<0, 0>>

\* Current and next rays are swapped at the end of each bounce.
Current(w) == IF bounce[w] % 2 = 0 THEN "ray" ELSE "nextRay"
NextRays(w) == IF bounce[w] % 2 = 0 THEN "nextRay" ELSE "ray"

Init ==
    /\ QueueInit
    /\ place = [w \in Warps |-> "idle"]
    /\ bounce = [w \in Warps |-> 0]
    /\ currentCount = [w \in Warps |-> 0]
    /\ chunkStart = [w \in Warps |-> 0]
    /\ blocks = 0
    /\ queueCounts = [b \in 0..MaxDepth - 1 |-> 0]

Go(w, to) == place' = [place EXCEPT ![w] = to]
-----------------------------------------------------------------------------
(* Faults.                                                                 *)

\* Nobody waits at a barrier for the last warp of the launch.
GridSync_NotForAll(from, to) ==
    /\ \E w \in Launched : place[w] = from
    /\ \A w \in Launched : place[w] = from \/ w = <<blocks - 1, 0>>
    /\ place' = [w \in Warps |-> IF w \in Launched THEN to ELSE place[w]]

\* Worker zero empties the queue that the others are yet to read.
CountReset_Current(w) == IF w = WorkerZero THEN [count EXCEPT ![Current(w)] = 0] ELSE count
-----------------------------------------------------------------------------
(* The host.                                                               *)

\* The stream runs one tile's kernel after the other.
LaunchPersistentTile ==
    /\ sampleIndex < NumSamples /\ tile < LastTile
    /\ \A w \in Warps : place[w] = "idle"
    /\ tile' = tile + 1
    /\ blocks' = LaunchBlockCount(tile + 1)
    /\ place' = [w \in Warps |-> IF w[1] < blocks' THEN "generating" ELSE "idle"]
    /\ bounce' = [w \in Warps |-> 0]
    /\ UNCHANGED <<sampleIndex, framebuffer, queueVars, laneVars, currentCount,
                   chunkStart, queueCounts>>

\* advanceSampleIndex, launched behind the tiles of a sample: the tile left on the
\* device is the last, the only one that has advanceSample set.
AdvanceSampleIndex ==
    /\ tile = LastTile
    /\ \A w \in Warps : place[w] = "idle"
    /\ tile' = 0
    /\ sampleIndex' = sampleIndex + 1
    /\ UNCHANGED <<framebuffer, queueVars, place, laneVars, gridVars>>
-----------------------------------------------------------------------------
(* The kernel.                                                             *)

\* The pixels a warp's threads start paths for, in strides of the whole grid.
OwnPixels(w) ==
    {p \in 0..TilePixels[tile] - 1 :
        \E k \in Threads(w) : p % (blocks * BlockSize) = BlockStart(w) + k}

Generate(w) ==
    /\ place[w] = "generating"
    /\ path' = [p \in Slots |-> IF p \in OwnPixels(w) THEN CameraPath(p) ELSE path[p]]
    /\ items' = [items EXCEPT !["ray"] = [i \in Slots |->
         IF i \in OwnPixels(w) THEN i ELSE items["ray"][i]]]
    /\ count' = IF w = WorkerZero THEN [count EXCEPT !["ray"] = TilePixels[tile]] ELSE count
    /\ Go(w, "generated")
    /\ UNCHANGED <<ledgerVars, laneVars, gridVars>>

GridSync(from, to) ==
    /\ Launched # {}
    /\ \A w \in Launched : place[w] = from
    /\ place' = [w \in Warps |-> IF w \in Launched THEN to ELSE place[w]]

SyncGenerated ==
    /\ GridSync("generated", "reading")
    /\ UNCHANGED <<ledgerVars, queueVars, laneVars, gridVars>>

\* --profile-queues: worker zero notes the length of the queue.
Profile(w) ==
    queueCounts' = IF w = WorkerZero
                   THEN [queueCounts EXCEPT ![bounce[w]] = count[Current(w)]]
                   ELSE queueCounts

\* Worker zero empties the queue that the bounce will fill.
CountReset(w) == IF w = WorkerZero THEN [count EXCEPT ![NextRays(w)] = 0] ELSE count

BeginBounce(w) ==
    /\ place[w] = "reading"
    /\ bounce[w] < MaxDepth /\ count[Current(w)] > 0
    /\ currentCount' = [currentCount EXCEPT ![w] = count[Current(w)]]
    /\ Profile(w)
    /\ count' = CountReset(w)
    /\ Go(w, "read")
    /\ UNCHANGED <<ledgerVars, path, items, laneVars, bounce,
                   chunkStart, blocks>>

\* The loop ends at the maximum depth, or earlier once no path is left.
LeaveKernel(w) ==
    /\ place[w] = "reading"
    /\ \/ bounce[w] = MaxDepth /\ UNCHANGED queueCounts
       \/ bounce[w] < MaxDepth /\ count[Current(w)] = 0 /\ Profile(w)
    /\ Go(w, "idle")
    /\ UNCHANGED <<ledgerVars, queueVars, laneVars, bounce,
                   currentCount, chunkStart, blocks>>

SyncReset ==
    /\ GridSync("read", "draining")
    /\ chunkStart' = [w \in Warps |-> BlockStart(w)]
    /\ UNCHANGED <<ledgerVars, queueVars, laneVars, bounce,
                   currentCount, blocks, queueCounts>>

TraceChunk(w) ==
    /\ place[w] = "draining"
    /\ chunkStart[w] < currentCount[w]
    /\ Shade(w, Current(w), chunkStart[w], currentCount[w])
    /\ Go(w, "reserving")
    /\ UNCHANGED gridVars

ReserveOutput(w) ==
    /\ place[w] = "reserving"
    /\ Reserve(w, NextRays(w))
    /\ Go(w, "storing")
    /\ UNCHANGED gridVars

\* How far apart the chunks of a block are.
BlockStride == blocks * BlockSize

StoreOutput(w) ==
    /\ place[w] = "storing"
    /\ Store(w, NextRays(w))
    /\ IF waiting'[w] = {}
       THEN /\ Go(w, "draining")
            /\ chunkStart' = [chunkStart EXCEPT ![w] = @ + BlockStride]
       ELSE Go(w, "reserving") /\ UNCHANGED chunkStart
    /\ UNCHANGED <<bounce, currentCount, blocks, queueCounts>>

FinishDraining(w) ==
    /\ place[w] = "draining"
    /\ chunkStart[w] >= currentCount[w]
    /\ Go(w, "drained")
    /\ UNCHANGED <<ledgerVars, queueVars, laneVars, gridVars>>

SyncDrained ==
    /\ GridSync("drained", "reading")
    /\ bounce' = [w \in Warps |-> bounce[w] + 1]
    /\ UNCHANGED <<ledgerVars, queueVars, laneVars,
                   currentCount, chunkStart, blocks, queueCounts>>

WarpStep(w) ==
    \/ Generate(w)
    \/ BeginBounce(w)
    \/ LeaveKernel(w)
    \/ TraceChunk(w)
    \/ ReserveOutput(w)
    \/ StoreOutput(w)
    \/ FinishDraining(w)

GridStep == SyncGenerated \/ SyncReset \/ SyncDrained

Stream == LaunchPersistentTile \/ AdvanceSampleIndex

Next ==
    \/ Stream
    \/ GridStep
    \/ \E w \in Warps : WarpStep(w)

\* A cooperative launch keeps all its blocks resident, so every warp runs.
Fairness == WF_vars(Stream) /\ WF_vars(GridStep)
              /\ \A w \in Warps : WF_vars(WarpStep(w))

Spec == Init /\ [][Next]_vars /\ Fairness
-----------------------------------------------------------------------------
(* Properties.                                                             *)

\* Between two bounces the queue to be drained lists every path that is still
\* active once, at the depth of the bounce, and none that has ended: no path is
\* lost or doubled by the warps that append side by side, whatever lengths they
\* read and however the barriers let them run ahead. At no time is a counter past
\* the capacity, so no continuation is dropped (docs/REFACTORING.md, "no
\* continuation writes past queue capacity").
QueueExact ==
    /\ \A q \in Queues : count[q] <= Capacity
    /\ \A w \in Warps : place[w] = "reading" =>
        /\ ListsActivePaths(Current(w))
        /\ \A p \in ActivePaths : path[p].depth = bounce[w]

\* However __activemask() splits the warps of the persistent kernel, and whichever
\* barriers the groups of other warps have come to, the queues stay exact for as
\* long as no lane appends in a group without lane zero (appendWarpCompacted).
ExactWhileLed == leaderless \/ QueueExact

\* And for as long every step is one of the pixel ledger: tile by tile every pixel
\* gets the radiance of one path, exactly once.
LedgerWhileLed == [][leaderless' \/ LedgerNext]_ledgerVars

\* Each sample is finished, however the warps run ahead of each other: none waits at
\* grid.sync() for one that has left the kernel on a length it read for itself.
RenderEnds == <>(leaderless \/ sampleIndex = NumSamples)
=============================================================================
