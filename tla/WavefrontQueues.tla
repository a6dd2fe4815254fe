--------------------------- MODULE WavefrontQueues ---------------------------
(***************************************************************************)
(* The device memory of a wavefront and what one warp does with it: the    *)
(* path states, the two ray queues that take turns as input and output     *)
(* (include/renderer/queues.cuh, path_state.cuh), the shading of a chunk   *)
(* (device_path_shading.cuh) and the compaction of the paths that go on    *)
(* (queue_compaction.cuh). Both execution modes are built from it.         *)
(*                                                                         *)
(* A ray and its radiance are left out: a pixel counts the paths added to  *)
(* it, a work item is its path index, and shading a path ends it or lets   *)
(* it go on, as far as the depth allows. A path that misses, reaches a     *)
(* light or loses the roulette ends at any depth, so does every path of    *)
(* the debug modes.                                                        *)
(*                                                                         *)
(* __activemask() names the lanes that execute together. Nothing in the    *)
(* code makes the lanes of a warp wait for each other after shading: they  *)
(* may append in any groups, one after the other, all of them together     *)
(* being but one way.                                                      *)
(***************************************************************************)
EXTENDS PixelLedger, FiniteSets

CONSTANTS
    Capacity,           \* renderQueueCapacity_
    MaxDepth,           \* config_.maxDepth
    BlockSize,          \* config_.blockSize
    WarpSize,           \* 32
    MaxBlocks,          \* bound on the blocks of a launch
    NoPath              \* a lane that has nothing to append

ASSUME QueueAssumption ==
    /\ {Capacity, MaxDepth, BlockSize, WarpSize, MaxBlocks} \subseteq Nat \ {0}
    /\ \A t \in Tiles : TilePixels[t] <= Capacity
    /\ NoPath \notin Nat

Queues == {"ray", "nextRay"}
Slots == 0..Capacity - 1            \* of a queue, and of pathStates
Warps == (0..MaxBlocks - 1) \X (0..(BlockSize - 1) \div WarpSize)

\* The threads of a warp, by their index in the block.
Threads(w) == {k \in 0..BlockSize - 1 : k \div WarpSize = w[2]}
Lane(k) == k % WarpSize
BlockStart(w) == w[1] * BlockSize

BlocksFor(paths) == (paths + BlockSize - 1) \div BlockSize

VARIABLES
    path,               \* pathStates
    items,              \* the path index of each work item, by queue and slot
    count,              \* the counter of each queue
    place,              \* where each warp is in its kernel
    carried,            \* the path each thread of a warp is to append, or NoPath
    waiting,            \* the threads of a warp that have yet to append
    reserved,           \* the threads of a warp that append together, and where
    leaderless          \* history: lanes have appended without lane zero among them

queueVars == <<path, items, count>>
laneVars == <<carried, waiting, reserved, leaderless>>

NothingReserved == [base |-> 0, group |-> {}]

\* cudaMalloc leaves some path index or other in the slots of the queues.
QueueInit ==
    /\ LedgerInit
    /\ path = [p \in Slots |-> [pixel |-> <<1, 0>>, depth |-> 0, active |-> FALSE]]
    /\ \E garbage \in {0, Capacity - 1} :
        items = [q \in Queues |-> [i \in Slots |-> garbage]]
    /\ count = [q \in Queues |-> 0]
    /\ carried = [w \in Warps |-> [k \in Threads(w) |-> NoPath]]
    /\ waiting = [w \in Warps |-> {}]
    /\ reserved = [w \in Warps |-> NothingReserved]
    /\ leaderless = FALSE

\* A path as the camera starts it.
CameraPath(p) == [pixel |-> <<tile, p>>, depth |-> 0, active |-> TRUE]

ActivePaths == {p \in Slots : path[p].active}
-----------------------------------------------------------------------------
(* Faults.                                                                 *)

\* The path that reaches the maximum depth is not cut off.
MayContinue_Deeper(p) == path[p].active /\ path[p].depth + 1 <= MaxDepth
-----------------------------------------------------------------------------
(* Shading.                                                                *)

\* Whether a path may be scattered again: at the maximum depth it is cut off.
MayContinue(p) == path[p].active /\ path[p].depth + 1 < MaxDepth

\* The threads of w trace and shade the n work items of q from `start` on; those
\* in S scatter. Every other path is added to its pixel, and if it had ended
\* before it is added again.
Shade(w, q, start, n) ==
    LET working == {k \in Threads(w) : start + k < n}
        pathOf(k) == items[q][start + k]
    IN \E S \in SUBSET {k \in working : MayContinue(pathOf(k))} :
        /\ path' = [p \in Slots |->
             [path[p] EXCEPT
                !.depth = @ + Cardinality({k \in S : pathOf(k) = p}),
                !.active = @ /\ \A k \in working \ S : pathOf(k) # p]]
        /\ framebuffer' = [pixel \in Pixels |-> framebuffer[pixel] +
             Cardinality({k \in working \ S : path[pathOf(k)].pixel = pixel})]
        /\ carried' = [carried EXCEPT ![w] = [k \in Threads(w) |->
             IF k \in S THEN pathOf(k) ELSE NoPath]]
        /\ waiting' = [waiting EXCEPT ![w] = Threads(w)]
        /\ UNCHANGED <<tile, sampleIndex, items, count, reserved, leaderless>>
-----------------------------------------------------------------------------
(* appendWarpCompacted.                                                    *)

\* The lanes __activemask() may name.
Groups(w) == (SUBSET waiting[w]) \ {{}}

Appending(w, group) == {k \in group : carried[w][k] # NoPath}

\* The bits of the ballot below the lane's own.
Rank(active, k) == Cardinality({j \in active : Lane(j) < Lane(k)})

Led(group) == \E k \in group : Lane(k) = 0

\* Where the group's output begins: lane zero reserves it for all, and what the
\* shuffle returns from a lane outside the mask is undefined.
Base(group, q) == IF Led(group) THEN {count[q]} ELSE Slots

\* The ballot, lane zero's atomicAdd and the shuffle.
Reserve(w, q) ==
    \E group \in Groups(w) : \E base \in Base(group, q) :
        /\ reserved' = [reserved EXCEPT ![w] = [base |-> base, group |-> group]]
        /\ leaderless' = (leaderless \/ (~Led(group) /\ Appending(w, group) # {}))
        /\ count' = IF Led(group)
                    THEN [count EXCEPT ![q] = @ + Cardinality(Appending(w, group))]
                    ELSE count
        /\ UNCHANGED <<ledgerVars, path, items, carried, waiting>>

\* Each lane that appends writes its item, unless the queue is full.
Store(w, q) ==
    LET active == Appending(w, reserved[w].group)
        slotOf(k) == reserved[w].base + Rank(active, k)
    IN  /\ items' = [items EXCEPT ![q] = [i \in Slots |->
             IF \E k \in active : slotOf(k) = i
             THEN carried[w][CHOOSE k \in active : slotOf(k) = i]
             ELSE items[q][i]]]
        /\ waiting' = [waiting EXCEPT ![w] = @ \ reserved[w].group]
        /\ carried' = [carried EXCEPT ![w] = [k \in Threads(w) |->
             IF k \in reserved[w].group THEN NoPath ELSE carried[w][k]]]
        /\ reserved' = [reserved EXCEPT ![w] = NothingReserved]
        /\ UNCHANGED <<ledgerVars, path, count, leaderless>>
-----------------------------------------------------------------------------
(* What must hold of a queue between two waves.                            *)

Listed(q) == {items[q][i] : i \in {j \in Slots : j < count[q]}}

\* The queue lists the paths that are still active, each of them once.
ListsActivePaths(q) ==
    /\ count[q] = Cardinality(ActivePaths)
    /\ Listed(q) = ActivePaths
=============================================================================
