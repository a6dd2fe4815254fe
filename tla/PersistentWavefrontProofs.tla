---------------------- MODULE PersistentWavefrontProofs ----------------------
(***************************************************************************)
(* Proofs about PersistentWavefront, for every size of tiles, blocks,      *)
(* warps and queues, every depth and every number of resident blocks,      *)
(* however the lanes of a warp are split when they append, as long as none *)
(* appends in a group without lane zero.                                   *)
(*                                                                         *)
(* Nothing keeps the warps of a launch together but the barriers. So the   *)
(* invariant says what a barrier guarantees: the registers each warp keeps *)
(* for itself (the bounce, the queue it reads, its length) agree, and no   *)
(* warp is in a phase that another has yet to reach. In each phase it then *)
(* says what the warps have done so far: the paths generated are those of  *)
(* the pixels of the warps that are through; between two bounces the queue *)
(* lists the active paths; while it is drained every active path is in the *)
(* output, on its way there, or in a chunk ahead of the warp it belongs to.*)
(***************************************************************************)
EXTENDS PersistentWavefront, WavefrontQueuesProofs

-----------------------------------------------------------------------------
(* The inductive invariant of the queues.                                  *)

\* The launched warps keep in step: what one has in its registers, all have.
Bounce == bounce[WorkerZero]
Rays == Current(WorkerZero)
Output == NextRays(WorkerZero)

Generation == {"generating", "generated"}
Reading == {"reading", "read"}
Draining == {"draining", "reserving", "storing", "drained"}
GridPlaces == {"idle"} \cup Generation \cup Reading \cup Draining

In(phase) == \E w \in Launched : place[w] \in phase

GridTypes ==
    /\ tile \in 0..LastTile
    /\ DataTypes
    /\ LaneTypes
    /\ place \in [Warps -> GridPlaces]
    /\ bounce \in [Warps -> 0..MaxDepth]
    /\ currentCount \in [Warps -> Nat]
    /\ chunkStart \in [Warps -> Nat]
    /\ blocks \in 0..MaxBlocks

\* No barrier lets a warp into the next phase before all have left the one before.
Lockstep ==
    /\ \A w \in Warps : bounce[w] = Bounce
    /\ \A w \in Warps : place[w] # "idle" => w \in Launched /\ tile # 0
    /\ \A v, w \in Launched :
          /\ place[v] \in Generation => place[w] \in Generation
          /\ place[v] \in Draining => place[w] \in Draining

Resting ==
    (\A w \in Warps : place[w] = "idle") => ActivePaths = {} /\ NothingCarried

Generated ==
    In(Generation) =>
        /\ Bounce = 0 /\ NothingCarried
        /\ \A p \in ActivePaths : \E w \in Launched : place[w] = "generated" /\ p \in OwnPixels(w)
        /\ \A w \in Launched : place[w] = "generated" =>
              \A p \in OwnPixels(w) : path[p] = CameraPath(p) /\ items["ray"][p] = p
        /\ place[WorkerZero] = "generated" => count["ray"] = TilePixels[tile]

Listing ==
    In(Reading) =>
        /\ NothingCarried
        /\ Lists(Rays, Bounce)
        /\ Bounce = MaxDepth => ActivePaths = {}
        /\ \A w \in Launched :
              /\ place[w] = "read" =>
                    currentCount[w] = count[Rays] /\ count[Rays] > 0 /\ Bounce < MaxDepth
              /\ place[w] = "idle" => count[Rays] = 0 \/ Bounce = MaxDepth
        /\ place[WorkerZero] = "read" => count[Output] = 0

\* The indices from `a` on, in strides of s, that are those of the threads of w.
Chunks(w, a, s) == {i \in Nat : \E j \in Nat, k \in Threads(w) : i = a + s * j + k}

\* The first chunk that w is yet to shade.
Ahead(w) ==
    IF place[w] \in {"reserving", "storing"} THEN chunkStart[w] + BlockStride ELSE chunkStart[w]

Unshaded ==
    {i \in 0..count[Rays] - 1 : \E w \in Launched : i \in Chunks(w, Ahead(w), BlockStride)}

Drained ==
    In(Draining) =>
        /\ Bounce < MaxDepth
        /\ Accounted(Rays, Unshaded, Output, Bounce)
        /\ \A w \in Launched :
              /\ currentCount[w] = count[Rays]
              /\ \E m \in Nat : chunkStart[w] = BlockStride * m + BlockStart(w)
              /\ place[w] \in {"draining", "drained"} => Carrying(w) = {}
              /\ place[w] \in {"reserving", "storing"} => Carrying(w) \subseteq waiting[w]
              /\ place[w] = "drained" => chunkStart[w] >= count[Rays]
        /\ \A w \in Warps \ Launched : Carrying(w) = {}

GridIInv ==
    /\ GridTypes
    /\ CountsFit
    /\ Lockstep
    /\ Resting
    /\ Generated
    /\ Listing
    /\ Drained

-----------------------------------------------------------------------------
(* The grid and its strides.                                               *)

\* A launch has at least one block, and no more than fit.
LEMMA BlocksOfALaunch ==
    ASSUME NEW t \in Tiles
    PROVE  LaunchBlockCount(t) \in 1..MaxBlocks
<1>1. /\ BlocksFor(Capacity) \in Nat \ {0} /\ ResidentBlocks \in Nat \ {0}
      /\ MaxBlocks \in Nat /\ BlocksFor(Capacity) <= MaxBlocks
    BY SizesArePositive, ResidentAssumption, BlocksCoverPaths
<1>2. TilePixels[t] \in Nat \ {0}
    BY TileAssumption DEF Tiles
<1>3. BlocksFor(TilePixels[t]) \in Nat \ {0}
    BY <1>2, BlocksCoverPaths
<1> QED
    BY <1>1, <1>3 DEF LaunchBlockCount, PersistentBlockCount

\* The threads of b blocks have the indices below the size of their grid.
LEMMA GridIndices ==
    ASSUME NEW w \in Warps, NEW b \in Nat, w[1] < b, NEW k \in Threads(w)
    PROVE  BlockStart(w) + k \in 0..BlockSize * b - 1
<1>1. /\ w[1] \in Nat /\ k \in 0..BlockSize - 1 /\ BlockSize \in Nat \ {0}
    BY SizesArePositive DEF Warps, Threads
<1> DEFINE c == b - 1 - w[1]
<1>2. c \in Nat /\ b = w[1] + 1 + c
    BY <1>1
<1> HIDE DEF c
<1>3. BlockSize * b = BlockSize * w[1] + BlockSize + BlockSize * c
    BY <1>1, <1>2
<1>4. BlockSize * c \in Nat /\ BlockSize * w[1] \in Nat
    BY <1>1, <1>2
<1>5. BlockStart(w) = BlockSize * w[1]
    BY <1>1 DEF BlockStart
<1> QED
    BY <1>1, <1>3, <1>4, <1>5

LEMMA StridesCoverBlocks ==
    ASSUME NEW b \in Nat \ {0}
    PROVE  /\ BlockSize * b \in Nat \ {0} /\ BlockSize <= BlockSize * b
           /\ b * BlockSize = BlockSize * b
<1>1. BlockSize \in Nat \ {0} /\ b - 1 \in Nat
    BY SizesArePositive
<1>2. BlockSize * b = BlockSize + BlockSize * (b - 1)
    BY <1>1
<1>3. BlockSize * (b - 1) \in Nat
    BY <1>1
<1>4. b * BlockSize = BlockSize * b
    BY <1>1
<1> QED
    BY <1>1, <1>2, <1>3, <1>4

\* A warp that goes on by a stride leaves the indices of one chunk behind, no others.
LEMMA OneChunk ==
    ASSUME NEW w \in Warps, NEW s \in Nat, BlockSize <= s, NEW a \in Nat
    PROVE  /\ \A i \in Chunks(w, a, s) : i \in Nat /\ i >= a
           /\ \A k \in Threads(w) : a + k \in Chunks(w, a, s)
           /\ Chunks(w, a + s, s) = {i \in Chunks(w, a, s) : \A k \in Threads(w) : i # a + k}
<1>1. BlockSize \in Nat \ {0} /\ \A k \in Threads(w) : k \in Nat /\ k < BlockSize
    BY SizesArePositive, ThreadsOfABlock
<1>2. \A i \in Chunks(w, a, s) : i \in Nat /\ i >= a
    <2> SUFFICES ASSUME NEW j \in Nat, NEW k \in Threads(w)
                 PROVE  a + s * j + k >= a
        BY DEF Chunks
    <2>1. s * j \in Nat
        OBVIOUS
    <2> QED
        BY <1>1, <2>1
<1>3. ASSUME NEW k \in Threads(w)
      PROVE  a + k \in Chunks(w, a, s)
    <2>1. a + s * 0 + k = a + k /\ a + k \in Nat
        BY <1>1
    <2> QED
        BY <2>1 DEF Chunks
<1>4. ASSUME NEW i \in Chunks(w, a + s, s)
      PROVE  i \in Chunks(w, a, s) /\ \A k \in Threads(w) : i # a + k
    <2>1. PICK j \in Nat, k \in Threads(w) : i = (a + s) + s * j + k
        BY DEF Chunks
    <2>2. s * j \in Nat /\ s * (j + 1) = s * j + s /\ j + 1 \in Nat
        OBVIOUS
    <2>3. i = a + s * (j + 1) + k /\ i \in Nat
        BY <1>1, <2>1, <2>2
    <2>4. \A l \in Threads(w) : i # a + l
        BY <1>1, <2>1, <2>2
    <2> QED
        BY <2>2, <2>3, <2>4 DEF Chunks
<1>5. ASSUME NEW i \in Chunks(w, a, s), \A k \in Threads(w) : i # a + k
      PROVE  i \in Chunks(w, a + s, s)
    <2>1. PICK j \in Nat, k \in Threads(w) : i = a + s * j + k /\ i \in Nat
        BY DEF Chunks
    <2>2. j # 0
        <3>1. s * 0 = 0
            OBVIOUS
        <3> QED
            BY <1>1, <1>5, <2>1, <3>1
    <2>3. j - 1 \in Nat /\ s * j = s * (j - 1) + s /\ s * (j - 1) \in Nat
        BY <2>2
    <2>4. i = (a + s) + s * (j - 1) + k
        BY <1>1, <2>1, <2>3
    <2> QED
        BY <2>1, <2>3, <2>4 DEF Chunks
<1>6. Chunks(w, a + s, s) = {i \in Chunks(w, a, s) : \A k \in Threads(w) : i # a + k}
    BY <1>4, <1>5
<1> QED
    BY <1>2, <1>3, <1>6

\* Sums of multiples of b differ when what is left over does.
LEMMA RemaindersApart ==
    ASSUME NEW b \in Nat \ {0}
    PROVE  \A p, q \in Nat : \A r, s \in 0..b - 1 : r # s => b * p + r # b * q + s
BY ProductsApart

\* The chunks of different warps have no index in common.
LEMMA ChunksApart ==
    ASSUME NEW v \in Warps, NEW w \in Warps, v # w, NEW b \in Nat \ {0}, v[1] < b, w[1] < b,
           NEW s, s = BlockSize * b, NEW m \in Nat, NEW n \in Nat,
           NEW i \in Chunks(v, s * n + BlockStart(v), s), NEW k \in Threads(w)
    PROVE  i # s * m + BlockStart(w) + k
<1>1. s \in Nat \ {0} /\ BlockStart(v) \in Nat /\ BlockStart(w) \in Nat /\ k \in Nat
    BY StridesCoverBlocks, IndicesOfAGrid, ThreadsOfABlock
<1>2. PICK j \in Nat, l \in Threads(v) : i = (s * n + BlockStart(v)) + s * j + l
    BY DEF Chunks
<1>3. BlockStart(v) + l \in 0..s - 1 /\ BlockStart(w) + k \in 0..s - 1 /\ l \in Nat
    BY GridIndices, ThreadsOfABlock
<1>4. s * n \in Nat /\ s * j \in Nat /\ s * m \in Nat /\ n + j \in Nat
      /\ s * (n + j) = s * n + s * j
    BY <1>1
<1> DEFINE r == BlockStart(v) + l
           t == BlockStart(w) + k
<1>5. r # t
    BY IndicesOfAGrid
<1>6. i = s * (n + j) + r /\ s * m + BlockStart(w) + k = s * m + t
    BY <1>1, <1>2, <1>3, <1>4
<1>7. r \in 0..s - 1 /\ t \in 0..s - 1
    BY <1>3
<1> HIDE DEF r, t
<1>8. s * (n + j) + r # s * m + t
    <2>1. \A p, q \in Nat : \A x, y \in 0..s - 1 : x # y => s * p + x # s * q + y
        BY <1>1, RemaindersApart, Zenon
    <2> QED
        BY ONLY <1>4, <1>5, <1>7, <2>1, m \in Nat
<1> QED
    BY <1>6, <1>8

\* Every index is in a chunk of one of the warps, from its first chunk on.
LEMMA ChunksCover ==
    ASSUME NEW b \in 1..MaxBlocks, NEW s, s = BlockSize * b, NEW i \in Nat
    PROVE  \E w \in Warps : /\ w[1] < b
                            /\ \E k \in Threads(w) : i % s = BlockStart(w) + k
                            /\ i \in Chunks(w, BlockStart(w), s)
<1>1. s \in Nat \ {0} /\ MaxBlocks \in Nat /\ b \in 0..MaxBlocks /\ b \in Nat \ {0}
    BY StridesCoverBlocks, SizesArePositive
<1> DEFINE r == i % s
           j == i \div s
<1>2. j \in Nat /\ r \in 0..s - 1 /\ i = s * j + r
    BY <1>1, DivisionOfNaturals
<1> HIDE DEF r, j
<1>3. PICK w \in Warps : w[1] < b /\ \E k \in Threads(w) : r = BlockStart(w) + k
    BY <1>1, <1>2, IndicesOfAGrid
<1>4. PICK k \in Threads(w) : r = BlockStart(w) + k
    BY <1>3
<1>5. BlockStart(w) \in Nat /\ k \in Nat /\ s * j \in Nat
    BY <1>1, <1>2, IndicesOfAGrid, ThreadsOfABlock
<1>6. i = BlockStart(w) + s * j + k
    BY <1>2, <1>4, <1>5
<1>7. i \in Chunks(w, BlockStart(w), s)
    BY <1>2, <1>6 DEF Chunks
<1> QED
    BY <1>3, <1>7 DEF r

-----------------------------------------------------------------------------
(* What the barriers give.                                                 *)

LEMMA WorkerZeroIsAWarp == WorkerZero \in Warps
<1>1. (BlockSize - 1) \div WarpSize \in Nat /\ MaxBlocks \in Nat \ {0}
    BY SizesArePositive, QuotientsAreNaturals
<1> QED
    BY <1>1 DEF WorkerZero, Warps

LEMMA GridFacts ==
    ASSUME GridIInv
    PROVE  /\ Bounce \in Nat /\ Bounce <= MaxDepth /\ MaxDepth \in Nat \ {0}
           /\ Rays \in Queues /\ Output \in Queues /\ Rays # Output
           /\ \A q \in Queues : count[q] \in 0..Capacity
           /\ \A w \in Warps : bounce[w] = Bounce /\ Current(w) = Rays /\ NextRays(w) = Output
           /\ WorkerZero \in Warps /\ Launched \subseteq Warps
           /\ \A w \in Launched : WorkerZero \in Launched /\ blocks \in 1..MaxBlocks
           /\ \A w \in Warps : place[w] # "idle" => w \in Launched /\ tile \in Tiles
<1>1. WorkerZero \in Warps
    BY WorkerZeroIsAWarp
<1>2. Bounce \in Nat /\ Bounce <= MaxDepth /\ MaxDepth \in Nat \ {0}
    BY <1>1, SizesArePositive DEF GridIInv, GridTypes, Bounce
<1>3. /\ \A w \in Warps : bounce[w] = Bounce /\ Current(w) = Rays /\ NextRays(w) = Output
      /\ Rays \in Queues /\ Output \in Queues /\ Rays # Output
    BY <1>1 DEF GridIInv, Lockstep, Bounce, Current, NextRays, Rays, Output, Queues
<1>4. \A q \in Queues : count[q] \in 0..Capacity
    BY SizesArePositive DEF GridIInv, GridTypes, DataTypes, CountsFit
<1>5. \A w \in Launched : WorkerZero \in Launched /\ blocks \in 1..MaxBlocks
    <2> SUFFICES ASSUME NEW w \in Launched
                 PROVE  WorkerZero \in Launched /\ blocks \in 1..MaxBlocks
        OBVIOUS
    <2>1. w[1] \in Nat /\ w[1] < blocks /\ blocks \in 0..MaxBlocks /\ MaxBlocks \in Nat
        BY SizesArePositive DEF Launched, Warps, GridIInv, GridTypes
    <2>2. WorkerZero[1] < blocks
        BY <2>1 DEF WorkerZero
    <2> QED
        BY <1>1, <2>1, <2>2 DEF Launched
<1>6. \A w \in Warps : place[w] # "idle" => w \in Launched /\ tile \in Tiles
    BY TilesAndPixels DEF GridIInv, GridTypes, Lockstep
<1>7. Launched \subseteq Warps
    BY DEF Launched
<1> QED
    BY <1>1, <1>2, <1>3, <1>4, <1>5, <1>6, <1>7

\* The launched warps are in one phase, but those that read may leave the kernel.
LEMMA OnePhase ==
    ASSUME GridIInv, NEW w \in Warps
    PROVE  /\ place[w] \in Generation =>
                 /\ In(Generation) /\ ~In(Reading) /\ ~In(Draining)
                 /\ \A v \in Launched : place[v] \in Generation
           /\ place[w] \in Reading =>
                 /\ In(Reading) /\ ~In(Generation) /\ ~In(Draining)
                 /\ \A v \in Launched : place[v] \in Reading \cup {"idle"}
           /\ place[w] \in Draining =>
                 /\ In(Draining) /\ ~In(Generation) /\ ~In(Reading)
                 /\ \A v \in Launched : place[v] \in Draining
<1>1. place[w] # "idle" => w \in Launched
    BY GridFacts
<1>2. \A v \in Launched : v \in Warps /\ place[v] \in GridPlaces
    BY DEF GridIInv, GridTypes, Launched
<1>3. \A u, v \in Launched : /\ place[u] \in Generation => place[v] \in Generation
                             /\ place[u] \in Draining => place[v] \in Draining
    BY DEF GridIInv, Lockstep
<1> QED
    BY <1>1, <1>2, <1>3 DEF In, Generation, Reading, Draining, GridPlaces

\* A warp that stays in its phase leaves the others where they are.
LEMMA StepInPhase ==
    ASSUME GridIInv, NEW w \in Warps, NEW phase, phase = Generation \/ phase = Draining,
           place[w] \in phase, NEW x \in phase, place' = [place EXCEPT ![w] = x],
           UNCHANGED <<tile, bounce, blocks>>
    PROVE  /\ Lockstep' /\ Resting'
           /\ Launched' = Launched /\ Bounce' = Bounce /\ Rays' = Rays /\ Output' = Output
           /\ BlockStride' = BlockStride
           /\ place' \in [Warps -> GridPlaces] /\ x \in Places
           /\ place'[w] = x /\ \A v \in Warps \ {w} : place'[v] = place[v]
           /\ In(phase)' /\ w \in Launched
           /\ phase = Generation => ~In(Reading)' /\ ~In(Draining)'
           /\ phase = Draining => ~In(Reading)' /\ ~In(Generation)'
<1>1. /\ \A v \in Warps \ {w} : place'[v] = place[v]
      /\ place'[w] = x /\ x \in GridPlaces /\ x \in Places /\ x # "idle" /\ place[w] # "idle"
      /\ place' \in [Warps -> GridPlaces]
    BY DEF GridIInv, GridTypes, GridPlaces, Places, Generation, Draining
<1>2. /\ Launched' = Launched /\ w \in Launched /\ Launched \subseteq Warps
      /\ \A v \in Launched : place[v] \in phase
    BY <1>1, GridFacts, OnePhase DEF Launched
<1>3. \A v \in Launched : place'[v] \in phase
    BY <1>1, <1>2
<1>4. Lockstep'
    BY <1>1, <1>2, <1>3 DEF GridIInv, Lockstep, Bounce, Generation, Draining
<1>5. Resting'
    BY <1>1 DEF Resting
<1> QED
    BY <1>1, <1>2, <1>3, <1>4, <1>5
       DEF In, Generation, Reading, Draining, Bounce, Rays, Output, Current, NextRays,
           BlockStride

\* A barrier takes every launched warp from one place to another.
LEMMA GridSynced ==
    ASSUME GridIInv, NEW from \in GridPlaces \ {"idle"}, NEW to \in GridPlaces \ {"idle"},
           GridSync(from, to), UNCHANGED <<tile, blocks>>,
           \A w \in Warps : bounce'[w] = Bounce'
    PROVE  /\ Lockstep' /\ Resting'
           /\ Launched' = Launched /\ BlockStride' = BlockStride
           /\ WorkerZero \in Launched /\ blocks \in 1..MaxBlocks /\ tile \in Tiles
           /\ place' \in [Warps -> GridPlaces] /\ place' \in [Warps -> Places]
           /\ \A w \in Launched : place[w] = from /\ place'[w] = to
           /\ \A w \in Warps \ Launched : place[w] = "idle" /\ place'[w] = "idle"
<1>1. /\ Launched # {} /\ \A w \in Launched : place[w] = from
      /\ place' = [w \in Warps |-> IF w \in Launched THEN to ELSE place[w]]
    BY DEF GridSync
<1>2. /\ WorkerZero \in Launched /\ blocks \in 1..MaxBlocks /\ tile \in Tiles
      /\ Launched \subseteq Warps
      /\ \A w \in Warps \ Launched : place[w] = "idle"
    BY <1>1, GridFacts
<1>3. tile # 0
    BY <1>1, <1>2 DEF GridIInv, Lockstep
<1>4. Launched' = Launched /\ BlockStride' = BlockStride
    BY DEF Launched, BlockStride
<1>5. /\ place' \in [Warps -> GridPlaces]
      /\ \A w \in Launched : place'[w] = to
      /\ \A w \in Warps \ Launched : place'[w] = "idle"
    BY <1>1, <1>2 DEF GridIInv, GridTypes
<1>6. place' \in [Warps -> Places]
    BY <1>5 DEF GridPlaces, Places, Generation, Reading, Draining
<1>7. Lockstep'
    BY <1>2, <1>3, <1>4, <1>5 DEF Lockstep
<1>8. Resting'
    BY <1>2, <1>5 DEF Resting
<1> QED
    BY <1>1, <1>2, <1>4, <1>5, <1>6, <1>7, <1>8

-----------------------------------------------------------------------------
(* The host.                                                               *)

LEMMA InitGivesGridIInv == Init => GridIInv
<1> SUFFICES ASSUME Init PROVE GridIInv
    OBVIOUS
<1> USE SizesArePositive DEF Init, QueueInit
<1>1. 0 \in Slots /\ Capacity - 1 \in Slots
    BY DEF Slots
<1>2. \A w \in Warps : carried[w] = [k \in Threads(w) |-> NoPath]
    OBVIOUS
<1>3. ActivePaths = {} /\ NothingCarried
    BY <1>2 DEF ActivePaths, NothingCarried, Carrying
<1>4. DataTypes
    <2>1. PathTypes
        BY DEF PathTypes
    <2> QED
        BY <1>1, <2>1 DEF DataTypes
<1>5. LaneTypes
    BY <1>2 DEF LaneTypes, Places, NothingReserved
<1>6. GridTypes
    <2>1. tile \in 0..LastTile
        BY TilesAndPixels DEF LedgerInit
    <2> QED
        BY <1>4, <1>5, <2>1 DEF GridTypes, GridPlaces
<1>7. CountsFit
    BY DEF CountsFit
<1>8. Launched = {} /\ Lockstep /\ WorkerZero \in Warps
    <2>1. Launched = {}
        BY DEF Launched, Warps
    <2> QED
        BY <2>1, WorkerZeroIsAWarp DEF Lockstep, Bounce
<1> QED
    BY <1>3, <1>6, <1>7, <1>8 DEF GridIInv, Resting, Generated, Listing, Drained, In

LEMMA LaunchKeepsGridIInv ==
    ASSUME GridIInv, LaunchPersistentTile
    PROVE  GridIInv'
<1>1. /\ tile < LastTile /\ tile' = tile + 1 /\ blocks' = LaunchBlockCount(tile + 1)
      /\ \A w \in Warps : place[w] = "idle"
      /\ place' = [w \in Warps |-> IF w[1] < blocks' THEN "generating" ELSE "idle"]
      /\ bounce' = [w \in Warps |-> 0]
      /\ UNCHANGED <<path, items, count, carried, waiting, reserved, currentCount, chunkStart>>
    BY DEF LaunchPersistentTile, queueVars, laneVars
<1>2. /\ GridTypes /\ DataTypes /\ LaneTypes /\ CountsFit /\ NothingCarried
      /\ ActivePaths = {} /\ WorkerZero \in Warps /\ MaxDepth \in Nat
    BY <1>1, GridFacts DEF GridIInv, GridTypes, Resting
<1>3. tile' \in Tiles /\ tile' # 0 /\ tile' \in 0..LastTile
    BY <1>1, <1>2, TilesAndPixels DEF GridTypes
<1>4. blocks' \in 1..MaxBlocks
    BY <1>1, <1>3, BlocksOfALaunch
<1>5. \A w \in Warps : /\ w \in Launched' <=> w[1] < blocks'
                       /\ w \in Launched' => place'[w] = "generating"
                       /\ w \notin Launched' => place'[w] = "idle"
    BY <1>1 DEF Launched
<1>6. DataTypes' /\ LaneTypes' /\ CountsFit' /\ NothingCarried' /\ ActivePaths' = {}
    <2>1. place' \in [Warps -> Places]
        BY <1>1 DEF Places
    <2> QED
        BY <1>1, <1>2, <2>1
           DEF DataTypes, PathTypes, LaneTypes, CountsFit, NothingCarried, Carrying, ActivePaths
<1>7. GridTypes'
    BY <1>1, <1>2, <1>3, <1>4, <1>6, SizesArePositive DEF GridTypes, GridPlaces, Generation
<1>8. Bounce' = 0 /\ Launched' \subseteq Warps
    BY <1>1, <1>2 DEF Bounce, Launched
<1>9. Lockstep'
    BY <1>1, <1>3, <1>5, <1>8 DEF Lockstep, Generation, Draining
<1>10. Generated' /\ Listing' /\ Drained' /\ Resting'
    BY <1>2, <1>5, <1>6, <1>8
       DEF Generated, Listing, Drained, Resting, In, Reading, Draining, Generation
<1> QED
    BY <1>6, <1>7, <1>9, <1>10 DEF GridIInv

LEMMA AdvanceKeepsGridIInv ==
    ASSUME GridIInv, AdvanceSampleIndex
    PROVE  GridIInv'
<1>1. /\ \A w \in Warps : place[w] = "idle"
      /\ tile' = 0 /\ UNCHANGED <<queueVars, place, laneVars, gridVars>>
    BY DEF AdvanceSampleIndex
<1> USE DEF queueVars, laneVars, gridVars
<1>2. /\ Launched' = Launched /\ Launched \subseteq Warps /\ Bounce' = Bounce
      /\ ActivePaths' = ActivePaths /\ \A w \in Warps : Carrying(w)' = Carrying(w)
    BY <1>1 DEF Launched, Bounce, ActivePaths, Carrying
<1>3. GridTypes' /\ CountsFit'
    BY <1>1, TilesAndPixels
       DEF GridIInv, GridTypes, DataTypes, PathTypes, LaneTypes, CountsFit
<1>4. Lockstep' /\ Resting'
    BY <1>1, <1>2 DEF GridIInv, Lockstep, Resting, NothingCarried, Generation, Draining
<1>5. Generated' /\ Listing' /\ Drained'
    BY <1>1, <1>2 DEF Generated, Listing, Drained, In, Generation, Reading, Draining
<1> QED
    BY <1>3, <1>4, <1>5 DEF GridIInv

-----------------------------------------------------------------------------
(* The kernel: generating the paths.                                       *)

\* A launched warp's own pixels are slots; they change neither with the queues nor
\* with the places.
LEMMA PixelsAreSlots ==
    ASSUME tile \in Tiles, NEW w \in Warps
    PROVE  OwnPixels(w) \subseteq Slots /\ \A p \in OwnPixels(w) : p < TilePixels[tile]
<1>1. TilePixels[tile] \in Nat /\ TilePixels[tile] <= Capacity /\ Capacity \in Nat
    BY TilesAndPixels, SizesArePositive
<1> QED
    BY <1>1 DEF OwnPixels, Slots

LEMMA GenerateKeepsGridIInv ==
    ASSUME GridIInv, NEW w \in Warps, Generate(w)
    PROVE  GridIInv'
<1>1. /\ place[w] = "generating" /\ place' = [place EXCEPT ![w] = "generated"]
      /\ path' = [p \in Slots |-> IF p \in OwnPixels(w) THEN CameraPath(p) ELSE path[p]]
      /\ items' = [items EXCEPT !["ray"] = [i \in Slots |->
           IF i \in OwnPixels(w) THEN i ELSE items["ray"][i]]]
      /\ count' = IF w = WorkerZero THEN [count EXCEPT !["ray"] = TilePixels[tile]] ELSE count
      /\ UNCHANGED <<tile, carried, waiting, reserved, bounce, currentCount, chunkStart,
          blocks>>
    BY DEF Generate, Go, ledgerVars, laneVars, gridVars
<1>2. /\ GridTypes /\ DataTypes /\ LaneTypes /\ CountsFit
      /\ tile \in Tiles /\ w \in Launched /\ WorkerZero \in Launched /\ Launched \subseteq Warps
      /\ In(Generation) /\ "generating" \in Generation /\ "generated" \in Generation
      /\ "ray" \in Queues
    BY <1>1, GridFacts, OnePhase DEF GridIInv, GridTypes, Generation, Queues
<1>3. /\ Lockstep' /\ Resting'
      /\ Launched' = Launched /\ Bounce' = Bounce
      /\ place' \in [Warps -> GridPlaces]
      /\ place'[w] = "generated" /\ \A v \in Warps \ {w} : place'[v] = place[v]
      /\ ~In(Reading)' /\ ~In(Draining)'
    BY <1>1, <1>2, StepInPhase
<1>4. /\ Bounce = 0 /\ NothingCarried
      /\ \A p \in ActivePaths : \E v \in Launched : place[v] = "generated" /\ p \in OwnPixels(v)
      /\ \A v \in Launched : place[v] = "generated" =>
            \A p \in OwnPixels(v) : path[p] = CameraPath(p) /\ items["ray"][p] = p
      /\ place[WorkerZero] = "generated" => count["ray"] = TilePixels[tile]
    BY <1>2 DEF GridIInv, Generated
<1>5. /\ \A v \in Warps : OwnPixels(v)' = OwnPixels(v) /\ OwnPixels(v) \subseteq Slots
      /\ \A p : CameraPath(p)' = CameraPath(p)
      /\ \A v \in Warps : Carrying(v)' = Carrying(v)
    BY <1>1, <1>2, PixelsAreSlots DEF OwnPixels, CameraPath, Carrying
<1>6. \A p \in Slots : CameraPath(p) \in [pixel : Nat \X Nat, depth : Nat, active : BOOLEAN]
    BY <1>2, TilesAndPixels, SizesArePositive DEF CameraPath, Slots
<1>7. DataTypes' /\ CountsFit'
    <2>1. path' \in [Slots -> [pixel : Nat \X Nat, depth : Nat, active : BOOLEAN]]
        BY <1>1, <1>2, <1>6 DEF DataTypes, PathTypes
    <2>2. items' \in [Queues -> [Slots -> Slots]]
        BY <1>1, <1>2, <1>5 DEF DataTypes
    <2>3. TilePixels[tile] \in Nat /\ TilePixels[tile] <= Capacity
        BY <1>2, TilesAndPixels
    <2> QED
        BY <1>1, <1>2, <2>1, <2>2, <2>3 DEF DataTypes, PathTypes, CountsFit
<1>8. LaneTypes'
    BY <1>1, <1>2 DEF LaneTypes, Places
<1>9. GridTypes'
    BY <1>1, <1>2, <1>3, <1>7, <1>8 DEF GridTypes
<1>10. Generated'
    <2>1. \A p \in ActivePaths' : p \in OwnPixels(w) \/ p \in ActivePaths
        BY <1>1 DEF ActivePaths
    <2>2. \A p \in ActivePaths' : \E v \in Launched : place'[v] = "generated" /\ p \in OwnPixels(v)
        BY <1>2, <1>3, <1>4, <2>1
    <2>3. ASSUME NEW v \in Launched, place'[v] = "generated", NEW p \in OwnPixels(v)
          PROVE  path'[p] = CameraPath(p) /\ items'["ray"][p] = p
        <3>1. v \in Warps /\ p \in Slots
            BY <1>2, <1>5
        <3>2. CASE p \in OwnPixels(w)
            BY <1>1, <1>2, <3>1, <3>2 DEF DataTypes
        <3>3. CASE p \notin OwnPixels(w)
            <4>1. v # w /\ path[p] = CameraPath(p) /\ items["ray"][p] = p
                BY <1>3, <1>4, <2>3, <3>1, <3>3
            <4> QED
                BY <1>1, <1>2, <3>1, <3>3, <4>1 DEF DataTypes
        <3> QED
            BY <3>2, <3>3
    <2>4. place'[WorkerZero] = "generated" => count'["ray"] = TilePixels[tile]
        BY <1>1, <1>2, <1>3, <1>4 DEF DataTypes
    <2>5. NothingCarried'
        BY <1>4, <1>5 DEF NothingCarried
    <2>6. (\A p \in ActivePaths : \E v \in Launched : place[v] = "generated" /\ p \in OwnPixels(v))'
        BY <1>2, <1>3, <1>5, <2>2
    <2>7. (\A v \in Launched : place[v] = "generated" =>
              \A p \in OwnPixels(v) : path[p] = CameraPath(p) /\ items["ray"][p] = p)'
        BY <1>2, <1>3, <1>5, <2>3
    <2> QED
        BY <1>1, <1>3, <1>4, <2>4, <2>5, <2>6, <2>7 DEF Generated
<1> QED
    BY <1>3, <1>7, <1>9, <1>10 DEF GridIInv, Listing, Drained

\* Each pixel of the tile is one of some warp's own.
LEMMA EveryPixelGenerated ==
    ASSUME blocks \in 1..MaxBlocks, tile \in Tiles, NEW i \in 0..TilePixels[tile] - 1
    PROVE  \E w \in Launched : i \in OwnPixels(w)
<1> DEFINE b == blocks
           s == BlockSize * b
<1>1. b \in 1..MaxBlocks /\ i \in Nat /\ b \in Nat \ {0} /\ blocks * BlockSize = s
    BY TilesAndPixels, SizesArePositive
<1> HIDE DEF b, s
<1>2. PICK w \in Warps : w[1] < b /\ \E k \in Threads(w) : i % s = BlockStart(w) + k
    BY <1>1, ChunksCover DEF s
<1>3. w \in Launched
    BY <1>2 DEF Launched, b
<1> QED
    BY <1>1, <1>2, <1>3 DEF OwnPixels

LEMMA SyncGeneratedKeepsGridIInv ==
    ASSUME GridIInv, SyncGenerated
    PROVE  GridIInv'
<1>1. /\ GridSync("generated", "reading")
      /\ UNCHANGED <<tile, path, items, count, carried, waiting, reserved,
                     bounce, currentCount, chunkStart, blocks>>
    BY DEF SyncGenerated, ledgerVars, queueVars, laneVars, gridVars
<1>2. GridTypes /\ DataTypes /\ LaneTypes /\ CountsFit
    BY DEF GridIInv, GridTypes
<1>3. /\ Lockstep' /\ Resting'
      /\ Launched' = Launched /\ WorkerZero \in Launched
      /\ blocks \in 1..MaxBlocks /\ tile \in Tiles
      /\ place' \in [Warps -> GridPlaces] /\ place' \in [Warps -> Places]
      /\ \A w \in Launched : place[w] = "generated" /\ place'[w] = "reading"
    <2>1. \A w \in Warps : bounce'[w] = Bounce'
        BY <1>1, GridFacts DEF Bounce
    <2>2. /\ "generated" \in GridPlaces \ {"idle"} /\ "reading" \in GridPlaces \ {"idle"}
        BY DEF GridPlaces, Generation, Reading
    <2> QED
        BY <1>1, <2>1, <2>2, GridSynced
<1>4. Bounce' = Bounce /\ Rays' = Rays /\ ActivePaths' = ActivePaths
      /\ \A w \in Warps : Carrying(w)' = Carrying(w)
    BY <1>1 DEF Bounce, Rays, Current, ActivePaths, Carrying
<1>5. /\ Bounce = 0 /\ NothingCarried
      /\ \A p \in ActivePaths : \E w \in Launched : p \in OwnPixels(w)
      /\ \A w \in Launched :
            \A p \in OwnPixels(w) : path[p] = CameraPath(p) /\ items["ray"][p] = p
      /\ count["ray"] = TilePixels[tile]
    <2>1. In(Generation)
        BY <1>3 DEF In, Generation
    <2> QED
        BY <1>3, <2>1 DEF GridIInv, Generated
<1>6. Rays = "ray" /\ Launched \subseteq Warps
    <2>1. bounce[WorkerZero] = 0
        BY <1>5 DEF Bounce
    <2> QED
        BY <2>1, GridFacts DEF Rays, Current
<1>7. \A i \in 0..TilePixels[tile] - 1 : \E w \in Launched : i \in OwnPixels(w)
    BY <1>3, EveryPixelGenerated
<1>8. Lists(Rays, Bounce)
    <2>1. ASSUME NEW i \in 0..count["ray"] - 1
          PROVE  i \in Slots /\ items["ray"][i] = i /\ path[i].active /\ path[i].depth = 0
        <3>1. PICK w \in Launched : i \in OwnPixels(w)
            BY <1>5, <1>7, <2>1
        <3>2. i \in Slots /\ path[i] = CameraPath(i) /\ items["ray"][i] = i
            BY <1>3, <1>5, <1>6, <3>1, PixelsAreSlots
        <3> QED
            BY <3>2 DEF CameraPath
    <2>2. ASSUME NEW p \in ActivePaths
          PROVE  p \in 0..count["ray"] - 1
        BY <1>5, <2>2 DEF OwnPixels
    <2> QED
        BY <1>5, <1>6, <2>1, <2>2 DEF Lists, ActivePaths
<1>9. Lists(Rays, Bounce)'
    BY <1>1, <1>4, <1>8 DEF Lists
<1>10. Listing'
    BY <1>3, <1>4, <1>5, <1>9, SizesArePositive DEF Listing, NothingCarried
<1>11. GridTypes' /\ CountsFit'
    BY <1>1, <1>2, <1>3 DEF GridTypes, DataTypes, PathTypes, LaneTypes, CountsFit
<1>12. Generated' /\ Drained'
    BY <1>3 DEF Generated, Drained, In, Generation, Draining
<1> QED
    BY <1>3, <1>10, <1>11, <1>12 DEF GridIInv

-----------------------------------------------------------------------------
(* The kernel: between two bounces.                                        *)

\* Worker zero empties the queue that is not read, before the barrier.
LEMMA BeginBounceKeepsGridIInv ==
    ASSUME GridIInv, NEW w \in Warps, BeginBounce(w)
    PROVE  GridIInv'
<1>1. /\ place[w] = "reading" /\ place' = [place EXCEPT ![w] = "read"]
      /\ bounce[w] < MaxDepth /\ count[Current(w)] > 0
      /\ currentCount' = [currentCount EXCEPT ![w] = count[Current(w)]]
      /\ count' = IF w = WorkerZero THEN [count EXCEPT ![NextRays(w)] = 0] ELSE count
      /\ UNCHANGED <<tile, path, items, carried, waiting, reserved, bounce, chunkStart, blocks>>
    BY DEF BeginBounce, CountReset, Go, ledgerVars, laneVars
<1>2. /\ GridTypes /\ DataTypes /\ LaneTypes /\ CountsFit /\ Lockstep
      /\ Rays \in Queues /\ Output \in Queues /\ Rays # Output
      /\ Current(w) = Rays /\ NextRays(w) = Output /\ bounce[w] = Bounce
      /\ count[Rays] \in Nat /\ w \in Launched /\ Launched \subseteq Warps /\ In(Reading)
    BY <1>1, GridFacts, OnePhase DEF GridIInv, GridTypes, DataTypes, Reading
<1>3. /\ place'[w] = "read" /\ \A v \in Warps \ {w} : place'[v] = place[v]
      /\ currentCount'[w] = count[Rays]
      /\ \A v \in Warps \ {w} : currentCount'[v] = currentCount[v]
      /\ place' \in [Warps -> GridPlaces] /\ place' \in [Warps -> Places]
    BY <1>1, <1>2 DEF GridTypes, LaneTypes, GridPlaces, Places, Reading
<1>4. /\ Launched' = Launched /\ Bounce' = Bounce /\ Rays' = Rays /\ Output' = Output
      /\ ActivePaths' = ActivePaths /\ \A v \in Warps : Carrying(v)' = Carrying(v)
    BY <1>1 DEF Launched, Bounce, Rays, Output, Current, NextRays, ActivePaths, Carrying
<1>5. /\ count'[Rays] = count[Rays]
      /\ count' \in [Queues -> Nat] /\ \A q \in Queues : count'[q] <= Capacity
      /\ w = WorkerZero => count'[Output] = 0
      /\ w # WorkerZero => count' = count
    BY <1>1, <1>2, SizesArePositive DEF DataTypes, CountsFit
<1>6. \A v \in Launched : place[v] \in Reading \cup {"idle"} /\ place'[v] \in Reading \cup {"idle"}
    <2>1. \A v \in Launched : place[v] \in Reading \cup {"idle"}
        BY <1>1, OnePhase DEF Reading
    <2> QED
        BY <1>2, <1>3, <2>1 DEF Reading
<1>7. Lockstep' /\ Resting'
    <2>1. \A v \in Warps : place'[v] # "idle" => v \in Launched /\ tile # 0
        BY <1>1, <1>2, <1>3 DEF Lockstep
    <2> QED
        BY <1>1, <1>2, <1>3, <1>4, <1>6, <2>1
           DEF Lockstep, Resting, Bounce, Generation, Reading, Draining
<1>8. GridTypes' /\ CountsFit'
    <2>1. currentCount' \in [Warps -> Nat]
        BY <1>1, <1>2 DEF GridTypes
    <2> QED
        BY <1>1, <1>2, <1>3, <1>5, <2>1
           DEF GridTypes, DataTypes, PathTypes, LaneTypes, CountsFit
<1>9. /\ NothingCarried /\ Lists(Rays, Bounce)
      /\ Bounce = MaxDepth => ActivePaths = {}
      /\ \A v \in Launched :
            /\ place[v] = "read" =>
                  currentCount[v] = count[Rays] /\ count[Rays] > 0 /\ Bounce < MaxDepth
            /\ place[v] = "idle" => count[Rays] = 0 \/ Bounce = MaxDepth
      /\ place[WorkerZero] = "read" => count[Output] = 0
    BY <1>2 DEF GridIInv, Listing
<1>10. Listing'
    <2>1. Lists(Rays, Bounce)' /\ NothingCarried'
        BY <1>1, <1>4, <1>5, <1>9 DEF Lists, NothingCarried
    <2>2. \A v \in Launched :
            /\ place'[v] = "read" =>
                  currentCount'[v] = count[Rays] /\ count[Rays] > 0 /\ Bounce < MaxDepth
            /\ place'[v] = "idle" => count[Rays] = 0 \/ Bounce = MaxDepth
        BY <1>1, <1>2, <1>3, <1>9
    <2>3. place'[WorkerZero] = "read" => count'[Output] = 0
        BY <1>3, <1>5, <1>9, WorkerZeroIsAWarp
    <2> QED
        BY <1>4, <1>5, <1>9, <2>1, <2>2, <2>3 DEF Listing
<1>11. Generated' /\ Drained'
    BY <1>4, <1>6 DEF Generated, Drained, In, Generation, Reading, Draining
<1> QED
    BY <1>7, <1>8, <1>10, <1>11 DEF GridIInv

\* A warp that leaves for want of work leaves nothing behind, and all will leave.
LEMMA LeaveKernelKeepsGridIInv ==
    ASSUME GridIInv, NEW w \in Warps, LeaveKernel(w)
    PROVE  GridIInv'
<1>1. /\ place[w] = "reading" /\ place' = [place EXCEPT ![w] = "idle"]
      /\ bounce[w] = MaxDepth \/ count[Current(w)] = 0
      /\ UNCHANGED <<tile, path, items, count, carried, waiting, reserved,
                     bounce, currentCount, chunkStart, blocks>>
    BY DEF LeaveKernel, Go, ledgerVars, queueVars, laneVars
<1>2. /\ GridTypes /\ DataTypes /\ LaneTypes /\ CountsFit /\ Lockstep
      /\ Current(w) = Rays /\ bounce[w] = Bounce
      /\ w \in Launched /\ Launched \subseteq Warps /\ In(Reading)
    BY <1>1, GridFacts, OnePhase DEF GridIInv, GridTypes, Reading
<1>3. /\ place'[w] = "idle" /\ \A v \in Warps \ {w} : place'[v] = place[v]
      /\ place' \in [Warps -> GridPlaces] /\ place' \in [Warps -> Places]
    BY <1>1, <1>2 DEF GridTypes, LaneTypes, GridPlaces, Places
<1>4. /\ Launched' = Launched /\ Bounce' = Bounce /\ Rays' = Rays /\ Output' = Output
      /\ ActivePaths' = ActivePaths /\ \A v \in Warps : Carrying(v)' = Carrying(v)
    BY <1>1 DEF Launched, Bounce, Rays, Output, Current, NextRays, ActivePaths, Carrying
<1>5. \A v \in Launched : place[v] \in Reading \cup {"idle"} /\ place'[v] \in Reading \cup {"idle"}
    <2>1. \A v \in Launched : place[v] \in Reading \cup {"idle"}
        BY <1>1, OnePhase DEF Reading
    <2> QED
        BY <1>2, <1>3, <2>1
<1>6. Lockstep'
    <2>1. \A v \in Warps : place'[v] # "idle" => v \in Launched /\ tile # 0
        BY <1>2, <1>3 DEF Lockstep
    <2> QED
        BY <1>1, <1>2, <1>4, <1>5, <2>1
           DEF Lockstep, Bounce, Generation, Reading, Draining
<1>7. GridTypes' /\ CountsFit'
    BY <1>1, <1>2, <1>3 DEF GridTypes, DataTypes, PathTypes, LaneTypes, CountsFit
<1>8. /\ NothingCarried /\ Lists(Rays, Bounce)
      /\ Bounce = MaxDepth => ActivePaths = {}
      /\ \A v \in Launched :
            /\ place[v] = "read" =>
                  currentCount[v] = count[Rays] /\ count[Rays] > 0 /\ Bounce < MaxDepth
            /\ place[v] = "idle" => count[Rays] = 0 \/ Bounce = MaxDepth
      /\ place[WorkerZero] = "read" => count[Output] = 0
    BY <1>2 DEF GridIInv, Listing
<1>9. Resting'
    <2>1. ActivePaths = {}
        <3>1. CASE count[Rays] = 0
            <4>1. 0..count[Rays] - 1 = {}
                BY <3>1
            <4> QED
                BY <1>8, <4>1 DEF Lists
        <3> QED
            BY <1>1, <1>2, <1>8, <3>1
    <2> QED
        BY <1>4, <1>8, <2>1 DEF Resting, NothingCarried
<1>10. Listing'
    <2>1. Lists(Rays, Bounce)' /\ NothingCarried'
        BY <1>1, <1>4, <1>8 DEF Lists, NothingCarried
    <2>2. \A v \in Launched :
            /\ place'[v] = "read" =>
                  currentCount[v] = count[Rays] /\ count[Rays] > 0 /\ Bounce < MaxDepth
            /\ place'[v] = "idle" => count[Rays] = 0 \/ Bounce = MaxDepth
        BY <1>1, <1>2, <1>3, <1>8
    <2>3. place'[WorkerZero] = "read" => count[Output] = 0
        BY <1>3, <1>8, WorkerZeroIsAWarp
    <2> QED
        BY <1>1, <1>4, <1>8, <2>1, <2>2, <2>3 DEF Listing
<1>11. Generated' /\ Drained'
    BY <1>4, <1>5 DEF Generated, Drained, In, Generation, Reading, Draining
<1> QED
    BY <1>6, <1>7, <1>9, <1>10, <1>11 DEF GridIInv

\* Behind the barrier every warp has its first chunk ahead of it, and the chunks are
\* the whole queue.
LEMMA SyncResetKeepsGridIInv ==
    ASSUME GridIInv, SyncReset
    PROVE  GridIInv'
<1>1. /\ GridSync("read", "draining")
      /\ chunkStart' = [w \in Warps |-> BlockStart(w)]
      /\ UNCHANGED <<tile, path, items, count, carried, waiting, reserved,
                     bounce, currentCount, blocks>>
    BY DEF SyncReset, ledgerVars, queueVars, laneVars
<1>2. GridTypes /\ DataTypes /\ LaneTypes /\ CountsFit
    BY DEF GridIInv, GridTypes
<1>3. /\ Lockstep' /\ Resting'
      /\ Launched' = Launched /\ WorkerZero \in Launched /\ BlockStride' = BlockStride
      /\ blocks \in 1..MaxBlocks
      /\ place' \in [Warps -> GridPlaces] /\ place' \in [Warps -> Places]
      /\ \A w \in Launched : place[w] = "read" /\ place'[w] = "draining"
    <2>1. \A w \in Warps : bounce'[w] = Bounce'
        BY <1>1, GridFacts DEF Bounce
    <2>2. /\ "read" \in GridPlaces \ {"idle"} /\ "draining" \in GridPlaces \ {"idle"}
        BY DEF GridPlaces, Reading, Draining
    <2> QED
        BY <1>1, <2>1, <2>2, GridSynced
<1>4. Bounce' = Bounce /\ Rays' = Rays /\ Output' = Output /\ ActivePaths' = ActivePaths
      /\ \A w \in Warps : Carrying(w)' = Carrying(w)
    BY <1>1 DEF Bounce, Rays, Output, Current, NextRays, ActivePaths, Carrying
<1>5. /\ NothingCarried /\ Lists(Rays, Bounce) /\ Bounce < MaxDepth
      /\ \A w \in Launched : currentCount[w] = count[Rays]
      /\ count[Output] = 0
    <2>1. In(Reading)
        BY <1>3 DEF In, Reading
    <2> QED
        BY <1>3, <2>1 DEF GridIInv, Listing
<1>6. /\ Launched \subseteq Warps /\ count[Rays] \in Nat /\ Output \in Queues /\ Rays \in Queues
      /\ \A w \in Warps : BlockStart(w) \in Nat
    BY GridFacts, IndicesOfAGrid
<1>7. BlockStride = BlockSize * blocks /\ BlockStride \in Nat
    BY <1>3, SizesArePositive, StridesCoverBlocks DEF BlockStride
<1>8. Unshaded' = 0..count[Rays] - 1
    <2>1. \A w \in Launched : Ahead(w)' = BlockStart(w)
        BY <1>1, <1>3, <1>6 DEF Ahead
    <2>2. ASSUME NEW i \in 0..count[Rays] - 1
          PROVE  \E w \in Launched : i \in Chunks(w, BlockStart(w), BlockStride)
        <3>1. i \in Nat
            BY <1>6
        <3>2. PICK w \in Warps : w[1] < blocks /\ i \in Chunks(w, BlockStart(w), BlockStride)
            BY <1>3, <1>7, <3>1, ChunksCover
        <3> QED
            BY <3>2 DEF Launched
    <2>3. \A w \in Launched : Chunks(w, BlockStart(w), BlockStride)'
                              = Chunks(w, BlockStart(w), BlockStride)
        BY <1>3 DEF Chunks
    <2> QED
        BY <1>1, <1>3, <1>4, <2>1, <2>2, <2>3 DEF Unshaded, Chunks
<1>9. Accounted(Rays, Unshaded, Output, Bounce)'
    <2> DEFINE q == Rays
               n == Output
               d == Bounce
    <2>1. q' = q /\ n' = n /\ d' = d /\ count'[n] = 0 /\ count'[q] = count[q]
          /\ Lists(q, d) /\ Unshaded' = 0..count[q] - 1
        BY <1>1, <1>4, <1>5, <1>8
    <2> HIDE DEF q, n, d
    <2>2. OutputExact(n, d + 1)' /\ Held(n)' = {}
        <3>1. \A w \in Warps : Carrying(w)' = {}
            BY <1>4, <1>5 DEF NothingCarried
        <3> DEFINE e == d + 1
        <3>2. LaneTypes'
            BY <1>1, <1>2, <1>3 DEF LaneTypes
        <3>3. OutputExact(n, e)' /\ Held(n)' = {}
            BY <2>1, <3>1, <3>2, EmptyOutput
        <3> QED
            BY <3>3
    <2>3. Accounted(q, Unshaded, n, d)'
        BY <1>1, <1>4, <2>1, <2>2 DEF Lists, Accounted
    <2> QED
        BY <2>3 DEF q, n, d
<1>10. Drained'
    <2>1. \A w \in Launched : \E m \in Nat : chunkStart'[w] = BlockStride * m + BlockStart(w)
        <3> SUFFICES ASSUME NEW w \in Launched
                     PROVE  chunkStart'[w] = BlockStride * 0 + BlockStart(w)
            OBVIOUS
        <3>1. BlockStride * 0 = 0
            BY <1>7
        <3> QED
            BY <1>1, <1>6, <3>1
    <2> QED
        BY <1>1, <1>3, <1>4, <1>5, <1>6, <1>9, <2>1 DEF Drained, NothingCarried
<1>11. GridTypes' /\ CountsFit'
    BY <1>1, <1>2, <1>3, <1>6 DEF GridTypes, DataTypes, PathTypes, LaneTypes, CountsFit
<1>12. Generated' /\ Listing'
    BY <1>3 DEF Generated, Listing, In, Generation, Reading
<1> QED
    BY <1>3, <1>10, <1>11, <1>12 DEF GridIInv

-----------------------------------------------------------------------------
(* The kernel: draining the queue.                                         *)

\* While the queue is drained the first chunk ahead of a warp is one of its own.
LEMMA ChunksAhead ==
    ASSUME GridIInv, In(Draining)
    PROVE  /\ BlockStride = BlockSize * blocks /\ BlockStride \in Nat /\ BlockSize <= BlockStride
           /\ blocks \in Nat \ {0} /\ Launched \subseteq Warps
           /\ \A w \in Launched :
                 /\ \E m \in Nat : chunkStart[w] = BlockStride * m + BlockStart(w)
                 /\ \E m \in Nat : Ahead(w) = BlockStride * m + BlockStart(w)
                 /\ chunkStart[w] \in Nat /\ Ahead(w) \in Nat
<1>1. PICK u \in Launched : TRUE
    BY DEF In
<1>2. blocks \in Nat \ {0} /\ Launched \subseteq Warps
    BY <1>1, GridFacts, SizesArePositive
<1>3. BlockStride = BlockSize * blocks /\ BlockStride \in Nat /\ BlockSize <= BlockStride
    BY <1>2, StridesCoverBlocks DEF BlockStride
<1> DEFINE s == BlockStride
<1> HIDE DEF s
<1>4. ASSUME NEW w \in Launched
      PROVE  /\ \E m \in Nat : chunkStart[w] = s * m + BlockStart(w)
             /\ \E m \in Nat : Ahead(w) = s * m + BlockStart(w)
             /\ chunkStart[w] \in Nat /\ Ahead(w) \in Nat
    <2>1. PICK m \in Nat : chunkStart[w] = s * m + BlockStart(w)
        BY DEF GridIInv, Drained, s
    <2>2. s \in Nat /\ BlockStart(w) \in Nat /\ chunkStart[w] \in Nat
        BY <1>2, <1>3, IndicesOfAGrid DEF GridIInv, GridTypes, s
    <2>3. chunkStart[w] + s = s * (m + 1) + BlockStart(w) /\ m + 1 \in Nat
        BY <2>1, <2>2
    <2>4. \E l \in Nat : chunkStart[w] + s = s * l + BlockStart(w)
        BY <2>3
    <2>5. Ahead(w) = chunkStart[w] \/ Ahead(w) = chunkStart[w] + s
        BY DEF Ahead, s
    <2>6. Ahead(w) \in Nat
        BY <2>2, <2>5
    <2>7. \E l \in Nat : Ahead(w) = s * l + BlockStart(w)
        BY <2>1, <2>4, <2>5, Zenon
    <2> QED
        BY <2>1, <2>2, <2>6, <2>7, Zenon
<1> QED
    BY <1>2, <1>3, <1>4 DEF s

\* The chunk that a warp takes is its own: taking it leaves the items of all others.
LEMMA ChunkTaken ==
    ASSUME GridIInv, NEW w \in Launched, place[w] = "draining",
           place' = [place EXCEPT ![w] = "reserving"],
           UNCHANGED <<count, bounce, chunkStart, blocks>>
    PROVE  /\ Unshaded' = {i \in Unshaded : \A k \in Threads(w) : i # chunkStart[w] + k}
           /\ Unshaded \in SUBSET (0..count[Rays] - 1)
           /\ \A k \in Working(w, chunkStart[w], count[Rays]) : chunkStart[w] + k \in Unshaded
<1> DEFINE s == BlockStride
           a == chunkStart[w]
<1>1. /\ Launched \subseteq Warps /\ In(Draining) /\ Rays \in Queues /\ count[Rays] \in Nat
      /\ Launched' = Launched /\ Rays' = Rays /\ s' = s
    BY GridFacts, OnePhase DEF Draining, Launched, Rays, Current, BlockStride
<1>2. /\ s = BlockSize * blocks /\ s \in Nat /\ BlockSize <= s /\ blocks \in Nat \ {0}
      /\ a \in Nat
      /\ \A v \in Launched : \E m \in Nat : Ahead(v) = s * m + BlockStart(v)
      /\ \E m \in Nat : a = s * m + BlockStart(w)
    BY <1>1, ChunksAhead
<1>3. /\ Ahead(w) = a /\ Ahead(w)' = a + s
      /\ \A v \in Launched \ {w} : Ahead(v)' = Ahead(v)
    BY <1>1 DEF Ahead, GridIInv, GridTypes
<1> HIDE DEF s, a
<1>4. ASSUME NEW v \in Launched \ {w}, NEW i \in Chunks(v, Ahead(v), s), NEW k \in Threads(w)
      PROVE  i # a + k
    <2>1. PICK n \in Nat : Ahead(v) = s * n + BlockStart(v)
        BY <1>2
    <2>2. PICK m \in Nat : a = s * m + BlockStart(w)
        BY <1>2
    <2>3. v \in Warps /\ w \in Warps /\ v[1] < blocks /\ w[1] < blocks
        BY <1>1 DEF Launched
    <2> QED
        BY <1>2, <2>1, <2>2, <2>3, ChunksApart
<1>5. /\ \A k \in Threads(w) : a + k \in Chunks(w, a, s)
      /\ Chunks(w, a + s, s) = {i \in Chunks(w, a, s) : \A k \in Threads(w) : i # a + k}
    BY <1>1, <1>2, OneChunk
<1>6. Unshaded = {i \in 0..count[Rays] - 1 : \E v \in Launched : i \in Chunks(v, Ahead(v), s)}
    BY DEF Unshaded, s
<1>7. Unshaded' = {i \in 0..count[Rays] - 1 :
                      \E v \in Launched : i \in Chunks(v, Ahead(v)', s)}
    <2>1. \A v \in Warps : \A b : Chunks(v, b, s) = {i \in Nat : \E j \in Nat, k \in Threads(v) :
                                                          i = b + s * j + k}
        BY DEF Chunks
    <2> QED
        BY <1>1 DEF Unshaded, s, Chunks
<1>8. \A i : i \in Unshaded' <=> i \in Unshaded /\ \A k \in Threads(w) : i # a + k
    BY <1>3, <1>4, <1>5, <1>6, <1>7
<1>9. \A k \in Working(w, a, count[Rays]) : a + k \in Unshaded
    <2>1. \A k \in Threads(w) : k \in Nat
        BY <1>1, ThreadsOfABlock
    <2> QED
        BY <1>1, <1>2, <1>3, <1>5, <1>6, <2>1 DEF Working
<1> QED
    BY <1>6, <1>8, <1>9 DEF a

LEMMA TraceChunkKeepsGridIInv ==
    ASSUME GridIInv, NEW w \in Warps, TraceChunk(w)
    PROVE  /\ GridIInv'
           /\ ChunkActive(w, Rays, chunkStart[w], count[Rays], Bounce)
           /\ Shade(w, Rays, chunkStart[w], count[Rays])
<1>1. /\ place[w] = "draining" /\ place' = [place EXCEPT ![w] = "reserving"]
      /\ Shade(w, Current(w), chunkStart[w], currentCount[w])
      /\ UNCHANGED <<bounce, currentCount, chunkStart, blocks>>
    BY DEF TraceChunk, Go, gridVars
<1>2. /\ GridTypes /\ DataTypes /\ LaneTypes /\ CountsFit /\ In(Draining) /\ w \in Launched
      /\ Launched \subseteq Warps /\ "draining" \in Draining /\ "reserving" \in Draining
      /\ Current(w) = Rays
    BY <1>1, GridFacts, OnePhase DEF GridIInv, GridTypes, Draining
<1>3. /\ Bounce < MaxDepth /\ Accounted(Rays, Unshaded, Output, Bounce)
      /\ \A v \in Launched :
            /\ currentCount[v] = count[Rays]
            /\ \E m \in Nat : chunkStart[v] = BlockStride * m + BlockStart(v)
            /\ place[v] \in {"draining", "drained"} => Carrying(v) = {}
            /\ place[v] \in {"reserving", "storing"} => Carrying(v) \subseteq waiting[v]
            /\ place[v] = "drained" => chunkStart[v] >= count[Rays]
      /\ \A v \in Warps \ Launched : Carrying(v) = {}
    BY <1>2 DEF GridIInv, Drained
<1>4. Shade(w, Rays, chunkStart[w], count[Rays]) /\ UNCHANGED <<tile, items, count>>
    <2>1. Shade(w, Rays, chunkStart[w], count[Rays])
        BY <1>1, <1>2, <1>3
    <2> QED
        BY <2>1 DEF Shade
<1>5. /\ Lockstep' /\ Resting'
      /\ Launched' = Launched /\ Bounce' = Bounce /\ Rays' = Rays /\ Output' = Output
      /\ BlockStride' = BlockStride
      /\ place' \in [Warps -> GridPlaces]
      /\ place'[w] = "reserving" /\ \A v \in Warps \ {w} : place'[v] = place[v]
      /\ ~In(Reading)' /\ ~In(Generation)'
    BY <1>1, <1>2, <1>4, StepInPhase
<1>6. /\ Accounted(Rays, Unshaded, Output, Bounce)'
      /\ LaneTypes' /\ DataTypes'
      /\ ChunkActive(w, Rays, chunkStart[w], count[Rays], Bounce)
      /\ \A v \in Warps \ {w} : /\ Carrying(v)' = Carrying(v)
                                /\ waiting'[v] = waiting[v] /\ reserved'[v] = reserved[v]
      /\ waiting'[w] = Threads(w)
    <2> DEFINE q == Rays
               n == Output
               d == Bounce
               U == Unshaded
               start == chunkStart[w]
    <2>1. /\ q \in Queues /\ n \in Queues /\ q # n /\ d \in Nat
          /\ q' = q /\ n' = n /\ d' = d
          /\ Accounted(q, U, n, d) /\ Shade(w, q, start, count[q])
          /\ start \in Nat /\ Carrying(w) = {} /\ place[w] # "storing"
        BY <1>1, <1>2, <1>3, <1>4, <1>5, GridFacts DEF GridTypes
    <2>2. PICK V : V = Unshaded'
        OBVIOUS
    <2>3. /\ V = {i \in U : \A k \in Threads(w) : i # start + k}
          /\ U \in SUBSET (0..count[q] - 1)
          /\ \A k \in Working(w, start, count[q]) : start + k \in U
        BY <1>1, <1>2, <1>4, <2>2, ChunkTaken
    <2> HIDE DEF q, n, d, U, start
    <2>4. /\ Accounted(q, V, n, d)'
          /\ LaneTypes' /\ DataTypes'
          /\ ChunkActive(w, q, start, count[q], d)
          /\ \A v \in Warps \ {w} : /\ Carrying(v)' = Carrying(v)
                                    /\ waiting'[v] = waiting[v] /\ reserved'[v] = reserved[v]
          /\ waiting'[w] = Threads(w)
        BY <1>1, <1>2, <2>1, <2>3, ShadeKeepsAccounted
    <2>5. q' = Rays' /\ n' = Output' /\ d' = Bounce'
        BY DEF q, n, d
    <2>6. Accounted(Rays, Unshaded, Output, Bounce)'
        BY <2>1, <2>2, <2>4, <2>5 DEF Accounted
    <2> QED
        BY <2>4, <2>6 DEF q, d, start
<1>7. Drained'
    <2>1. ASSUME NEW v \in Launched
          PROVE  /\ currentCount'[v] = count'[Rays]
                 /\ \E m \in Nat : chunkStart'[v] = BlockStride * m + BlockStart(v)
                 /\ place'[v] \in {"draining", "drained"} => Carrying(v)' = {}
                 /\ place'[v] \in {"reserving", "storing"} => Carrying(v)' \subseteq waiting'[v]
                 /\ place'[v] = "drained" => chunkStart'[v] >= count'[Rays]
        BY <1>1, <1>2, <1>3, <1>4, <1>5, <1>6 DEF Carrying
    <2>2. \A v \in Warps \ Launched : Carrying(v)' = {}
        BY <1>2, <1>3, <1>6
    <2> QED
        BY <1>3, <1>5, <1>6, <2>1, <2>2 DEF Drained
<1>8. GridTypes' /\ CountsFit'
    BY <1>1, <1>2, <1>4, <1>5, <1>6 DEF GridTypes, CountsFit
<1>9. Generated' /\ Listing'
    BY <1>5 DEF Generated, Listing
<1> QED
    BY <1>4, <1>5, <1>6, <1>7, <1>8, <1>9 DEF GridIInv

\* What is unshaded does not change when no warp takes a chunk.
LEMMA NoChunkTaken ==
    ASSUME Launched' = Launched, Rays' = Rays, BlockStride' = BlockStride,
           count'[Rays] = count[Rays], \A v \in Launched : Ahead(v)' = Ahead(v)
    PROVE  Unshaded' = Unshaded
<1>1. \A v \in Launched : Chunks(v, Ahead(v), BlockStride)'
                          = Chunks(v, Ahead(v), BlockStride)
    BY DEF Chunks
<1> QED
    BY <1>1 DEF Unshaded

LEMMA ReserveOutputKeepsGridIInv ==
    ASSUME ~leaderless', GridIInv, NEW w \in Warps, ReserveOutput(w)
    PROVE  GridIInv'
<1>1. /\ place[w] = "reserving" /\ place' = [place EXCEPT ![w] = "storing"]
      /\ Reserve(w, NextRays(w))
      /\ UNCHANGED <<bounce, currentCount, chunkStart, blocks>>
    BY DEF ReserveOutput, Go, gridVars
<1>2. /\ GridTypes /\ DataTypes /\ LaneTypes /\ CountsFit /\ In(Draining) /\ w \in Launched
      /\ Launched \subseteq Warps /\ "reserving" \in Draining /\ "storing" \in Draining
      /\ NextRays(w) = Output
    BY <1>1, GridFacts, OnePhase DEF GridIInv, GridTypes, Draining
<1>3. /\ Bounce < MaxDepth /\ Accounted(Rays, Unshaded, Output, Bounce)
      /\ \A v \in Launched :
            /\ currentCount[v] = count[Rays]
            /\ \E m \in Nat : chunkStart[v] = BlockStride * m + BlockStart(v)
            /\ place[v] \in {"draining", "drained"} => Carrying(v) = {}
            /\ place[v] \in {"reserving", "storing"} => Carrying(v) \subseteq waiting[v]
            /\ place[v] = "drained" => chunkStart[v] >= count[Rays]
      /\ \A v \in Warps \ Launched : Carrying(v) = {}
    BY <1>2 DEF GridIInv, Drained
<1>4. Reserve(w, Output) /\ tile' = tile
    BY <1>1, <1>2 DEF Reserve, ledgerVars
<1>5. /\ Lockstep' /\ Resting'
      /\ Launched' = Launched /\ Bounce' = Bounce /\ Rays' = Rays /\ Output' = Output
      /\ BlockStride' = BlockStride
      /\ place' \in [Warps -> GridPlaces]
      /\ place'[w] = "storing" /\ \A v \in Warps \ {w} : place'[v] = place[v]
      /\ ~In(Reading)' /\ ~In(Generation)'
    BY <1>1, <1>2, <1>4, StepInPhase
<1>6. PICK U : U = Unshaded
    OBVIOUS
<1> DEFINE q == Rays
           n == Output
           d == Bounce
<1>7. /\ q \in Queues /\ n \in Queues /\ q # n /\ d \in Nat
      /\ q' = q /\ n' = n /\ d' = d
      /\ Accounted(q, U, n, d) /\ Reserve(w, n)
    BY <1>1, <1>2, <1>3, <1>4, <1>5, <1>6, GridFacts
<1> HIDE DEF q, n, d
<1>8. /\ Accounted(q, U, n, d)'
      /\ LaneTypes' /\ DataTypes' /\ CountsFit'
      /\ \A v \in Warps : Carrying(v)' = Carrying(v)
      /\ \A v \in Warps \ {w} : reserved'[v] = reserved[v]
      /\ UNCHANGED <<path, items, carried, waiting>>
      /\ count'[q] = count[q]
    BY <1>1, <1>2, <1>7, ReserveKeepsAccounted
<1>9. Accounted(Rays, Unshaded, Output, Bounce)'
    <2>1. \A v \in Launched : Ahead(v)' = Ahead(v)
        BY <1>1, <1>2, <1>5 DEF Ahead
    <2>2. count'[Rays] = count[Rays]
        BY <1>8 DEF q
    <2>3. Unshaded' = U
        BY <1>5, <1>6, <2>1, <2>2, NoChunkTaken
    <2>4. q' = Rays' /\ n' = Output' /\ d' = Bounce'
        BY DEF q, n, d
    <2> QED
        BY <1>7, <1>8, <2>3, <2>4 DEF Accounted
<1>10. Drained'
    <2>1. ASSUME NEW v \in Launched
          PROVE  /\ currentCount'[v] = count'[Rays]
                 /\ \E m \in Nat : chunkStart'[v] = BlockStride * m + BlockStart(v)
                 /\ place'[v] \in {"draining", "drained"} => Carrying(v)' = {}
                 /\ place'[v] \in {"reserving", "storing"} => Carrying(v)' \subseteq waiting'[v]
                 /\ place'[v] = "drained" => chunkStart'[v] >= count'[Rays]
        BY <1>1, <1>2, <1>3, <1>5, <1>8 DEF q
    <2>2. \A v \in Warps \ Launched : Carrying(v)' = {}
        BY <1>3, <1>8
    <2> QED
        BY <1>3, <1>5, <1>8, <1>9, <2>1, <2>2 DEF Drained
<1>11. GridTypes'
    BY <1>1, <1>2, <1>4, <1>5, <1>8 DEF GridTypes
<1>12. Generated' /\ Listing'
    BY <1>5 DEF Generated, Listing
<1> QED
    BY <1>5, <1>8, <1>10, <1>11, <1>12 DEF GridIInv

LEMMA StoreOutputKeepsGridIInv ==
    ASSUME GridIInv, NEW w \in Warps, StoreOutput(w)
    PROVE  GridIInv'
<1>1. /\ place[w] = "storing" /\ Store(w, NextRays(w))
      /\ IF waiting'[w] = {}
         THEN /\ place' = [place EXCEPT ![w] = "draining"]
              /\ chunkStart' = [chunkStart EXCEPT ![w] = @ + BlockStride]
         ELSE place' = [place EXCEPT ![w] = "reserving"] /\ UNCHANGED chunkStart
      /\ UNCHANGED <<bounce, currentCount, blocks>>
    BY DEF StoreOutput, Go
<1>2. /\ GridTypes /\ DataTypes /\ LaneTypes /\ CountsFit /\ In(Draining) /\ w \in Launched
      /\ Launched \subseteq Warps /\ "storing" \in Draining /\ "draining" \in Draining
      /\ NextRays(w) = Output
    BY <1>1, GridFacts, OnePhase DEF GridIInv, GridTypes, Draining
<1>3. /\ Bounce < MaxDepth /\ Accounted(Rays, Unshaded, Output, Bounce)
      /\ \A v \in Launched :
            /\ currentCount[v] = count[Rays]
            /\ \E m \in Nat : chunkStart[v] = BlockStride * m + BlockStart(v)
            /\ place[v] \in {"draining", "drained"} => Carrying(v) = {}
            /\ place[v] \in {"reserving", "storing"} => Carrying(v) \subseteq waiting[v]
            /\ place[v] = "drained" => chunkStart[v] >= count[Rays]
      /\ \A v \in Warps \ Launched : Carrying(v) = {}
    BY <1>2 DEF GridIInv, Drained
<1>4. Store(w, Output) /\ tile' = tile
    BY <1>1, <1>2 DEF Store, ledgerVars
<1> DEFINE x == IF waiting'[w] = {} THEN "draining" ELSE "reserving"
<1>5. /\ x \in {"draining", "reserving"} /\ x \in Draining /\ x \in Places \ {"storing"}
      /\ place' = [place EXCEPT ![w] = x] /\ (x = "draining" => waiting'[w] = {})
      /\ x = "draining" => chunkStart' = [chunkStart EXCEPT ![w] = @ + BlockStride]
      /\ x = "reserving" => chunkStart' = chunkStart
    BY <1>1 DEF Draining, Places
<1> HIDE DEF x
<1>6. /\ Lockstep' /\ Resting'
      /\ Launched' = Launched /\ Bounce' = Bounce /\ Rays' = Rays /\ Output' = Output
      /\ BlockStride' = BlockStride
      /\ place' \in [Warps -> GridPlaces]
      /\ place'[w] = x /\ \A v \in Warps \ {w} : place'[v] = place[v]
      /\ ~In(Reading)' /\ ~In(Generation)'
    <2>1. /\ place[w] \in Draining /\ x \in Draining
          /\ place' = [place EXCEPT ![w] = x] /\ UNCHANGED <<tile, bounce, blocks>>
        BY <1>1, <1>2, <1>4, <1>5
    <2> QED
        BY <2>1, StepInPhase
<1>7. /\ BlockStride \in Nat
      /\ x = "draining" => chunkStart'[w] = chunkStart[w] + BlockStride
      /\ x = "reserving" => chunkStart'[w] = chunkStart[w]
      /\ \A v \in Warps \ {w} : chunkStart'[v] = chunkStart[v]
      /\ chunkStart' \in [Warps -> Nat]
    <2>1. BlockStride \in Nat
        BY <1>2, ChunksAhead
    <2> QED
        BY <1>2, <1>5, <2>1 DEF GridTypes
<1>8. /\ \A v \in Launched : Ahead(v)' = Ahead(v)
      /\ \A v \in Launched : \E m \in Nat : chunkStart'[v] = BlockStride * m + BlockStart(v)
    <2>1. Ahead(w) = chunkStart[w] + BlockStride /\ Ahead(w)' = chunkStart[w] + BlockStride
        BY <1>1, <1>5, <1>6, <1>7 DEF Ahead
    <2>2. \A v \in Launched \ {w} : Ahead(v)' = Ahead(v)
        BY <1>2, <1>6, <1>7 DEF Ahead
    <2>3. \E m \in Nat : Ahead(w) = BlockStride * m + BlockStart(w)
        BY <1>2, ChunksAhead
    <2>4. CASE x = "draining"
        <3>1. chunkStart'[w] = Ahead(w)
            BY <1>7, <2>1, <2>4
        <3>2. \E m \in Nat : chunkStart'[w] = BlockStride * m + BlockStart(w)
            BY <2>3, <3>1, Zenon
        <3>3. ASSUME NEW v \in Launched \ {w}
              PROVE  \E m \in Nat : chunkStart'[v] = BlockStride * m + BlockStart(v)
            <4>1. chunkStart'[v] = chunkStart[v]
                BY <1>2, <1>7
            <4> QED
                BY <1>3, <4>1, Zenon
        <3> QED
            BY <2>1, <2>2, <3>2, <3>3
    <2>5. CASE x = "reserving"
        BY <1>3, <1>5, <2>1, <2>2, <2>5
    <2> QED
        BY <1>5, <2>4, <2>5
<1>9. PICK U : U = Unshaded
    OBVIOUS
<1> DEFINE q == Rays
           n == Output
           d == Bounce
<1>10. /\ q \in Queues /\ n \in Queues /\ q # n /\ d \in Nat
       /\ q' = q /\ n' = n /\ d' = d
       /\ Accounted(q, U, n, d) /\ Store(w, n)
       /\ Carrying(w) \subseteq waiting[w]
    BY <1>1, <1>2, <1>3, <1>4, <1>6, <1>9, GridFacts
<1> HIDE DEF q, n, d
<1>11. /\ Accounted(q, U, n, d)'
       /\ LaneTypes' /\ DataTypes' /\ CountsFit'
       /\ Carrying(w)' = Carrying(w) \ reserved[w].group
       /\ waiting'[w] = waiting[w] \ reserved[w].group
       /\ \A v \in Warps \ {w} : /\ Carrying(v)' = Carrying(v)
                                 /\ waiting'[v] = waiting[v] /\ reserved'[v] = reserved[v]
       /\ count' = count
    BY <1>1, <1>2, <1>5, <1>10, StoreKeepsAccounted
<1>12. Accounted(Rays, Unshaded, Output, Bounce)'
    <2>1. Unshaded' = U
        BY <1>6, <1>8, <1>9, <1>11, NoChunkTaken
    <2>2. q' = Rays' /\ n' = Output' /\ d' = Bounce'
        BY DEF q, n, d
    <2> QED
        BY <1>10, <1>11, <2>1, <2>2 DEF Accounted
<1>13. Drained'
    <2>0. Carrying(w)' \subseteq waiting'[w] /\ (x = "draining" => Carrying(w)' = {})
        BY <1>5, <1>10, <1>11
    <2>1. ASSUME NEW v \in Launched
          PROVE  /\ currentCount'[v] = count'[Rays]
                 /\ place'[v] \in {"draining", "drained"} => Carrying(v)' = {}
                 /\ place'[v] \in {"reserving", "storing"} => Carrying(v)' \subseteq waiting'[v]
                 /\ place'[v] = "drained" => chunkStart'[v] >= count'[Rays]
        BY <1>1, <1>2, <1>3, <1>5, <1>6, <1>7, <1>11, <2>0
    <2>2. \A v \in Warps \ Launched : Carrying(v)' = {}
        BY <1>2, <1>3, <1>11
    <2> QED
        BY <1>3, <1>6, <1>8, <1>12, <2>1, <2>2 DEF Drained
<1>14. GridTypes'
    BY <1>1, <1>2, <1>4, <1>6, <1>7, <1>11 DEF GridTypes
<1>15. Generated' /\ Listing'
    BY <1>6 DEF Generated, Listing
<1> QED
    BY <1>6, <1>11, <1>13, <1>14, <1>15 DEF GridIInv

\* A warp is through when its next chunk is beyond the length it has read.
LEMMA FinishDrainingKeepsGridIInv ==
    ASSUME GridIInv, NEW w \in Warps, FinishDraining(w)
    PROVE  GridIInv'
<1>1. /\ place[w] = "draining" /\ place' = [place EXCEPT ![w] = "drained"]
      /\ chunkStart[w] >= currentCount[w]
      /\ UNCHANGED <<tile, path, items, count, carried, waiting, reserved,
                     bounce, currentCount, chunkStart, blocks>>
    BY DEF FinishDraining, Go, ledgerVars, queueVars, laneVars, gridVars
<1>2. /\ GridTypes /\ DataTypes /\ LaneTypes /\ CountsFit /\ In(Draining) /\ w \in Launched
      /\ Launched \subseteq Warps /\ "drained" \in Draining /\ "draining" \in Draining
    BY <1>1, GridFacts, OnePhase DEF GridIInv, GridTypes, Draining
<1>3. /\ Bounce < MaxDepth /\ Accounted(Rays, Unshaded, Output, Bounce)
      /\ \A v \in Launched :
            /\ currentCount[v] = count[Rays]
            /\ \E m \in Nat : chunkStart[v] = BlockStride * m + BlockStart(v)
            /\ place[v] \in {"draining", "drained"} => Carrying(v) = {}
            /\ place[v] \in {"reserving", "storing"} => Carrying(v) \subseteq waiting[v]
            /\ place[v] = "drained" => chunkStart[v] >= count[Rays]
      /\ \A v \in Warps \ Launched : Carrying(v) = {}
    BY <1>2 DEF GridIInv, Drained
<1>4. /\ Lockstep' /\ Resting'
      /\ Launched' = Launched /\ Bounce' = Bounce /\ Rays' = Rays /\ Output' = Output
      /\ BlockStride' = BlockStride
      /\ place' \in [Warps -> GridPlaces]
      /\ place'[w] = "drained" /\ \A v \in Warps \ {w} : place'[v] = place[v]
      /\ ~In(Reading)' /\ ~In(Generation)'
    BY <1>1, <1>2, StepInPhase
<1>5. \A v \in Warps : Carrying(v)' = Carrying(v) /\ Placed(v)' = Placed(v)
    BY <1>1 DEF Carrying, Placed, Appending
<1>6. Accounted(Rays, Unshaded, Output, Bounce)'
    <2>1. Unshaded' = Unshaded
        <3>1. \A v \in Launched : Ahead(v)' = Ahead(v)
            BY <1>1, <1>2, <1>4 DEF Ahead
        <3> QED
            BY <1>1, <1>4, <3>1, NoChunkTaken
    <2>2. ASSUME NEW i PROVE Pending(i)' <=> Pending(i)
        <3>1. \A v \in Warps : place'[v] = "storing" <=> place[v] = "storing"
            BY <1>1, <1>4
        <3>2. \A v \in Warps : \A k : SlotOf(v, k)' = SlotOf(v, k)
            BY <1>1, <1>5 DEF SlotOf, Rank
        <3> QED
            BY <1>5, <3>1, <3>2 DEF Pending
    <2>3. Stored(Output)' = Stored(Output)
        BY <1>1, <1>4, <2>2 DEF Stored
    <2>4. Held(Output)' = Held(Output) /\ ActivePaths' = ActivePaths
        BY <1>1, <1>4, <1>5, <2>3 DEF Held, ActivePaths
    <2>5. OutputExact(Output, Bounce + 1)'
        <3>1. OutputExact(Output, Bounce + 1)
            BY <1>3 DEF Accounted
        <3>2. /\ \A v \in Warps : place'[v] = "storing" <=> place[v] = "storing"
              /\ \A v \in Warps : \A k : SlotOf(v, k)' = SlotOf(v, k)
            BY <1>1, <1>4, <1>5 DEF SlotOf, Rank
        <3> QED
            BY <1>1, <1>4, <1>5, <2>3, <2>4, <3>1, <3>2 DEF OutputExact
    <2> QED
        BY <1>1, <1>3, <1>4, <2>1, <2>4, <2>5 DEF Accounted
<1>7. Drained'
    <2>1. chunkStart[w] >= count[Rays]
        BY <1>1, <1>2, <1>3
    <2> QED
        BY <1>1, <1>2, <1>3, <1>4, <1>5, <1>6, <2>1 DEF Drained
<1>8. LaneTypes'
    BY <1>1, <1>2 DEF LaneTypes, Places
<1>9. GridTypes' /\ CountsFit'
    BY <1>1, <1>2, <1>4, <1>8 DEF GridTypes, DataTypes, PathTypes, CountsFit
<1>10. Generated' /\ Listing'
    BY <1>4 DEF Generated, Listing
<1> QED
    BY <1>4, <1>7, <1>9, <1>10 DEF GridIInv

\* When the last warp is through nothing is unshaded, and the output, which is the
\* next bounce's input, lists what is left.
LEMMA SyncDrainedKeepsGridIInv ==
    ASSUME GridIInv, SyncDrained
    PROVE  GridIInv'
<1>1. /\ GridSync("drained", "reading")
      /\ bounce' = [w \in Warps |-> bounce[w] + 1]
      /\ UNCHANGED <<tile, path, items, count, carried, waiting, reserved,
                     currentCount, chunkStart, blocks>>
    BY DEF SyncDrained, ledgerVars, queueVars, laneVars
<1>2. /\ GridTypes /\ DataTypes /\ LaneTypes /\ CountsFit
      /\ Bounce \in Nat /\ Output \in Queues /\ count[Rays] \in Nat /\ Launched \subseteq Warps
    BY GridFacts DEF GridIInv, GridTypes
<1>3. Bounce' = Bounce + 1 /\ \A w \in Warps : bounce'[w] = Bounce'
    BY <1>1, GridFacts DEF Bounce
<1>4. /\ Lockstep' /\ Resting'
      /\ Launched' = Launched /\ WorkerZero \in Launched
      /\ place' \in [Warps -> GridPlaces] /\ place' \in [Warps -> Places]
      /\ \A w \in Launched : place[w] = "drained" /\ place'[w] = "reading"
    <2>1. /\ "drained" \in GridPlaces \ {"idle"} /\ "reading" \in GridPlaces \ {"idle"}
        BY DEF GridPlaces, Reading, Draining
    <2> QED
        BY <1>1, <1>3, <2>1, GridSynced
<1>5. In(Draining)
    BY <1>4 DEF In, Draining
<1>6. /\ Bounce < MaxDepth /\ Accounted(Rays, Unshaded, Output, Bounce)
      /\ \A w \in Launched : Carrying(w) = {} /\ chunkStart[w] >= count[Rays]
      /\ \A w \in Warps \ Launched : Carrying(w) = {}
    BY <1>4, <1>5 DEF GridIInv, Drained
<1>7. Rays' = Output
    <2>1. bounce'[WorkerZero] = bounce[WorkerZero] + 1 /\ bounce[WorkerZero] \in Nat
        BY <1>1, <1>2, WorkerZeroIsAWarp DEF Bounce
    <2> QED
        BY <2>1 DEF Rays, Output, Current, NextRays
<1>8. NothingCarried
    BY <1>6 DEF NothingCarried
<1>9. Unshaded = {}
    <2>1. ASSUME NEW w \in Launched, NEW i \in Chunks(w, Ahead(w), BlockStride)
          PROVE  i >= count[Rays]
        <3>1. Ahead(w) = chunkStart[w]
            BY <1>4 DEF Ahead
        <3>2. /\ BlockStride \in Nat /\ BlockSize <= BlockStride /\ chunkStart[w] \in Nat
            BY <1>5, ChunksAhead
        <3>3. i \in Nat /\ i >= chunkStart[w]
            BY <1>2, <3>1, <3>2, OneChunk
        <3> QED
            BY <1>2, <1>6, <3>2, <3>3
    <2> QED
        BY <1>2, <2>1 DEF Unshaded
<1>10. ActivePaths \subseteq Held(Output) /\ (Held(Output) # {} => Bounce + 1 < MaxDepth)
    BY <1>6, <1>9 DEF Accounted
<1>11. Lists(Output, Bounce + 1)
    <2> DEFINE q == Output
               e == Bounce + 1
    <2>1. q \in Queues /\ e \in Nat /\ OutputExact(q, e) /\ ActivePaths \subseteq Held(q)
        BY <1>2, <1>6, <1>10 DEF Accounted
    <2> HIDE DEF q, e
    <2>2. Lists(q, e)
        BY <1>2, <1>8, <2>1, OutputIsComplete
    <2> QED
        BY <2>2 DEF q, e
<1>12. ActivePaths' = ActivePaths /\ NothingCarried' /\ Lists(Rays, Bounce)'
    <2>1. ActivePaths' = ActivePaths
        BY <1>1 DEF ActivePaths
    <2>2. NothingCarried'
        BY <1>1, <1>8 DEF NothingCarried, Carrying
    <2>3. Lists(Rays, Bounce)'
        BY <1>1, <1>3, <1>7, <1>11, <2>1 DEF Lists
    <2> QED
        BY <2>1, <2>2, <2>3
<1>13. Listing'
    <2>1. Bounce' = MaxDepth => ActivePaths' = {}
        BY <1>2, <1>3, <1>10, <1>12, SizesArePositive
    <2> QED
        BY <1>4, <1>12, <2>1 DEF Listing
<1>14. GridTypes' /\ CountsFit'
    <2>1. bounce' \in [Warps -> 0..MaxDepth]
        BY <1>1, <1>2, <1>3, <1>6, SizesArePositive
    <2> QED
        BY <1>1, <1>2, <1>4, <2>1 DEF GridTypes, DataTypes, PathTypes, LaneTypes, CountsFit
<1>15. Generated' /\ Drained'
    BY <1>4 DEF Generated, Drained, In, Generation, Draining
<1> QED
    BY <1>4, <1>13, <1>14, <1>15 DEF GridIInv

LEMMA StutterKeepsGridIInv ==
    ASSUME GridIInv, UNCHANGED vars
    PROVE  GridIInv'
<1> USE DEF vars, ledgerVars, queueVars, laneVars, gridVars
<1>1. /\ Launched' = Launched /\ Launched \subseteq Warps /\ Bounce' = Bounce /\ Rays' = Rays
      /\ Output' = Output /\ ActivePaths' = ActivePaths /\ BlockStride' = BlockStride
      /\ \A w \in Warps : /\ Carrying(w)' = Carrying(w) /\ Ahead(w)' = Ahead(w)
                          /\ OwnPixels(w)' = OwnPixels(w)
      /\ \A w \in Warps : Placed(w)' = Placed(w) /\ \A k : SlotOf(w, k)' = SlotOf(w, k)
      /\ \A p : CameraPath(p)' = CameraPath(p)
    BY DEF Launched, Bounce, Rays, Output, Current, NextRays, ActivePaths, BlockStride,
         Carrying, Placed, Appending, Ahead, SlotOf, Rank, OwnPixels, CameraPath
<1>2. Unshaded' = Unshaded
    BY <1>1, NoChunkTaken
<1>3. /\ \A i : Pending(i)' <=> Pending(i)
      /\ \A q : Stored(q)' = Stored(q)
      /\ \A q : Held(q)' = Held(q)
    <2>1. \A i : Pending(i)' <=> Pending(i)
        BY <1>1 DEF Pending
    <2>2. \A q : Stored(q)' = Stored(q)
        BY <2>1 DEF Stored
    <2> QED
        BY <1>1, <2>1, <2>2 DEF Held
<1>4. Accounted(Rays, Unshaded, Output, Bounce) => Accounted(Rays, Unshaded, Output, Bounce)'
    <2>1. OutputExact(Output, Bounce + 1) => OutputExact(Output, Bounce + 1)'
        BY <1>1, <1>3 DEF OutputExact
    <2> QED
        BY <1>1, <1>2, <1>3, <2>1 DEF Accounted
<1>5. Drained'
    BY <1>1, <1>4 DEF GridIInv, Drained, In
<1>6. Generated' /\ Listing'
    BY <1>1 DEF GridIInv, Generated, Listing, Lists, NothingCarried, In
<1>7. Lockstep' /\ Resting'
    BY <1>1 DEF GridIInv, Lockstep, Resting, NothingCarried
<1>8. GridTypes' /\ CountsFit'
    BY DEF GridIInv, GridTypes, DataTypes, PathTypes, LaneTypes, CountsFit
<1> QED
    BY <1>5, <1>6, <1>7, <1>8 DEF GridIInv

-----------------------------------------------------------------------------
(* The theorems about the queues.                                          *)

LEMMA NextKeepsGridIInv ==
    ASSUME ~leaderless', GridIInv, [Next]_vars
    PROVE  GridIInv'
BY LaunchKeepsGridIInv, AdvanceKeepsGridIInv, GenerateKeepsGridIInv, SyncGeneratedKeepsGridIInv,
   BeginBounceKeepsGridIInv, LeaveKernelKeepsGridIInv, SyncResetKeepsGridIInv,
   TraceChunkKeepsGridIInv, ReserveOutputKeepsGridIInv, StoreOutputKeepsGridIInv,
   FinishDrainingKeepsGridIInv, SyncDrainedKeepsGridIInv, StutterKeepsGridIInv
DEF Next, Stream, GridStep, WarpStep

\* Once a lane has appended without lane zero, it has.
LEMMA LeaderlessStays ==
    ASSUME [Next]_vars, leaderless
    PROVE  leaderless'
BY DEF vars, laneVars, queueVars, Next, Stream, GridStep, WarpStep, LaunchPersistentTile,
    AdvanceSampleIndex, Generate, SyncGenerated, BeginBounce, LeaveKernel, SyncReset,
    TraceChunk, Shade, ReserveOutput, Reserve, StoreOutput, Store, FinishDraining, SyncDrained

\* The barriers keep the registers of the warps in agreement, and in every phase of
\* the kernel each path is where it should be (persistentWavefrontTrace), until a lane
\* appends in a group without lane zero.
THEOREM PersistentInvariant == Spec => [](leaderless \/ GridIInv)
<1>1. (leaderless \/ GridIInv) /\ [Next]_vars => (leaderless \/ GridIInv)'
    BY NextKeepsGridIInv, LeaderlessStays
<1> QED
    BY <1>1, InitGivesGridIInv, PTL DEF Spec

\* Between two bounces the queue to be drained lists every active path once, at the
\* depth of the bounce, and no counter is ever past the capacity, however far the
\* barriers let the warps run ahead of each other (persistentWavefrontTrace) and however
\* the warps are split, until a lane appends in a group without lane zero.
THEOREM PersistentQueueExact == Spec => []ExactWhileLed
<1>1. GridIInv => QueueExact
    <2> SUFFICES ASSUME GridIInv PROVE QueueExact
        OBVIOUS
    <2>1. ASSUME NEW w \in Warps, place[w] = "reading"
          PROVE  /\ ListsActivePaths(Current(w))
                 /\ \A p \in ActivePaths : path[p].depth = bounce[w]
        <3> DEFINE q == Current(w)
                   d == bounce[w]
        <3>1. q \in Queues /\ d \in Nat /\ count[q] \in 0..Capacity
            BY GridFacts
        <3>2. Lists(q, d)
            <4>1. In(Reading)
                BY <2>1, OnePhase DEF Reading
            <4>2. Lists(Rays, Bounce)
                BY <4>1 DEF GridIInv, Listing
            <4> QED
                BY <4>2, GridFacts
        <3> HIDE DEF q, d
        <3>3. ListsActivePaths(q) /\ \A p \in ActivePaths : path[p].depth = d
            BY <3>1, <3>2, ListsActive
        <3> QED
            BY <3>3 DEF q, d
    <2> QED
        BY <2>1 DEF QueueExact, GridIInv, CountsFit
<1>2. leaderless \/ GridIInv => ExactWhileLed
    BY <1>1 DEF ExactWhileLed
<1> QED
    BY <1>2, PersistentInvariant, PTL

-----------------------------------------------------------------------------
(* What has been added to the pixels.                                      *)

\* A pixel that has had its path's radiance in this sample. Before a tile's paths are
\* all generated none of them has ended; then those have that are not active.
Done(pixel) ==
    \/ pixel[1] < tile
    \/ pixel[1] = tile /\ ~In(Generation) /\ pixel[2] \notin ActivePaths

AddedOnce ==
    framebuffer = [pixel \in Pixels |-> IF Done(pixel) THEN sampleIndex + 1 ELSE sampleIndex]

TileIInv ==
    /\ sampleIndex \in Nat
    /\ PathsOfTile
    /\ AddedOnce

\* A step that adds nothing to the pixels and ends no path.
LEMMA NothingAdded ==
    ASSUME TileIInv, UNCHANGED <<ledgerVars, path>>, In(Generation)' <=> In(Generation)
    PROVE  TileIInv' /\ [LedgerNext]_ledgerVars
<1>1. ActivePaths' = ActivePaths
    BY DEF ActivePaths
<1>2. \A pixel : Done(pixel)' <=> Done(pixel)
    BY <1>1 DEF Done, ledgerVars
<1>3. PathsOfTile'
    BY <1>1 DEF TileIInv, PathsOfTile, ledgerVars
<1>4. AddedOnce'
    BY <1>2 DEF TileIInv, AddedOnce, ledgerVars
<1>5. sampleIndex' \in Nat
    BY DEF TileIInv, ledgerVars
<1> QED
    BY <1>3, <1>4, <1>5 DEF TileIInv

\* A warp outside of the generation does not enter it.
LEMMA StepAddsNothing ==
    ASSUME GridIInv, TileIInv, UNCHANGED <<ledgerVars, path>>, blocks' = blocks,
           NEW w \in Warps, place[w] \notin Generation, NEW x, x \notin Generation,
           place' = [place EXCEPT ![w] = x]
    PROVE  TileIInv' /\ [LedgerNext]_ledgerVars
<1>1. Launched' = Launched /\ Launched \subseteq Warps
    BY DEF Launched
<1>2. \A v \in Warps : place'[v] \in Generation <=> place[v] \in Generation
    BY DEF GridIInv, GridTypes
<1> QED
    BY <1>1, <1>2, NothingAdded DEF In

LEMMA InitGivesTileIInv == Init => TileIInv
<1> SUFFICES ASSUME Init PROVE TileIInv
    OBVIOUS
<1> USE DEF Init, QueueInit, LedgerInit
<1>1. ActivePaths = {}
    BY DEF ActivePaths
<1>2. \A pixel \in Pixels : ~Done(pixel)
    <2> SUFFICES ASSUME NEW pixel \in Pixels PROVE ~Done(pixel)
        OBVIOUS
    <2>1. pixel[1] \in Nat /\ pixel[1] > 0
        BY TilesAndPixels
    <2> QED
        BY <2>1 DEF Done
<1>3. AddedOnce
    BY <1>2 DEF AddedOnce
<1> QED
    BY <1>1, <1>3 DEF TileIInv, PathsOfTile

\* When the stream launches a tile, the one before it is complete.
LEMMA LaunchAddsNothing ==
    ASSUME GridIInv, TileIInv, LaunchPersistentTile
    PROVE  TileIInv' /\ [LedgerNext]_ledgerVars
<1>0. /\ sampleIndex < NumSamples /\ tile < LastTile /\ tile' = tile + 1
      /\ \A w \in Warps : place[w] = "idle"
      /\ place' = [w \in Warps |-> IF w[1] < blocks' THEN "generating" ELSE "idle"]
      /\ blocks' = LaunchBlockCount(tile + 1)
      /\ UNCHANGED <<sampleIndex, framebuffer, path>>
      /\ tile \in Nat /\ LastTile \in Nat /\ sampleIndex \in Nat
    BY TilesAndPixels DEF LaunchPersistentTile, queueVars, GridIInv, GridTypes, TileIInv
<1>1. ActivePaths = {} /\ ActivePaths' = {} /\ ~In(Generation)
    BY <1>0 DEF GridIInv, Resting, ActivePaths, In, Generation, Launched
<1>2. In(Generation)'
    <2>1. blocks' \in 1..MaxBlocks /\ MaxBlocks \in Nat
        BY <1>0, TilesAndPixels, BlocksOfALaunch, SizesArePositive
    <2>2. WorkerZero[1] < blocks'
        BY <2>1 DEF WorkerZero
    <2> QED
        BY <1>0, <2>2, WorkerZeroIsAWarp DEF In, Launched, Generation
<1>3. \A pixel \in Pixels : pixel[1] \in Nat /\ (Done(pixel) <=> pixel[1] <= tile)
    <2> SUFFICES ASSUME NEW pixel \in Pixels
                 PROVE  pixel[1] \in Nat /\ (Done(pixel) <=> pixel[1] <= tile)
        OBVIOUS
    <2>1. pixel[1] \in Nat
        BY TilesAndPixels
    <2>2. Done(pixel) <=> pixel[1] < tile \/ pixel[1] = tile
        BY <1>1 DEF Done
    <2> QED
        BY <1>0, <2>1, <2>2
<1>4. \A pixel \in Pixels : Done(pixel)' <=> Done(pixel)
    <2> SUFFICES ASSUME NEW pixel \in Pixels
                 PROVE  Done(pixel)' <=> Done(pixel)
        OBVIOUS
    <2>1. Done(pixel)' <=> pixel[1] < tile + 1
        BY <1>0, <1>2 DEF Done
    <2> QED
        BY <1>0, <1>3, <2>1
<1>5. AddedOnce'
    BY <1>0, <1>4 DEF TileIInv, AddedOnce
<1>6. TileIInv'
    BY <1>0, <1>1, <1>5 DEF TileIInv, PathsOfTile
<1>7. tile > 0 => TileComplete(tile)
    <2> SUFFICES ASSUME tile > 0, NEW pixel \in PixelsOf(tile)
                 PROVE  framebuffer[pixel] = sampleIndex + 1
        BY DEF TileComplete
    <2>1. tile \in Tiles /\ pixel \in Pixels /\ pixel[1] = tile
        BY <1>0, TilesAndPixels DEF PixelsOf
    <2>2. Done(pixel)
        BY <1>0, <1>3, <2>1
    <2> QED
        BY <2>1, <2>2 DEF TileIInv, AddedOnce
<1>8. NextTile
    BY <1>0, <1>7 DEF NextTile
<1> QED
    BY <1>6, <1>8 DEF LedgerNext

\* The sample counter advances when the last tile is complete.
LEMMA AdvanceFinishesSample ==
    ASSUME GridIInv, TileIInv, AdvanceSampleIndex
    PROVE  TileIInv' /\ [LedgerNext]_ledgerVars
<1>0. /\ tile = LastTile /\ tile' = 0 /\ sampleIndex' = sampleIndex + 1
      /\ \A w \in Warps : place[w] = "idle" /\ place'[w] = "idle"
      /\ UNCHANGED <<framebuffer, path>>
      /\ LastTile \in Nat /\ sampleIndex \in Nat
    BY TilesAndPixels DEF AdvanceSampleIndex, queueVars, TileIInv
<1>1. ActivePaths = {} /\ ActivePaths' = {} /\ ~In(Generation)
    BY <1>0 DEF GridIInv, Resting, ActivePaths, In, Generation, Launched
<1>2. ASSUME NEW pixel \in Pixels
      PROVE  Done(pixel) /\ ~Done(pixel)'
    <2>1. pixel[1] \in 1..LastTile
        BY TilesAndPixels
    <2>2. pixel[1] < tile \/ pixel[1] = tile
        BY <1>0, <2>1
    <2>3. ~(pixel[1] < tile') /\ pixel[1] # tile'
        BY <1>0, <2>1
    <2> QED
        BY <1>1, <2>2, <2>3 DEF Done
<1>3. framebuffer = [pixel \in Pixels |-> sampleIndex + 1]
    BY <1>2 DEF TileIInv, AddedOnce
<1>4. AddedOnce'
    BY <1>0, <1>2, <1>3 DEF AddedOnce
<1>5. TileIInv'
    BY <1>0, <1>1, <1>4 DEF TileIInv, PathsOfTile
<1>6. TileComplete(tile)
    <2>1. tile \in Tiles
        <3>1. LastTile > 0
            BY TileAssumption DEF LastTile
        <3> QED
            BY <1>0, <3>1, TilesAndPixels
    <2>2. PixelsOf(tile) \subseteq Pixels
        BY <2>1, TilesAndPixels
    <2> QED
        BY <1>3, <2>2 DEF TileComplete
<1>7. FinishSample
    BY <1>0, <1>6 DEF FinishSample
<1> QED
    BY <1>5, <1>7 DEF LedgerNext

LEMMA GenerateAddsNothing ==
    ASSUME GridIInv, TileIInv, NEW w \in Warps, Generate(w)
    PROVE  TileIInv' /\ [LedgerNext]_ledgerVars
<1>0. /\ place[w] = "generating" /\ place' = [place EXCEPT ![w] = "generated"]
      /\ path' = [p \in Slots |-> IF p \in OwnPixels(w) THEN CameraPath(p) ELSE path[p]]
      /\ UNCHANGED <<tile, sampleIndex, framebuffer, bounce, blocks>>
      /\ tile \in Tiles
    BY GridFacts DEF Generate, Go, ledgerVars, gridVars
<1>1. In(Generation) /\ In(Generation)'
    <2>1. place[w] \in Generation /\ "generated" \in Generation
        BY <1>0 DEF Generation
    <2> QED
        BY <1>0, <2>1, OnePhase, StepInPhase
<1>2. OwnPixels(w) \subseteq Slots /\ \A p \in OwnPixels(w) : p < TilePixels[tile]
    BY <1>0, PixelsAreSlots
<1>3. \A p \in ActivePaths' : \/ p \in OwnPixels(w)
                              \/ p \in ActivePaths /\ path'[p] = path[p]
    BY <1>0 DEF ActivePaths
<1>4. \A p \in OwnPixels(w) : path'[p].pixel = <<tile, p>>
    BY <1>0, <1>2 DEF CameraPath
<1>5. PathsOfTile'
    BY <1>0, <1>2, <1>3, <1>4 DEF TileIInv, PathsOfTile
<1>6. AddedOnce'
    <2>1. \A pixel : Done(pixel)' <=> Done(pixel)
        BY <1>0, <1>1 DEF Done
    <2> QED
        BY <1>0, <2>1 DEF TileIInv, AddedOnce
<1> QED
    BY <1>0, <1>5, <1>6 DEF TileIInv, ledgerVars

\* When the paths are generated every pixel of the tile has one, and none has ended.
LEMMA SyncGeneratedAddsNothing ==
    ASSUME GridIInv, TileIInv, SyncGenerated
    PROVE  TileIInv' /\ [LedgerNext]_ledgerVars
<1>0. /\ GridSync("generated", "reading")
      /\ UNCHANGED <<tile, sampleIndex, framebuffer, path, bounce, blocks>>
    BY DEF SyncGenerated, ledgerVars, queueVars, gridVars
<1>1. /\ Launched' = Launched /\ WorkerZero \in Launched /\ Launched \subseteq Warps
      /\ blocks \in 1..MaxBlocks /\ tile \in Tiles
      /\ \A w \in Launched : place[w] = "generated" /\ place'[w] = "reading"
    <2>1. \A w \in Warps : bounce'[w] = Bounce'
        BY <1>0, GridFacts DEF Bounce
    <2>2. /\ "generated" \in GridPlaces \ {"idle"} /\ "reading" \in GridPlaces \ {"idle"}
        BY DEF GridPlaces, Generation, Reading
    <2> QED
        BY <1>0, <2>1, <2>2, GridSynced, GridFacts
<1>2. In(Generation) /\ ~In(Generation)' /\ ActivePaths' = ActivePaths
    BY <1>0, <1>1 DEF In, Generation, ActivePaths
<1>3. ASSUME NEW i \in 0..TilePixels[tile] - 1
      PROVE  i \in ActivePaths
    <2>1. PICK w \in Launched : i \in OwnPixels(w)
        BY <1>1, EveryPixelGenerated
    <2>2. path[i] = CameraPath(i) /\ i \in Slots
        BY <1>1, <1>2, <2>1, PixelsAreSlots DEF GridIInv, Generated
    <2> QED
        BY <2>2 DEF ActivePaths, CameraPath
<1>4. \A pixel \in Pixels : Done(pixel)' <=> Done(pixel)
    <2> SUFFICES ASSUME NEW pixel \in Pixels
                 PROVE  Done(pixel)' <=> Done(pixel)
        OBVIOUS
    <2>1. pixel[1] = tile => pixel[2] \in ActivePaths
        <3>1. PICK t \in Tiles : \E i \in 0..TilePixels[t] - 1 : pixel = <<t, i>>
            BY TilesAndPixels
        <3> QED
            BY <1>3, <3>1
    <2> QED
        BY <1>0, <1>2, <2>1 DEF Done
<1>5. AddedOnce'
    BY <1>0, <1>4 DEF TileIInv, AddedOnce
<1>6. PathsOfTile'
    BY <1>0, <1>2 DEF TileIInv, PathsOfTile
<1> QED
    BY <1>0, <1>5, <1>6 DEF TileIInv, ledgerVars

\* A warp that traces a chunk ends paths of pixels that had not had their radiance yet.
LEMMA TraceChunkEndsPaths ==
    ASSUME GridIInv, TileIInv, NEW w \in Warps, TraceChunk(w)
    PROVE  TileIInv' /\ [LedgerNext]_ledgerVars
<1>0. /\ place[w] = "draining" /\ place' = [place EXCEPT ![w] = "reserving"]
      /\ UNCHANGED <<bounce, blocks>>
    BY DEF TraceChunk, Go, gridVars
<1> DEFINE q == Rays
           start == chunkStart[w]
           n == count[q]
           d == Bounce
<1>1. Shade(w, q, start, n) /\ ChunkActive(w, q, start, n, d)
    BY TraceChunkKeepsGridIInv
<1>2. /\ q \in Queues /\ start \in Nat /\ n \in Nat /\ d \in Nat /\ tile \in Tiles
      /\ DataTypes /\ sampleIndex \in Nat /\ PathsOfTile
    BY <1>0, GridFacts DEF GridIInv, GridTypes, TileIInv, DataTypes
<1> HIDE DEF q, start, n, d
<1>3. tile' = tile /\ sampleIndex' = sampleIndex
    BY <1>1 DEF Shade
<1>4. ~In(Generation) /\ ~In(Generation)'
    <2>1. place[w] \in Draining /\ "reserving" \in Draining
        BY <1>0 DEF Draining
    <2> QED
        BY <1>0, <1>3, <2>1, OnePhase, StepInPhase
<1>5. AddedWhenShaded
    BY <1>4 DEF TileIInv, AddedOnce, Done, AddedWhenShaded, PixelShaded
<1>6. PathsOfTile' /\ AddedWhenShaded' /\ [LedgerNext]_ledgerVars
    BY <1>1, <1>2, <1>5, ShadeEndsPaths
<1>7. AddedOnce'
    BY <1>4, <1>6 DEF AddedOnce, Done, AddedWhenShaded, PixelShaded
<1> QED
    BY <1>2, <1>3, <1>6, <1>7 DEF TileIInv

LEMMA NextImplementsLedgerNext ==
    ASSUME GridIInv, TileIInv, [Next]_vars
    PROVE  TileIInv' /\ [LedgerNext]_ledgerVars
<1>1. CASE SyncReset \/ SyncDrained
    <2>1. /\ Launched' = Launched
          /\ \A w \in Launched : place[w] \notin Generation /\ place'[w] \notin Generation
          /\ UNCHANGED <<ledgerVars, path>>
        <3>1. Launched \subseteq Warps /\ Launched' = Launched /\ UNCHANGED <<ledgerVars, path>>
            BY <1>1 DEF SyncReset, SyncDrained, queueVars, Launched
        <3> QED
            BY <1>1, <3>1 DEF SyncReset, SyncDrained, GridSync, Generation
    <2> QED
        BY <2>1, NothingAdded DEF In
<1>2. ASSUME NEW w \in Warps,
             \/ BeginBounce(w) \/ LeaveKernel(w)
             \/ ReserveOutput(w) \/ StoreOutput(w) \/ FinishDraining(w)
      PROVE  TileIInv' /\ [LedgerNext]_ledgerVars
    <2>1. UNCHANGED <<ledgerVars, path>> /\ blocks' = blocks
        BY <1>2 DEF BeginBounce, LeaveKernel, ReserveOutput, Reserve, StoreOutput, Store,
                    FinishDraining, queueVars, gridVars
    <2>2. place[w] \notin Generation
        BY <1>2 DEF BeginBounce, LeaveKernel, ReserveOutput, StoreOutput, FinishDraining,
             Generation
    <2>3. \E x \in Reading \cup Draining \cup {"idle"} : place' = [place EXCEPT ![w] = x]
        BY <1>2 DEF BeginBounce, LeaveKernel, ReserveOutput, StoreOutput, FinishDraining, Go,
                    Reading, Draining
    <2>4. \A x \in Reading \cup Draining \cup {"idle"} : x \notin Generation
        BY DEF Reading, Draining, Generation
    <2> QED
        BY <2>1, <2>2, <2>3, <2>4, StepAddsNothing
<1>3. CASE UNCHANGED vars
    <2>1. In(Generation)' <=> In(Generation)
        BY <1>3 DEF vars, gridVars, In, Launched
    <2> QED
        BY <1>3, <2>1, NothingAdded DEF vars, queueVars
<1> QED
    BY <1>1, <1>2, <1>3, LaunchAddsNothing, AdvanceFinishesSample, GenerateAddsNothing,
       SyncGeneratedAddsNothing, TraceChunkEndsPaths
    DEF Next, Stream, GridStep, WarpStep

\* While the warps drain a tile, every pixel whose path has ended has had one path of
\* this sample added, and every other pixel none: no path is lost, doubled or added to
\* another pixel (persistentWavefrontTrace, launchPersistentTile), until a lane appends
\* in a group without lane zero.
THEOREM PersistentPixelsAddedOnce == Spec => [](leaderless \/ AddedOnce)
<1>1. /\ leaderless \/ GridIInv
      /\ leaderless \/ TileIInv
      /\ [Next]_vars
      => (leaderless \/ TileIInv)'
    BY NextImplementsLedgerNext, LeaderlessStays
<1>2. leaderless \/ TileIInv => leaderless \/ AddedOnce
    BY DEF TileIInv
<1> QED
    BY <1>1, <1>2, InitGivesTileIInv, PersistentInvariant, PTL DEF Spec

\* Every step of the kernel is one of the pixel ledger or leaves it alone, and a tile is
\* complete before the stream launches the next, until a lane appends in a group
\* without lane zero.
THEOREM PersistentImplementsLedger == Spec => LedgerInit /\ LedgerWhileLed
<1>1. /\ leaderless \/ GridIInv
      /\ leaderless \/ TileIInv
      /\ [Next]_vars
      => (leaderless \/ TileIInv)' /\ [leaderless' \/ LedgerNext]_ledgerVars
    BY NextImplementsLedgerNext, LeaderlessStays
<1>2. Init => LedgerInit
    BY DEF Init, QueueInit
<1> QED
    BY <1>1, <1>2, InitGivesTileIInv, PersistentInvariant, PTL DEF Spec, LedgerWhileLed
=============================================================================
