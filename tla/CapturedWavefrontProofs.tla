----------------------- MODULE CapturedWavefrontProofs -----------------------
(***************************************************************************)
(* Proofs about CapturedWavefront, for every size of tiles, blocks, warps  *)
(* and queues and every depth, however the lanes of a warp are split when  *)
(* they append, as long as none appends in a group without lane zero.      *)
(*                                                                         *)
(* While a kernel fills a queue its output is exact as far as it has come  *)
(* (WavefrontQueuesProofs); when the kernel has ended, the queue lists the *)
(* paths that are still active. And a path that ends is then of a pixel    *)
(* that has had none in this sample.                                       *)
(***************************************************************************)
EXTENDS CapturedWavefront, WavefrontQueuesProofs

-----------------------------------------------------------------------------
(* The inductive invariant of the queues.                                  *)

Nodes == {"none", "clearRays", "generatePrimaryRays", "clearNextRays", "intersectScene",
          "shadePaths", "advanceSampleIndex"}
KernelPlaces == {"running", "reserving", "storing", "finished"}

WaveTypes ==
    /\ node \in Nodes
    /\ bounce \in 0..MaxDepth
    /\ tile \in 0..LastTile /\ (node # "none" => tile # 0)
    /\ DataTypes
    /\ results \in [Slots -> Slots \cup {NoPath}]
    /\ LaneTypes
    /\ place \in [Warps -> KernelPlaces]

Idle ==
    node \in {"none", "advanceSampleIndex", "clearRays"} =>
        ActivePaths = {} /\ NothingCarried

Generating ==
    node = "generatePrimaryRays" =>
        /\ OutputExact("ray", 0)
        /\ ActivePaths \subseteq Held("ray")
        /\ \A w \in Warps :
              /\ waiting[w] \subseteq OwnPixels(w)
              /\ \A k \in waiting[w] \ Carrying(w) : BlockStart(w) + k \notin ActivePaths
              /\ place[w] = "running" => Carrying(w) = {}
              /\ place[w] # "running" =>
                    /\ place[w] = "storing"
                    /\ \E k \in waiting[w] : Carrying(w) = {k} /\ reserved[w].group = {k}

Ready ==
    node \in {"clearNextRays", "intersectScene"} =>
        /\ bounce < MaxDepth
        /\ Lists(CurrentRays, bounce)
        /\ NothingCarried

Intersecting ==
    node = "intersectScene" =>
        /\ count[NextRays] = 0
        /\ \A w \in Warps : place[w] \in {"running", "finished"}
        /\ \A w \in Warps : place[w] = "finished" =>
              \A i \in Items(w, CurrentRays) : results[i] = items[CurrentRays][i]

Unshaded == {i \in Slots : \E w \in Warps : place[w] = "running" /\ i \in Items(w, CurrentRays)}

Shading ==
    node = "shadePaths" =>
        /\ bounce < MaxDepth
        /\ \A i \in Slots : i < count[CurrentRays] => results[i] = items[CurrentRays][i]
        /\ Accounted(CurrentRays, Unshaded, NextRays, bounce)
        /\ \A w \in Warps :
              /\ place[w] \in {"running", "finished"} => Carrying(w) = {}
              /\ place[w] \in {"reserving", "storing"} => Carrying(w) \subseteq waiting[w]

WaveIInv ==
    /\ WaveTypes
    /\ CountsFit
    /\ Idle
    /\ Generating
    /\ Ready
    /\ Intersecting
    /\ Shading

\* A thread that generates its path reserves a slot for it alone.
LEMMA GenerateKeepsOutput ==
    ASSUME DataTypes, LaneTypes, NEW w \in Warps, NEW k \in Threads(w),
           OutputExact("ray", 0), tile \in Nat, NEW p \in Slots, p \notin ActivePaths,
               Carrying(w) = {},
           place[w] = "running", k \in waiting[w],
           path' = [path EXCEPT ![p] = CameraPath(p)],
           carried' = [carried EXCEPT ![w][k] = p],
           reserved' = [reserved EXCEPT ![w] = [base |-> count["ray"], group |-> {k}]],
           count' = [count EXCEPT !["ray"] = @ + 1],
           place' = [place EXCEPT ![w] = "storing"],
           UNCHANGED <<items, waiting>>
    PROVE  /\ OutputExact("ray", 0)'
           /\ LaneTypes' /\ DataTypes'
           /\ Held("ray")' = Held("ray") \cup {p}
           /\ ActivePaths' = ActivePaths \cup {p}
           /\ Carrying(w)' = {k}
           /\ \A v \in Warps \ {w} : Carrying(v)' = Carrying(v) /\ reserved'[v] = reserved[v]
<1> DEFINE c == count["ray"]
<1>0. c \in Nat /\ "ray" \in Queues /\ NoPath \notin Slots /\ p \in Nat
    BY QueueAssumption DEF DataTypes, Queues, Slots
<1>1. /\ CameraPath(p) \in [pixel : Nat \X Nat, depth : Nat, active : BOOLEAN]
      /\ CameraPath(p).active /\ CameraPath(p).depth = 0
    BY <1>0 DEF CameraPath
<1>2. /\ path'[p] = CameraPath(p) /\ \A r \in Slots \ {p} : path'[r] = path[r]
      /\ path' \in [Slots -> [pixel : Nat \X Nat, depth : Nat, active : BOOLEAN]]
    BY <1>1 DEF DataTypes, PathTypes
<1>3. ActivePaths' = ActivePaths \cup {p}
    BY <1>1, <1>2 DEF ActivePaths
<1>4. /\ \A v \in Warps \ {w} : /\ carried'[v] = carried[v] /\ reserved'[v] = reserved[v]
                                /\ place'[v] = place[v]
      /\ carried'[w] = [carried[w] EXCEPT ![k] = p]
      /\ reserved'[w] = [base |-> c, group |-> {k}] /\ place'[w] = "storing"
      /\ count'["ray"] = c + 1
    BY <1>0 DEF LaneTypes, DataTypes
<1> HIDE DEF c
<1>5. /\ Carrying(w)' = {k} /\ Placed(w)' = {k} /\ carried'[w][k] = p
      /\ \A v \in Warps \ {w} : Carrying(v)' = Carrying(v) /\ Placed(v)' = Placed(v)
    BY <1>0, <1>4 DEF Carrying, Placed, Appending, LaneTypes
<1>6. /\ \A v \in Warps \ {w} : \A l : SlotOf(v, l)' = SlotOf(v, l)
      /\ SlotOf(w, k)' = c
    <2>1. Rank({k}, k) = 0
        <3>1. {j \in {k} : Lane(j) < Lane(k)} = {}
            BY ThreadsOfABlock
        <3> QED
            BY <3>1, FS_EmptySet DEF Rank
    <2>2. Rank(Placed(w), k)' = 0
        BY <1>5, <2>1 DEF Rank
    <2>3. SlotOf(w, k)' = c + 0
        BY <1>4, <2>2 DEF SlotOf
    <2>4. \A v \in Warps \ {w} : \A l : SlotOf(v, l)' = SlotOf(v, l)
        BY <1>4, <1>5 DEF SlotOf, Rank
    <2> QED
        BY <1>0, <2>3, <2>4
<1>7. LaneTypes' /\ DataTypes'
    <2>1. place' \in [Warps -> Places]
        BY DEF LaneTypes, Places
    <2>2. \A v \in Warps : /\ reserved'[v] \in [base : Nat, group : SUBSET Threads(v)]
                           /\ carried'[v] \in [Threads(v) -> Slots \cup {NoPath}]
        BY <1>0, <1>4 DEF LaneTypes
    <2>3. count' \in [Queues -> Nat]
        BY <1>0 DEF DataTypes
    <2> QED
        BY <1>2, <2>1, <2>2, <2>3 DEF LaneTypes, DataTypes, PathTypes
<1>8. \A v \in Warps \ {w} : place[v] = "storing" =>
         \A l \in Placed(v) : SlotOf(v, l) \in 0..c - 1
    BY <1>0 DEF OutputExact, c
<1>9. Stored("ray")' = Stored("ray")
    <2>1. ASSUME NEW i \in 0..c - 1
          PROVE  Pending(i)' <=> Pending(i)
        <3>1. SlotOf(w, k)' # i
            BY <1>0, <1>6
        <3> QED
            BY <1>4, <1>5, <1>6, <3>1 DEF Pending
    <2>2. \A i \in Nat : i = c => Pending(i)'
        BY <1>4, <1>5, <1>6 DEF Pending
    <2>3. \A i : i \in 0..(c + 1) - 1 <=> i \in 0..c - 1 \/ i = c
        BY <1>0
    <2>4. Stored("ray") = {i \in 0..c - 1 : ~Pending(i)}
        BY DEF Stored, c
    <2>5. Stored("ray")' = {i \in 0..(c + 1) - 1 : ~Pending(i)'}
        BY <1>4 DEF Stored
    <2> QED
        BY <1>0, <2>1, <2>2, <2>3, <2>4, <2>5
<1>10. Held("ray")' = Held("ray") \cup {p}
    <2>1. \A r : (\E i \in Stored("ray")' : items'["ray"][i] = r)
               <=> (\E i \in Stored("ray") : items["ray"][i] = r)
        BY <1>9
    <2>2. \A r : (\E v \in Warps : \E l \in Carrying(v)' : carried'[v][l] = r)
               <=> r = p \/ \E v \in Warps : \E l \in Carrying(v) : carried[v][l] = r
        BY <1>4, <1>5
    <2> QED
        BY <2>1, <2>2 DEF Held
<1>11. /\ \A i \in Stored("ray") : items["ray"][i] \in ActivePaths /\ items["ray"][i] # p
       /\ \A v \in Warps : \A l \in Carrying(v) :
             carried[v][l] \in ActivePaths /\ carried[v][l] # p
    BY DEF OutputExact
<1>12. ActivePaths \subseteq Slots
    BY DEF ActivePaths
<1>13. OutputExact("ray", 0)'
    <2>1. \A v \in Warps : place'[v] = "storing" =>
             \A l \in Placed(v)' : SlotOf(v, l)' \in 0..count'["ray"] - 1
        BY <1>0, <1>4, <1>5, <1>6, <1>8
    <2>2. \A u, v \in Warps : place'[u] = "storing" /\ place'[v] = "storing" =>
             \A j \in Placed(u)', l \in Placed(v)' :
                SlotOf(u, j)' = SlotOf(v, l)' => u = v /\ j = l
        <3>1. ASSUME NEW v \in Warps \ {w}, place[v] = "storing", NEW l \in Placed(v)
              PROVE  SlotOf(w, k)' # SlotOf(v, l)'
            BY <1>0, <1>6, <1>8, <3>1
        <3>2. ASSUME NEW u \in Warps \ {w}, NEW v \in Warps \ {w},
                     place[u] = "storing", place[v] = "storing",
                     NEW j \in Placed(u), NEW l \in Placed(v), SlotOf(u, j)' = SlotOf(v, l)'
              PROVE  u = v /\ j = l
            BY <1>6, <3>2 DEF OutputExact
        <3> QED
            BY <1>4, <1>5, <3>1, <3>2
    <2>3. \A i \in Stored("ray")' :
             items'["ray"][i] \in ActivePaths' /\ path'[items'["ray"][i]].depth = 0
        BY <1>2, <1>3, <1>9, <1>11, <1>12 DEF OutputExact
    <2>4. \A i, j \in Stored("ray")' : items'["ray"][i] = items'["ray"][j] => i = j
        BY <1>9 DEF OutputExact
    <2>5. \A v \in Warps : \A l \in Carrying(v)' :
             carried'[v][l] \in ActivePaths' /\ path'[carried'[v][l]].depth = 0
        <3>1. \A v \in Warps \ {w} : \A l \in Carrying(v) :
                 carried[v][l] \in ActivePaths \ {p} /\ path[carried[v][l]].depth = 0
            BY <1>11 DEF OutputExact
        <3> QED
            BY <1>1, <1>2, <1>3, <1>4, <1>5, <1>12, <3>1
    <2>6. \A u, v \in Warps : \A j \in Carrying(u)', l \in Carrying(v)' :
             carried'[u][j] = carried'[v][l] => u = v /\ j = l
        <3>1. \A u, v \in Warps \ {w} : \A j \in Carrying(u), l \in Carrying(v) :
                 carried[u][j] = carried[v][l] => u = v /\ j = l
            BY DEF OutputExact
        <3> QED
            BY <1>4, <1>5, <1>11, <3>1
    <2>7. \A v \in Warps : \A l \in Carrying(v)', i \in Stored("ray")' :
             carried'[v][l] # items'["ray"][i]
        BY <1>4, <1>5, <1>9, <1>11 DEF OutputExact
    <2> QED
        BY <2>1, <2>2, <2>3, <2>4, <2>5, <2>6, <2>7 DEF OutputExact
<1> QED
    BY <1>3, <1>4, <1>5, <1>7, <1>10, <1>13

\* The queues of a bounce are two.
LEMMA TwoQueues ==
    ASSUME WaveTypes
    PROVE  /\ CurrentRays \in Queues /\ NextRays \in Queues /\ CurrentRays # NextRays
           /\ bounce \in Nat /\ MaxDepth \in Nat
           /\ \A q \in Queues : q = CurrentRays \/ q = NextRays
BY SizesArePositive DEF WaveTypes, CurrentRays, NextRays, Queues

\* The grid of the graph covers the capacity: each index is that of one thread.
LEMMA EveryIndexHasOneThread ==
    /\ \A i \in Slots : \E w \in Warps : \E k \in Threads(w) : i = BlockStart(w) + k
    /\ \A v, w \in Warps : \A k \in Threads(v), l \in Threads(w) :
          BlockStart(v) + k = BlockStart(w) + l => v = w /\ k = l
    /\ \A w \in Warps : BlockStart(w) \in Nat
<1>1. MaxBlocks \in Nat /\ Capacity \in Nat \ {0} /\ Capacity <= BlockSize * MaxBlocks
    BY SizesArePositive, BlocksAssumption, BlocksCoverPaths
<1>2. \A i \in Slots : i \in Nat /\ i < BlockSize * MaxBlocks
    <2>1. BlockSize * MaxBlocks \in Nat
        BY SizesArePositive
    <2> QED
        BY <1>1, <2>1 DEF Slots
<1>3. \A i \in Slots : \E w \in Warps : \E k \in Threads(w) : i = BlockStart(w) + k
    BY <1>1, <1>2, IndicesOfAGrid
<1> QED
    BY <1>3, IndicesOfAGrid

\* The items a warp of shadePaths has are those of its threads, and of no other warp.
LEMMA ItemsOfAWarp ==
    ASSUME NEW q \in Queues, count[q] \in 0..Capacity, NEW w \in Warps
    PROVE  /\ \A i : i \in Items(w, q) <=> \E k \in Working(w, BlockStart(w), count[q]) :
                                              i = BlockStart(w) + k
           /\ Items(w, q) \subseteq 0..count[q] - 1
           /\ \A v \in Warps \ {w} : \A i \in Items(v, q) : \A k \in Threads(w) :
                 i # BlockStart(w) + k
<1>1. /\ Capacity \in Nat /\ count[q] \in Nat /\ count[q] <= Capacity
      /\ \A v \in Warps : BlockStart(v) \in Nat /\ \A k \in Threads(v) : k \in Nat
    BY SizesArePositive, ThreadsOfABlock, EveryIndexHasOneThread
<1>2. ASSUME NEW v \in Warps, NEW i \in Items(v, q)
      PROVE  /\ i \in 0..count[q] - 1
             /\ \E k \in Working(v, BlockStart(v), count[q]) : i = BlockStart(v) + k
    <2>1. i \in Nat /\ i < count[q] /\ i - BlockStart(v) \in Threads(v)
        BY <1>1 DEF Items, Slots
    <2>2. BlockStart(v) + (i - BlockStart(v)) = i
        BY <1>1, <2>1
    <2> QED
        BY <1>1, <2>1, <2>2 DEF Working
<1>3. ASSUME NEW k \in Working(w, BlockStart(w), count[q])
      PROVE  BlockStart(w) + k \in Items(w, q)
    <2>1. k \in Threads(w) /\ k \in Nat /\ BlockStart(w) + k < count[q]
        BY <1>1 DEF Working
    <2>2. BlockStart(w) + k \in Slots /\ (BlockStart(w) + k) - BlockStart(w) = k
        BY <1>1, <2>1 DEF Slots
    <2> QED
        BY <2>1, <2>2 DEF Items
<1>4. ASSUME NEW v \in Warps \ {w}, NEW i \in Items(v, q), NEW k \in Threads(w)
      PROVE  i # BlockStart(w) + k
    <2>1. PICK l \in Threads(v) : i = BlockStart(v) + l
        BY <1>2 DEF Working
    <2> QED
        BY <2>1, EveryIndexHasOneThread
<1> QED
    BY <1>2, <1>3, <1>4

\* A warp that shades takes the paths of its items out of the input, and carries
\* those that go on to the output.
LEMMA ShadePathsKeepsShading ==
    ASSUME WaveIInv, NEW w \in Warps, ShadePaths(w)
    PROVE  /\ DataTypes' /\ LaneTypes' /\ Shading'
           /\ ChunkActive(w, CurrentRays, BlockStart(w), count[CurrentRays], bounce)
<1> DEFINE q == CurrentRays
           n == NextRays
           U == Unshaded
           start == BlockStart(w)
<1>1. /\ WaveTypes /\ DataTypes /\ LaneTypes /\ Shading /\ CountsFit
      /\ node = "shadePaths" /\ place[w] = "running" /\ Carrying(w) = {}
      /\ place' = [place EXCEPT ![w] = "reserving"]
      /\ UNCHANGED graphVars
      /\ Shade(w, q, start, count[q])
    BY DEF WaveIInv, WaveTypes, ShadePaths, Go, Shading
<1>2. /\ q \in Queues /\ n \in Queues /\ q # n /\ bounce \in Nat
      /\ count[q] \in 0..Capacity /\ start \in Nat /\ Accounted(q, U, n, bounce)
    BY <1>1, TwoQueues, EveryIndexHasOneThread, SizesArePositive
       DEF DataTypes, CountsFit, Shading
<1>3. /\ q' = q /\ n' = n /\ bounce' = bounce /\ node' = node /\ results' = results
      /\ count' = count /\ items' = items
    BY <1>1 DEF graphVars, CurrentRays, NextRays, Shade
<1>4. U \in SUBSET (0..count[q] - 1) /\ \A k \in Working(w, start, count[q]) : start + k \in U
    <2>1. \A v \in Warps : Items(v, q) \subseteq 0..count[q] - 1
        BY <1>2, ItemsOfAWarp
    <2>2. \A k \in Working(w, start, count[q]) : start + k \in Items(w, q)
        BY <1>2, ItemsOfAWarp
    <2> QED
        BY <1>1, <2>1, <2>2 DEF Unshaded, Items
<1>5. PICK V : V = Unshaded'
    OBVIOUS
<1>6. V = {i \in U : \A k \in Threads(w) : i # start + k}
    <2>1. \A v \in Warps : Items(v, q)' = Items(v, q)
        BY <1>3 DEF Items
    <2>2. \A v \in Warps : place'[v] = "running" <=> place[v] = "running" /\ v # w
        BY <1>1 DEF LaneTypes
    <2>3. V = {i \in Slots : \E v \in Warps \ {w} : place[v] = "running" /\ i \in Items(v, q)}
        BY <1>3, <1>5, <2>1, <2>2 DEF Unshaded
    <2>4. /\ \A i \in Items(w, q) : \E k \in Threads(w) : i = start + k
          /\ \A v \in Warps \ {w} : \A i \in Items(v, q) : \A k \in Threads(w) : i # start + k
        BY <1>2, ItemsOfAWarp DEF Working
    <2> QED
        BY <2>3, <2>4 DEF Unshaded
<1> HIDE DEF q, n, U, start
<1>7. /\ Accounted(q, V, n, bounce)'
      /\ LaneTypes' /\ DataTypes'
      /\ ChunkActive(w, q, start, count[q], bounce)
      /\ \A v \in Warps \ {w} : /\ Carrying(v)' = Carrying(v)
                                /\ waiting'[v] = waiting[v] /\ reserved'[v] = reserved[v]
      /\ waiting'[w] = Threads(w)
    <2> DEFINE d == bounce
    <2>1. d \in Nat /\ Accounted(q, U, n, d) /\ d' = d
        BY <1>2, <1>3
    <2> HIDE DEF d
    <2>2. /\ Accounted(q, V, n, d)'
          /\ LaneTypes' /\ DataTypes'
          /\ ChunkActive(w, q, start, count[q], d)
          /\ \A v \in Warps \ {w} : /\ Carrying(v)' = Carrying(v)
                                    /\ waiting'[v] = waiting[v] /\ reserved'[v] = reserved[v]
          /\ waiting'[w] = Threads(w)
        BY <1>1, <1>2, <1>3, <1>4, <1>6, <2>1, ShadeKeepsAccounted
    <2> QED
        BY <2>2 DEF d
<1>8. Shading'
    <2>1. \A i \in Slots : i < count'[q] => results'[i] = items'[q][i]
        BY <1>1, <1>3 DEF Shading, q
    <2>2. \A v \in Warps :
              /\ place'[v] \in {"running", "finished"} => Carrying(v)' = {}
              /\ place'[v] \in {"reserving", "storing"} => Carrying(v)' \subseteq waiting'[v]
        BY <1>1, <1>7 DEF Shading, LaneTypes, Carrying
    <2>3. q' = CurrentRays' /\ n' = NextRays' /\ bounce' < MaxDepth
        BY <1>1, <1>3 DEF q, n, Shading
    <2>4. Accounted(CurrentRays, Unshaded, NextRays, bounce)'
        BY <1>3, <1>5, <1>7 DEF Accounted, q, n
    <2> QED
        BY <1>3, <2>1, <2>2, <2>3, <2>4 DEF Shading
<1> QED
    BY <1>7, <1>8 DEF q, start

-----------------------------------------------------------------------------
(* The steps of the stream.                                                *)


LEMMA InitGivesWaveIInv == Init => WaveIInv
<1> SUFFICES ASSUME Init PROVE WaveIInv
    OBVIOUS
<1> USE SizesArePositive DEF Init, QueueInit
<1>1. 0 \in Slots /\ Capacity - 1 \in Slots
    BY DEF Slots
<1>2. \A w \in Warps : carried[w] = [k \in Threads(w) |-> NoPath]
    OBVIOUS
<1>3. ActivePaths = {} /\ NothingCarried
    BY <1>2 DEF ActivePaths, NothingCarried, Carrying
<1>4. DataTypes
    <2>1. PathTypes
        BY DEF PathTypes
    <2> QED
        BY <1>1, <2>1 DEF DataTypes
<1>5. LaneTypes
    BY <1>2 DEF LaneTypes, Places, NothingReserved
<1>6. WaveTypes
    <2>1. tile \in 0..LastTile /\ bounce \in 0..MaxDepth
        BY TileAssumption DEF LedgerInit, LastTile
    <2> QED
        BY <1>4, <1>5, <2>1 DEF WaveTypes, Nodes, KernelPlaces
<1>7. CountsFit
    BY DEF CountsFit
<1> QED
    BY <1>3, <1>6, <1>7 DEF WaveIInv, Idle, Generating, Ready, Intersecting, Shading

LEMMA LaunchKeepsWaveIInv ==
    ASSUME WaveIInv, LaunchCapturedTile
    PROVE  WaveIInv'
<1> USE DEF LaunchCapturedTile, queueVars, laneVars
<1>1. tile' \in 0..LastTile /\ tile' # 0
    BY TileAssumption DEF WaveIInv, WaveTypes, LastTile
<1>2. WaveTypes'
    BY <1>1 DEF WaveIInv, WaveTypes, DataTypes, PathTypes, LaneTypes, Nodes
<1>3. CountsFit'
    BY DEF WaveIInv, CountsFit
<1>4. Idle'
    BY DEF WaveIInv, Idle, ActivePaths, NothingCarried, Carrying
<1> QED
    BY <1>2, <1>3, <1>4 DEF WaveIInv, Generating, Ready, Intersecting, Shading

LEMMA ClearRaysKeepsWaveIInv ==
    ASSUME WaveIInv, ClearRays
    PROVE  WaveIInv'
<1> USE DEF ClearRays, ledgerVars, Start, Cleared
<1>0. /\ WaveTypes /\ DataTypes /\ LaneTypes /\ CountsFit
      /\ ActivePaths = {} /\ NothingCarried /\ tile # 0 /\ "ray" \in Queues
    BY DEF WaveIInv, WaveTypes, Idle, Queues
<1>1. /\ \A w \in Warps : /\ Carrying(w)' = {} /\ place'[w] = "running"
                          /\ waiting'[w] = OwnPixels(w) /\ OwnPixels(w)' = OwnPixels(w)
      /\ ActivePaths' = {}
    BY <1>0 DEF Carrying, NothingCarried, ActivePaths, OwnPixels
<1>2. DataTypes' /\ CountsFit' /\ count'["ray"] = 0
    BY <1>0, SizesArePositive DEF DataTypes, PathTypes, CountsFit
<1>3. LaneTypes'
    BY <1>0 DEF LaneTypes, Places, OwnPixels
<1>4. WaveTypes'
    BY <1>0, <1>2, <1>3 DEF WaveTypes, Nodes, KernelPlaces
<1>5. OutputExact("ray", 0)' /\ Held("ray")' = {}
    BY <1>1, <1>2, <1>3, EmptyOutput
<1>6. Generating'
    BY <1>1, <1>5 DEF Generating
<1> QED
    BY <1>2, <1>4, <1>6 DEF WaveIInv, Idle, Ready, Intersecting, Shading

LEMMA EndGenerateKeepsWaveIInv ==
    ASSUME WaveIInv, EndGenerate
    PROVE  WaveIInv'
<1> USE DEF EndGenerate, ledgerVars, queueVars, laneVars
<1>0. WaveTypes /\ CountsFit /\ Generating /\ tile # 0 /\ "ray" \in Queues
    BY DEF WaveIInv, WaveTypes, Queues
<1>1. NothingCarried
    BY <1>0 DEF Generating, NothingCarried
<1>2. Lists("ray", 0)
    BY <1>0, <1>1, OutputIsComplete DEF Generating, WaveTypes
<1>3. CurrentRays' = "ray"
    BY DEF CurrentRays
<1>4. Ready'
    <2>1. Lists("ray", 0)'
        BY <1>2 DEF Lists, ActivePaths
    <2>2. NothingCarried'
        BY <1>1 DEF NothingCarried, Carrying
    <2> QED
        BY <1>3, <2>1, <2>2, SizesArePositive DEF Ready
<1>5. WaveTypes' /\ CountsFit'
    BY <1>0, SizesArePositive DEF WaveTypes, DataTypes, PathTypes, LaneTypes, Nodes, CountsFit
<1> QED
    BY <1>4, <1>5 DEF WaveIInv, Idle, Generating, Intersecting, Shading

LEMMA ClearNextRaysKeepsWaveIInv ==
    ASSUME WaveIInv, ClearNextRays
    PROVE  WaveIInv'
<1> USE DEF ClearNextRays, ledgerVars, Start, Cleared
<1>0. /\ WaveTypes /\ DataTypes /\ LaneTypes /\ CountsFit /\ Ready
      /\ CurrentRays \in Queues /\ NextRays \in Queues /\ CurrentRays # NextRays
    BY TwoQueues DEF WaveIInv, WaveTypes
<1>1. /\ CurrentRays' = CurrentRays /\ NextRays' = NextRays
      /\ count'[CurrentRays] = count[CurrentRays] /\ count'[NextRays] = 0
      /\ \A w \in Warps : place'[w] = "running"
    BY <1>0 DEF CurrentRays, NextRays, DataTypes
<1>2. DataTypes' /\ CountsFit'
    BY <1>0, SizesArePositive DEF DataTypes, PathTypes, CountsFit
<1>3. WaveTypes'
    BY <1>0, <1>2 DEF WaveTypes, LaneTypes, Places, Nodes, laneVars, KernelPlaces
<1>4. Ready'
    <2>1. Lists(CurrentRays, bounce)
        BY <1>0 DEF Ready
    <2>2. Lists(CurrentRays, bounce)'
        BY <1>1, <2>1 DEF Lists, ActivePaths
    <2>3. NothingCarried'
        BY <1>0 DEF Ready, NothingCarried, Carrying, laneVars
    <2> QED
        BY <1>0, <2>2, <2>3 DEF Ready
<1>5. Intersecting'
    BY <1>1 DEF Intersecting
<1> QED
    BY <1>2, <1>3, <1>4, <1>5 DEF WaveIInv, Idle, Generating, Shading

LEMMA EndIntersectKeepsWaveIInv ==
    ASSUME WaveIInv, EndIntersect
    PROVE  WaveIInv'
<1> USE DEF EndIntersect, ledgerVars, queueVars, laneVars, Start, Finished
<1> DEFINE q == CurrentRays
           n == NextRays
<1>0. /\ WaveTypes /\ DataTypes /\ LaneTypes /\ CountsFit /\ Ready /\ Intersecting
      /\ q \in Queues /\ n \in Queues /\ bounce \in Nat
      /\ Capacity \in Nat /\ count[q] \in Nat /\ count[q] <= Capacity
    BY TwoQueues, SizesArePositive DEF WaveIInv, WaveTypes, CountsFit, DataTypes
<1>1. /\ q' = q /\ n' = n /\ \A w \in Warps : place'[w] = "running"
      /\ \A w \in Warps : Items(w, q)' = Items(w, q)
      /\ ActivePaths' = ActivePaths
    BY DEF CurrentRays, NextRays, Items, ActivePaths
<1>2. /\ bounce < MaxDepth /\ Lists(q, bounce) /\ count[n] = 0
      /\ \A w \in Warps : Carrying(w) = {}
      /\ \A w \in Warps : \A i \in Items(w, q) : results[i] = items[q][i]
    BY <1>0 DEF Ready, Intersecting, NothingCarried
<1>3. \A i \in Slots : i < count[q] => \E w \in Warps : i \in Items(w, q)
    <2> SUFFICES ASSUME NEW i \in Slots, i < count[q]
                 PROVE  \E w \in Warps : i \in Items(w, q)
        OBVIOUS
    <2>1. PICK w \in Warps : \E k \in Threads(w) : i = BlockStart(w) + k
        BY EveryIndexHasOneThread
    <2>2. PICK k \in Threads(w) : i = BlockStart(w) + k
        BY <2>1
    <2>3. i - BlockStart(w) = k
        BY <2>2, ThreadsOfABlock, EveryIndexHasOneThread
    <2> QED
        BY <2>3 DEF Items
<1>4. \A i : i \in 0..count[q] - 1 <=> i \in Slots /\ i < count[q]
    BY <1>0 DEF Slots
<1>5. \A i \in Slots : i \in Unshaded' <=> i < count[q]
    BY <1>1, <1>3 DEF Unshaded, Items
<1>6. \A w \in Warps : Carrying(w)' = {}
    BY <1>2 DEF Carrying
<1>7. OutputExact(n, bounce + 1)' /\ Held(n)' = {}
    <2>1. LaneTypes'
        BY <1>0 DEF LaneTypes, Places
    <2> QED
        BY <1>1, <1>2, <1>6, <2>1, EmptyOutput
<1>8. /\ \A i \in Slots : i < count[q] => results[i] = items[q][i]
      /\ \A i \in Unshaded' : items[q][i] \in ActivePaths /\ path[items[q][i]].depth = bounce
      /\ \A i, j \in 0..count[q] - 1 : items[q][i] = items[q][j] => i = j
      /\ \A p \in ActivePaths : \E i \in Unshaded' : items[q][i] = p
    <2>1. Unshaded' \subseteq Slots
        BY DEF Unshaded
    <2> QED
        BY <1>2, <1>3, <1>4, <1>5, <2>1 DEF Lists
<1> HIDE DEF q, n
<1>9. Shading'
    <2>1. q' = CurrentRays' /\ n' = NextRays'
        BY DEF q, n
    <2> QED
        BY <1>1, <1>2, <1>6, <1>7, <1>8, <2>1 DEF Shading, Accounted
<1>10. WaveTypes' /\ CountsFit'
    BY <1>0 DEF WaveTypes, DataTypes, PathTypes, LaneTypes, Places, Nodes, CountsFit,
         KernelPlaces
<1> QED
    BY <1>9, <1>10 DEF WaveIInv, Idle, Generating, Ready, Intersecting

LEMMA EndShadeKeepsWaveIInv ==
    ASSUME WaveIInv, EndShade
    PROVE  WaveIInv'
<1> USE DEF EndShade, ledgerVars, queueVars, laneVars, Finished, MoreBounces
<1>0. /\ WaveTypes /\ DataTypes /\ CountsFit /\ Shading
      /\ NextRays \in Queues /\ bounce \in Nat /\ MaxDepth \in Nat /\ bounce < MaxDepth
    BY TwoQueues DEF WaveIInv, WaveTypes, Shading
<1>1. Unshaded = {} /\ NothingCarried
    BY <1>0 DEF Unshaded, Shading, NothingCarried
<1>2. ActivePaths \subseteq Held(NextRays)
    BY <1>0, <1>1 DEF Shading, Accounted
<1>3. Lists(NextRays, bounce + 1)
    BY <1>0, <1>1, <1>2, OutputIsComplete DEF Shading, Accounted, WaveTypes
<1>4. CurrentRays' = NextRays
    BY <1>0 DEF CurrentRays, NextRays
<1>5. ActivePaths' = ActivePaths /\ NothingCarried'
    BY <1>1 DEF ActivePaths, NothingCarried, Carrying
<1>6. WaveTypes' /\ CountsFit'
    BY <1>0 DEF WaveTypes, DataTypes, PathTypes, LaneTypes, Nodes, CountsFit
<1>7. Ready'
    <2>1. Lists(NextRays, bounce + 1) => (Lists(CurrentRays, bounce))'
        BY <1>4, <1>5 DEF Lists
    <2> QED
        BY <1>3, <1>5, <2>1 DEF Ready
<1>8. Idle'
    <2>1. node' = "advanceSampleIndex" => Held(NextRays) = {}
        BY <1>0 DEF Shading, Accounted
    <2> QED
        BY <1>2, <1>5, <2>1 DEF Idle
<1> QED
    BY <1>6, <1>7, <1>8 DEF WaveIInv, Generating, Intersecting, Shading

LEMMA AdvanceKeepsWaveIInv ==
    ASSUME WaveIInv, AdvanceSampleIndex
    PROVE  WaveIInv'
<1> USE DEF AdvanceSampleIndex, queueVars, laneVars
<1>1. tile' \in 0..LastTile
    BY TileAssumption DEF WaveIInv, WaveTypes, LastTile
<1>2. WaveTypes' /\ CountsFit'
    BY <1>1 DEF WaveIInv, WaveTypes, DataTypes, PathTypes, LaneTypes, Nodes, CountsFit
<1>3. Idle'
    BY DEF WaveIInv, Idle, ActivePaths, NothingCarried, Carrying
<1> QED
    BY <1>2, <1>3 DEF WaveIInv, Generating, Ready, Intersecting, Shading

-----------------------------------------------------------------------------
(* The steps of the kernels.                                               *)

LEMMA GeneratePathKeepsWaveIInv ==
    ASSUME WaveIInv, NEW w \in Warps, NEW k \in Threads(w), GeneratePath(w, k)
    PROVE  WaveIInv'
<1> DEFINE p == BlockStart(w) + k
<1>0. /\ WaveTypes /\ DataTypes /\ LaneTypes /\ CountsFit /\ Generating
      /\ tile \in 0..LastTile /\ tile # 0 /\ node = "generatePrimaryRays"
      /\ OutputExact("ray", 0) /\ "ray" \in Queues
    BY DEF WaveIInv, WaveTypes, Generating, GeneratePath, Queues
<1>1. /\ place[w] = "running" /\ k \in waiting[w]
      /\ path' = [path EXCEPT ![p] = CameraPath(p)]
      /\ carried' = [carried EXCEPT ![w][k] = p]
      /\ reserved' = [reserved EXCEPT ![w] = [base |-> count["ray"], group |-> {k}]]
      /\ count' = [count EXCEPT !["ray"] = @ + 1]
      /\ place' = [place EXCEPT ![w] = "storing"]
      /\ UNCHANGED <<items, waiting>>
      /\ UNCHANGED <<tile, node, bounce, results>>
    BY DEF GeneratePath, Go, ledgerVars, graphVars
<1>2. Carrying(w) = {} /\ k \in OwnPixels(w) /\ p \notin ActivePaths
    BY <1>0, <1>1 DEF Generating
<1>3. p \in Slots
    <2>1. tile \in Tiles /\ TilePixels[tile] \in Nat
        BY <1>0, TileAssumption DEF Tiles, LastTile
    <2>2. p \in Nat /\ p < TilePixels[tile] /\ TilePixels[tile] <= Capacity /\ Capacity \in Nat
        BY <1>2, <2>1, QueueAssumption, SizesArePositive, EveryIndexHasOneThread,
             ThreadsOfABlock
           DEF OwnPixels
    <2> QED
        BY <2>1, <2>2 DEF Slots
<1> HIDE DEF p
<1>4. /\ OutputExact("ray", 0)' /\ LaneTypes' /\ DataTypes'
      /\ Held("ray")' = Held("ray") \cup {p}
      /\ ActivePaths' = ActivePaths \cup {p}
      /\ Carrying(w)' = {k}
      /\ \A v \in Warps \ {w} : Carrying(v)' = Carrying(v) /\ reserved'[v] = reserved[v]
    <2>1. tile \in Nat
        BY <1>0, TileAssumption DEF LastTile
    <2> QED
        BY <1>0, <1>1, <1>2, <1>3, <2>1, GenerateKeepsOutput
<1>5. WaveTypes'
    BY <1>0, <1>1, <1>4 DEF WaveTypes, KernelPlaces
<1>6. CountsFit'
    <2>1. count'["ray"] <= Capacity
        BY <1>0, <1>4, OutputFitsNext DEF DataTypes
    <2>2. \A r \in Queues : r # "ray" => count'[r] = count[r]
        BY <1>0, <1>1 DEF DataTypes
    <2> QED
        BY <1>0, <2>1, <2>2 DEF CountsFit
<1>7. Generating'
    <2>1. ActivePaths' \subseteq Held("ray")'
        BY <1>0, <1>4 DEF Generating
    <2>2. ASSUME NEW v \in Warps
          PROVE  /\ waiting'[v] \subseteq OwnPixels(v)'
                 /\ \A l \in waiting'[v] \ Carrying(v)' : BlockStart(v) + l \notin ActivePaths'
                 /\ place'[v] = "running" => Carrying(v)' = {}
                 /\ place'[v] # "running" =>
                       /\ place'[v] = "storing"
                       /\ \E l \in waiting'[v] : Carrying(v)' = {l} /\ reserved'[v].group = {l}
        <3>1. waiting'[v] \subseteq OwnPixels(v)'
            BY <1>0, <1>1 DEF Generating, OwnPixels
        <3>2. waiting[v] \subseteq Threads(v)
            BY <1>0 DEF LaneTypes
        <3>3. \A l \in waiting'[v] \ Carrying(v)' : BlockStart(v) + l \notin ActivePaths'
            <4> SUFFICES ASSUME NEW l \in waiting'[v] \ Carrying(v)'
                         PROVE  BlockStart(v) + l \notin ActivePaths'
                OBVIOUS
            <4>1. l \in Threads(v) /\ l \in waiting[v] \ Carrying(v)
                BY <1>1, <1>2, <1>4, <3>2
            <4>2. ~(v = w /\ l = k)
                BY <1>4
            <4>3. BlockStart(v) + l # p
                BY <4>1, <4>2, EveryIndexHasOneThread DEF p
            <4>4. BlockStart(v) + l \notin ActivePaths
                BY <1>0, <4>1 DEF Generating
            <4> QED
                BY <1>4, <4>3, <4>4
        <3>4. CASE v = w
            BY <1>0, <1>1, <1>4, <3>1, <3>3, <3>4 DEF LaneTypes
        <3>5. CASE v # w
            <4>1. place'[v] = place[v] /\ Carrying(v)' = Carrying(v) /\ reserved'[v] = reserved[v]
                BY <1>0, <1>1, <1>4, <3>5 DEF LaneTypes
            <4> QED
                BY <1>0, <1>1, <3>1, <3>3, <4>1 DEF Generating
        <3> QED
            BY <3>4, <3>5
    <2> QED
        BY <1>4, <2>1, <2>2 DEF Generating
<1> QED
    BY <1>0, <1>1, <1>5, <1>6, <1>7 DEF WaveIInv, Idle, Ready, Intersecting, Shading

LEMMA StorePathKeepsWaveIInv ==
    ASSUME WaveIInv, NEW w \in Warps, StorePath(w)
    PROVE  WaveIInv'
<1>0. /\ WaveTypes /\ DataTypes /\ LaneTypes /\ CountsFit /\ Generating
      /\ node = "generatePrimaryRays" /\ OutputExact("ray", 0) /\ "ray" \in Queues
      /\ count["ray"] <= Capacity
    BY DEF WaveIInv, WaveTypes, Generating, StorePath, Queues, CountsFit
<1>1. /\ place[w] = "storing" /\ Store(w, "ray")
      /\ place' = [place EXCEPT ![w] = "running"]
      /\ UNCHANGED <<tile, node, bounce, results>>
    BY DEF StorePath, Go, ledgerVars, graphVars, Store
<1>2. PICK k \in waiting[w] : Carrying(w) = {k} /\ reserved[w].group = {k}
    BY <1>0, <1>1 DEF Generating
<1>3. /\ OutputExact("ray", 0)'
      /\ LaneTypes' /\ DataTypes'
      /\ Held("ray")' = Held("ray")
      /\ Carrying(w)' = {}
      /\ \A v \in Warps \ {w} : Carrying(v)' = Carrying(v)
      /\ waiting' = [waiting EXCEPT ![w] = @ \ reserved[w].group]
      /\ \A v \in Warps \ {w} : reserved'[v] = reserved[v]
      /\ path' = path /\ count' = count
    BY <1>0, <1>1, <1>2, StoreKeepsOutput DEF Places
<1>4. WaveTypes' /\ CountsFit'
    BY <1>0, <1>1, <1>3 DEF WaveTypes, CountsFit, KernelPlaces
<1>5. ActivePaths' = ActivePaths
    BY <1>3 DEF ActivePaths
<1>6. Generating'
    <2>1. ASSUME NEW v \in Warps
          PROVE  /\ waiting'[v] \subseteq OwnPixels(v)'
                 /\ \A l \in waiting'[v] \ Carrying(v)' : BlockStart(v) + l \notin ActivePaths'
                 /\ place'[v] = "running" => Carrying(v)' = {}
                 /\ place'[v] # "running" =>
                       /\ place'[v] = "storing"
                       /\ \E l \in waiting'[v] : Carrying(v)' = {l} /\ reserved'[v].group = {l}
        <3>1. OwnPixels(v)' = OwnPixels(v)
            BY <1>1 DEF OwnPixels
        <3>2. CASE v = w
            <4>1. waiting'[w] = waiting[w] \ Carrying(w) /\ place'[w] = "running"
                BY <1>0, <1>1, <1>2, <1>3 DEF LaneTypes
            <4> QED
                BY <1>0, <1>3, <1>5, <3>1, <3>2, <4>1 DEF Generating
        <3>3. CASE v # w
            <4>1. /\ place'[v] = place[v] /\ Carrying(v)' = Carrying(v) /\ reserved'[v] = reserved[v]
                  /\ waiting'[v] = waiting[v]
                BY <1>0, <1>1, <1>3, <3>3 DEF LaneTypes
            <4> QED
                BY <1>0, <1>5, <3>1, <4>1 DEF Generating
        <3> QED
            BY <3>2, <3>3
    <2> QED
        BY <1>0, <1>3, <1>5, <2>1 DEF Generating
<1> QED
    BY <1>0, <1>1, <1>4, <1>6 DEF WaveIInv, Idle, Ready, Intersecting, Shading

LEMMA IntersectSceneKeepsWaveIInv ==
    ASSUME WaveIInv, NEW w \in Warps, IntersectScene(w)
    PROVE  WaveIInv'
<1> DEFINE q == CurrentRays
<1>0. /\ WaveTypes /\ DataTypes /\ LaneTypes /\ CountsFit /\ Ready /\ Intersecting
      /\ node = "intersectScene" /\ q \in Queues
    BY TwoQueues DEF WaveIInv, WaveTypes, IntersectScene
<1>1. /\ results' = [i \in Slots |-> IF i \in Items(w, q) THEN items[q][i] ELSE results[i]]
      /\ place' = [place EXCEPT ![w] = "finished"]
      /\ UNCHANGED <<tile, path, items, count, carried, waiting, reserved, node, bounce>>
    BY DEF IntersectScene, Go, ledgerVars, queueVars, laneVars
<1>2. /\ q' = q /\ NextRays' = NextRays /\ ActivePaths' = ActivePaths
      /\ \A v \in Warps : Items(v, q)' = Items(v, q) /\ Items(v, q) \subseteq Slots
      /\ \A v \in Warps : Carrying(v)' = Carrying(v)
    BY <1>1 DEF CurrentRays, NextRays, ActivePaths, Items, Carrying
<1>3. results' \in [Slots -> Slots \cup {NoPath}]
    BY <1>0, <1>1 DEF WaveTypes, DataTypes
<1>4. WaveTypes' /\ CountsFit'
    <2>1. LaneTypes' /\ DataTypes'
        BY <1>0, <1>1 DEF LaneTypes, Places, DataTypes, PathTypes
    <2> QED
        BY <1>0, <1>1, <1>3, <2>1 DEF WaveTypes, CountsFit, KernelPlaces
<1>5. Ready'
    BY <1>0, <1>1, <1>2 DEF Ready, Lists, NothingCarried
<1> HIDE DEF q
<1>6. Intersecting'
    <2>1. ASSUME NEW v \in Warps
          PROVE  /\ place'[v] \in {"running", "finished"}
                 /\ place'[v] = "finished" => \A i \in Items(v, q) : results'[i] = items[q][i]
        BY <1>0, <1>1, <1>2 DEF Intersecting, LaneTypes, q
    <2>2. q' = CurrentRays'
        BY DEF q
    <2> QED
        BY <1>0, <1>1, <1>2, <2>1, <2>2 DEF Intersecting
<1> QED
    BY <1>0, <1>1, <1>4, <1>5, <1>6 DEF WaveIInv, Idle, Generating, Shading

LEMMA ShadePathsKeepsWaveIInv ==
    ASSUME WaveIInv, NEW w \in Warps, ShadePaths(w)
    PROVE  WaveIInv'
<1>1. /\ WaveTypes /\ CountsFit /\ node = "shadePaths"
      /\ UNCHANGED <<tile, count, node, bounce, results>>
    BY DEF WaveIInv, ShadePaths, Shade, graphVars
<1>2. DataTypes' /\ LaneTypes' /\ Shading'
    BY ShadePathsKeepsShading
<1>3. WaveTypes' /\ CountsFit'
    BY <1>1, <1>2 DEF WaveTypes, CountsFit, KernelPlaces, ShadePaths, Go
<1> QED
    BY <1>1, <1>2, <1>3 DEF WaveIInv, Idle, Generating, Ready, Intersecting

LEMMA ReserveOutputKeepsWaveIInv ==
    ASSUME WaveIInv, ~leaderless', NEW w \in Warps, ReserveOutput(w)
    PROVE  WaveIInv'
<1> DEFINE q == CurrentRays
           n == NextRays
           U == Unshaded
           d == bounce
<1>1. /\ WaveTypes /\ DataTypes /\ LaneTypes /\ CountsFit /\ Shading
      /\ node = "shadePaths" /\ place[w] = "reserving" /\ Reserve(w, n)
      /\ place' = [place EXCEPT ![w] = "storing"]
      /\ UNCHANGED <<tile, node, bounce, results>>
    BY DEF WaveIInv, WaveTypes, ReserveOutput, Go, graphVars, Reserve, ledgerVars
<1>2. /\ q \in Queues /\ n \in Queues /\ q # n /\ d \in Nat
      /\ Accounted(q, U, n, d)
    BY <1>1, TwoQueues DEF Shading
<1>3. q' = q /\ n' = n /\ d' = d /\ U' = U
    <2>1. q' = q /\ n' = n /\ q # n
        BY <1>1, <1>2 DEF CurrentRays, NextRays
    <2>2. count'[q] = count[q]
        BY <1>1, <1>2 DEF Reserve, DataTypes
    <2>3. \A v \in Warps : Items(v, q)' = Items(v, q)
        BY <2>1, <2>2 DEF Items
    <2>4. \A v \in Warps : place'[v] = "running" <=> place[v] = "running"
        BY <1>1 DEF LaneTypes
    <2> QED
        BY <1>1, <2>1, <2>3, <2>4 DEF Unshaded
<1> HIDE DEF q, n, U, d
<1>4. /\ Accounted(q, U, n, d)'
      /\ LaneTypes' /\ DataTypes' /\ CountsFit'
      /\ \A v \in Warps : Carrying(v)' = Carrying(v)
      /\ \A v \in Warps \ {w} : reserved'[v] = reserved[v]
      /\ UNCHANGED <<path, items, carried, waiting>>
      /\ count'[q] = count[q]
    BY <1>1, <1>2, <1>3, ReserveKeepsAccounted
<1>5. \A v \in Warps \ {w} : place'[v] = place[v] /\ place'[w] = "storing"
    BY <1>1 DEF LaneTypes
<1>6. Shading'
    <2>1. \A v \in Warps :
              /\ place'[v] \in {"running", "finished"} => Carrying(v)' = {}
              /\ place'[v] \in {"reserving", "storing"} => Carrying(v)' \subseteq waiting'[v]
        BY <1>1, <1>4, <1>5 DEF Shading
    <2>2. bounce' < MaxDepth /\ \A i \in Slots : i < count'[q] => results'[i] = items'[q][i]
        BY <1>1, <1>4 DEF Shading, q
    <2>3. Accounted(CurrentRays, Unshaded, NextRays, bounce)'
        BY <1>4 DEF q, n, U, d
    <2>4. q' = CurrentRays'
        BY DEF q
    <2> QED
        BY <1>3, <2>1, <2>2, <2>3, <2>4 DEF Shading
<1>7. WaveTypes'
    BY <1>1, <1>4 DEF WaveTypes, KernelPlaces
<1> QED
    BY <1>1, <1>4, <1>6, <1>7 DEF WaveIInv, Idle, Generating, Ready, Intersecting

LEMMA StoreOutputKeepsWaveIInv ==
    ASSUME WaveIInv, NEW w \in Warps, StoreOutput(w)
    PROVE  WaveIInv'
<1> DEFINE q == CurrentRays
           n == NextRays
           U == Unshaded
           d == bounce
           x == IF waiting'[w] = {} THEN "finished" ELSE "reserving"
<1>1. /\ WaveTypes /\ DataTypes /\ LaneTypes /\ CountsFit /\ Shading
      /\ node = "shadePaths" /\ place[w] = "storing" /\ Store(w, n)
      /\ place' = [place EXCEPT ![w] = x]
      /\ UNCHANGED <<tile, node, bounce, results, count>>
    BY DEF WaveIInv, WaveTypes, StoreOutput, Go, graphVars, Store, ledgerVars
<1>2. /\ q \in Queues /\ n \in Queues /\ q # n /\ d \in Nat
      /\ Accounted(q, U, n, d) /\ Carrying(w) \subseteq waiting[w]
    BY <1>1, TwoQueues DEF Shading
<1>3. /\ x \in {"finished", "reserving"} /\ x \in Places \ {"storing"}
      /\ x = "finished" => waiting'[w] = {}
    BY DEF Places
<1>4. q' = q /\ n' = n /\ d' = d /\ U' = U
    <2>1. q' = q /\ n' = n
        BY <1>1 DEF CurrentRays, NextRays
    <2>2. \A v \in Warps : Items(v, q)' = Items(v, q)
        BY <1>1, <2>1 DEF Items
    <2>3. \A v \in Warps : place'[v] = "running" <=> place[v] = "running"
        BY <1>1, <1>3 DEF LaneTypes
    <2> QED
        BY <1>1, <2>1, <2>2, <2>3 DEF Unshaded
<1>5. /\ \A v \in Warps \ {w} : place'[v] = place[v]
      /\ place'[w] = x /\ items'[q] = items[q]
    BY <1>1, <1>2 DEF LaneTypes, Store, DataTypes
<1> HIDE DEF q, n, U, d, x
<1>6. /\ Accounted(q, U, n, d)'
      /\ LaneTypes' /\ DataTypes' /\ CountsFit'
      /\ Carrying(w)' = Carrying(w) \ reserved[w].group
      /\ waiting'[w] = waiting[w] \ reserved[w].group
      /\ \A v \in Warps \ {w} : /\ Carrying(v)' = Carrying(v)
                                /\ waiting'[v] = waiting[v] /\ reserved'[v] = reserved[v]
      /\ path' = path /\ count' = count
    BY <1>1, <1>2, <1>3, <1>4, StoreKeepsAccounted
<1>7. Shading'
    <2>1. \A v \in Warps :
              /\ place'[v] \in {"running", "finished"} => Carrying(v)' = {}
              /\ place'[v] \in {"reserving", "storing"} => Carrying(v)' \subseteq waiting'[v]
        <3>1. Carrying(w)' \subseteq waiting'[w]
            BY <1>2, <1>6
        <3>2. ASSUME NEW v \in Warps \ {w}
              PROVE  /\ place'[v] = place[v] /\ Carrying(v)' = Carrying(v)
                     /\ waiting'[v] = waiting[v]
            BY <1>5, <1>6
        <3> QED
            BY <1>1, <1>3, <1>5, <3>1, <3>2 DEF Shading
    <2>2. bounce' < MaxDepth /\ \A i \in Slots : i < count'[q] => results'[i] = items'[q][i]
        BY <1>1, <1>5, <1>6 DEF Shading, q
    <2>3. Accounted(CurrentRays, Unshaded, NextRays, bounce)'
        BY <1>6 DEF q, n, U, d
    <2>4. q' = CurrentRays'
        BY DEF q
    <2> QED
        BY <1>4, <2>1, <2>2, <2>3, <2>4 DEF Shading
<1>8. WaveTypes'
    BY <1>1, <1>3, <1>6 DEF WaveTypes, KernelPlaces
<1> QED
    BY <1>1, <1>6, <1>7, <1>8 DEF WaveIInv, Idle, Generating, Ready, Intersecting

LEMMA StutterKeepsWaveIInv ==
    ASSUME WaveIInv, UNCHANGED vars
    PROVE  WaveIInv'
<1> USE DEF vars, ledgerVars, queueVars, laneVars, graphVars
<1>1. /\ CurrentRays' = CurrentRays /\ NextRays' = NextRays /\ ActivePaths' = ActivePaths
      /\ \A w \in Warps : /\ Carrying(w)' = Carrying(w) /\ Placed(w)' = Placed(w)
                          /\ OwnPixels(w)' = OwnPixels(w)
      /\ \A q : \A w \in Warps : Items(w, q)' = Items(w, q)
      /\ \A k : \A w \in Warps : SlotOf(w, k)' = SlotOf(w, k)
    BY DEF CurrentRays, NextRays, ActivePaths, Carrying, OwnPixels, Items, SlotOf, Rank, Placed, Appending
<1>2. \A q : Stored(q)' = Stored(q)
    BY <1>1 DEF Stored, Pending
<1>3. \A q : Held(q)' = Held(q)
    BY <1>1, <1>2 DEF Held
<1>4. Unshaded' = Unshaded
    BY <1>1 DEF Unshaded
<1>5. \A q, d : OutputExact(q, d)' = OutputExact(q, d)
    BY <1>1, <1>2 DEF OutputExact
<1>6. WaveTypes' /\ CountsFit'
    BY DEF WaveIInv, WaveTypes, DataTypes, PathTypes, LaneTypes, CountsFit
<1>7. Idle' /\ Ready'
    BY <1>1 DEF WaveIInv, Idle, Ready, Lists, NothingCarried
<1>8. Generating'
    BY <1>1, <1>3, <1>5 DEF WaveIInv, Generating
<1>9. Intersecting'
    BY <1>1 DEF WaveIInv, Intersecting
<1>10. Shading'
    BY <1>1, <1>3, <1>4, <1>5 DEF WaveIInv, Shading, Accounted
<1> QED
    BY <1>6, <1>7, <1>8, <1>9, <1>10 DEF WaveIInv

LEMMA NextKeepsWaveIInv ==
    ASSUME ~leaderless', WaveIInv, [Next]_vars
    PROVE  WaveIInv'
<1>1. ASSUME Stream PROVE WaveIInv'
    BY <1>1, LaunchKeepsWaveIInv, ClearRaysKeepsWaveIInv, EndGenerateKeepsWaveIInv,
       ClearNextRaysKeepsWaveIInv, EndIntersectKeepsWaveIInv, EndShadeKeepsWaveIInv,
       AdvanceKeepsWaveIInv DEF Stream
<1>2. ASSUME NEW w \in Warps, WarpStep(w) PROVE WaveIInv'
    BY <1>2, GeneratePathKeepsWaveIInv, StorePathKeepsWaveIInv, IntersectSceneKeepsWaveIInv,
       ShadePathsKeepsWaveIInv, ReserveOutputKeepsWaveIInv,
           StoreOutputKeepsWaveIInv DEF WarpStep
<1>3. CASE UNCHANGED vars
    BY <1>3, StutterKeepsWaveIInv
<1> QED
    BY <1>1, <1>2, <1>3 DEF Next

\* Once a lane has appended without lane zero, it has.
LEMMA LeaderlessStays ==
    ASSUME [Next]_vars, leaderless
    PROVE  leaderless'
BY DEF vars, laneVars, queueVars, Next, Stream, LaunchCapturedTile, ClearRays, EndGenerate,
    ClearNextRays, EndIntersect, EndShade, AdvanceSampleIndex, WarpStep, GeneratePath,
    StorePath, Store, IntersectScene, ShadePaths, Shade, ReserveOutput, Reserve, StoreOutput

\* Every queue of the captured graph is exact between any two steps of any of its warps,
\* as far as its kernel has come, until a lane appends in a group without lane zero
\* (createWavefrontGraph, appendWarpCompacted).
THEOREM WaveInvariant == Spec => [](leaderless \/ WaveIInv)
<1>1. (leaderless \/ WaveIInv) /\ [Next]_vars => (leaderless \/ WaveIInv)'
    BY NextKeepsWaveIInv, LeaderlessStays
<1> QED
    BY <1>1, InitGivesWaveIInv, PTL DEF Spec

\* The queue of each bounce lists the active paths, each once and at the bounce's depth,
\* no counter passes the capacity, and each thread shades the hit of its own ray, until a
\* lane appends in a group without lane zero.
THEOREM QueuesAreExact == Spec => []ExactWhileLed
<1>1. WaveIInv => QueueExact
    <2> SUFFICES ASSUME WaveIInv PROVE QueueExact
        OBVIOUS
    <2>0. /\ WaveTypes /\ CountsFit /\ Idle /\ Ready /\ Shading
          /\ CurrentRays \in Queues /\ bounce \in Nat
          /\ count[CurrentRays] \in 0..Capacity
        BY TwoQueues, SizesArePositive DEF WaveIInv, WaveTypes, DataTypes, CountsFit
    <2>1. node = "clearNextRays" => /\ ListsActivePaths(CurrentRays)
                                    /\ \A p \in ActivePaths : path[p].depth = bounce
        BY <2>0, ListsActive DEF Ready
    <2> QED
        BY <2>0, <2>1 DEF QueueExact, CountsFit, Idle, Shading
<1>2. leaderless \/ WaveIInv => ExactWhileLed
    BY <1>1 DEF ExactWhileLed
<1> QED
    BY <1>2, WaveInvariant, PTL

-----------------------------------------------------------------------------
(* What has been added to the pixels.                                      *)

\* A pixel that has had its path's radiance in this sample. Before a tile's paths are
\* all generated none of them has ended; then those have that are not active.
Done(pixel) ==
    \/ pixel[1] < tile
    \/ /\ pixel[1] = tile
       /\ node \notin {"clearRays", "generatePrimaryRays"}
       /\ pixel[2] \notin ActivePaths

Generated ==
    node = "generatePrimaryRays" =>
        \A w \in Warps :
            /\ \A k \in OwnPixels(w) \ waiting[w] : BlockStart(w) + k \in ActivePaths
            /\ \A k \in Carrying(w) : carried[w][k] = BlockStart(w) + k

AddedOnce ==
    framebuffer = [pixel \in Pixels |-> IF Done(pixel) THEN sampleIndex + 1 ELSE sampleIndex]

TileIInv ==
    /\ sampleIndex \in Nat
    /\ PathsOfTile
    /\ Generated
    /\ AddedOnce

\* A step that adds nothing to the pixels and ends no path.
LEMMA NothingAdded ==
    ASSUME TileIInv, UNCHANGED <<ledgerVars, path>>, Generated',
           node' \in {"clearRays", "generatePrimaryRays"} <=> node \in {"clearRays",
               "generatePrimaryRays"}
    PROVE  TileIInv' /\ [LedgerNext]_ledgerVars
<1>1. ActivePaths' = ActivePaths
    BY DEF ActivePaths
<1>2. \A pixel : Done(pixel)' <=> Done(pixel)
    BY <1>1 DEF Done, ledgerVars
<1>3. PathsOfTile'
    BY <1>1 DEF TileIInv, PathsOfTile, ledgerVars
<1>4. AddedOnce'
    BY <1>2 DEF TileIInv, AddedOnce, ledgerVars
<1>5. sampleIndex' \in Nat
    BY DEF TileIInv, ledgerVars
<1> QED
    BY <1>3, <1>4, <1>5 DEF TileIInv

LEMMA InitGivesTileIInv == Init => TileIInv
<1> SUFFICES ASSUME Init PROVE TileIInv
    OBVIOUS
<1> USE DEF Init, QueueInit, LedgerInit
<1>1. ActivePaths = {}
    BY DEF ActivePaths
<1>2. \A pixel \in Pixels : ~Done(pixel)
    <2> SUFFICES ASSUME NEW pixel \in Pixels PROVE ~Done(pixel)
        OBVIOUS
    <2>1. pixel[1] \in Nat /\ pixel[1] > 0
        BY TilesAndPixels
    <2> QED
        BY <2>1 DEF Done
<1>3. AddedOnce
    BY <1>2 DEF AddedOnce
<1> QED
    BY <1>1, <1>3 DEF TileIInv, PathsOfTile, Generated

LEMMA LaunchAddsNothing ==
    ASSUME WaveIInv, TileIInv, LaunchCapturedTile
    PROVE  TileIInv' /\ [LedgerNext]_ledgerVars
<1>0. /\ node = "none" /\ sampleIndex < NumSamples /\ tile < LastTile
      /\ tile' = tile + 1 /\ node' = "clearRays"
      /\ UNCHANGED <<sampleIndex, framebuffer, path>>
      /\ tile \in Nat /\ LastTile \in Nat /\ sampleIndex \in Nat
    BY TilesAndPixels DEF LaunchCapturedTile, queueVars, WaveIInv, WaveTypes, TileIInv
<1>1. ActivePaths = {} /\ ActivePaths' = {}
    BY <1>0 DEF WaveIInv, Idle, ActivePaths
<1>2. \A pixel \in Pixels : pixel[1] \in Nat /\ (Done(pixel) <=> pixel[1] <= tile)
    <2> SUFFICES ASSUME NEW pixel \in Pixels
                 PROVE  pixel[1] \in Nat /\ (Done(pixel) <=> pixel[1] <= tile)
        OBVIOUS
    <2>1. pixel[1] \in Nat
        BY TilesAndPixels
    <2>2. Done(pixel) <=> pixel[1] < tile \/ pixel[1] = tile
        BY <1>0, <1>1 DEF Done
    <2> QED
        BY <1>0, <2>1, <2>2
<1>3. \A pixel \in Pixels : Done(pixel)' <=> Done(pixel)
    <2> SUFFICES ASSUME NEW pixel \in Pixels
                 PROVE  Done(pixel)' <=> Done(pixel)
        OBVIOUS
    <2>1. Done(pixel)' <=> pixel[1] < tile + 1
        BY <1>0 DEF Done
    <2> QED
        BY <1>0, <1>2, <2>1
<1>4. AddedOnce'
    BY <1>0, <1>3 DEF TileIInv, AddedOnce
<1>5. TileIInv'
    BY <1>0, <1>1, <1>4 DEF TileIInv, PathsOfTile, Generated
<1>6. tile > 0 => TileComplete(tile)
    <2> SUFFICES ASSUME tile > 0, NEW pixel \in PixelsOf(tile)
                 PROVE  framebuffer[pixel] = sampleIndex + 1
        BY DEF TileComplete
    <2>1. tile \in Tiles /\ pixel \in Pixels /\ pixel[1] = tile
        BY <1>0, TilesAndPixels DEF PixelsOf
    <2>2. Done(pixel)
        BY <1>0, <1>2, <2>1
    <2> QED
        BY <2>1, <2>2 DEF TileIInv, AddedOnce
<1>7. NextTile
    BY <1>0, <1>6 DEF NextTile
<1> QED
    BY <1>5, <1>7 DEF LedgerNext

LEMMA EndGenerateAddsNothing ==
    ASSUME WaveIInv, TileIInv, EndGenerate
    PROVE  TileIInv' /\ [LedgerNext]_ledgerVars
<1>0. /\ node = "generatePrimaryRays" /\ node' = "clearNextRays"
      /\ \A w \in Warps : waiting[w] = {}
      /\ UNCHANGED <<tile, sampleIndex, framebuffer, path>>
      /\ tile \in Tiles
    BY TilesAndPixels DEF EndGenerate, ledgerVars, queueVars, WaveIInv, WaveTypes
<1>1. ActivePaths' = ActivePaths
    BY <1>0 DEF ActivePaths
<1>2. ASSUME NEW i \in 0..TilePixels[tile] - 1
      PROVE  i \in ActivePaths
    <2>1. i \in Slots /\ i < TilePixels[tile]
        BY <1>0, TilesAndPixels, SizesArePositive DEF Slots
    <2>2. PICK w \in Warps : \E k \in Threads(w) : i = BlockStart(w) + k
        BY <2>1, EveryIndexHasOneThread
    <2>3. PICK k \in Threads(w) : i = BlockStart(w) + k
        BY <2>2
    <2>4. k \in OwnPixels(w) \ waiting[w]
        BY <1>0, <2>1, <2>3 DEF OwnPixels
    <2> QED
        BY <1>0, <2>3, <2>4 DEF TileIInv, Generated
<1>3. \A pixel \in Pixels : Done(pixel)' <=> Done(pixel)
    <2> SUFFICES ASSUME NEW pixel \in Pixels
                 PROVE  Done(pixel)' <=> Done(pixel)
        OBVIOUS
    <2>1. pixel[1] = tile => pixel[2] \in ActivePaths
        <3>1. PICK t \in Tiles : \E i \in 0..TilePixels[t] - 1 : pixel = <<t, i>>
            BY TilesAndPixels
        <3> QED
            BY <1>2, <3>1
    <2> QED
        BY <1>0, <1>1, <2>1 DEF Done
<1>4. AddedOnce'
    BY <1>0, <1>3 DEF TileIInv, AddedOnce
<1>5. PathsOfTile'
    BY <1>0, <1>1 DEF TileIInv, PathsOfTile
<1> QED
    BY <1>0, <1>4, <1>5 DEF TileIInv, Generated, ledgerVars

LEMMA AdvanceFinishesSample ==
    ASSUME WaveIInv, TileIInv, AdvanceSampleIndex
    PROVE  TileIInv' /\ [LedgerNext]_ledgerVars
<1>0. /\ node = "advanceSampleIndex" /\ node' = "none"
      /\ UNCHANGED <<framebuffer, path>>
      /\ tile \in Tiles /\ LastTile \in Nat /\ sampleIndex \in Nat
      /\ tile \in Nat /\ tile <= LastTile
    BY TilesAndPixels DEF AdvanceSampleIndex, queueVars, WaveIInv, WaveTypes, TileIInv
<1>1. ActivePaths = {} /\ ActivePaths' = {}
    BY <1>0 DEF WaveIInv, Idle, ActivePaths
<1>2. CASE tile # LastTile
    BY <1>0, <1>2, NothingAdded DEF AdvanceSampleIndex, ledgerVars, Generated
<1>3. CASE tile = LastTile
    <2>1. tile' = 0 /\ sampleIndex' = sampleIndex + 1
        BY <1>3 DEF AdvanceSampleIndex
    <2>2. ASSUME NEW pixel \in Pixels
          PROVE  Done(pixel) /\ ~Done(pixel)'
        <3>1. pixel[1] \in 1..LastTile
            BY TilesAndPixels
        <3>2. pixel[1] < tile \/ pixel[1] = tile
            BY <1>0, <1>3, <3>1
        <3>3. ~(pixel[1] < tile') /\ pixel[1] # tile'
            BY <1>0, <2>1, <3>1
        <3> QED
            BY <1>0, <1>1, <3>2, <3>3 DEF Done
    <2>3. framebuffer = [pixel \in Pixels |-> sampleIndex + 1]
        BY <2>2 DEF TileIInv, AddedOnce
    <2>4. AddedOnce'
        BY <1>0, <2>1, <2>2, <2>3 DEF AddedOnce
    <2>5. TileIInv'
        BY <1>0, <1>1, <2>1, <2>4 DEF TileIInv, PathsOfTile, Generated
    <2>6. TileComplete(tile)
        BY <1>0, <2>3, TilesAndPixels DEF TileComplete
    <2>7. FinishSample
        BY <1>0, <1>3, <2>1, <2>6 DEF FinishSample
    <2> QED
        BY <2>5, <2>7 DEF LedgerNext
<1> QED
    BY <1>2, <1>3

LEMMA GeneratePathAddsNothing ==
    ASSUME WaveIInv, TileIInv, NEW w \in Warps, NEW k \in Threads(w), GeneratePath(w, k)
    PROVE  TileIInv' /\ [LedgerNext]_ledgerVars
<1> DEFINE p == BlockStart(w) + k
<1>0. /\ node = "generatePrimaryRays" /\ node' = node
      /\ path' = [path EXCEPT ![p] = CameraPath(p)]
      /\ carried' = [carried EXCEPT ![w][k] = p]
      /\ UNCHANGED <<tile, sampleIndex, framebuffer, waiting>>
      /\ tile \in Tiles /\ k \in waiting[w] /\ waiting[w] \subseteq OwnPixels(w)
      /\ DataTypes /\ LaneTypes /\ Carrying(w) = {}
    BY TilesAndPixels DEF GeneratePath, ledgerVars, graphVars, WaveIInv, WaveTypes, Generating
<1>1. p \in Slots /\ p < TilePixels[tile]
    <2>1. p \in Nat /\ p < TilePixels[tile] /\ TilePixels[tile] <= Capacity
          /\ Capacity \in Nat /\ TilePixels[tile] \in Nat
        BY <1>0, TilesAndPixels, SizesArePositive, EveryIndexHasOneThread, ThreadsOfABlock
           DEF OwnPixels
    <2> QED
        BY <2>1 DEF Slots
<1> HIDE DEF p
<1>2. /\ path'[p] = CameraPath(p) /\ \A r \in Slots \ {p} : path'[r] = path[r]
      /\ CameraPath(p).active /\ CameraPath(p).pixel = <<tile, p>>
    BY <1>0, <1>1 DEF DataTypes, PathTypes, CameraPath
<1>3. ActivePaths' = ActivePaths \cup {p}
    BY <1>1, <1>2 DEF ActivePaths
<1>4. PathsOfTile'
    <2>1. \A r \in ActivePaths : r \in Slots
        BY DEF ActivePaths
    <2> QED
        BY <1>0, <1>1, <1>2, <1>3, <2>1 DEF TileIInv, PathsOfTile
<1>5. AddedOnce'
    <2>1. \A pixel : Done(pixel)' <=> Done(pixel)
        BY <1>0 DEF Done
    <2> QED
        BY <1>0, <2>1 DEF TileIInv, AddedOnce
<1>6. Generated'
    <2>1. /\ \A v \in Warps \ {w} : carried'[v] = carried[v]
          /\ carried'[w] = [carried[w] EXCEPT ![k] = p]
        BY <1>0 DEF LaneTypes
    <2>2. /\ \A v \in Warps \ {w} : Carrying(v)' = Carrying(v)
          /\ \A l \in Carrying(w)' : l = k
          /\ carried'[w][k] = p
        BY <1>0, <2>1 DEF LaneTypes, Carrying
    <2>3. \A v \in Warps : OwnPixels(v)' = OwnPixels(v)
        BY <1>0 DEF OwnPixels
    <2> QED
        BY <1>0, <1>3, <2>1, <2>2, <2>3 DEF TileIInv, Generated, p
<1> QED
    BY <1>0, <1>4, <1>5, <1>6 DEF TileIInv, ledgerVars

LEMMA StorePathAddsNothing ==
    ASSUME WaveIInv, TileIInv, NEW w \in Warps, StorePath(w)
    PROVE  TileIInv' /\ [LedgerNext]_ledgerVars
<1>0. /\ node = "generatePrimaryRays" /\ node' = node
      /\ UNCHANGED <<ledgerVars, path>> /\ UNCHANGED tile
      /\ place[w] = "storing" /\ Generating /\ LaneTypes
      /\ waiting' = [waiting EXCEPT ![w] = @ \ reserved[w].group]
      /\ carried' = [carried EXCEPT ![w] = [k \in Threads(w) |->
             IF k \in reserved[w].group THEN NoPath ELSE carried[w][k]]]
    BY DEF StorePath, Store, graphVars, ledgerVars, WaveIInv, WaveTypes
<1>1. PICK k \in waiting[w] : Carrying(w) = {k} /\ reserved[w].group = {k}
    BY <1>0 DEF Generating
<1>2. BlockStart(w) + k \in ActivePaths
    <2>1. carried[w][k] = BlockStart(w) + k
        BY <1>0, <1>1 DEF TileIInv, Generated
    <2>2. carried[w][k] \in ActivePaths
        BY <1>0, <1>1 DEF Generating, OutputExact
    <2> QED
        BY <2>1, <2>2
<1>3. /\ waiting'[w] = waiting[w] \ {k} /\ Carrying(w)' = {}
      /\ \A v \in Warps \ {w} : /\ waiting'[v] = waiting[v] /\ carried'[v] = carried[v]
                                /\ Carrying(v)' = Carrying(v)
      /\ ActivePaths' = ActivePaths /\ \A v \in Warps : OwnPixels(v)' = OwnPixels(v)
    BY <1>0, <1>1 DEF LaneTypes, Carrying, ActivePaths, OwnPixels
<1>4. Generated'
    BY <1>0, <1>2, <1>3 DEF TileIInv, Generated
<1> QED
    BY <1>0, <1>4, NothingAdded

\* Each path that ends is of another pixel, which had not had its radiance yet.
LEMMA ShadePathsEndsPaths ==
    ASSUME WaveIInv, TileIInv, NEW w \in Warps, ShadePaths(w)
    PROVE  TileIInv' /\ [LedgerNext]_ledgerVars
<1> DEFINE q == CurrentRays
           start == BlockStart(w)
           n == count[q]
           d == bounce
<1>1. /\ node = "shadePaths" /\ node' = node /\ Shade(w, q, start, n)
      /\ q \in Queues /\ start \in Nat /\ n \in Nat /\ d \in Nat
      /\ DataTypes /\ sampleIndex \in Nat /\ PathsOfTile
      /\ tile \in Tiles
    BY TwoQueues, EveryIndexHasOneThread, TilesAndPixels
       DEF ShadePaths, graphVars, WaveIInv, WaveTypes, DataTypes, TileIInv
<1>2. ChunkActive(w, q, start, n, d)
    BY ShadePathsKeepsShading
<1>3. AddedWhenShaded
    BY <1>1 DEF TileIInv, AddedOnce, Done, AddedWhenShaded, PixelShaded
<1> HIDE DEF q, start, n, d
<1>4. PathsOfTile' /\ AddedWhenShaded' /\ [LedgerNext]_ledgerVars
    BY <1>1, <1>2, <1>3, ShadeEndsPaths
<1>5. AddedOnce'
    BY <1>1, <1>4 DEF AddedOnce, Done, AddedWhenShaded, PixelShaded
<1>6. sampleIndex' \in Nat
    BY <1>1 DEF Shade
<1> QED
    BY <1>1, <1>4, <1>5, <1>6 DEF TileIInv, Generated

LEMMA NextImplementsLedgerNext ==
    ASSUME WaveIInv, TileIInv, [Next]_vars
    PROVE  TileIInv' /\ [LedgerNext]_ledgerVars
<1> USE DEF ledgerVars, queueVars, laneVars, graphVars
<1>1. CASE LaunchCapturedTile
    BY <1>1, LaunchAddsNothing
<1>2. CASE ClearRays
    <2>1. Generated'
        BY <1>2 DEF ClearRays, Generated, OwnPixels, Carrying, WaveIInv, Idle, NothingCarried
    <2> QED
        BY <1>2, <2>1, NothingAdded DEF ClearRays, Start
<1>3. CASE EndGenerate
    BY <1>3, EndGenerateAddsNothing
<1>4. CASE AdvanceSampleIndex
    BY <1>4, AdvanceFinishesSample
<1>5. CASE ClearNextRays \/ EndIntersect \/ EndShade
    <2>1. /\ node \notin {"clearRays", "generatePrimaryRays"}
          /\ node' \notin {"clearRays", "generatePrimaryRays"}
          /\ UNCHANGED <<ledgerVars, path>>
        BY <1>5 DEF ClearNextRays, EndIntersect, EndShade, Start, MoreBounces
    <2> QED
        BY <2>1, NothingAdded DEF Generated
<1>6. ASSUME NEW w \in Warps, IntersectScene(w) \/ ReserveOutput(w) \/ StoreOutput(w)
      PROVE  TileIInv' /\ [LedgerNext]_ledgerVars
    <2>1. /\ node \notin {"clearRays", "generatePrimaryRays"} /\ node' = node
          /\ UNCHANGED <<ledgerVars, path>>
        BY <1>6 DEF IntersectScene, ReserveOutput, StoreOutput, Reserve, Store
    <2> QED
        BY <2>1, NothingAdded DEF Generated
<1>7. CASE UNCHANGED vars
    <2>1. Generated'
        BY <1>7 DEF vars, TileIInv, Generated, OwnPixels, Carrying, ActivePaths
    <2> QED
        BY <1>7, <2>1, NothingAdded DEF vars
<1> QED
    BY <1>1, <1>2, <1>3, <1>4, <1>5, <1>6, <1>7, GeneratePathAddsNothing, StorePathAddsNothing,
       ShadePathsEndsPaths DEF Next, Stream, WarpStep

\* Between two tiles, every pixel of the tiles that are finished has had one path
\* of this sample added, and every pixel one of each sample before it: no path is lost,
\* doubled or added to another pixel (launchCapturedTile), until a lane appends in a
\* group without lane zero.
THEOREM CapturedPixelsAddedOnce == Spec => [](leaderless \/ AddedOnce)
<1>1. /\ leaderless \/ WaveIInv
      /\ leaderless \/ TileIInv
      /\ [Next]_vars
      => (leaderless \/ TileIInv)'
    BY NextImplementsLedgerNext, LeaderlessStays
<1>2. leaderless \/ TileIInv => leaderless \/ AddedOnce
    BY DEF TileIInv
<1> QED
    BY <1>1, <1>2, InitGivesTileIInv, WaveInvariant, PTL DEF Spec

\* Every step of the graph is one of the pixel ledger or leaves it alone, until
\* a lane appends in a group without lane zero.
THEOREM CapturedImplementsLedger == Spec => LedgerInit /\ LedgerWhileLed
<1>1. /\ leaderless \/ WaveIInv
      /\ leaderless \/ TileIInv
      /\ [Next]_vars
      => (leaderless \/ TileIInv)' /\ [leaderless' \/ LedgerNext]_ledgerVars
    BY NextImplementsLedgerNext, LeaderlessStays
<1>2. Init => LedgerInit
    BY DEF Init, QueueInit
<1> QED
    BY <1>1, <1>2, InitGivesTileIInv, WaveInvariant, PTL DEF Spec, LedgerWhileLed
=============================================================================
