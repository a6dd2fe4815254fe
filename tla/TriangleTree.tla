---------------------------- MODULE TriangleTree ----------------------------
(***************************************************************************)
(* The trees over triangles: one step of the builders                      *)
(* (src/scene/bvh.cpp, src/scene/bvh_sbvh.cpp) and one step of a ray       *)
(* through a tree (include/renderer/device_traversal.cuh).                 *)
(*                                                                         *)
(* Coordinates are integers, and the positions of planes are rounded to    *)
(* them as they are to floats in the code. A triangle is its box, its      *)
(* centroid and, for each ray, a point of the box or none. Rays are        *)
(* diagonal, so that they are at a lattice point at each integer distance; *)
(* the smallest distance of a hit, 0.001, is 1 here.                       *)
(***************************************************************************)
EXTENDS Integers, Sequences, FiniteSets, SequencesExt

CONSTANTS
    MaxTrianglesPerLeaf,
    SplitBins,              \* spatialSplitBins
    MaxBvhDepth,
    StackSize,              \* maxBvhStackSize, maxTlasStackSize
    WideStackSize,          \* maxBvhStackSize of the eight-way tree
    Infinity                \* the distance of no hit, 1e30

ASSUME TreeAssumption ==
    /\ {MaxTrianglesPerLeaf, StackSize, WideStackSize, Infinity} \subseteq Nat \ {0}
    /\ SplitBins \in Nat \ {0, 1}
    /\ MaxBvhDepth \in 1..StackSize - 1

Axes == 1..3
-----------------------------------------------------------------------------
(* Boxes.                                                                  *)

AllBoxes ==
    {b \in [lo : [Axes -> Int], hi : [Axes -> Int]] : \A a \in Axes : b.lo[a] <= b.hi[a]}

BoundsOf(boxes) ==
    [lo |-> [a \in Axes |-> Min({b.lo[a] : b \in boxes})],
     hi |-> [a \in Axes |-> Max({b.hi[a] : b \in boxes})]]

Extent(box, a) == box.hi[a] - box.lo[a]

SurfaceArea(box) ==
    2 * (Extent(box, 1) * Extent(box, 2) + Extent(box, 2) * Extent(box, 3)
          + Extent(box, 3) * Extent(box, 1))

LongestAxis(box) ==
    CHOOSE a \in Axes :
        \A b \in Axes : Extent(box, a) > Extent(box, b) \/ (Extent(box, a) = Extent(box, b) /\ a <= b)

\* The points of a box a ray comes through, by their distance.
Slabs(ray, box) ==
    LET at(plane, a) == (plane[a] - ray.origin[a]) * ray.direction[a]
    IN  [a \in Axes |-> {at(box.lo, a), at(box.hi, a)}]
Near(ray, box) == Max({Min(Slabs(ray, box)[a]) : a \in Axes})
Far(ray, box) == Min({Max(Slabs(ray, box)[a]) : a \in Axes})
Stretch(ray, box) == Max({Near(ray, box), 1})..Far(ray, box)

Enters(ray, box, closest) == Stretch(ray, box) # {} /\ Near(ray, box) < closest
-----------------------------------------------------------------------------
(* Building. The references of a node are a function from its triangles to *)
(* the parts of their boxes that lie in it.                                *)

Only(refs, triangles) == [i \in triangles |-> refs[i]]
Bounds(refs) == BoundsOf({refs[i] : i \in DOMAIN refs})

\* nth_element and sort leave equal keys in any order: the first half is any set of
\* that size with no key above one of the second half's.
Halves(refs, key) ==
    {<<Only(refs, low), Only(refs, DOMAIN refs \ low)>> :
        low \in {l \in kSubset(Cardinality(DOMAIN refs) \div 2, DOMAIN refs) :
                    \A i \in l, j \in DOMAIN refs \ l : key[i] <= key[j]}}

\* bvh.cpp: halves along the axis on which the centroids differ most.
MedianParts(refs, centroid) ==
    LET points == BoundsOf({[lo |-> centroid[i], hi |-> centroid[i]] : i \in DOMAIN refs})
    IN  Halves(refs, [i \in DOMAIN refs |-> centroid[i][LongestAxis(points)]])

Position(box, split) ==
    box.lo[split.axis] + (Extent(box, split.axis) * split.bin) \div SplitBins

\* A fault: a triangle that reaches over the plane is left to the side it begins on.
SplitParts_ByMinimum(refs, split) ==
    LET a == split.axis
        p == Position(Bounds(refs), split)
        left == {i \in DOMAIN refs : refs[i].lo[a] < p}
        right == {i \in DOMAIN refs : refs[i].lo[a] >= p /\ refs[i].hi[a] > p}
    IN  <<[i \in left |-> [refs[i] EXCEPT !.hi[a] = p]],
          [i \in right |-> [refs[i] EXCEPT !.lo[a] = p]]>>

\* The references on the two sides of a plane, each cut off at it.
SplitParts(refs, split) ==
    LET a == split.axis
        p == Position(Bounds(refs), split)
        left == {i \in DOMAIN refs : refs[i].lo[a] < p}
        right == {i \in DOMAIN refs : refs[i].hi[a] > p}
    IN  <<[i \in left |-> [refs[i] EXCEPT !.hi[a] = p]],
          [i \in right |-> [refs[i] EXCEPT !.lo[a] = p]]>>

Splits(refs) ==
    {split \in [axis : Axes, bin : 1..SplitBins - 1] :
        /\ Extent(Bounds(refs), split.axis) > 0
        /\ LET parts == SplitParts(refs, split)
           IN  /\ DOMAIN parts[1] # {}
               /\ DOMAIN parts[2] # {}
               /\ DOMAIN parts[1] # DOMAIN refs \/ DOMAIN parts[2] # DOMAIN refs}

Weight(refs) == SurfaceArea(Bounds(refs)) * Cardinality(DOMAIN refs)
SplitCost(refs, split) ==
    Weight(SplitParts(refs, split)[1]) + Weight(SplitParts(refs, split)[2])

\* The first of the cheapest splits, in the order of axes and bins.
BestSplit(refs) ==
    CHOOSE split \in Splits(refs) :
        \A other \in Splits(refs) :
            \/ SplitCost(refs, split) < SplitCost(refs, other)
            \/ SplitCost(refs, split) = SplitCost(refs, other)
               /\ SplitBins * split.axis + split.bin <= SplitBins * other.axis + other.bin

\* bvh_sbvh.cpp: the best split if it is worth it, or else halves by the boxes' centres.
SpatialParts(refs) ==
    LET a == LongestAxis(Bounds(refs))
    IN  IF Splits(refs) # {} /\ SplitCost(refs, BestSplit(refs)) < Weight(refs)
        THEN {SplitParts(refs, BestSplit(refs))}
        ELSE Halves(refs, [i \in DOMAIN refs |-> refs[i].lo[a] + refs[i].hi[a]])

\* The most leaves of a binary tree that is so deep.
Leaves[depth \in 0..StackSize] == IF depth = 0 THEN 1 ELSE 2 * Leaves[depth - 1]

\* Trees of the Nexus library: any with one primitive to a leaf, as long as it gets by
\* with the same depth. That it does is assumed.
AnyParts(refs, depth) ==
    {<<Only(refs, s), Only(refs, DOMAIN refs \ s)>> :
        s \in {t \in (SUBSET DOMAIN refs) \ {{}, DOMAIN refs} :
                  Max({Cardinality(t), Cardinality(DOMAIN refs \ t)})
                     <= Leaves[MaxBvhDepth - depth - 1]}}

\* The same of the library's eight-way trees, whose root is no leaf.
AnyWideParts(refs) ==
    {SetToSeq({Only(refs, s) : s \in parts}) :
        parts \in {p \in UNION {kSubset(n, (SUBSET DOMAIN refs) \ {{}}) :
                                   n \in 2..Min({8, Cardinality(DOMAIN refs)})} :
                      /\ UNION p = DOMAIN refs
                      /\ \A s, t \in p : s = t \/ s \cap t = {}}}

IsLeaf(acceleration, refs, depth) ==
    CASE acceleration = "MedianBvh" -> Cardinality(DOMAIN refs) <= MaxTrianglesPerLeaf
      [] acceleration = "SpatialSplitBvh" ->
            Cardinality(DOMAIN refs) <= MaxTrianglesPerLeaf \/ depth = MaxBvhDepth
      [] acceleration = "NexusBvh8" ->
            depth > 0 /\ Cardinality(DOMAIN refs) <= MaxTrianglesPerLeaf
      [] OTHER -> Cardinality(DOMAIN refs) = 1

Parts(acceleration, refs, depth, centroid) ==
    CASE acceleration = "MedianBvh" -> MedianParts(refs, centroid)
      [] acceleration = "SpatialSplitBvh" -> SpatialParts(refs)
      [] acceleration = "NexusBvh8" -> AnyWideParts(refs)
      [] OTHER -> AnyParts(refs, depth)
-----------------------------------------------------------------------------
(* Traversal.                                                              *)

\* What goes on the stack for an inner node: the children the ray enters, the nearer
\* one on top.
Pushed(nodes, children, ray, closest) ==
    LET left == children[1]
        right == children[2]
        hit(c) == Enters(ray, nodes[c].box, closest)
        nearer == Near(ray, nodes[left].box) < Near(ray, nodes[right].box)
    IN  CASE hit(left) /\ hit(right) -> IF nearer THEN <<right, left>> ELSE <<left, right>>
          [] hit(left) /\ ~ hit(right) -> <<left>>
          [] ~ hit(left) /\ hit(right) -> <<right>>
          [] OTHER -> <<>>

\* The same for an eight-way node: the farthest first, the later of two that are as
\* far, as many as there is room for.
WidePushed(nodes, children, ray, closest, room) ==
    LET entered == {c \in ToSet(children) : Enters(ray, nodes[c].box, closest)}
        near(c) == Near(ray, nodes[c].box)
        below(c) == {d \in entered : near(d) > near(c) \/ (near(d) = near(c) /\ d > c)}
    IN  [k \in 1..Min({Cardinality(entered), room}) |->
            CHOOSE c \in entered : Cardinality(below(c)) = k - 1]
=============================================================================
