------------------------ MODULE WavefrontQueuesProofs ------------------------
(***************************************************************************)
(* Lemmas about the ray queues, for every size of tiles, blocks, warps and *)
(* queues and every depth, which the proofs of both execution modes rest   *)
(* on.                                                                     *)
(*                                                                         *)
(* The ranks of the lanes that append are the numbers below their count,   *)
(* so what lane zero reserves is shared out among them without a gap. A    *)
(* slot below a queue's counter therefore holds a path of its own or is    *)
(* about to get one, whichever warps are between reservation and store.    *)
(* While a queue is drained every path that is still active is in the      *)
(* output, or on its way there, or in an item that is yet to be shaded.    *)
(***************************************************************************)
EXTENDS WavefrontQueues, FiniteSetTheorems, TLAPS

-----------------------------------------------------------------------------
(* Blocks, warps and lanes.                                                *)

\* Quotient and remainder.
LEMMA DivisionOfNaturals ==
    ASSUME NEW a \in Nat, NEW b \in Nat \ {0}
    PROVE  a \div b \in Nat /\ a % b \in 0..b - 1 /\ a = b * (a \div b) + (a % b)
OBVIOUS

\* The same without the product, which the solver would rather not see.
LEMMA QuotientsAreNaturals ==
    ASSUME NEW a \in Nat, NEW b \in Nat \ {0}
    PROVE  a \div b \in Nat /\ a % b \in 0..b - 1
OBVIOUS

\* A number has one quotient and one remainder.
LEMMA ProductsApart ==
    ASSUME NEW b \in Nat \ {0}, NEW p \in Nat, NEW q \in Nat, NEW r \in 0..b - 1,
        NEW s \in 0..b - 1,
           b * p + r = b * q + s
    PROVE  p = q /\ r = s
<1>1. ASSUME NEW x \in Nat, NEW y \in Nat, x < y PROVE b * x + b <= b * y
    <2>1. PICK z \in Nat : y = x + 1 + z
        <3>1. y - (x + 1) \in Nat /\ y = x + 1 + (y - (x + 1))
            BY <1>1
        <3> QED BY <3>1
    <2>2. b * y = b * x + b + b * z
        BY <2>1
    <2>3. b * z \in Nat
        BY <2>1
    <2>4. b * x \in Nat /\ b * y \in Nat
        OBVIOUS
    <2> QED
        BY <2>2, <2>3, <2>4
<1>2. b * p \in Nat /\ b * q \in Nat
    OBVIOUS
<1>3. ~(p < q)
    BY <1>1, <1>2
<1>4. ~(q < p)
    BY <1>1, <1>2
<1> QED
    BY <1>2, <1>3, <1>4

LEMMA SizesArePositive ==
    /\ Capacity \in Nat \ {0} /\ MaxDepth \in Nat \ {0} /\ BlockSize \in Nat \ {0}
    /\ WarpSize \in Nat \ {0} /\ MaxBlocks \in Nat \ {0}
BY QueueAssumption

\* A warp has finitely many threads, each in a lane of its own and one in lane zero.
LEMMA ThreadsOfABlock ==
    ASSUME NEW w \in Warps
    PROVE  /\ Threads(w) \subseteq 0..BlockSize - 1
           /\ \A k \in Threads(w) : k \in Nat /\ Lane(k) \in Nat
           /\ \A k, l \in Threads(w) : Lane(k) = Lane(l) => k = l
           /\ \E k \in Threads(w) : Lane(k) = 0
           /\ IsFiniteSet(Threads(w))
<1> USE SizesArePositive DEF Threads, Lane
<1>1. /\ Threads(w) \subseteq 0..BlockSize - 1
      /\ \A k \in Threads(w) : k \in Nat /\ Lane(k) \in Nat
    BY QuotientsAreNaturals
<1>2. ASSUME NEW k \in Threads(w), NEW l \in Threads(w), Lane(k) = Lane(l)
      PROVE  k = l
    <2>1. k \in Nat /\ l \in Nat /\ k \div WarpSize = l \div WarpSize /\ WarpSize \in Nat \ {0}
        BY <1>1
    <2>2. /\ k = WarpSize * (k \div WarpSize) + (k % WarpSize)
          /\ l = WarpSize * (l \div WarpSize) + (l % WarpSize)
        BY <2>1, DivisionOfNaturals
    <2> QED
        BY <1>2, <2>1, <2>2
<1>3. \E k \in Threads(w) : Lane(k) = 0
    <2> DEFINE c == (BlockSize - 1) \div WarpSize
               k == WarpSize * w[2]
    <2>1. /\ w[2] \in 0..c /\ BlockSize - 1 \in Nat /\ WarpSize \in Nat \ {0} /\ c \in Nat
        BY QuotientsAreNaturals DEF Warps
    <2>2. /\ BlockSize - 1 = WarpSize * c + ((BlockSize - 1) % WarpSize)
          /\ (BlockSize - 1) % WarpSize \in Nat
        <3> DEFINE a == BlockSize - 1
        <3>1. a \in Nat
            BY <2>1
        <3> HIDE DEF a
        <3>2. a = WarpSize * (a \div WarpSize) + (a % WarpSize) /\ a % WarpSize \in Nat
            BY <2>1, <3>1, DivisionOfNaturals
        <3> QED
            BY <3>2 DEF a
    <2> HIDE DEF c
    <2>3. k \in Nat /\ WarpSize * c = k + WarpSize * (c - w[2]) /\ WarpSize * (c - w[2]) \in Nat
        BY <2>1
    <2>4. k <= BlockSize - 1
        <3>1. WarpSize * c \in Nat /\ WarpSize * c <= BlockSize - 1
            BY <2>1, <2>2
        <3>2. k <= WarpSize * c
            BY <2>3, <3>1
        <3> QED
            BY <2>1, <2>3, <3>1, <3>2
    <2>5. /\ k = WarpSize * (k \div WarpSize) + (k % WarpSize)
          /\ k \div WarpSize \in Nat /\ k % WarpSize \in 0..WarpSize - 1
        BY <2>1, <2>3, DivisionOfNaturals
    <2>6. k = WarpSize * w[2] + 0
        BY <2>3
    <2> HIDE DEF k
    <2>7. k \div WarpSize = w[2] /\ k % WarpSize = 0
        BY <2>1, <2>5, <2>6, ProductsApart
    <2> QED
        BY <2>3, <2>4, <2>7
<1>4. IsFiniteSet(Threads(w))
    <2>1. IsFiniteSet(0..BlockSize - 1)
        <3>1. 0 \in Int /\ BlockSize - 1 \in Int
            OBVIOUS
        <3> QED
            BY <3>1, FS_Interval
    <2> QED
        BY <1>1, <2>1, FS_Subset
<1> QED
    BY <1>1, <1>2, <1>3, <1>4

\* So many blocks have a thread for every path, and there is at least one.
LEMMA BlocksCoverPaths ==
    ASSUME NEW paths \in Nat \ {0}
    PROVE  BlocksFor(paths) \in Nat \ {0} /\ paths <= BlockSize * BlocksFor(paths)
<1> DEFINE n == paths + BlockSize - 1
           b == BlocksFor(paths)
<1>1. n \in Nat /\ BlockSize \in Nat \ {0} /\ b = n \div BlockSize
    BY SizesArePositive DEF BlocksFor
<1>2. b \in Nat /\ n % BlockSize \in 0..BlockSize - 1 /\ n = BlockSize * b + (n % BlockSize)
    BY <1>1, DivisionOfNaturals
<1>3. n = paths + BlockSize - 1
    OBVIOUS
<1> HIDE DEF n, b
<1>4. BlockSize * b \in Nat
    BY <1>1, <1>2
<1>5. paths <= BlockSize * b
    BY <1>1, <1>2, <1>3, <1>4
<1>6. b # 0
    BY <1>1, <1>5
<1> QED
    BY <1>2, <1>5, <1>6 DEF b

\* An index below the size of a grid is that of one of its threads, and of one only.
LEMMA IndicesOfAGrid ==
    /\ \A n \in 0..MaxBlocks, i \in Nat : i < BlockSize * n =>
          \E w \in Warps : w[1] < n /\ \E k \in Threads(w) : i = BlockStart(w) + k
    /\ \A v, w \in Warps : \A k \in Threads(v), l \in Threads(w) :
          BlockStart(v) + k = BlockStart(w) + l => v = w /\ k = l
    /\ \A w \in Warps : BlockStart(w) \in Nat
<1> USE SizesArePositive
<1>1. ASSUME NEW n \in 0..MaxBlocks, NEW i \in Nat, i < BlockSize * n
      PROVE  \E w \in Warps : w[1] < n /\ \E k \in Threads(w) : i = BlockStart(w) + k
    <2> DEFINE b == i \div BlockSize
               k == i % BlockSize
               v == k \div WarpSize
    <2>1. i \in Nat /\ BlockSize \in Nat \ {0} /\ WarpSize \in Nat \ {0} /\ n \in Nat
        OBVIOUS
    <2>2. b \in Nat /\ k \in 0..BlockSize - 1 /\ i = BlockSize * b + k
        BY <2>1, DivisionOfNaturals
    <2>3. b < n
        <3> HIDE DEF b, k
        <3>1. ~(n <= b)
            <4>1. ASSUME n <= b PROVE BlockSize * n <= BlockSize * b
                <5>1. BlockSize * b = BlockSize * n + BlockSize * (b - n)
                    BY <2>1, <2>2
                <5>2. BlockSize * (b - n) \in Nat
                    BY <2>1, <2>2, <4>1
                <5>3. BlockSize * n \in Nat
                    BY <2>1
                <5> QED
                    BY <5>1, <5>2, <5>3
            <4>2. BlockSize * b \in Nat /\ BlockSize * n \in Nat
                BY <2>1, <2>2
            <4> QED
                BY <1>1, <2>2, <4>1, <4>2
        <3> QED
            BY <2>1, <2>2, <3>1
    <2>4. v \in 0..(BlockSize - 1) \div WarpSize
        <3> DEFINE c == (BlockSize - 1) \div WarpSize
        <3>1. /\ k = WarpSize * v + (k % WarpSize) /\ k % WarpSize \in 0..WarpSize - 1 /\ v \in Nat
              /\ BlockSize - 1 = WarpSize * c + ((BlockSize - 1) % WarpSize)
              /\ (BlockSize - 1) % WarpSize \in 0..WarpSize - 1 /\ c \in Nat
            <4> DEFINE a == BlockSize - 1
            <4>1. a \in Nat /\ k \in Nat
                BY <2>1, <2>2
            <4> HIDE DEF a, k
            <4>2. /\ a = WarpSize * (a \div WarpSize) + (a % WarpSize)
                  /\ a % WarpSize \in 0..WarpSize - 1 /\ a \div WarpSize \in Nat
                BY <2>1, <4>1, DivisionOfNaturals
            <4>3. /\ k = WarpSize * (k \div WarpSize) + (k % WarpSize)
                  /\ k % WarpSize \in 0..WarpSize - 1 /\ k \div WarpSize \in Nat
                BY <2>1, <4>1, DivisionOfNaturals
            <4> QED
                BY <4>2, <4>3 DEF a
        <3> HIDE DEF v, c, k
        <3>2. ASSUME c < v PROVE WarpSize * c + WarpSize <= WarpSize * v
            <4>1. WarpSize * v = WarpSize * c + WarpSize + WarpSize * (v - c - 1)
                BY <2>1, <3>1
            <4>2. WarpSize * (v - c - 1) \in Nat
                BY <2>1, <3>1, <3>2
            <4>3. WarpSize * c \in Nat
                BY <2>1, <3>1
            <4> QED
                BY <2>1, <4>1, <4>2, <4>3
        <3>3. WarpSize * c \in Nat /\ WarpSize * v \in Nat
            BY <2>1, <3>1
        <3>4. ~(c < v)
            BY <2>1, <2>2, <3>1, <3>2, <3>3
        <3> QED
            BY <3>1, <3>4 DEF c
    <2> DEFINE w == <<b, v>>
    <2>5. w \in Warps /\ w[1] < n
        BY <2>1, <2>2, <2>3, <2>4 DEF Warps
    <2>6. k \in Threads(w) /\ i = BlockStart(w) + k
        BY <2>1, <2>2 DEF Threads, BlockStart
    <2> QED
        BY <2>5, <2>6
<1>2. ASSUME NEW v \in Warps, NEW w \in Warps, NEW k \in Threads(v), NEW l \in Threads(w),
             BlockStart(v) + k = BlockStart(w) + l
      PROVE  v = w /\ k = l
    <2>1. /\ v[1] \in Nat /\ w[1] \in Nat /\ k \in 0..BlockSize - 1 /\ l \in 0..BlockSize - 1
          /\ v = <<v[1], v[2]>> /\ w = <<w[1], w[2]>> /\ BlockSize \in Nat \ {0}
        BY DEF Warps, Threads
    <2>2. BlockSize * v[1] + k = BlockSize * w[1] + l
        BY <1>2, <2>1 DEF BlockStart
    <2>3. v[1] = w[1] /\ k = l
        BY <2>1, <2>2, ProductsApart
    <2>4. v[2] = w[2]
        BY <2>3 DEF Threads
    <2> QED
        BY <2>1, <2>3, <2>4
<1>3. \A w \in Warps : BlockStart(w) \in Nat
    BY DEF Warps, BlockStart
<1> QED
    BY <1>1, <1>2, <1>3

-----------------------------------------------------------------------------
(* The ranks of a ballot.                                                  *)

\* The ranks of the lanes that append are the numbers below their count.
LEMMA RanksAreExact ==
    ASSUME NEW w \in Warps, NEW A \in SUBSET Threads(w)
    PROVE  /\ IsFiniteSet(A) /\ Cardinality(A) \in Nat
           /\ \A k \in A : Rank(A, k) \in 0..Cardinality(A) - 1
           /\ \A k, l \in A : Rank(A, k) = Rank(A, l) => k = l
           /\ \A r \in 0..Cardinality(A) - 1 : \E k \in A : Rank(A, k) = r
<1> DEFINE Below(k) == {j \in A : Lane(j) < Lane(k)}
<1>1. IsFiniteSet(A) /\ Cardinality(A) \in Nat
    BY ThreadsOfABlock, FS_Subset, FS_CardinalityType
<1>2. \A k \in A : Lane(k) \in Nat
    BY ThreadsOfABlock
<1>3. \A k, l \in A : Lane(k) = Lane(l) => k = l
    BY ThreadsOfABlock
<1>4. \A k \in A : IsFiniteSet(Below(k)) /\ Rank(A, k) = Cardinality(Below(k)) /\ Rank(A,
    k) \in Nat
    BY <1>1, FS_Subset, FS_CardinalityType DEF Rank
<1>5. ASSUME NEW k \in A
      PROVE  Rank(A, k) \in 0..Cardinality(A) - 1
    <2>1. k \notin Below(k) /\ Below(k) \in SUBSET A
        BY <1>2
    <2>2. Below(k) \in SUBSET (A \ {k})
        BY <2>1
    <2>3. IsFiniteSet(A \ {k}) /\ Cardinality(A \ {k}) = Cardinality(A) - 1
        BY <1>1, FS_RemoveElement
    <2>4. Cardinality(Below(k)) <= Cardinality(A) - 1
        BY <2>2, <2>3, FS_Subset
    <2> HIDE DEF Below
    <2> QED
        BY <1>1, <1>4, <2>4
<1>6. ASSUME NEW k \in A, NEW l \in A, Lane(k) < Lane(l)
      PROVE  Rank(A, k) < Rank(A, l)
    <2>1. k \notin Below(k) /\ Below(k) \cup {k} \in SUBSET Below(l)
        BY <1>2, <1>6
    <2>2. /\ IsFiniteSet(Below(k) \cup {k})
          /\ Cardinality(Below(k) \cup {k}) = Cardinality(Below(k)) + 1
        BY <1>4, <2>1, FS_AddElement
    <2>3. Cardinality(Below(k) \cup {k}) <= Cardinality(Below(l))
        BY <1>4, <2>1, FS_Subset
    <2> HIDE DEF Below
    <2> QED
        BY <1>4, <2>2, <2>3
<1>7. \A k, l \in A : Rank(A, k) = Rank(A, l) => k = l
    <2>1. ASSUME NEW k \in A, NEW l \in A, k # l
          PROVE  Rank(A, k) # Rank(A, l)
        <3>1. Lane(k) < Lane(l) \/ Lane(l) < Lane(k)
            BY <1>2, <1>3, <2>1
        <3>2. Rank(A, k) \in Nat /\ Rank(A, l) \in Nat
            BY <1>4
        <3>3. CASE Lane(k) < Lane(l)
            BY <1>6, <3>2, <3>3
        <3>4. CASE Lane(l) < Lane(k)
            BY <1>6, <3>2, <3>4
        <3> QED
            BY <3>1, <3>3, <3>4
    <2> QED
        BY <2>1
<1>8. ASSUME NEW r \in 0..Cardinality(A) - 1
      PROVE  \E k \in A : Rank(A, k) = r
    <2> DEFINE T == 0..Cardinality(A) - 1
               rank == [k \in A |-> Rank(A, k)]
    <2>1. rank \in Injection(A, T)
        BY <1>5, <1>7 DEF Injection, IsInjective
    <2>2. IsFiniteSet(T) /\ Cardinality(T) = Cardinality(A)
        <3>1. 0 \in Int /\ Cardinality(A) - 1 \in Int
            BY <1>1
        <3> QED
            BY <1>1, <3>1, FS_Interval
    <2> HIDE DEF rank, T
    <2>3. rank \in Surjection(A, T)
        BY <2>1, <2>2, FS_Injection
    <2>4. \E k \in A : rank[k] = r
        BY <2>3 DEF Surjection, T
    <2> QED
        BY <2>4 DEF rank
<1> QED
    BY <1>1, <1>5, <1>7, <1>8

-----------------------------------------------------------------------------
(* The inductive invariant of the queues.                                  *)
\* Where a warp may be, in either mode.
Places ==
    {"running", "finished",
     "idle", "generating", "generated", "reading", "read", "draining", "drained",
     "reserving", "storing"}

\* The threads of a warp that have a path to append.
Carrying(w) == {k \in Threads(w) : carried[w][k] # NoPath}

\* Those that append together, and the slot each of them has reserved.
Placed(w) == Appending(w, reserved[w].group)
SlotOf(w, k) == reserved[w].base + Rank(Placed(w), k)

\* A slot between its reservation and its store.
Pending(i) == \E w \in Warps : place[w] = "storing" /\ \E k \in Placed(w) : SlotOf(w, k) = i

Stored(q) == {i \in 0..count[q] - 1 : ~Pending(i)}

\* The paths that have a slot or are carried to one.
Held(q) ==
    {p \in Slots : \/ \E i \in Stored(q) : items[q][i] = p
                   \/ \E w \in Warps : \E k \in Carrying(w) : carried[w][k] = p}

PathTypes == path \in [Slots -> [pixel : Nat \X Nat, depth : Nat, active : BOOLEAN]]

LaneTypes ==
    /\ place \in [Warps -> Places]
    /\ DOMAIN carried = Warps
    /\ \A w \in Warps : carried[w] \in [Threads(w) -> Slots \cup {NoPath}]
    /\ DOMAIN waiting = Warps
    /\ \A w \in Warps : waiting[w] \subseteq Threads(w)
    /\ DOMAIN reserved = Warps
    /\ \A w \in Warps : reserved[w] \in [base : Nat, group : SUBSET Threads(w)]

DataTypes ==
    /\ PathTypes
    /\ items \in [Queues -> [Slots -> Slots]]
    /\ count \in [Queues -> Nat]

\* Every slot below the counter holds a path of its own or waits for the one that
\* its thread carries; all these paths are active and at depth d.
OutputExact(q, d) ==
    /\ \A w \in Warps : place[w] = "storing" =>
          \A k \in Placed(w) : SlotOf(w, k) \in 0..count[q] - 1
    /\ \A v, w \in Warps : place[v] = "storing" /\ place[w] = "storing" =>
          \A k \in Placed(v), l \in Placed(w) :
             SlotOf(v, k) = SlotOf(w, l) => v = w /\ k = l
    /\ \A i \in Stored(q) : items[q][i] \in ActivePaths /\ path[items[q][i]].depth = d
    /\ \A i, j \in Stored(q) : items[q][i] = items[q][j] => i = j
    /\ \A w \in Warps : \A k \in Carrying(w) :
          carried[w][k] \in ActivePaths /\ path[carried[w][k]].depth = d
    /\ \A v, w \in Warps : \A k \in Carrying(v), l \in Carrying(w) :
          carried[v][k] = carried[w][l] => v = w /\ k = l
    /\ \A w \in Warps : \A k \in Carrying(w), i \in Stored(q) : carried[w][k] # items[q][i]

\* A queue from which nothing is missing.
Lists(q, d) ==
    /\ \A i \in 0..count[q] - 1 : items[q][i] \in ActivePaths /\ path[items[q][i]].depth = d
    /\ \A i, j \in 0..count[q] - 1 : items[q][i] = items[q][j] => i = j
    /\ \A p \in ActivePaths : \E i \in 0..count[q] - 1 : items[q][i] = p

NothingCarried == \A w \in Warps : Carrying(w) = {}

CountsFit == \A q \in Queues : count[q] <= Capacity

\* A lane that has a slot has a path to store there.
LEMMA PlacedLanesCarry ==
    ASSUME LaneTypes, NEW w \in Warps
    PROVE  Placed(w) = Carrying(w) \cap reserved[w].group
BY DEF Placed, Appending, Carrying, LaneTypes

LEMMA IntervalsFromZero ==
    ASSUME NEW n \in Nat
    PROVE  IsFiniteSet(0..n - 1) /\ Cardinality(0..n - 1) = n
<1>1. 0 \in Int /\ n - 1 \in Int
    OBVIOUS
<1> QED
    BY <1>1, FS_Interval

\* As many different paths as a queue has items are at most its capacity.
LEMMA InjectionsFit ==
    ASSUME NEW n \in Nat, NEW f \in [0..n - 1 -> Slots],
           \A i, j \in 0..n - 1 : f[i] = f[j] => i = j
    PROVE  n <= Capacity
<1>1. 0 \in Int /\ n - 1 \in Int /\ Capacity - 1 \in Int
    BY SizesArePositive
<1>2. IsFiniteSet(Slots) /\ Cardinality(Slots) = Capacity
    BY <1>1, SizesArePositive, FS_Interval DEF Slots
<1>3. Cardinality(0..n - 1) = n
    BY <1>1, FS_Interval
<1>4. f \in Injection(0..n - 1, Slots)
    BY DEF Injection, IsInjective
<1> QED
    BY <1>2, <1>3, <1>4, FS_Injection

OutputsFit ==
    \A q \in Queues, d \in Nat :
        LaneTypes /\ count[q] \in Nat /\ OutputExact(q, d) => count[q] <= Capacity

\* An exact output does not overflow, as the paths in it differ.
LEMMA OutputFits == OutputsFit
<1> SUFFICES ASSUME NEW q \in Queues, NEW d \in Nat,
                    LaneTypes, count[q] \in Nat, OutputExact(q, d)
             PROVE  count[q] <= Capacity
    BY DEF OutputsFit
<1> DEFINE At(i, p) == \/ i \in Stored(q) /\ p = items[q][i]
                       \/ \E w \in Warps : /\ place[w] = "storing"
                                           /\ \E k \in Placed(w) :
                                                SlotOf(w, k) = i /\ carried[w][k] = p
           f == [i \in 0..count[q] - 1 |-> CHOOSE p \in Slots : At(i, p)]
<1>1. \A p \in ActivePaths : p \in Slots
    BY DEF ActivePaths
<1>2. ASSUME NEW i \in 0..count[q] - 1
      PROVE  \E p \in Slots : At(i, p)
    <2>1. CASE i \in Stored(q)
        BY <1>1, <2>1 DEF OutputExact
    <2>2. CASE Pending(i)
        BY <1>1, <2>2, PlacedLanesCarry DEF OutputExact, Pending
    <2> QED
        BY <2>1, <2>2 DEF Stored
<1>3. \A i \in 0..count[q] - 1 : f[i] \in Slots /\ At(i, f[i])
    BY <1>2
<1>4. ASSUME NEW i \in 0..count[q] - 1, NEW j \in 0..count[q] - 1, NEW p, At(i, p), At(j, p)
      PROVE  i = j
    BY <1>4, PlacedLanesCarry DEF OutputExact
<1> HIDE DEF At
<1>5. f \in [0..count[q] - 1 -> Slots]
    BY <1>3
<1>6. \A i, j \in 0..count[q] - 1 : f[i] = f[j] => i = j
    BY <1>3, <1>4
<1> HIDE DEF f
<1> QED
    BY <1>5, <1>6, InjectionsFit

LEMMA OutputFitsNext ==
    ASSUME NEW q \in Queues, NEW d \in Nat,
           LaneTypes', count'[q] \in Nat, OutputExact(q, d)'
    PROVE  count'[q] <= Capacity
<1>1. OutputsFit'
    BY OutputFits, PTL
<1> QED
    BY <1>1 DEF OutputsFit

\* What Lists says is what the run checks by counting.
LEMMA ListsActive ==
    ASSUME NEW q \in Queues, NEW d \in Nat, count[q] \in 0..Capacity, Lists(q, d)
    PROVE  /\ ListsActivePaths(q)
           /\ \A p \in ActivePaths : path[p].depth = d
<1> DEFINE n == count[q]
           I == 0..n - 1
           f == [i \in I |-> items[q][i]]
<1>1. n \in Nat /\ 0 \in Int /\ n - 1 \in Int
    BY SizesArePositive
<1>2. IsFiniteSet(I) /\ Cardinality(I) = n
    BY <1>1, IntervalsFromZero
<1>3. f \in Bijection(I, ActivePaths)
    BY DEF Bijection, Injection, Surjection, IsInjective, Lists
<1>4. Cardinality(ActivePaths) = n
    BY <1>2, <1>3, FS_Bijection DEF ExistsBijection
<1>5. {j \in Slots : j < n} = I
    BY <1>1, SizesArePositive DEF Slots
<1>6. Listed(q) = ActivePaths
    BY <1>5 DEF Listed, Lists
<1>7. \A p \in ActivePaths : path[p].depth = d
    BY DEF Lists
<1> QED
    BY <1>4, <1>6, <1>7 DEF ListsActivePaths

-----------------------------------------------------------------------------
(* The steps of a warp, as the output of its kernel sees them.             *)

\* A store puts the carried paths into the slots that waited for them.
LEMMA StoreKeepsOutput ==
    ASSUME DataTypes, LaneTypes, NEW w \in Warps, NEW q \in Queues, NEW d \in Nat,
           OutputExact(q, d), count[q] <= Capacity,
           place[w] = "storing", Store(w, q),
           NEW x \in Places \ {"storing"}, place' = [place EXCEPT ![w] = x]
    PROVE  /\ OutputExact(q, d)'
           /\ LaneTypes' /\ DataTypes'
           /\ Held(q)' = Held(q)
           /\ Carrying(w)' = Carrying(w) \ reserved[w].group
           /\ \A v \in Warps \ {w} : Carrying(v)' = Carrying(v)
           /\ waiting' = [waiting EXCEPT ![w] = @ \ reserved[w].group]
           /\ \A v \in Warps \ {w} : reserved'[v] = reserved[v]
           /\ path' = path /\ count' = count
           /\ \A r \in Queues \ {q} : items'[r] = items[r]
<1> DEFINE hit(i) == \E k \in Placed(w) : SlotOf(w, k) = i
<1>1. Placed(w) = Carrying(w) \cap reserved[w].group
    BY PlacedLanesCarry
<1>2. /\ waiting' = [waiting EXCEPT ![w] = @ \ reserved[w].group]
      /\ carried' = [carried EXCEPT ![w] = [k \in Threads(w) |->
             IF k \in reserved[w].group THEN NoPath ELSE carried[w][k]]]
      /\ reserved' = [reserved EXCEPT ![w] = NothingReserved]
      /\ path' = path /\ count' = count
      /\ items' = [items EXCEPT ![q] = [i \in Slots |->
             IF hit(i) THEN carried[w][CHOOSE k \in Placed(w) : SlotOf(w, k) = i]
             ELSE items[q][i]]]
    BY DEF Store, SlotOf, Placed
<1>3. /\ \A v \in Warps \ {w} : /\ carried'[v] = carried[v] /\ reserved'[v] = reserved[v]
                                /\ place'[v] = place[v] /\ waiting'[v] = waiting[v]
      /\ place'[w] = x /\ reserved'[w] = NothingReserved
      /\ waiting'[w] = waiting[w] \ reserved[w].group
      /\ \A k \in Threads(w) :
            carried'[w][k] = IF k \in reserved[w].group THEN NoPath ELSE carried[w][k]
      /\ carried'[w] \in [Threads(w) -> Slots \cup {NoPath}]
      /\ DOMAIN carried' = Warps /\ DOMAIN waiting' = Warps /\ DOMAIN reserved' = Warps
    BY <1>2 DEF LaneTypes
<1>4. /\ Carrying(w)' = Carrying(w) \ reserved[w].group
      /\ \A v \in Warps \ {w} : Carrying(v)' = Carrying(v) /\ Placed(v)' = Placed(v)
    BY <1>3 DEF Carrying, Placed, Appending
<1>5. /\ \A v \in Warps \ {w} : \A k : SlotOf(v, k)' = SlotOf(v, k)
      /\ \A v \in Warps : \A k \in Carrying(v)' :
            k \in Carrying(v) /\ carried'[v][k] = carried[v][k] /\ (v = w => k \notin Placed(w))
    <2>1. \A v \in Warps \ {w} : \A k : SlotOf(v, k)' = SlotOf(v, k)
        BY <1>3, <1>4 DEF SlotOf, Rank
    <2>2. \A k \in Carrying(w)' : carried'[w][k] = carried[w][k]
        BY <1>3, <1>4 DEF Carrying
    <2> QED
        BY <1>1, <1>3, <1>4, <2>1, <2>2
<1>6. LaneTypes'
    <2>1. place' \in [Warps -> Places]
        BY DEF LaneTypes
    <2>2. \A v \in Warps : /\ carried'[v] \in [Threads(v) -> Slots \cup {NoPath}]
                           /\ waiting'[v] \subseteq Threads(v)
                           /\ reserved'[v] \in [base : Nat, group : SUBSET Threads(v)]
        BY <1>3 DEF LaneTypes, NothingReserved
    <2> QED
        BY <1>3, <2>1, <2>2 DEF LaneTypes
<1>7. \A k \in Placed(w) : /\ carried[w][k] \in Slots
                           /\ k \in Carrying(w)
                           /\ SlotOf(w, k) \in 0..count[q] - 1
                           /\ SlotOf(w, k) \in Slots
    BY <1>1, SizesArePositive DEF OutputExact, Carrying, LaneTypes, DataTypes, Slots
<1>8. \A k, l \in Placed(w) : SlotOf(w, k) = SlotOf(w, l) => k = l
    BY DEF OutputExact
<1>9. \A k \in Placed(w) : items'[q][SlotOf(w, k)] = carried[w][k]
    <2> SUFFICES ASSUME NEW k \in Placed(w)
                 PROVE  items'[q][SlotOf(w, k)] = carried[w][k]
        OBVIOUS
    <2>1. (CHOOSE l \in Placed(w) : SlotOf(w, l) = SlotOf(w, k)) = k
        BY <1>8
    <2>2. items'[q][SlotOf(w, k)] =
             carried[w][CHOOSE l \in Placed(w) : SlotOf(w, l) = SlotOf(w, k)]
        BY <1>2, <1>7 DEF DataTypes
    <2> QED
        BY <2>1, <2>2
<1>10. \A i \in Slots : ~hit(i) => items'[q][i] = items[q][i]
    BY <1>2 DEF DataTypes
<1>11. DataTypes'
    <2>1. [i \in Slots |-> IF hit(i) THEN carried[w][CHOOSE k \in Placed(w) : SlotOf(w,
        k) = i]
                           ELSE items[q][i]] \in [Slots -> Slots]
        BY <1>7 DEF DataTypes
    <2> QED
        BY <1>2, <2>1 DEF DataTypes, PathTypes
<1> HIDE DEF hit
<1>12. Stored(q) \subseteq Slots
    BY SizesArePositive DEF Stored, Slots, DataTypes
<1>13. \A i : Pending(i)' <=> \E v \in Warps \ {w} : /\ place[v] = "storing"
                                                     /\ \E k \in Placed(v) : SlotOf(v, k) = i
    BY <1>3, <1>4, <1>5 DEF Pending
<1>14. ASSUME NEW i \in Stored(q)
       PROVE  i \in Stored(q)' /\ items'[q][i] = items[q][i]
    <2>1. ~hit(i)
        BY DEF Stored, Pending, hit
    <2> QED
        BY <1>2, <1>10, <1>12, <1>13, <2>1 DEF Stored, Pending
<1>15. ASSUME NEW k \in Placed(w)
       PROVE  SlotOf(w, k) \in Stored(q)'
    BY <1>2, <1>7, <1>13 DEF Stored, OutputExact
<1>16. ASSUME NEW i \in Stored(q)'
       PROVE  i \in Stored(q) \/ \E k \in Placed(w) : i = SlotOf(w, k)
    BY <1>2, <1>13 DEF Stored, Pending
<1>17. Held(q)' = Held(q)
    <2>1. ASSUME NEW p \in Held(q)
          PROVE  p \in Held(q)'
        <3>1. CASE \E i \in Stored(q) : p = items[q][i]
            BY <3>1, <1>14 DEF Held
        <3>2. CASE \E k \in Placed(w) : p = carried[w][k]
            BY <3>2, <1>9, <1>15 DEF Held
        <3>3. CASE \E k \in Carrying(w)' : p = carried[w][k]
            BY <3>3, <1>5 DEF Held
        <3>4. CASE \E v \in Warps \ {w} : \E k \in Carrying(v) : p = carried[v][k]
            BY <3>4, <1>3, <1>4 DEF Held
        <3> QED
            BY <1>1, <1>4, <3>1, <3>2, <3>3, <3>4 DEF Held
    <2>2. ASSUME NEW p \in Held(q)'
          PROVE  p \in Held(q)
        <3>1. CASE \E i \in Stored(q)' : p = items'[q][i]
            BY <3>1, <1>7, <1>9, <1>14, <1>16 DEF Held
        <3>2. CASE \E v \in Warps : \E k \in Carrying(v)' : p = carried'[v][k]
            BY <3>2, <1>5 DEF Held
        <3> QED
            BY <3>1, <3>2 DEF Held
    <2> QED
        BY <2>1, <2>2
<1>18. OutputExact(q, d)'
    <2>1. \A v \in Warps : place'[v] = "storing" =>
             \A k \in Placed(v)' : SlotOf(v, k)' \in 0..count'[q] - 1
        BY <1>2, <1>3, <1>4, <1>5 DEF OutputExact
    <2>2. \A u, v \in Warps : place'[u] = "storing" /\ place'[v] = "storing" =>
             \A k \in Placed(u)', l \in Placed(v)' :
                SlotOf(u, k)' = SlotOf(v, l)' => u = v /\ k = l
        BY <1>3, <1>4, <1>5 DEF OutputExact
    <2>3. ASSUME NEW i \in Stored(q)'
          PROVE  items'[q][i] \in ActivePaths' /\ path'[items'[q][i]].depth = d
        <3>1. ActivePaths' = ActivePaths
            BY <1>2 DEF ActivePaths
        <3>2. CASE i \in Stored(q)
            <4>1. items'[q][i] = items[q][i] /\ items[q][i] \in ActivePaths
                  /\ path[items[q][i]].depth = d
                BY <3>2, <1>14 DEF OutputExact
            <4> QED
                BY <1>2, <3>1, <4>1
        <3>3. CASE \E k \in Placed(w) : i = SlotOf(w, k)
            <4>1. PICK k \in Placed(w) : i = SlotOf(w, k)
                BY <3>3
            <4>2. items'[q][i] = carried[w][k] /\ carried[w][k] \in ActivePaths
                  /\ path[carried[w][k]].depth = d
                BY <4>1, <1>7, <1>9 DEF OutputExact
            <4> QED
                BY <1>2, <3>1, <4>2
        <3> QED
            BY <1>16, <3>2, <3>3
    <2>4. ASSUME NEW i \in Stored(q)', NEW j \in Stored(q)', items'[q][i] = items'[q][j]
          PROVE  i = j
        <3>1. CASE i \in Stored(q) /\ j \in Stored(q)
            BY <2>4, <3>1, <1>14 DEF OutputExact
        <3>2. CASE \E k, l \in Placed(w) : i = SlotOf(w, k) /\ j = SlotOf(w, l)
            BY <2>4, <3>2, <1>7, <1>9 DEF OutputExact
        <3>3. CASE i \in Stored(q) /\ \E k \in Placed(w) : j = SlotOf(w, k)
            BY <2>4, <3>3, <1>7, <1>9, <1>14 DEF OutputExact
        <3>4. CASE j \in Stored(q) /\ \E k \in Placed(w) : i = SlotOf(w, k)
            BY <2>4, <3>4, <1>7, <1>9, <1>14 DEF OutputExact
        <3> QED
            BY <1>16, <3>1, <3>2, <3>3, <3>4
    <2>5. /\ \A v \in Warps : \A k \in Carrying(v)' :
                carried'[v][k] \in ActivePaths' /\ path'[carried'[v][k]].depth = d
          /\ \A u, v \in Warps : \A k \in Carrying(u)', l \in Carrying(v)' :
                carried'[u][k] = carried'[v][l] => u = v /\ k = l
        <3>1. \A v \in Warps : \A k \in Carrying(v) :
                 carried[v][k] \in ActivePaths /\ path[carried[v][k]].depth = d
            BY DEF OutputExact
        <3>2. \A u, v \in Warps : \A k \in Carrying(u), l \in Carrying(v) :
                 carried[u][k] = carried[v][l] => u = v /\ k = l
            BY DEF OutputExact
        <3>3. ActivePaths' = ActivePaths
            BY <1>2 DEF ActivePaths
        <3>4. path' = path
            BY <1>2
        <3> QED
            BY <1>5, <3>1, <3>2, <3>3, <3>4
    <2>6. ASSUME NEW v \in Warps, NEW k \in Carrying(v)', NEW i \in Stored(q)'
          PROVE  carried'[v][k] # items'[q][i]
        <3>1. k \in Carrying(v) /\ carried'[v][k] = carried[v][k] /\ (v = w => k \notin Placed(w))
            BY <1>5
        <3>2. CASE i \in Stored(q)
            BY <3>1, <3>2, <1>14 DEF OutputExact
        <3>3. CASE \E l \in Placed(w) : i = SlotOf(w, l)
            BY <3>1, <3>3, <1>7, <1>9 DEF OutputExact
        <3> QED
            BY <1>16, <3>2, <3>3
    <2> QED
        BY <2>1, <2>2, <2>3, <2>4, <2>5, <2>6 DEF OutputExact
<1> QED
    BY <1>2, <1>3, <1>4, <1>6, <1>11, <1>17, <1>18 DEF DataTypes

\* A reservation extends the output by the slots of the lanes that append with lane
\* zero; a group without it that appends nothing leaves the output as it is.
LEMMA ReserveKeepsOutput ==
    ASSUME DataTypes, LaneTypes, NEW w \in Warps, NEW q \in Queues, NEW d \in Nat,
           OutputExact(q, d), ~leaderless',
           place[w] = "reserving", Reserve(w, q),
           place' = [place EXCEPT ![w] = "storing"]
    PROVE  /\ OutputExact(q, d)'
           /\ LaneTypes' /\ DataTypes'
           /\ Held(q)' = Held(q)
           /\ \A v \in Warps : Carrying(v)' = Carrying(v)
           /\ \A v \in Warps \ {w} : reserved'[v] = reserved[v]
           /\ UNCHANGED <<path, items, carried, waiting>>
           /\ \A r \in Queues \ {q} : count'[r] = count[r]
<1> DEFINE c == count[q]
<1>0. c \in Nat /\ waiting[w] \subseteq Threads(w) /\ Slots \subseteq Nat
    BY DEF DataTypes, LaneTypes, Slots
<1>1. PICK group \in SUBSET waiting[w], base \in Nat :
          /\ reserved' = [reserved EXCEPT ![w] = [base |-> base, group |-> group]]
          /\ Led(group) => base = c
          /\ ~Led(group) => Appending(w, group) = {}
          /\ count' = IF Led(group)
                      THEN [count EXCEPT ![q] = @ + Cardinality(Appending(w, group))] ELSE count
          /\ UNCHANGED <<path, items, carried, waiting>>
    BY <1>0 DEF Reserve, Groups, Base
<1> DEFINE A == Appending(w, group)
           n == Cardinality(A)
<1>2. A \in SUBSET Threads(w) /\ A \subseteq Carrying(w)
    BY <1>0, <1>1 DEF Appending, Carrying
<1>3. /\ n \in Nat
      /\ \A k \in A : Rank(A, k) \in 0..n - 1
      /\ \A k, l \in A : Rank(A, k) = Rank(A, l) => k = l
      /\ \A r \in 0..n - 1 : \E k \in A : Rank(A, k) = r
    BY <1>2, RanksAreExact
<1>4. count' = [count EXCEPT ![q] = @ + n] /\ (A # {} => base = c)
    <2>1. CASE Led(group)
        BY <1>1, <2>1
    <2>2. CASE ~Led(group)
        <3>1. n = 0
            BY <1>1, <2>2, FS_EmptySet
        <3> QED
            BY <1>0, <1>1, <2>2, <3>1 DEF DataTypes
    <2> QED
        BY <2>1, <2>2
<1>5. /\ \A v \in Warps : Carrying(v)' = Carrying(v)
      /\ Placed(w)' = A /\ \A v \in Warps \ {w} : Placed(v)' = Placed(v)
      /\ \A v \in Warps \ {w} : reserved'[v] = reserved[v] /\ place'[v] = place[v]
      /\ reserved'[w] = [base |-> base, group |-> group] /\ place'[w] = "storing"
    BY <1>1 DEF Carrying, Placed, Appending, LaneTypes
<1> HIDE DEF n, c, A
<1>6. /\ count'[q] = c + n /\ \A r \in Queues \ {q} : count'[r] = count[r]
      /\ ActivePaths' = ActivePaths
    BY <1>1, <1>4 DEF DataTypes, ActivePaths, c
<1>7. LaneTypes' /\ DataTypes'
    <2>1. place' \in [Warps -> Places]
        BY DEF LaneTypes, Places
    <2>2. \A v \in Warps : reserved'[v] \in [base : Nat, group : SUBSET Threads(v)]
        BY <1>0, <1>1 DEF LaneTypes
    <2>3. count' \in [Queues -> Nat]
        BY <1>3, <1>4 DEF DataTypes
    <2> QED
        BY <1>1, <2>1, <2>2, <2>3 DEF LaneTypes, DataTypes, PathTypes
<1>8. /\ \A v \in Warps \ {w} : \A k : SlotOf(v, k)' = SlotOf(v, k)
      /\ \A k \in A : SlotOf(w, k)' = c + Rank(A, k)
    <2>1. \A v \in Warps \ {w} : \A k : SlotOf(v, k)' = SlotOf(v, k)
        BY <1>5 DEF SlotOf, Rank
    <2>2. \A k : SlotOf(w, k)' = base + Rank(A, k)
        BY <1>5 DEF SlotOf, Rank
    <2> QED
        BY <1>4, <2>1, <2>2
<1>9. \A k \in A : SlotOf(w, k)' \in c..c + n - 1
    BY <1>0, <1>3, <1>8
<1>10. \A v \in Warps \ {w} : place[v] = "storing" =>
          \A k \in Placed(v) : SlotOf(v, k) \in 0..c - 1
    BY DEF OutputExact, c
<1>11. Stored(q)' = Stored(q)
    <2>1. ASSUME NEW i \in 0..c - 1
          PROVE  Pending(i)' <=> Pending(i)
        <3>1. \A k \in A : SlotOf(w, k)' # i
            BY <1>0, <1>3, <1>9
        <3> QED
            BY <1>5, <1>8, <3>1 DEF Pending
    <2>2. ASSUME NEW i \in c..c + n - 1
          PROVE  Pending(i)'
        <3>1. i - c \in 0..n - 1
            BY <1>0, <1>3
        <3>2. PICK k \in A : Rank(A, k) = i - c
            BY <1>3, <3>1
        <3>3. SlotOf(w, k)' = i
            BY <1>0, <1>8, <3>2
        <3> QED
            BY <1>5, <3>3 DEF Pending
    <2>3. \A i : i \in 0..(c + n) - 1 <=> i \in 0..c - 1 \/ i \in c..c + n - 1
        BY <1>0, <1>3
    <2>4. Stored(q) = {i \in 0..c - 1 : ~Pending(i)}
        BY DEF Stored, c
    <2>5. Stored(q)' = {i \in 0..(c + n) - 1 : ~Pending(i)'}
        BY <1>6 DEF Stored
    <2> QED
        BY <2>1, <2>2, <2>3, <2>4, <2>5
<1>12. Held(q)' = Held(q)
    BY <1>1, <1>5, <1>11 DEF Held
<1>13. OutputExact(q, d)'
    <2>1. \A v \in Warps : place'[v] = "storing" =>
             \A k \in Placed(v)' : SlotOf(v, k)' \in 0..count'[q] - 1
        <3>1. \A k \in A : SlotOf(w, k)' \in 0..count'[q] - 1
            BY <1>0, <1>3, <1>6, <1>9
        <3>2. ASSUME NEW v \in Warps \ {w}, place[v] = "storing", NEW k \in Placed(v)
              PROVE  SlotOf(v, k)' \in 0..count'[q] - 1
            BY <3>2, <1>0, <1>3, <1>6, <1>8, <1>10
        <3> QED
            BY <1>5, <3>1, <3>2
    <2>2. \A u, v \in Warps : place'[u] = "storing" /\ place'[v] = "storing" =>
             \A k \in Placed(u)', l \in Placed(v)' :
                SlotOf(u, k)' = SlotOf(v, l)' => u = v /\ k = l
        <3>1. ASSUME NEW k \in A, NEW l \in A, SlotOf(w, k)' = SlotOf(w, l)'
              PROVE  k = l
            <4>1. Rank(A, k) = Rank(A, l)
                <5>1. Rank(A, k) \in Nat /\ Rank(A, l) \in Nat
                    BY <1>3
                <5> QED
                    BY <1>0, <1>8, <3>1, <5>1
            <4> QED
                BY <1>3, <4>1
        <3>2. ASSUME NEW v \in Warps \ {w}, place[v] = "storing",
                     NEW k \in A, NEW l \in Placed(v)
              PROVE  SlotOf(w, k)' # SlotOf(v, l)'
            <4>1. SlotOf(w, k)' \in c..c + n - 1 /\ SlotOf(v, l)' \in 0..c - 1
                BY <1>8, <1>9, <1>10, <3>2
            <4> QED
                BY <1>0, <1>3, <4>1
        <3>3. ASSUME NEW u \in Warps \ {w}, NEW v \in Warps \ {w},
                     place[u] = "storing", place[v] = "storing",
                     NEW k \in Placed(u), NEW l \in Placed(v), SlotOf(u, k)' = SlotOf(v, l)'
              PROVE  u = v /\ k = l
            BY <1>8, <3>3 DEF OutputExact
        <3> QED
            BY <1>5, <3>1, <3>2, <3>3
    <2>3. /\ \A i \in Stored(q)' : items'[q][i] \in ActivePaths' /\ path'[items'[q][i]].depth = d
          /\ \A i, j \in Stored(q)' : items'[q][i] = items'[q][j] => i = j
        BY <1>1, <1>6, <1>11 DEF OutputExact
    <2>4. /\ \A v \in Warps : \A k \in Carrying(v)' :
                carried'[v][k] \in ActivePaths' /\ path'[carried'[v][k]].depth = d
          /\ \A u, v \in Warps : \A k \in Carrying(u)', l \in Carrying(v)' :
                carried'[u][k] = carried'[v][l] => u = v /\ k = l
          /\ \A v \in Warps : \A k \in Carrying(v)', i \in Stored(q)' :
                carried'[v][k] # items'[q][i]
        BY <1>1, <1>5, <1>6, <1>11 DEF OutputExact
    <2> QED
        BY <2>1, <2>2, <2>3, <2>4 DEF OutputExact
<1> QED
    BY <1>1, <1>5, <1>6, <1>7, <1>12, <1>13

-----------------------------------------------------------------------------
(* A queue that is drained into the other.                                 *)

\* The items of q in U are yet to be shaded, at depth d. Every path that is still
\* active is in one of them, or has gone on to the queue n.
Accounted(q, U, n, d) ==
    /\ \A i, j \in 0..count[q] - 1 : items[q][i] = items[q][j] => i = j
    /\ \A i \in U : items[q][i] \in ActivePaths /\ path[items[q][i]].depth = d
    /\ OutputExact(n, d + 1)
    /\ \A p \in ActivePaths : p \in Held(n) \/ \E i \in U : items[q][i] = p
    /\ Held(n) # {} => d + 1 < MaxDepth

\* An output that nobody writes to any more is complete.
LEMMA OutputIsComplete ==
    ASSUME NEW q \in Queues, NEW d \in Nat, LaneTypes, OutputExact(q, d), NothingCarried,
           ActivePaths \subseteq Held(q)
    PROVE  Lists(q, d)
<1>1. Stored(q) = 0..count[q] - 1
    BY DEF Stored, Pending, NothingCarried, Placed, Appending, Carrying, LaneTypes
<1>2. \A p \in ActivePaths : \E i \in 0..count[q] - 1 : items[q][i] = p
    BY <1>1 DEF Held, NothingCarried
<1> QED
    BY <1>1, <1>2 DEF OutputExact, Lists

\* A queue that has just been cleared.
LEMMA EmptyOutput ==
    ASSUME NEW q, NEW d, count'[q] = 0, LaneTypes', \A w \in Warps : Carrying(w)' = {}
    PROVE  OutputExact(q, d)' /\ Held(q)' = {}
<1>1. 0..count'[q] - 1 = {}
    OBVIOUS
<1>2. Stored(q)' = {}
    BY <1>1 DEF Stored
<1>3. \A w \in Warps : Placed(w)' = {}
    BY DEF Placed, Appending, Carrying, LaneTypes
<1> QED
    BY <1>2, <1>3 DEF OutputExact, Held

\* A reservation takes nothing from the paths accounted for, and it fits.
LEMMA ReserveKeepsAccounted ==
    ASSUME ~leaderless', DataTypes, LaneTypes, CountsFit, NEW w \in Warps,
           NEW q \in Queues, NEW n \in Queues, q # n, NEW d \in Nat, NEW U,
           Accounted(q, U, n, d),
           place[w] = "reserving", Reserve(w, n),
           place' = [place EXCEPT ![w] = "storing"]
    PROVE  /\ Accounted(q, U, n, d)'
           /\ LaneTypes' /\ DataTypes' /\ CountsFit'
           /\ \A v \in Warps : Carrying(v)' = Carrying(v)
           /\ \A v \in Warps \ {w} : reserved'[v] = reserved[v]
           /\ UNCHANGED <<path, items, carried, waiting>>
           /\ count'[q] = count[q]
<1> DEFINE e == d + 1
<1>1. e \in Nat /\ OutputExact(n, e)
    BY DEF Accounted
<1> HIDE DEF e
<1>2. /\ OutputExact(n, e)' /\ Held(n)' = Held(n)
      /\ LaneTypes' /\ DataTypes'
      /\ \A v \in Warps : Carrying(v)' = Carrying(v)
      /\ \A v \in Warps \ {w} : reserved'[v] = reserved[v]
      /\ UNCHANGED <<path, items, carried, waiting>>
      /\ \A r \in Queues \ {n} : count'[r] = count[r]
    BY <1>1, ReserveKeepsOutput
<1>3. count'[q] = count[q] /\ ActivePaths' = ActivePaths
    BY <1>2 DEF ActivePaths
<1>4. CountsFit'
    <2>1. count'[n] <= Capacity
        BY <1>1, <1>2, OutputFitsNext DEF DataTypes
    <2> QED
        BY <1>2, <2>1 DEF CountsFit
<1>5. Accounted(q, U, n, d)'
    BY <1>2, <1>3 DEF Accounted, e
<1> QED
    BY <1>2, <1>3, <1>4, <1>5

\* A store neither.
LEMMA StoreKeepsAccounted ==
    ASSUME DataTypes, LaneTypes, CountsFit, NEW w \in Warps,
           NEW q \in Queues, NEW n \in Queues, q # n, NEW d \in Nat, NEW U,
           Accounted(q, U, n, d),
           place[w] = "storing", Store(w, n),
           NEW x \in Places \ {"storing"}, place' = [place EXCEPT ![w] = x]
    PROVE  /\ Accounted(q, U, n, d)'
           /\ LaneTypes' /\ DataTypes' /\ CountsFit'
           /\ Carrying(w)' = Carrying(w) \ reserved[w].group
           /\ waiting'[w] = waiting[w] \ reserved[w].group
           /\ \A v \in Warps \ {w} : /\ Carrying(v)' = Carrying(v)
                                     /\ waiting'[v] = waiting[v] /\ reserved'[v] = reserved[v]
           /\ path' = path /\ count' = count
<1> DEFINE e == d + 1
<1>1. e \in Nat /\ OutputExact(n, e) /\ count[n] <= Capacity
    BY DEF Accounted, CountsFit
<1> HIDE DEF e
<1>2. /\ OutputExact(n, e)' /\ Held(n)' = Held(n)
      /\ LaneTypes' /\ DataTypes'
      /\ Carrying(w)' = Carrying(w) \ reserved[w].group
      /\ \A v \in Warps \ {w} : Carrying(v)' = Carrying(v)
      /\ waiting' = [waiting EXCEPT ![w] = @ \ reserved[w].group]
      /\ \A v \in Warps \ {w} : reserved'[v] = reserved[v]
      /\ path' = path /\ count' = count
      /\ \A r \in Queues \ {n} : items'[r] = items[r]
    BY <1>1, StoreKeepsOutput
<1>3. items'[q] = items[q] /\ ActivePaths' = ActivePaths
      /\ waiting'[w] = waiting[w] \ reserved[w].group
      /\ \A v \in Warps \ {w} : waiting'[v] = waiting[v]
    BY <1>2 DEF ActivePaths, LaneTypes
<1>4. Accounted(q, U, n, d)'
    BY <1>2, <1>3 DEF Accounted, e
<1>5. CountsFit'
    BY <1>2 DEF CountsFit
<1> QED
    BY <1>2, <1>3, <1>4, <1>5
\* The threads of a warp that have one of the n items from `start` on.
Working(w, start, n) == {k \in Threads(w) : start + k < n}

\* The items of a chunk are of different active paths at depth d.
ChunkActive(w, q, start, n, d) ==
    /\ \A k \in Working(w, start, n) : /\ items[q][start + k] \in ActivePaths
                                       /\ path[items[q][start + k]].depth = d
    /\ \A k, l \in Working(w, start, n) : items[q][start + k] = items[q][start + l] => k = l

\* What shading a chunk does to each path, if those in S go on.
ChunkShaded(w, q, start, n, d, S) ==
    LET pathOf(k) == items[q][start + k]
        working == Working(w, start, n)
    IN  /\ S # {} => d + 1 < MaxDepth
        /\ path' \in [Slots -> [pixel : Nat \X Nat, depth : Nat, active : BOOLEAN]]
        /\ \A k \in S : path'[pathOf(k)].active /\ path'[pathOf(k)].depth = d + 1
        /\ \A k \in working \ S : ~path'[pathOf(k)].active
        /\ \A p \in Slots : (\A k \in working : pathOf(k) # p) =>
              path'[p].active = path[p].active /\ path'[p].depth = path[p].depth
        /\ carried' = [carried EXCEPT ![w] = [k \in Threads(w) |->
              IF k \in S THEN pathOf(k) ELSE NoPath]]
        /\ waiting' = [waiting EXCEPT ![w] = Threads(w)]
        /\ UNCHANGED <<tile, sampleIndex, items, count, reserved>>
        /\ \A p \in Slots : path'[p].pixel = path[p].pixel
        /\ framebuffer' = [pixel \in Pixels |-> framebuffer[pixel] +
              Cardinality({k \in working \ S : path[pathOf(k)].pixel = pixel})]

LEMMA ShadedPaths ==
    ASSUME DataTypes, NEW w \in Warps, NEW q \in Queues, NEW start \in Nat, NEW n \in Nat,
           NEW d \in Nat,
           ChunkActive(w, q, start, n, d), Shade(w, q, start, n)
    PROVE  \E S \in SUBSET Working(w, start, n) : ChunkShaded(w, q, start, n, d, S)
<1> DEFINE working == Working(w, start, n)
           pathOf(k) == items[q][start + k]
<1>1. PICK S \in SUBSET {k \in working : MayContinue(pathOf(k))} :
        /\ path' = [p \in Slots |->
             [path[p] EXCEPT
                !.depth = @ + Cardinality({k \in S : pathOf(k) = p}),
                !.active = @ /\ \A k \in working \ S : pathOf(k) # p]]
        /\ carried' = [carried EXCEPT ![w] = [k \in Threads(w) |->
             IF k \in S THEN pathOf(k) ELSE NoPath]]
        /\ waiting' = [waiting EXCEPT ![w] = Threads(w)]
        /\ UNCHANGED <<tile, sampleIndex, items, count, reserved>>
        /\ framebuffer' = [pixel \in Pixels |-> framebuffer[pixel] +
             Cardinality({k \in working \ S : path[pathOf(k)].pixel = pixel})]
    BY DEF Shade, Working
<1>2. working \subseteq Threads(w) /\ MaxDepth \in Nat
    BY SizesArePositive DEF Working
<1>3. \A k \in working : pathOf(k) \in ActivePaths /\ path[pathOf(k)].depth = d
    BY DEF ChunkActive
<1>4. \A k, l \in working : pathOf(k) = pathOf(l) => k = l
    BY DEF ChunkActive
<1> HIDE DEF working
<1>5. S # {} => d + 1 < MaxDepth
    BY <1>3 DEF MayContinue
<1> DEFINE more(p) == Cardinality({k \in S : pathOf(k) = p})
           goesOn(p) == \A k \in working \ S : pathOf(k) # p
<1>6. /\ \A k \in S : more(pathOf(k)) = 1
      /\ \A p : (\A k \in working : pathOf(k) # p) => more(p) = 0
      /\ \A p : more(p) \in Nat
    <2>1. ASSUME NEW k \in S
          PROVE  more(pathOf(k)) = 1
        <3>1. {l \in S : pathOf(l) = pathOf(k)} = {k}
            BY <1>4
        <3> QED
            BY <3>1, FS_Singleton
    <2>2. ASSUME NEW p, \A k \in working : pathOf(k) # p
          PROVE  more(p) = 0
        <3>1. {l \in S : pathOf(l) = p} = {}
            BY <2>2
        <3> QED
            BY <3>1, FS_EmptySet
    <2>3. ASSUME NEW p
          PROVE  more(p) \in Nat
        <3>1. {l \in S : pathOf(l) = p} \in SUBSET Threads(w)
            BY <1>2
        <3> QED
            BY <3>1, ThreadsOfABlock, FS_Subset, FS_CardinalityType
    <2> QED
        BY <2>1, <2>2, <2>3
<1>7. path' = [p \in Slots |-> [path[p] EXCEPT !.depth = @ + more(p),
    !.active = @ /\ goesOn(p)]]
    BY <1>1
<1> HIDE DEF more, goesOn
<1>8. \A p \in Slots : /\ path[p] \in [pixel : Nat \X Nat, depth : Nat, active : BOOLEAN]
                       /\ path'[p].depth = path[p].depth + more(p)
                       /\ path'[p].active = (path[p].active /\ goesOn(p))
                       /\ path'[p].pixel = path[p].pixel
                       /\ path'[p] \in [pixel : Nat \X Nat, depth : Nat, active : BOOLEAN]
    <2> SUFFICES ASSUME NEW p \in Slots
                 PROVE  /\ path[p] \in [pixel : Nat \X Nat, depth : Nat, active : BOOLEAN]
                        /\ path'[p].depth = path[p].depth + more(p)
                        /\ path'[p].active = (path[p].active /\ goesOn(p))
                        /\ path'[p].pixel = path[p].pixel
                        /\ path'[p] \in [pixel : Nat \X Nat, depth : Nat, active : BOOLEAN]
        OBVIOUS
    <2>1. path[p] \in [pixel : Nat \X Nat, depth : Nat, active : BOOLEAN]
        BY DEF DataTypes, PathTypes
    <2> DEFINE e == path[p].depth + more(p)
               a == path[p].active /\ goesOn(p)
    <2>2. e \in Nat /\ a \in BOOLEAN
        BY <1>6, <2>1 DEF goesOn
    <2>3. path'[p] = [path[p] EXCEPT !.depth = e, !.active = a]
        BY <1>7
    <2> HIDE DEF e, a
    <2>4. path'[p].depth = e /\ path'[p].active = a /\ path'[p].pixel = path[p].pixel
        BY <2>1, <2>3
    <2>5. path'[p] \in [pixel : Nat \X Nat, depth : Nat, active : BOOLEAN]
        BY <2>1, <2>2, <2>3
    <2> QED
        BY <2>1, <2>4, <2>5 DEF e, a
<1>9. \A k \in working : pathOf(k) \in Slots /\ path[pathOf(k)].active
    BY <1>3 DEF ActivePaths
<1>10. /\ path' \in [Slots -> [pixel : Nat \X Nat, depth : Nat, active : BOOLEAN]]
       /\ \A k \in S : path'[pathOf(k)].active /\ path'[pathOf(k)].depth = d + 1
       /\ \A k \in working \ S : ~path'[pathOf(k)].active
       /\ \A p \in Slots : (\A k \in working : pathOf(k) # p) =>
             path'[p].active = path[p].active /\ path'[p].depth = path[p].depth
    <2>1. path' \in [Slots -> [pixel : Nat \X Nat, depth : Nat, active : BOOLEAN]]
        BY <1>7, <1>8
    <2>2. ASSUME NEW k \in S
          PROVE  path'[pathOf(k)].active /\ path'[pathOf(k)].depth = d + 1
        <3>1. goesOn(pathOf(k))
            BY <1>4 DEF goesOn
        <3> QED
            BY <1>2, <1>3, <1>6, <1>8, <1>9, <3>1
    <2>3. ASSUME NEW k \in working \ S
          PROVE  ~path'[pathOf(k)].active
        <3>1. ~goesOn(pathOf(k))
            BY DEF goesOn
        <3> QED
            BY <1>8, <1>9, <3>1
    <2>4. ASSUME NEW p \in Slots, \A k \in working : pathOf(k) # p
          PROVE  path'[p].active = path[p].active /\ path'[p].depth = path[p].depth
        <3>1. goesOn(p) /\ more(p) = 0
            BY <1>6, <2>4 DEF goesOn
        <3>2. path[p].active \in BOOLEAN /\ path[p].depth \in Nat
            BY <1>8
        <3> QED
            BY <1>8, <3>1, <3>2
    <2> QED
        BY <2>1, <2>2, <2>3, <2>4
<1>11. \A p \in Slots : path'[p].pixel = path[p].pixel
    BY <1>8
<1>12. /\ carried' = [carried EXCEPT ![w] = [k \in Threads(w) |->
                   IF k \in S THEN pathOf(k) ELSE NoPath]]
       /\ waiting' = [waiting EXCEPT ![w] = Threads(w)]
       /\ UNCHANGED <<tile, sampleIndex, items, count, reserved>>
       /\ framebuffer' = [pixel \in Pixels |-> framebuffer[pixel] +
                   Cardinality({k \in working \ S : path[pathOf(k)].pixel = pixel})]
       /\ S \in SUBSET working
    BY <1>1
<1> QED
    BY <1>5, <1>10, <1>11, <1>12 DEF working, ChunkShaded
\* A warp that shades takes the paths of its items out of those to be shaded, and
\* carries the ones that go on to the output.
LEMMA ShadeKeepsAccounted ==
    ASSUME DataTypes, LaneTypes, NEW w \in Warps,
           NEW q \in Queues, NEW n \in Queues, q # n, NEW d \in Nat,
           NEW start \in Nat, NEW U \in SUBSET (0..count[q] - 1),
           NEW V, V = {i \in U : \A k \in Threads(w) : i # start + k},
           Accounted(q, U, n, d), Carrying(w) = {}, place[w] # "storing",
           \A k \in Working(w, start, count[q]) : start + k \in U,
           Shade(w, q, start, count[q]), place' = [place EXCEPT ![w] = "reserving"]
    PROVE  /\ Accounted(q, V, n, d)'
           /\ LaneTypes' /\ DataTypes'
           /\ ChunkActive(w, q, start, count[q], d)
           /\ \A v \in Warps \ {w} : /\ Carrying(v)' = Carrying(v)
                                     /\ waiting'[v] = waiting[v] /\ reserved'[v] = reserved[v]
           /\ waiting'[w] = Threads(w)
           /\ UNCHANGED <<tile, sampleIndex, items, count>>
<1> DEFINE working == Working(w, start, count[q])
           pathOf(k) == items[q][start + k]
<1>1. /\ NoPath \notin Slots /\ ActivePaths \subseteq Slots /\ count[q] \in Nat
      /\ working \subseteq Threads(w) /\ \A k \in Threads(w) : k \in Nat
    BY QueueAssumption, ThreadsOfABlock DEF ActivePaths, Slots, DataTypes, Working
<1>2. /\ OutputExact(n, d + 1) /\ Carrying(w) = {}
      /\ \A i, j \in 0..count[q] - 1 : items[q][i] = items[q][j] => i = j
      /\ \A i \in U : items[q][i] \in ActivePaths /\ path[items[q][i]].depth = d
      /\ \A p \in ActivePaths : p \in Held(n) \/ \E i \in U : items[q][i] = p
    BY DEF Accounted
<1>3. ChunkActive(w, q, start, count[q], d)
    <2>1. \A k, l \in working : pathOf(k) = pathOf(l) => k = l
        <3> SUFFICES ASSUME NEW k \in working, NEW l \in working, pathOf(k) = pathOf(l)
                     PROVE  k = l
            OBVIOUS
        <3>1. start + k = start + l
            BY <1>2
        <3>2. k \in Nat /\ l \in Nat
            BY <1>1
        <3> QED
            BY <3>1, <3>2
    <2> QED
        BY <1>2, <2>1 DEF ChunkActive
<1>4. PICK S \in SUBSET working : ChunkShaded(w, q, start, count[q], d, S)
    BY <1>3, <1>1, ShadedPaths
<1>5. /\ S # {} => d + 1 < MaxDepth
      /\ path' \in [Slots -> [pixel : Nat \X Nat, depth : Nat, active : BOOLEAN]]
      /\ \A k \in S : path'[pathOf(k)].active /\ path'[pathOf(k)].depth = d + 1
      /\ \A k \in working \ S : ~path'[pathOf(k)].active
      /\ \A p \in Slots : (\A k \in working : pathOf(k) # p) =>
            path'[p].active = path[p].active /\ path'[p].depth = path[p].depth
      /\ carried' = [carried EXCEPT ![w] = [k \in Threads(w) |->
            IF k \in S THEN pathOf(k) ELSE NoPath]]
      /\ waiting' = [waiting EXCEPT ![w] = Threads(w)]
      /\ UNCHANGED <<tile, sampleIndex, items, count, reserved>>
      /\ \A p \in Slots : path'[p].pixel = path[p].pixel
      /\ framebuffer' = [pixel \in Pixels |-> framebuffer[pixel] +
            Cardinality({k \in working \ S : path[pathOf(k)].pixel = pixel})]
    BY <1>4 DEF ChunkShaded
<1>6. /\ \A k \in working : pathOf(k) \in ActivePaths /\ path[pathOf(k)].depth = d
      /\ \A k, l \in working : pathOf(k) = pathOf(l) => k = l
    BY <1>3 DEF ChunkActive
<1>7. /\ \A v \in Warps \ {w} : /\ carried'[v] = carried[v] /\ reserved'[v] = reserved[v]
                                /\ place'[v] = place[v] /\ waiting'[v] = waiting[v]
      /\ place'[w] = "reserving" /\ waiting'[w] = Threads(w) /\ reserved'[w] = reserved[w]
      /\ carried'[w] = [k \in Threads(w) |-> IF k \in S THEN pathOf(k) ELSE NoPath]
    BY <1>5 DEF LaneTypes
<1>8. \A k \in S : pathOf(k) \in Slots /\ pathOf(k) # NoPath
    BY <1>6, <1>1
<1>9. /\ Carrying(w)' = S
      /\ \A v \in Warps \ {w} : Carrying(v)' = Carrying(v) /\ Placed(v)' = Placed(v)
    BY <1>1, <1>7, <1>8 DEF Carrying, Placed, Appending
<1>10. DataTypes' /\ LaneTypes'
    <2>1. DataTypes'
        BY <1>5 DEF DataTypes, PathTypes
    <2>2. place' \in [Warps -> Places]
        BY DEF LaneTypes, Places
    <2>3. \A v \in Warps : /\ carried'[v] \in [Threads(v) -> Slots \cup {NoPath}]
                           /\ waiting'[v] \subseteq Threads(v)
                           /\ reserved'[v] \in [base : Nat, group : SUBSET Threads(v)]
        BY <1>7, <1>8 DEF LaneTypes
    <2> QED
        BY <1>5, <2>1, <2>2, <2>3 DEF LaneTypes
\* The paths that w does not shade.
<1>11. ASSUME NEW p \in ActivePaths, path[p].depth # d \/ \A k \in working : pathOf(k) # p
       PROVE  p \in ActivePaths' /\ path'[p].depth = path[p].depth
    <2>1. \A k \in working : pathOf(k) # p
        BY <1>6, <1>11
    <2> QED
        BY <1>5, <1>1, <2>1 DEF ActivePaths
<1>12. \A p \in ActivePaths' : p \in ActivePaths
    <2> SUFFICES ASSUME NEW p \in ActivePaths', p \notin ActivePaths
                 PROVE  FALSE
        OBVIOUS
    <2>1. p \in Slots /\ path'[p].active /\ ~path[p].active
        BY DEF ActivePaths
    <2>2. \A k \in working : pathOf(k) # p
        BY <1>6
    <2> QED
        BY <1>5, <2>1, <2>2
<1> HIDE DEF working, pathOf
<1>13. \A v \in Warps : \A k : place[v] = "storing" => SlotOf(v, k)' = SlotOf(v, k)
    <2> SUFFICES ASSUME NEW v \in Warps \ {w}, NEW k
                 PROVE  SlotOf(v, k)' = SlotOf(v, k)
        OBVIOUS
    <2>1. reserved'[v] = reserved[v] /\ Placed(v)' = Placed(v)
        BY <1>7, <1>9
    <2> QED
        BY <2>1 DEF SlotOf, Rank
<1>14. Stored(n)' = Stored(n)
    <2>1. \A i : Pending(i)' <=> Pending(i)
        BY <1>6, <1>7, <1>9, <1>13 DEF Pending
    <2> QED
        BY <1>5, <1>7, <2>1 DEF Stored
<1>15. \A k \in S : /\ carried'[w][k] = pathOf(k) /\ pathOf(k) \in ActivePaths
                    /\ pathOf(k) \in ActivePaths'
                    /\ path[pathOf(k)].depth = d /\ path'[pathOf(k)].depth = d + 1
    BY <1>6, <1>5, <1>1, <1>7 DEF ActivePaths
<1>16. /\ \A i \in Stored(n) : items[n][i] \in ActivePaths /\ path[items[n][i]].depth = d + 1
       /\ \A v \in Warps : \A k \in Carrying(v) :
             carried[v][k] \in ActivePaths /\ path[carried[v][k]].depth = d + 1
    BY <1>2 DEF OutputExact
<1>17. d + 1 # d
    BY <1>1
<1>18. OutputExact(n, d + 1)'
    <2>1. \A v \in Warps : place'[v] = "storing" =>
             \A k \in Placed(v)' : SlotOf(v, k)' \in 0..count'[n] - 1
        BY <1>5, <1>2, <1>7, <1>9, <1>13 DEF OutputExact
    <2>2. \A u, v \in Warps : place'[u] = "storing" /\ place'[v] = "storing" =>
             \A k \in Placed(u)', l \in Placed(v)' :
                SlotOf(u, k)' = SlotOf(v, l)' => u = v /\ k = l
        <3>1. ASSUME NEW u \in Warps \ {w}, NEW v \in Warps \ {w},
                     place[u] = "storing", place[v] = "storing",
                     NEW k \in Placed(u), NEW l \in Placed(v), SlotOf(u, k)' = SlotOf(v, l)'
              PROVE  u = v /\ k = l
            BY <1>2, <1>13, <3>1 DEF OutputExact
        <3> QED
            BY <1>7, <1>9, <3>1
    <2>3. \A i \in Stored(n)' : items'[n][i] \in ActivePaths' /\ path'[items'[n][i]].depth = d + 1
        BY <1>5, <1>11, <1>14, <1>16, <1>17
    <2>4. \A i, j \in Stored(n)' : items'[n][i] = items'[n][j] => i = j
        BY <1>5, <1>2, <1>14 DEF OutputExact
    <2>5. \A v \in Warps : \A k \in Carrying(v)' :
             carried'[v][k] \in ActivePaths' /\ path'[carried'[v][k]].depth = d + 1
        <3>1. ASSUME NEW v \in Warps \ {w}, NEW k \in Carrying(v)
              PROVE  carried[v][k] \in ActivePaths' /\ path'[carried[v][k]].depth = d + 1
            BY <1>11, <1>16, <1>17
        <3>2. ASSUME NEW v \in Warps, NEW k \in Carrying(v)'
              PROVE  carried'[v][k] \in ActivePaths' /\ path'[carried'[v][k]].depth = d + 1
            <4>1. CASE v = w
                BY <1>9, <1>15, <4>1
            <4>2. CASE v # w
                BY <1>7, <1>9, <3>1, <4>2
            <4> QED
                BY <4>1, <4>2
        <3> QED
            BY <3>2
    <2>6. \A u, v \in Warps : \A k \in Carrying(u)', l \in Carrying(v)' :
             carried'[u][k] = carried'[v][l] => u = v /\ k = l
        <3>1. \A u, v \in Warps \ {w} : \A k \in Carrying(u), l \in Carrying(v) :
                 carried[u][k] = carried[v][l] => u = v /\ k = l
            BY <1>2 DEF OutputExact
        <3>2. \A k, l \in S : pathOf(k) = pathOf(l) => k = l
            BY <1>6
        <3>3. \A v \in Warps \ {w} : \A k \in Carrying(v), l \in S : carried[v][k] # pathOf(l)
            BY <1>15, <1>16, <1>17
        <3> QED
            BY <1>7, <1>9, <1>15, <3>1, <3>2, <3>3
    <2>7. \A v \in Warps : \A k \in Carrying(v)',
        i \in Stored(n)' : carried'[v][k] # items'[n][i]
        <3>1. \A v \in Warps \ {w} : \A k \in Carrying(v), i \in Stored(n) :
                 carried[v][k] # items[n][i]
            BY <1>2 DEF OutputExact
        <3>2. \A k \in S, i \in Stored(n) : pathOf(k) # items[n][i]
            BY <1>15, <1>16, <1>17
        <3> QED
            BY <1>5, <1>7, <1>9, <1>14, <1>15, <3>1, <3>2
    <2> QED
        BY <1>7, <2>1, <2>2, <2>3, <2>4, <2>5, <2>6, <2>7 DEF OutputExact
<1>19. /\ Held(n) \subseteq Held(n)'
       /\ \A k \in S : pathOf(k) \in Held(n)'
       /\ Held(n)' # {} => Held(n) # {} \/ S # {}
    <2>1. \A p : (\E i \in Stored(n)' : items'[n][i] = p) <=> (\E i \in Stored(n) : items[n][i] = p)
        BY <1>5, <1>14
    <2>2. \A p : (\E v \in Warps : \E k \in Carrying(v) : carried[v][k] = p) =>
                 (\E v \in Warps : \E k \in Carrying(v)' : carried'[v][k] = p)
        BY <1>2, <1>7, <1>9
    <2>3. \A k \in S : \E v \in Warps : \E l \in Carrying(v)' : carried'[v][l] = pathOf(k)
        BY <1>9, <1>15
    <2>4. \A p : (\E v \in Warps : \E k \in Carrying(v)' : carried'[v][k] = p) =>
                 \/ \E v \in Warps : \E k \in Carrying(v) : carried[v][k] = p
                 \/ S # {}
        BY <1>7, <1>9
    <2> QED
        <3>1. Held(n)' = {p \in Slots :
                 \/ \E i \in Stored(n)' : items'[n][i] = p
                 \/ \E v \in Warps : \E k \in Carrying(v)' : carried'[v][k] = p}
            BY <1>7 DEF Held
        <3>2. Held(n) = {p \in Slots :
                 \/ \E i \in Stored(n) : items[n][i] = p
                 \/ \E v \in Warps : \E k \in Carrying(v) : carried[v][k] = p}
            BY DEF Held
        <3>3. \A k \in S : pathOf(k) \in Slots
            BY <1>1, <1>15
        <3>4. Held(n) \subseteq Held(n)'
            BY <2>1, <2>2, <3>1, <3>2
        <3>5. \A k \in S : pathOf(k) \in Held(n)'
            BY <2>3, <3>1, <3>3
        <3>6. Held(n)' # {} => Held(n) # {} \/ S # {}
            BY <2>1, <2>4, <3>1, <3>2
        <3> QED
            BY <3>4, <3>5, <3>6
<1>20. \A k \in working : start + k \in 0..count[q] - 1
    BY DEF working
<1>21. \A i \in U : i \in V \/ \E k \in working : i = start + k
    <2> SUFFICES ASSUME NEW i \in U, NEW k \in Threads(w), i = start + k
                 PROVE  k \in working
        BY DEF working
    <2> QED
        BY <1>1 DEF working, Working
<1>22. \A i \in V : items'[q][i] \in ActivePaths' /\ path'[items'[q][i]].depth = d
    <2> SUFFICES ASSUME NEW i \in V
                 PROVE  items[q][i] \in ActivePaths' /\ path'[items[q][i]].depth = d
        BY <1>5
    <2>1. \A k \in working : pathOf(k) # items[q][i]
        <3> SUFFICES ASSUME NEW k \in working, pathOf(k) = items[q][i]
                     PROVE  FALSE
            OBVIOUS
        <3>1. start + k = i
            BY <1>2, <1>20 DEF pathOf
        <3> QED
            BY <1>1, <3>1
    <2> QED
        BY <1>2, <1>11, <2>1
<1>23. \A p \in ActivePaths' : p \in Held(n)' \/ \E i \in V : items'[q][i] = p
    <2> SUFFICES ASSUME NEW p \in ActivePaths', p \notin Held(n)
                 PROVE  p \in Held(n)' \/ \E i \in V : items[q][i] = p
        BY <1>5, <1>19
    <2>1. PICK i \in U : items[q][i] = p
        BY <1>2, <1>12
    <2>2. CASE i \in V
        BY <2>1, <2>2
    <2>3. CASE \E k \in working : i = start + k
        <3>1. PICK k \in working : p = pathOf(k)
            BY <2>1, <2>3 DEF pathOf
        <3>2. path'[p].active
            BY DEF ActivePaths
        <3>3. k \in S
            BY <1>5, <3>1, <3>2
        <3> QED
            BY <1>19, <3>1, <3>3
    <2> QED
        BY <1>21, <2>2, <2>3
<1>24. Accounted(q, V, n, d)'
    <2>1. Held(n)' # {} => d + 1 < MaxDepth
        BY <1>5, <1>19 DEF Accounted
    <2>2. \A i, j \in 0..count'[q] - 1 : items'[q][i] = items'[q][j] => i = j
        BY <1>5, <1>2
    <2> QED
        BY <1>18, <1>22, <1>23, <2>1, <2>2 DEF Accounted
<1> QED
    BY <1>3, <1>5, <1>7, <1>9, <1>10, <1>24
-----------------------------------------------------------------------------
(* What has been added to the pixels.                                      *)

LEMMA TilesAndPixels ==
    /\ LastTile \in Nat /\ Tiles = 1..LastTile
    /\ \A t \in Tiles : TilePixels[t] \in Nat /\ TilePixels[t] <= Capacity
    /\ \A pixel \in Pixels : \E t \in Tiles : \E i \in 0..TilePixels[t] - 1 : pixel = <<t, i>>
    /\ \A t \in Tiles : \A i \in 0..TilePixels[t] - 1 : <<t, i>> \in Pixels
    /\ \A t \in Tiles : PixelsOf(t) \subseteq Pixels
<1>1. LastTile \in Nat /\ Tiles = 1..LastTile
    BY TileAssumption DEF Tiles, LastTile
<1>2. \A t \in Tiles : TilePixels[t] \in Nat /\ TilePixels[t] <= Capacity
    <2>1. \A t \in Tiles : TilePixels[t] \in Nat
        BY TileAssumption DEF Tiles
    <2> QED
        BY <2>1, QueueAssumption
<1>3. \A t \in Tiles : PixelsOf(t) \subseteq Pixels
    BY DEF Pixels
<1>4. \A t \in Tiles : \A i \in 0..TilePixels[t] - 1 : <<t, i>> \in Pixels
    BY <1>3 DEF PixelsOf
<1>5. ASSUME NEW pixel \in Pixels
      PROVE  \E t \in Tiles : \E i \in 0..TilePixels[t] - 1 : pixel = <<t, i>>
    <2>1. PICK t \in Tiles : pixel \in PixelsOf(t)
        BY DEF Pixels
    <2> QED
        BY <2>1 DEF PixelsOf
<1> QED
    BY <1>1, <1>2, <1>3, <1>4, <1>5

\* A path of a tile is that of the pixel with its number.
PathsOfTile ==
    \A p \in ActivePaths : path[p].pixel = <<tile, p>> /\ p < TilePixels[tile]

\* While a tile is drained, the pixels that have had their path's radiance are those
\* whose path has ended.
PixelShaded(pixel) ==
    \/ pixel[1] < tile
    \/ pixel[1] = tile /\ pixel[2] \notin ActivePaths

AddedWhenShaded ==
    framebuffer = [pixel \in Pixels |->
        IF PixelShaded(pixel) THEN sampleIndex + 1 ELSE sampleIndex]

\* Each path that ends is of another pixel, which had not had its radiance yet.
LEMMA ShadeEndsPaths ==
    ASSUME DataTypes, NEW w \in Warps, NEW q \in Queues, NEW start \in Nat, NEW n \in Nat,
           NEW d \in Nat,
           ChunkActive(w, q, start, n, d), Shade(w, q, start, n),
           tile \in Tiles, sampleIndex \in Nat, PathsOfTile, AddedWhenShaded
    PROVE  PathsOfTile' /\ AddedWhenShaded' /\ [LedgerNext]_ledgerVars
<1> DEFINE working == Working(w, start, n)
           pathOf(k) == items[q][start + k]
<1>1. tile \in Tiles /\ tile \in Nat /\ tile > 0 /\ sampleIndex \in Nat
    BY TilesAndPixels
<1>2. PICK S \in SUBSET working : ChunkShaded(w, q, start, n, d, S)
    BY ShadedPaths
<1>3. /\ UNCHANGED <<tile, sampleIndex>>
      /\ \A k \in S : path'[pathOf(k)].active
      /\ \A k \in working \ S : ~path'[pathOf(k)].active
      /\ \A p \in Slots : (\A k \in working : pathOf(k) # p) => path'[p].active = path[p].active
      /\ \A p \in Slots : path'[p].pixel = path[p].pixel
      /\ framebuffer' = [pixel \in Pixels |-> framebuffer[pixel] +
            Cardinality({k \in working \ S : path[pathOf(k)].pixel = pixel})]
      /\ \A k \in working : pathOf(k) \in ActivePaths
      /\ \A k, l \in working : pathOf(k) = pathOf(l) => k = l
    BY <1>2 DEF ChunkShaded, ChunkActive
<1> HIDE DEF working, pathOf
<1> DEFINE ending == {pathOf(k) : k \in working \ S}
           ended == {<<tile, p>> : p \in ending}
<1>4. /\ ActivePaths \subseteq Slots /\ ending \subseteq ActivePaths
      /\ \A p \in ActivePaths : path[p].pixel = <<tile, p>> /\ p \in 0..TilePixels[tile] - 1
    <2>1. ActivePaths \subseteq Slots /\ ending \subseteq ActivePaths
        BY <1>3 DEF ActivePaths
    <2> QED
        BY <1>1, <2>1, TilesAndPixels DEF PathsOfTile, Slots
<1>5. ActivePaths' = ActivePaths \ ending
    <2>1. ASSUME NEW p \in Slots
          PROVE  p \in ActivePaths' <=> p \in ActivePaths /\ p \notin ending
        <3>1. CASE \A k \in working : pathOf(k) # p
            BY <1>3, <3>1 DEF ActivePaths
        <3>2. CASE \E k \in S : pathOf(k) = p
            BY <1>3, <3>2 DEF ActivePaths
        <3>3. CASE \E k \in working \ S : pathOf(k) = p
            BY <1>3, <3>3 DEF ActivePaths
        <3> QED
            BY <3>1, <3>2, <3>3
    <2> QED
        BY <1>4, <2>1 DEF ActivePaths
<1>6. ASSUME NEW pixel \in Pixels
      PROVE  Cardinality({k \in working \ S : path[pathOf(k)].pixel = pixel}) =
                IF pixel \in ended THEN 1 ELSE 0
    <2> DEFINE K == {k \in working \ S : path[pathOf(k)].pixel = pixel}
    <2>1. CASE pixel \in ended
        <3>1. PICK k \in working \ S : pixel = <<tile, pathOf(k)>>
            BY <2>1
        <3>2. K = {k}
            BY <1>3, <1>4, <3>1
        <3> QED
            BY <2>1, <3>2, FS_Singleton
    <2>2. CASE pixel \notin ended
        <3>1. ASSUME NEW k \in working \ S
              PROVE  path[pathOf(k)].pixel # pixel
            <4>1. pathOf(k) \in ending
                OBVIOUS
            <4>2. <<tile, pathOf(k)>> \in ended
                BY <4>1
            <4>3. path[pathOf(k)].pixel = <<tile, pathOf(k)>>
                BY <1>4, <4>1
            <4> QED
                BY <2>2, <4>2, <4>3
        <3>2. K = {}
            BY <3>1
        <3> QED
            BY <2>2, <3>2, FS_EmptySet
    <2> QED
        BY <2>1, <2>2
<1> HIDE DEF ending
<1>7. ended \subseteq PixelsOf(tile) /\ ended \subseteq Pixels
    <2>1. ended \subseteq PixelsOf(tile)
        BY <1>4 DEF PixelsOf
    <2> QED
        BY <1>1, <2>1, TilesAndPixels
<1>8. \A pixel \in ended : /\ pixel[1] = tile /\ pixel[2] \in ending
                           /\ ~PixelShaded(pixel) /\ PixelShaded(pixel)'
    <2> SUFFICES ASSUME NEW p \in ending
                 PROVE  ~PixelShaded(<<tile, p>>) /\ PixelShaded(<<tile, p>>)'
        BY <1>1, <1>3
    <2>1. p \in ActivePaths /\ p \notin ActivePaths'
        BY <1>4, <1>5
    <2> QED
        BY <1>1, <1>3, <2>1 DEF PixelShaded
<1>9. \A pixel \in Pixels \ ended : PixelShaded(pixel)' <=> PixelShaded(pixel)
    <2> SUFFICES ASSUME NEW pixel \in Pixels \ ended
                 PROVE  PixelShaded(pixel)' <=> PixelShaded(pixel)
        OBVIOUS
    <2>1. pixel[1] = tile => pixel[2] \notin ending
        <3>1. pixel = <<pixel[1], pixel[2]>>
            BY TilesAndPixels
        <3> QED
            BY <3>1
    <2> QED
        BY <1>1, <1>3, <1>5, <2>1 DEF PixelShaded
<1> HIDE DEF ended
<1>10. framebuffer \in [Pixels -> Nat] /\ \A pixel \in ended : framebuffer[pixel] = sampleIndex
    BY <1>1, <1>7, <1>8 DEF AddedWhenShaded
<1>11. framebuffer' = [pixel \in Pixels |->
              IF pixel \in ended THEN sampleIndex + 1 ELSE framebuffer[pixel]]
    BY <1>1, <1>3, <1>6, <1>7, <1>10
<1>12. AddedWhenShaded'
    BY <1>1, <1>3, <1>8, <1>9, <1>11 DEF AddedWhenShaded
<1>13. PathsOfTile'
    BY <1>1, <1>3, <1>4, <1>5 DEF PathsOfTile
<1>14. [LedgerNext]_ledgerVars
    <2>1. CASE ended = {}
        <3>1. framebuffer' = framebuffer
            BY <1>10, <1>11, <2>1
        <3> QED
            BY <1>3, <3>1 DEF ledgerVars
    <2>2. CASE ended # {}
        <3>1. EndPaths
            <4>1. ended \in (SUBSET PixelsOf(tile)) \ {{}}
                BY <1>7, <2>2
            <4> QED
                BY <1>1, <1>3, <1>10, <1>11, <4>1 DEF EndPaths
        <3> QED
            BY <3>1 DEF LedgerNext
    <2> QED
        BY <2>1, <2>2
<1> QED
    BY <1>12, <1>13, <1>14
=============================================================================
