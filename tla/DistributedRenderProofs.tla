---------------------- MODULE DistributedRenderProofs -----------------------
(***************************************************************************)
(* Proofs about Coordinator, for every task table, set of workers, lease   *)
(* duration, clock lag and bound on the clock, and about DistributedRender *)
(* around it, for every number of workers and every way in which they      *)
(* share their IDs.                                                        *)
(*                                                                         *)
(* The inductive invariant IInv of the coordinator is preserved because    *)
(* every operation keeps the queue, the counter and the worker IDs in step *)
(* with the records, and because the one operation that adds to the        *)
(* framebuffer also completes the record it adds for. The facts about the  *)
(* queue come first, then those about samples, then one lemma per          *)
(* operation.                                                              *)
(*                                                                         *)
(* A step of one client or session leaves the others' conversations alone, *)
(* and what they know of the coordinator, that tasks are completed, stays  *)
(* true. So a lemma per action has only to look at the client it is about. *)
(***************************************************************************)
EXTENDS DistributedRender, FiniteSetTheorems, SequenceTheorems, TLAPS

IsDuplicateFree(q) == \A i, j \in DOMAIN q : i # j => q[i] # q[j]
-----------------------------------------------------------------------------
(* The queue.                                                              *)

\* Sets of tasks are finite, and no larger than the table.
LEMMA TaskSetsFinite ==
  ASSUME NEW S \in SUBSET Tasks
  PROVE  /\ IsFiniteSet(S)
         /\ Cardinality(S) \in 0..NumTasks
<1>1. IsFiniteSet(Tasks) /\ Cardinality(Tasks) = NumTasks
  BY FS_Interval, SizesAssumption DEF Tasks
<1> QED
  BY <1>1, FS_Subset, FS_CardinalityType, SizesAssumption

\* The index order of a set of tasks lists each of them once.
LEMMA IndexOrderLists ==
  ASSUME NEW S \in SUBSET Tasks, NEW q \in IndexOrder(S)
  PROVE  /\ q \in Seq(Tasks)
         /\ Range(q) = S
         /\ IsDuplicateFree(q)
<1>1. Cardinality(S) \in Nat
  BY TaskSetsFinite
<1>2. q \in [1..Cardinality(S) -> Tasks] /\ Range(q) = S
  BY DEF IndexOrder
<1>3. \A i, j \in DOMAIN q : i < j => q[i] < q[j]
  BY DEF IndexOrder
<1>4. q \in Seq(Tasks)
  BY <1>1, <1>2
<1>5. ASSUME NEW i \in DOMAIN q, NEW j \in DOMAIN q, i # j
      PROVE  q[i] # q[j]
  <2>1. i \in Nat /\ j \in Nat /\ q[i] \in Nat /\ q[j] \in Nat
    BY <1>1, <1>2 DEF Tasks
  <2>2. i < j \/ j < i
    BY <2>1, <1>5
  <2> QED
    BY <2>1, <2>2, <1>3
<1> QED
  BY <1>2, <1>4, <1>5 DEF IsDuplicateFree

\* push_back of tasks that are not in the queue keeps it free of duplicates.
LEMMA ConcatLists ==
  ASSUME NEW S, NEW p \in Seq(S), NEW q \in Seq(S),
         IsDuplicateFree(p), IsDuplicateFree(q), Range(p) \cap Range(q) = {}
  PROVE  /\ p \o q \in Seq(S)
         /\ Range(p \o q) = Range(p) \cup Range(q)
         /\ IsDuplicateFree(p \o q)
<1>1. /\ p \o q \in Seq(S)
      /\ Len(p \o q) = Len(p) + Len(q)
      /\ \A i \in 1..(Len(p) + Len(q)) :
            (p \o q)[i] = IF i <= Len(p) THEN p[i] ELSE q[i - Len(p)]
  BY ConcatProperties
<1>2. /\ Len(p) \in Nat /\ Len(q) \in Nat
      /\ DOMAIN p = 1..Len(p) /\ DOMAIN q = 1..Len(q)
      /\ DOMAIN (p \o q) = 1..(Len(p) + Len(q))
  BY <1>1, LenProperties
<1>3. \A i \in 1..Len(p) : (p \o q)[i] = p[i]
  BY <1>1, <1>2
<1>4. \A i \in 1..Len(q) : (p \o q)[i + Len(p)] = q[i]
  BY <1>1, <1>2
<1>5. Range(p \o q) = Range(p) \cup Range(q)
  <2>1. Range(p) \subseteq Range(p \o q)
    BY <1>2, <1>3 DEF Range
  <2>2. Range(q) \subseteq Range(p \o q)
    <3> SUFFICES ASSUME NEW i \in 1..Len(q)
                 PROVE  q[i] \in Range(p \o q)
      BY <1>2 DEF Range
    <3>1. i + Len(p) \in DOMAIN (p \o q)
      BY <1>2
    <3> QED
      BY <3>1, <1>4 DEF Range
  <2>3. Range(p \o q) \subseteq Range(p) \cup Range(q)
    <3> SUFFICES ASSUME NEW i \in 1..(Len(p) + Len(q))
                 PROVE  (p \o q)[i] \in Range(p) \cup Range(q)
      BY <1>2 DEF Range
    <3>1. CASE i <= Len(p)
      BY <3>1, <1>1, <1>2 DEF Range
    <3>2. CASE ~(i <= Len(p))
      <4>1. i - Len(p) \in DOMAIN q
        BY <3>2, <1>2
      <4> QED
        BY <4>1, <3>2, <1>1 DEF Range
    <3> QED
      BY <3>1, <3>2
  <2> QED
    BY <2>1, <2>2, <2>3
<1>6. IsDuplicateFree(p \o q)
  <2> SUFFICES ASSUME NEW i \in 1..(Len(p) + Len(q)), NEW j \in 1..(Len(p) + Len(q)), i # j
               PROVE  (p \o q)[i] # (p \o q)[j]
    BY <1>2 DEF IsDuplicateFree
  <2>1. \A k \in 1..(Len(p) + Len(q)) :
           \/ k <= Len(p) /\ k \in DOMAIN p /\ (p \o q)[k] = p[k]
           \/ Len(p) < k /\ (k - Len(p)) \in DOMAIN q /\ (p \o q)[k] = q[k - Len(p)]
    BY <1>1, <1>2
  <2>2. CASE i <= Len(p) /\ j <= Len(p)
    BY <1>2, <2>1, <2>2 DEF IsDuplicateFree
  <2>3. CASE Len(p) < i /\ Len(p) < j
    <3>1. /\ i - Len(p) \in DOMAIN q /\ j - Len(p) \in DOMAIN q
          /\ i - Len(p) # j - Len(p)
          /\ (p \o q)[i] = q[i - Len(p)] /\ (p \o q)[j] = q[j - Len(p)]
      BY <1>2, <2>1, <2>3
    <3> QED
      BY <3>1 DEF IsDuplicateFree
  <2>4. CASE i <= Len(p) /\ Len(p) < j
    BY <1>2, <2>1, <2>4 DEF Range
  <2>5. CASE Len(p) < i /\ j <= Len(p)
    <3>1. i - Len(p) \in DOMAIN q /\ (p \o q)[i] = q[i - Len(p)]
      BY <1>2, <2>1, <2>5
    <3>2. j \in DOMAIN p /\ (p \o q)[j] = p[j]
      BY <1>2, <2>1, <2>5
    <3>3. q[i - Len(p)] \in Range(q) /\ p[j] \in Range(p)
      BY <3>1, <3>2 DEF Range
    <3> QED
      BY <3>1, <3>2, <3>3
  <2> QED
    BY <1>2, <2>2, <2>3, <2>4, <2>5
<1> QED
  BY <1>1, <1>5, <1>6

\* pop_front takes exactly the front task out of the queue.
LEMMA TailLists ==
  ASSUME NEW S, NEW q \in Seq(S), q # <<>>, IsDuplicateFree(q)
  PROVE  /\ Head(q) \in Range(q) /\ Head(q) \in S
         /\ Tail(q) \in Seq(S)
         /\ Range(Tail(q)) = Range(q) \ {Head(q)}
         /\ IsDuplicateFree(Tail(q))
<1>1. /\ Len(q) \in Nat \ {0}
      /\ DOMAIN q = 1..Len(q)
      /\ Head(q) = q[1]
      /\ Tail(q) \in Seq(S)
      /\ Len(Tail(q)) = Len(q) - 1
      /\ \A i \in 1..(Len(q) - 1) : Tail(q)[i] = q[i + 1]
  BY LenProperties, HeadTailProperties, EmptySeq
<1>2. DOMAIN Tail(q) = 1..(Len(q) - 1)
  BY <1>1, LenProperties
<1>3. Head(q) \in Range(q) /\ Head(q) \in S
  BY <1>1 DEF Range
<1>4. Range(Tail(q)) = Range(q) \ {Head(q)}
  <2>1. ASSUME NEW i \in 1..(Len(q) - 1)
        PROVE  Tail(q)[i] \in Range(q) \ {Head(q)}
    <3>1. i + 1 \in DOMAIN q /\ 1 \in DOMAIN q /\ i + 1 # 1
      BY <1>1
    <3> QED
      BY <1>1, <3>1 DEF Range, IsDuplicateFree
  <2>2. ASSUME NEW i \in 1..Len(q), q[i] # Head(q)
        PROVE  q[i] \in Range(Tail(q))
    <3>1. i # 1
      BY <1>1, <2>2
    <3>2. i - 1 \in 1..(Len(q) - 1) /\ (i - 1) + 1 = i
      BY <1>1, <3>1
    <3> QED
      BY <1>1, <1>2, <3>2 DEF Range
  <2> QED
    BY <1>1, <1>2, <2>1, <2>2 DEF Range
<1>5. IsDuplicateFree(Tail(q))
  <2> SUFFICES ASSUME NEW i \in 1..(Len(q) - 1), NEW j \in 1..(Len(q) - 1), i # j
               PROVE  Tail(q)[i] # Tail(q)[j]
    BY <1>2 DEF IsDuplicateFree
  <2>1. i + 1 \in DOMAIN q /\ j + 1 \in DOMAIN q /\ i + 1 # j + 1
    BY <1>1
  <2> QED
    BY <1>1, <2>1 DEF IsDuplicateFree
<1> QED
  BY <1>1, <1>3, <1>4, <1>5

\* find and erase on a queue without duplicates closes the gap at the place of
\* the given task.
LEMMA RemoveFirstShape ==
  ASSUME NEW S, NEW q \in Seq(S), NEW e \in Range(q), IsDuplicateFree(q)
  PROVE  /\ RemoveFirst(q, e) \in Seq(S)
         /\ Len(RemoveFirst(q, e)) = Len(q) - 1
         /\ \E k \in 1..Len(q) :
               /\ q[k] = e
               /\ \A i \in 1..(Len(q) - 1) :
                     RemoveFirst(q, e)[i] = IF i < k THEN q[i] ELSE q[i + 1]
<1> DEFINE n == Len(q)
           r == RemoveFirst(q, e)
<1>1. n \in Nat /\ DOMAIN q = 1..n
  BY LenProperties
<1>2. PICK k \in 1..n : q[k] = e
  BY <1>1 DEF Range
<1>3. r = SubSeq(q, 1, k - 1) \o SubSeq(q, k + 1, n)
  <2>1. {i \in 1..n : q[i] = e} = {k}
    BY <1>1, <1>2 DEF IsDuplicateFree
  <2>2. RemoveFirst(q, q[k]) = RemoveAt(q, k)
    BY <2>1, <1>1, <1>2 DEF RemoveFirst, SelectInSeq, Min
  <2> QED
    BY <2>2, <1>2 DEF RemoveAt
<1>4. /\ SubSeq(q, 1, k - 1) \in Seq(S)
      /\ Len(SubSeq(q, 1, k - 1)) = k - 1
      /\ \A i \in 1..(k - 1) : SubSeq(q, 1, k - 1)[i] = q[i]
  BY <1>1, <1>2, SubSeqProperties
<1>5. /\ SubSeq(q, k + 1, n) \in Seq(S)
      /\ Len(SubSeq(q, k + 1, n)) = n - k
      /\ \A i \in 1..(n - k) : SubSeq(q, k + 1, n)[i] = q[i + k]
  <2>1. \A i \in (k + 1)..n : q[i] \in S
    BY <1>1, <1>2
  <2>2. /\ SubSeq(q, k + 1, n) \in Seq(S)
        /\ Len(SubSeq(q, k + 1, n)) = IF k + 1 <= n THEN n - (k + 1) + 1 ELSE 0
        /\ \A i \in 1..(n - (k + 1) + 1) : SubSeq(q, k + 1, n)[i] = q[(k + 1) + i - 1]
    BY <2>1, <1>1, <1>2, SubSeqProperties
  <2>3. ASSUME NEW i \in 1..(n - k)
        PROVE  SubSeq(q, k + 1, n)[i] = q[i + k]
    <3>1. (k + 1) + i - 1 = i + k /\ i \in 1..(n - (k + 1) + 1)
      BY <1>1, <1>2
    <3>2. SubSeq(q, k + 1, n)[i] = q[(k + 1) + i - 1]
      BY <2>2, <3>1
    <3> QED
      BY <3>1, <3>2
  <2>4. (IF k + 1 <= n THEN n - (k + 1) + 1 ELSE 0) = n - k
    <3> HIDE DEF n
    <3> QED
      BY <1>1, <1>2
  <2> QED
    BY <2>2, <2>3, <2>4
<1>6. /\ r \in Seq(S)
      /\ Len(r) = n - 1
      /\ \A i \in 1..(n - 1) : r[i] = IF i < k THEN q[i] ELSE q[i + 1]
  <2> DEFINE a == SubSeq(q, 1, k - 1)
             b == SubSeq(q, k + 1, n)
  <2>1. /\ r \in Seq(S)
        /\ Len(r) = Len(a) + Len(b)
        /\ \A i \in 1..(Len(a) + Len(b)) :
              r[i] = IF i <= Len(a) THEN a[i] ELSE b[i - Len(a)]
    <3>1. a \in Seq(S) /\ b \in Seq(S) /\ r = a \o b
      BY <1>3, <1>4, <1>5
    <3> HIDE DEF a, b, r
    <3> QED
      BY <3>1, ConcatProperties
  <2>2. /\ Len(a) = k - 1 /\ Len(b) = n - k
        /\ \A i \in 1..(k - 1) : a[i] = q[i]
        /\ \A i \in 1..(n - k) : b[i] = q[i + k]
    BY <1>4, <1>5
  <2>3. Len(a) + Len(b) = n - 1
    <3> HIDE DEF n, a, b
    <3> QED
      BY <2>2, <1>1, <1>2
  <2>4. ASSUME NEW i \in 1..(n - 1)
        PROVE  r[i] = IF i < k THEN q[i] ELSE q[i + 1]
    <3> HIDE DEF a, b, r
    <3>1. r[i] = IF i <= k - 1 THEN a[i] ELSE b[i - (k - 1)]
      BY <2>1, <2>2, <2>3
    <3>2. CASE i < k
      <4>1. i \in 1..(k - 1) /\ i <= k - 1
        BY <3>2, <1>1, <1>2
      <4> QED
        BY <4>1, <3>1, <3>2, <2>2
    <3>3. CASE ~(i < k)
      <4>1. i - (k - 1) \in 1..(n - k) /\ (i - (k - 1)) + k = i + 1 /\ ~(i <= k - 1)
        BY <3>3, <1>1, <1>2
      <4>2. b[i - (k - 1)] = q[(i - (k - 1)) + k]
        BY <4>1, <2>2
      <4> QED
        BY <4>1, <4>2, <3>1, <3>3
    <3> QED
      BY <3>2, <3>3
  <2> QED
    BY <2>1, <2>3, <2>4
<1> QED
  BY <1>2, <1>6

\* So exactly that task has left the queue.
LEMMA RemoveFirstLists ==
  ASSUME NEW S, NEW q \in Seq(S), NEW e \in Range(q), IsDuplicateFree(q)
  PROVE  /\ RemoveFirst(q, e) \in Seq(S)
         /\ Range(RemoveFirst(q, e)) = Range(q) \ {e}
         /\ IsDuplicateFree(RemoveFirst(q, e))
<1> DEFINE n == Len(q)
           r == RemoveFirst(q, e)
<1>1. n \in Nat /\ DOMAIN q = 1..n
  BY LenProperties
<1>2. PICK k \in 1..n :
         /\ q[k] = e
         /\ \A i \in 1..(n - 1) : r[i] = IF i < k THEN q[i] ELSE q[i + 1]
  BY RemoveFirstShape
<1>6. /\ r \in Seq(S)
      /\ Len(r) = n - 1
      /\ \A i \in 1..(n - 1) : r[i] = IF i < k THEN q[i] ELSE q[i + 1]
  BY <1>2, RemoveFirstShape
<1>7. DOMAIN r = 1..(n - 1)
  BY <1>6, LenProperties
<1> HIDE DEF n, r
<1>8. \A i \in 1..(n - 1) :
         \/ i < k /\ i \in 1..n /\ r[i] = q[i]
         \/ k < i + 1 /\ i + 1 \in 1..n /\ r[i] = q[i + 1]
  BY <1>1, <1>2, <1>6
<1>9. Range(r) = Range(q) \ {e}
  <2>1. ASSUME NEW i \in 1..(n - 1)
        PROVE  r[i] \in Range(q) \ {e}
    <3>1. PICK j \in 1..n : j # k /\ r[i] = q[j]
      BY <1>1, <1>2, <1>8
    <3> QED
      BY <3>1, <1>1, <1>2 DEF Range, IsDuplicateFree
  <2>2. ASSUME NEW j \in 1..n, q[j] # e
        PROVE  \E i \in 1..(n - 1) : r[i] = q[j]
    <3>1. CASE j < k
      BY <3>1, <1>1, <1>2, <1>6
    <3>2. CASE k < j
      <4>1. (j - 1) \in 1..(n - 1) /\ ~(j - 1 < k) /\ (j - 1) + 1 = j
        BY <3>2, <1>1, <1>2
      <4> QED
        BY <4>1, <1>6
    <3> QED
      BY <3>1, <3>2, <2>2, <1>1, <1>2
  <2>3. Range(r) \subseteq Range(q) \ {e}
    BY <1>7, <2>1 DEF Range
  <2>4. Range(q) \ {e} \subseteq Range(r)
    BY <1>1, <1>7, <2>2 DEF Range
  <2> QED
    BY <2>3, <2>4
<1>10. IsDuplicateFree(r)
  <2> SUFFICES ASSUME NEW i \in 1..(n - 1), NEW j \in 1..(n - 1), i # j
               PROVE  r[i] # r[j]
    BY <1>7 DEF IsDuplicateFree
  <2> DEFINE at(x) == IF x < k THEN x ELSE x + 1
  <2>1. /\ at(i) \in 1..n /\ r[i] = q[at(i)]
        /\ at(j) \in 1..n /\ r[j] = q[at(j)]
    BY <1>1, <1>2, <1>6
  <2>2. at(i) # at(j)
    BY <1>1, <1>2
  <2> QED
    BY <2>1, <2>2, <1>1 DEF IsDuplicateFree
<1> QED
  BY <1>6, <1>9, <1>10 DEF r
-----------------------------------------------------------------------------
(* The samples.                                                            *)

\* A task renders SampleCount samples of the job's.
LEMMA SampleRangeSize ==
  ASSUME NEW t \in Tasks
  PROVE  /\ IsFiniteSet(SampleRange(t))
         /\ Cardinality(SampleRange(t)) = SampleCount[t]
         /\ SampleRange(t) \subseteq 0..(SamplesPerPixel - 1)
<1> DEFINE a == SampleStart[t]
           n == SampleCount[t]
<1>1. a \in Nat /\ n \in Nat /\ a + n <= SamplesPerPixel /\ SamplesPerPixel \in Nat
  BY PlanAssumption, SizesAssumption
<1>2. SampleRange(t) = a..(a + n - 1)
  BY DEF SampleRange
<1> HIDE DEF a, n
<1>3. /\ IsFiniteSet(a..(a + n - 1))
      /\ Cardinality(a..(a + n - 1)) = IF a > a + n - 1 THEN 0 ELSE (a + n - 1) - a + 1
  BY <1>1, FS_Interval
<1>4. (IF a > a + n - 1 THEN 0 ELSE (a + n - 1) - a + 1) = n
  BY <1>1
<1>5. a..(a + n - 1) \subseteq 0..(SamplesPerPixel - 1)
  BY <1>1
<1> QED
  BY <1>2, <1>3, <1>4, <1>5 DEF n

\* No set of tasks renders more of a tile than the samples the job asks for.
LEMMA TileSamplesBounded ==
  ASSUME NEW tile, NEW done \in SUBSET Tasks
  PROVE  /\ IsFiniteSet(SamplesOfTile(tile, done))
         /\ Cardinality(SamplesOfTile(tile, done)) \in 0..SamplesPerPixel
<1>1. SamplesOfTile(tile, done) \subseteq 0..(SamplesPerPixel - 1)
  BY SampleRangeSize DEF SamplesOfTile
<1>2. SamplesPerPixel \in Nat
  BY SizesAssumption
<1>3. /\ IsFiniteSet(0..(SamplesPerPixel - 1))
      /\ Cardinality(0..(SamplesPerPixel - 1)) = SamplesPerPixel
  <2>1. /\ IsFiniteSet(0..(SamplesPerPixel - 1))
        /\ Cardinality(0..(SamplesPerPixel - 1)) =
              IF 0 > SamplesPerPixel - 1 THEN 0 ELSE (SamplesPerPixel - 1) - 0 + 1
    BY <1>2, FS_Interval
  <2> QED
    BY <2>1, <1>2
<1>4. /\ IsFiniteSet(SamplesOfTile(tile, done))
      /\ Cardinality(SamplesOfTile(tile, done)) <= SamplesPerPixel
  BY <1>1, <1>3, FS_Subset
<1> QED
  BY <1>2, <1>4, FS_CardinalityType

\* One more task adds its samples to its own tile and nothing to the others.
LEMMA TileSamplesGrow ==
  ASSUME NEW tile, NEW done \in SUBSET Tasks, NEW t \in Tasks, t \notin done
  PROVE  Cardinality(SamplesOfTile(tile, done \cup {t})) =
           Cardinality(SamplesOfTile(tile, done)) +
             IF tile = TileOf[t] THEN SampleCount[t] ELSE 0
<1> DEFINE A == SamplesOfTile(tile, done)
           B == SamplesOfTile(tile, done \cup {t})
<1>1. IsFiniteSet(A) /\ Cardinality(A) \in Nat
  BY TileSamplesBounded, SizesAssumption
<1>2. CASE tile # TileOf[t]
  <2>1. {u \in done \cup {t} : TileOf[u] = tile} = {u \in done : TileOf[u] = tile}
    BY <1>2
  <2>2. B = A
    BY <2>1 DEF SamplesOfTile
  <2> QED
    BY <1>1, <1>2, <2>2
<1>3. CASE tile = TileOf[t]
  <2>1. {u \in done \cup {t} : TileOf[u] = tile} = {u \in done : TileOf[u] = tile} \cup {t}
    BY <1>3
  <2>2. B = A \cup SampleRange(t)
    BY <2>1 DEF SamplesOfTile
  <2>3. A \cap SampleRange(t) = {}
    <3>1. \A u \in done : TileOf[u] = tile => SampleRange(u) \cap SampleRange(t) = {}
      BY <1>3, PlanAssumption
    <3> QED
      BY <3>1 DEF SamplesOfTile
  <2>4. /\ IsFiniteSet(SampleRange(t))
        /\ Cardinality(SampleRange(t)) = SampleCount[t]
        /\ SampleCount[t] \in Nat
    BY SampleRangeSize, PlanAssumption
  <2>5. Cardinality(A \cup SampleRange(t)) =
          Cardinality(A) + Cardinality(SampleRange(t)) - Cardinality(A \cap SampleRange(t))
    BY <1>1, <2>4, FS_Union
  <2>6. Cardinality(A \cap SampleRange(t)) = 0
    BY <2>3, FS_EmptySet
  <2>7. Cardinality(B) = Cardinality(A) + SampleCount[t]
    <3> HIDE DEF A, B
    <3> QED
      BY <1>1, <2>2, <2>4, <2>5, <2>6
  <2> QED
    BY <1>3, <2>7
<1> QED
  BY <1>2, <1>3

\* A task that is not completed always finds room for its samples.
LEMMA RoomForUnfinished ==
  ASSUME IInv, Running, NEW t \in Tasks, state[t] # "completed"
  PROVE  HasRoom(t)
<1> DEFINE done == TasksIn("completed")
<1>1. done \in SUBSET Tasks /\ t \notin done
  BY DEF TasksIn
<1>2. TileOf[t] \in Tiles /\ SampleCount[t] \in Nat
  BY PlanAssumption
<1>3. sampleCounts[TileOf[t]] = Cardinality(SamplesOfTile(TileOf[t], done))
  BY <1>2 DEF IInv, SampleCountsExact
<1>4. Cardinality(SamplesOfTile(TileOf[t], done \cup {t})) =
        Cardinality(SamplesOfTile(TileOf[t], done)) + SampleCount[t]
  BY <1>1, TileSamplesGrow
<1>5. Cardinality(SamplesOfTile(TileOf[t], done \cup {t})) \in 0..SamplesPerPixel
  BY <1>1, TileSamplesBounded
<1> QED
  BY <1>3, <1>4, <1>5, SizesAssumption DEF HasRoom
-----------------------------------------------------------------------------
(* One lemma per operation.                                                *)

\* An operation that completes nothing and merges nothing keeps the framebuffer
\* and the counter exact.
LEMMA NothingMerged ==
  ASSUME IInv, Running, UNCHANGED <<bufferVars, completedTaskCount>>,
         TasksIn("completed")' = TasksIn("completed")
  PROVE  ExactlyOnce' /\ SampleCountsExact' /\ CompletedCountExact'
<1>1. ExactlyOnce'
  BY DEF IInv, ExactlyOnce, TasksIn, bufferVars
<1>2. SampleCountsExact'
  BY DEF IInv, SampleCountsExact, SamplesOfTile, bufferVars
<1>3. CompletedCountExact'
  BY DEF IInv, BookkeepingExact, CompletedCountExact
<1> QED
  BY <1>1, <1>2, <1>3

\* Leasing takes the front task out of the pending ones, in the record and in
\* the queue alike.
LEMMA LeaseNextKeepsIInv ==
  ASSUME IInv, phase = "serving", NEW w \in Workers, NEW nowMs \in Nat,
         LeaseNext(w, nowMs)
  PROVE  IInv'
<1> DEFINE t == Head(pendingTasks)
<1>1. /\ pendingTasks \in Seq(Tasks) /\ pendingTasks # <<>>
      /\ IsDuplicateFree(pendingTasks)
      /\ Range(pendingTasks) = TasksIn("pending")
  BY DEF IInv, TypeOK, BookkeepingExact, PendingQueueExact, Running, IsDuplicateFree, LeaseNext
<1>2. /\ t \in TasksIn("pending")
      /\ Tail(pendingTasks) \in Seq(Tasks)
      /\ Range(Tail(pendingTasks)) = TasksIn("pending") \ {t}
      /\ IsDuplicateFree(Tail(pendingTasks))
  BY <1>1, TailLists
<1> HIDE DEF t
<1>3. /\ t \in Tasks /\ state[t] = "pending"
      /\ pendingTasks' = Tail(pendingTasks)
      /\ state' = [state EXCEPT ![t] = "leased"]
      /\ leasedTo' = [leasedTo EXCEPT ![t] = w]
      /\ expiresAt' = [expiresAt EXCEPT ![t] = nowMs + LeaseDuration]
      /\ UNCHANGED <<phase, completedTaskCount, bufferVars, checkpoint, now>>
  BY <1>2 DEF LeaseNext, TasksIn, t
<1>4. TypeOK'
  BY <1>2, <1>3, SizesAssumption DEF IInv, TypeOK, TaskStates, bufferVars
<1>5. TasksIn("completed")' = TasksIn("completed")
  BY <1>3 DEF IInv, TypeOK, TasksIn
<1>6. PendingQueueExact'
  <2>1. TasksIn("pending")' = TasksIn("pending") \ {t}
    BY <1>3 DEF IInv, TypeOK, TasksIn
  <2> QED
    BY <2>1, <1>2, <1>3 DEF PendingQueueExact, IsDuplicateFree
<1>7. LeasesHaveHolders'
  BY <1>3 DEF IInv, TypeOK, BookkeepingExact, LeasesHaveHolders, Running
<1>8. CheckpointConsistent' /\ FreshTable'
  BY <1>3 DEF IInv, CheckpointConsistent, FreshTable, SamplesOfTile
<1> QED
  BY <1>3, <1>4, <1>5, <1>6, <1>7, <1>8, NothingMerged DEF IInv, BookkeepingExact, Running

\* Renewal touches only the times at which leases end.
LEMMA RenewKeepsIInv ==
  ASSUME IInv, phase = "serving", NEW w \in Workers, NEW nowMs \in Nat,
         RenewWorkerLeases(w, nowMs)
  PROVE  IInv'
<1>1. UNCHANGED <<phase, state, leasedTo, pendingTasks, completedTaskCount, bufferVars,
                  checkpoint, now>>
  BY DEF RenewWorkerLeases
<1>2. expiresAt' \in [Tasks -> Nat]
  BY SizesAssumption DEF RenewWorkerLeases, IInv, TypeOK
<1>3. TypeOK'
  BY <1>1, <1>2 DEF IInv, TypeOK, bufferVars
<1>4. TasksIn("completed")' = TasksIn("completed")
  BY <1>1 DEF TasksIn
<1>5. PendingQueueExact' /\ LeasesHaveHolders'
  BY <1>1 DEF IInv, BookkeepingExact, PendingQueueExact, LeasesHaveHolders, TasksIn, Running
<1>6. CheckpointConsistent' /\ FreshTable'
  BY <1>1 DEF IInv, CheckpointConsistent, FreshTable, SamplesOfTile
<1> QED
  BY <1>1, <1>3, <1>4, <1>5, <1>6, NothingMerged DEF IInv, BookkeepingExact, Running

\* Ending leases returns exactly the tasks whose leases end to the queue.
LEMMA RequeueKeepsIInv ==
  ASSUME IInv, phase = "serving", NEW S \in SUBSET TasksIn("leased"), Requeue(S)
  PROVE  IInv'
<1>1. S \subseteq Tasks /\ \A t \in S : state[t] = "leased"
  BY DEF TasksIn
<1>2. PICK q \in IndexOrder(S) : pendingTasks' = pendingTasks \o q
  BY DEF Requeue
<1>3. /\ state' = [t \in Tasks |-> IF t \in S THEN "pending" ELSE state[t]]
      /\ leasedTo' = [t \in Tasks |-> IF t \in S THEN NoWorker ELSE leasedTo[t]]
      /\ expiresAt' = [t \in Tasks |-> IF t \in S THEN 0 ELSE expiresAt[t]]
      /\ UNCHANGED <<phase, completedTaskCount, bufferVars, checkpoint, now>>
  BY DEF Requeue
<1>4. /\ pendingTasks \in Seq(Tasks)
      /\ IsDuplicateFree(pendingTasks)
      /\ Range(pendingTasks) = TasksIn("pending")
  BY DEF IInv, TypeOK, BookkeepingExact, PendingQueueExact, Running, IsDuplicateFree
<1>5. q \in Seq(Tasks) /\ Range(q) = S /\ IsDuplicateFree(q)
  BY <1>1, IndexOrderLists
<1>6. TasksIn("pending") \cap S = {}
  BY <1>1 DEF TasksIn
<1>7. /\ pendingTasks' \in Seq(Tasks)
      /\ Range(pendingTasks') = TasksIn("pending") \cup S
      /\ IsDuplicateFree(pendingTasks')
  BY <1>2, <1>4, <1>5, <1>6, ConcatLists
<1>8. TypeOK'
  <2>1. state' \in [Tasks -> TaskStates]
    BY <1>3 DEF IInv, TypeOK, TaskStates
  <2>2. leasedTo' \in [Tasks -> Workers \cup {NoWorker}] /\ expiresAt' \in [Tasks -> Nat]
    BY <1>3 DEF IInv, TypeOK
  <2> QED
    BY <2>1, <2>2, <1>3, <1>7 DEF IInv, TypeOK, bufferVars
<1>9. TasksIn("completed")' = TasksIn("completed")
  BY <1>1, <1>3 DEF TasksIn
<1>10. PendingQueueExact'
  <2>1. TasksIn("pending")' = TasksIn("pending") \cup S
    BY <1>1, <1>3 DEF TasksIn
  <2> QED
    BY <2>1, <1>7 DEF PendingQueueExact, IsDuplicateFree
<1>11. LeasesHaveHolders'
  BY <1>3, SizesAssumption DEF IInv, BookkeepingExact, LeasesHaveHolders, Running
<1>12. CheckpointConsistent' /\ FreshTable'
  BY <1>3 DEF IInv, CheckpointConsistent, FreshTable, SamplesOfTile
<1> QED
  BY <1>3, <1>8, <1>9, <1>10, <1>11, <1>12, NothingMerged DEF IInv, BookkeepingExact, Running

\* A result that is not accepted changes nothing; an accepted one merges a task
\* that was not merged, completes its record and takes it out of the queue.
LEMMA CommitKeepsIInv ==
  ASSUME IInv, phase = "serving", NEW r \in Results, CommitResult(r)
  PROVE  IInv'
<1>1. UNCHANGED <<phase, checkpoint, now>>
  BY DEF CommitResult
<1>2. CheckpointConsistent' /\ FreshTable'
  BY <1>1 DEF CheckpointConsistent, FreshTable, IInv, SamplesOfTile
<1>3. CASE CommitStatus(r) # "Accepted"
  <2>1. UNCHANGED memoryVars
    BY <1>3 DEF CommitResult
  <2>2. TypeOK'
    BY <1>1, <2>1 DEF IInv, TypeOK, memoryVars, recordVars, bufferVars
  <2>3. PendingQueueExact' /\ LeasesHaveHolders'
    BY <1>1, <2>1 DEF IInv, BookkeepingExact, PendingQueueExact, LeasesHaveHolders,
       TasksIn, Running, memoryVars, recordVars
  <2>4. TasksIn("completed")' = TasksIn("completed")
    BY <2>1 DEF TasksIn, memoryVars, recordVars
  <2> QED
    BY <1>1, <1>2, <2>1, <2>2, <2>3, <2>4, NothingMerged
       DEF IInv, BookkeepingExact, Running, memoryVars
<1>4. CASE CommitStatus(r) = "Accepted"
  <2> DEFINE t == r.task
  <2>1. t \in Tasks /\ state[t] # "completed" /\ HasRoom(t)
    BY <1>4 DEF CommitStatus, Results
  <2>2. AcceptResult(t)
    BY <1>4 DEF CommitResult
  <2> HIDE DEF t
  <2>3. /\ radiance' = [radiance EXCEPT ![t] = @ + 1]
        /\ sampleCounts' = [sampleCounts EXCEPT ![TileOf[t]] = @ + SampleCount[t]]
        /\ pendingTasks' = IF state[t] = "pending" THEN RemoveFirst(pendingTasks, t)
                                                   ELSE pendingTasks
        /\ state' = [state EXCEPT ![t] = "completed"]
        /\ leasedTo' = [leasedTo EXCEPT ![t] = NoWorker]
        /\ expiresAt' = [expiresAt EXCEPT ![t] = 0]
        /\ completedTaskCount' = completedTaskCount + 1
    BY <2>2 DEF AcceptResult
  <2>4. TileOf[t] \in Tiles /\ SampleCount[t] \in Nat
    BY <2>1, PlanAssumption
  <2> DEFINE done == TasksIn("completed")
  <2>5. done \in SUBSET Tasks /\ t \notin done /\ TasksIn("completed")' = done \cup {t}
    BY <2>1, <2>3 DEF TasksIn, IInv, TypeOK
  <2>6. ExactlyOnce'
    BY <1>1, <2>1, <2>3 DEF IInv, TypeOK, ExactlyOnce, Running
  <2>7. SampleCountsExact'
    <3> SUFFICES ASSUME NEW tile \in Tiles
                 PROVE  sampleCounts'[tile] =
                          Cardinality(SamplesOfTile(tile, done \cup {t}))
      BY <2>5 DEF SampleCountsExact, SamplesOfTile
    <3> HIDE DEF done
    <3>1. sampleCounts[tile] = Cardinality(SamplesOfTile(tile, done))
      BY DEF IInv, SampleCountsExact, Running, done
    <3>2. sampleCounts'[tile] =
            sampleCounts[tile] + IF tile = TileOf[t] THEN SampleCount[t] ELSE 0
      BY <2>3, <2>4 DEF IInv, TypeOK
    <3> QED
      BY <2>1, <2>5, <3>1, <3>2, TileSamplesGrow
  <2>8. CompletedCountExact' /\ completedTaskCount' \in 0..NumTasks
    <3>1. IsFiniteSet(done)
      BY <2>5, TaskSetsFinite
    <3>2. Cardinality(done \cup {t}) = Cardinality(done) + 1
      BY <2>5, <3>1, FS_AddElement
    <3>3. completedTaskCount' = Cardinality(done \cup {t})
      BY <2>3, <3>2 DEF IInv, BookkeepingExact, CompletedCountExact, Running
    <3>4. done \cup {t} \in SUBSET Tasks
      BY <2>1, <2>5
    <3> QED
      BY <2>5, <3>3, <3>4, TaskSetsFinite DEF CompletedCountExact
  <2>9. /\ pendingTasks' \in Seq(Tasks)
        /\ Range(pendingTasks') = TasksIn("pending") \ {t}
        /\ IsDuplicateFree(pendingTasks')
    <3>1. /\ pendingTasks \in Seq(Tasks)
          /\ IsDuplicateFree(pendingTasks)
          /\ Range(pendingTasks) = TasksIn("pending")
      BY DEF IInv, TypeOK, BookkeepingExact, PendingQueueExact, Running, IsDuplicateFree
    <3>2. CASE state[t] = "pending"
      <4>1. t \in Range(pendingTasks)
        BY <2>1, <3>1, <3>2 DEF TasksIn
      <4> QED
        BY <2>3, <3>1, <3>2, <4>1, RemoveFirstLists
    <3>3. CASE state[t] # "pending"
      BY <2>3, <3>1, <3>3 DEF TasksIn
    <3> QED
      BY <3>2, <3>3
  <2>10. PendingQueueExact'
    <3>1. TasksIn("pending")' = TasksIn("pending") \ {t}
      BY <2>1, <2>3 DEF TasksIn, IInv, TypeOK
    <3> QED
      BY <2>9, <3>1 DEF PendingQueueExact, IsDuplicateFree
  <2>11. LeasesHaveHolders'
    BY <2>1, <2>3, SizesAssumption
       DEF IInv, TypeOK, BookkeepingExact, LeasesHaveHolders, Running
  <2>12. TypeOK'
    <3>1. sampleCounts' \in [Tiles -> 0..MaxSampleCount]
      BY <2>1, <2>3, <2>4, SizesAssumption DEF IInv, TypeOK, HasRoom
    <3>2. state' \in [Tasks -> TaskStates]
      BY <2>3 DEF IInv, TypeOK, TaskStates
    <3> QED
      BY <1>1, <2>1, <2>3, <2>8, <2>9, <3>1, <3>2 DEF IInv, TypeOK
  <2> QED
    BY <1>1, <1>2, <2>6, <2>7, <2>8, <2>10, <2>11, <2>12 DEF IInv, BookkeepingExact
<1> QED
  BY <1>3, <1>4

\* The calls of the sessions.
LEMMA ServeKeepsIInv ==
  ASSUME IInv, Serve
  PROVE  IInv'
<1>1. phase = "serving"
  BY DEF Serve
<1>2. ClockReadings \subseteq Nat
  BY DEF ClockReadings
<1>3. ASSUME NEW w \in Workers, NEW nowMs \in ClockReadings, LeaseNext(w, nowMs)
      PROVE  IInv'
  BY <1>1, <1>2, <1>3, LeaseNextKeepsIInv
<1>4. ASSUME NEW r \in Results, CommitResult(r)
      PROVE  IInv'
  BY <1>1, <1>4, CommitKeepsIInv
<1>5. ASSUME NEW w \in Workers, NEW nowMs \in ClockReadings, RenewWorkerLeases(w, nowMs)
      PROVE  IInv'
  BY <1>1, <1>2, <1>5, RenewKeepsIInv
<1>6. ASSUME NEW w \in Workers, ReleaseWorkerLeases(w)
      PROVE  IInv'
  <2>1. LeasedBy(w) \in SUBSET TasksIn("leased")
    BY DEF LeasedBy
  <2> QED
    BY <1>1, <1>6, <2>1, RequeueKeepsIInv DEF ReleaseWorkerLeases
<1>7. ASSUME NEW nowMs \in ClockReadings, RequeueExpired(nowMs)
      PROVE  IInv'
  <2>1. Expired(nowMs) \in SUBSET TasksIn("leased")
    BY DEF Expired
  <2> QED
    BY <1>1, <1>7, <2>1, RequeueKeepsIInv DEF RequeueExpired
<1> QED
  BY <1>3, <1>4, <1>5, <1>6, <1>7 DEF Serve

\* The constructor's queue is in index order.
LEMMA FullQueueInIndexOrder == [t \in Tasks |-> t] \in IndexOrder(Tasks)
<1> DEFINE q == [t \in Tasks |-> t]
<1>1. Cardinality(Tasks) = NumTasks /\ NumTasks \in Nat
  BY FS_Interval, SizesAssumption DEF Tasks
<1>2. q \in [1..Cardinality(Tasks) -> Tasks]
  BY <1>1 DEF Tasks
<1>3. Range(q) = Tasks
  BY DEF Range
<1>4. \A i, j \in DOMAIN q : i < j => q[i] < q[j]
  OBVIOUS
<1> QED
  BY <1>2, <1>3, <1>4 DEF IndexOrder

\* Before anything is merged the sample counts are zero.
LEMMA NothingSampled ==
  ASSUME NEW tile
  PROVE  Cardinality(SamplesOfTile(tile, {})) = 0
<1>1. SamplesOfTile(tile, {}) = {}
  BY DEF SamplesOfTile
<1> QED
  BY <1>1, FS_EmptySet

\* The first process starts with an empty framebuffer, a full queue and no
\* checkpoint.
LEMMA InitGivesIInv == Init => IInv
<1> SUFFICES ASSUME Init PROVE IInv
  OBVIOUS
<1>1. [t \in Tasks |-> t] \in IndexOrder(Tasks \ {})
  BY FullQueueInIndexOrder
<1>2. /\ state = [t \in Tasks |-> IF t \in {} THEN "completed" ELSE "pending"]
      /\ leasedTo = [t \in Tasks |-> NoWorker]
      /\ pendingTasks = [t \in Tasks |-> t]
  BY DEF Init
<1>3. /\ state \in [Tasks -> TaskStates]
      /\ pendingTasks \in Seq(Tasks)
      /\ Range(pendingTasks) = TasksIn("pending")
      /\ IsDuplicateFree(pendingTasks)
      /\ {} = TasksIn("completed")
      /\ \A t \in Tasks : state[t] = "leased" <=> leasedTo[t] \in Workers
  <2>1. TasksIn("pending") = Tasks \ {} /\ TasksIn("completed") = {}
    BY <1>2 DEF TasksIn
  <2>2. /\ pendingTasks \in Seq(Tasks)
        /\ Range(pendingTasks) = Tasks \ {}
        /\ IsDuplicateFree(pendingTasks)
    BY <1>1, <1>2, IndexOrderLists
  <2>3. state \in [Tasks -> TaskStates]
    BY <1>2 DEF TaskStates
  <2>4. \A t \in Tasks : state[t] = "leased" <=> leasedTo[t] \in Workers
    BY <1>2, SizesAssumption
  <2> QED
    BY <2>1, <2>2, <2>3, <2>4
<1>4. TypeOK
  BY <1>3, SizesAssumption DEF Init, TypeOK, EmptyRadiance, EmptyCounts
<1>5. ExactlyOnce /\ FreshTable
  BY DEF Init, ExactlyOnce, FreshTable, EmptyRadiance, TasksIn
<1>6. SampleCountsExact
  BY <1>3, NothingSampled DEF Init, SampleCountsExact, EmptyCounts
<1>7. BookkeepingExact
  <2>1. completedTaskCount = Cardinality(TasksIn("completed"))
    BY <1>3, FS_EmptySet DEF Init
  <2> QED
    BY <1>3, <2>1 DEF BookkeepingExact, PendingQueueExact, CompletedCountExact,
       LeasesHaveHolders, IsDuplicateFree
<1>8. CheckpointConsistent
  BY DEF Init, CheckpointConsistent
<1> QED
  BY <1>4, <1>5, <1>6, <1>7, <1>8 DEF IInv

\* A new process forgets everything but the checkpoint.
LEMMA ConstructKeepsIInv ==
  ASSUME IInv, Construct
  PROVE  IInv'
<1>1. [t \in Tasks |-> t] \in IndexOrder(Tasks \ {})
  BY FullQueueInIndexOrder
<1>2. /\ state' = [t \in Tasks |-> IF t \in {} THEN "completed" ELSE "pending"]
      /\ leasedTo' = [t \in Tasks |-> NoWorker]
      /\ pendingTasks' = [t \in Tasks |-> t]
  BY DEF Construct
<1>3. /\ state' \in [Tasks -> TaskStates]
      /\ pendingTasks' \in Seq(Tasks)
      /\ Range(pendingTasks') = TasksIn("pending")'
      /\ IsDuplicateFree(pendingTasks')
      /\ {} = TasksIn("completed")'
      /\ \A t \in Tasks : state'[t] = "leased" <=> leasedTo'[t] \in Workers
  <2>1. TasksIn("pending")' = Tasks \ {} /\ TasksIn("completed")' = {}
    BY <1>2 DEF TasksIn
  <2>2. /\ pendingTasks' \in Seq(Tasks)
        /\ Range(pendingTasks') = Tasks \ {}
        /\ IsDuplicateFree(pendingTasks')
    BY <1>1, <1>2, IndexOrderLists
  <2>3. state' \in [Tasks -> TaskStates]
    BY <1>2 DEF TaskStates
  <2>4. \A t \in Tasks : state'[t] = "leased" <=> leasedTo'[t] \in Workers
    BY <1>2, SizesAssumption
  <2> QED
    BY <2>1, <2>2, <2>3, <2>4
<1>4. TypeOK'
  BY <1>3, SizesAssumption DEF Construct, IInv, TypeOK, EmptyRadiance, EmptyCounts
<1>5. ExactlyOnce' /\ FreshTable'
  BY DEF Construct, ExactlyOnce, FreshTable, EmptyRadiance, TasksIn
<1>6. SampleCountsExact'
  <2>1. \A tile \in Tiles : sampleCounts'[tile] = 0
    BY DEF Construct, EmptyCounts
  <2> QED
    BY <1>3, <2>1, NothingSampled DEF SampleCountsExact, SamplesOfTile
<1>7. BookkeepingExact'
  <2>1. completedTaskCount' = Cardinality(TasksIn("completed")')
    BY <1>3, FS_EmptySet DEF Construct
  <2> QED
    BY <1>3, <2>1 DEF BookkeepingExact, PendingQueueExact, CompletedCountExact,
       LeasesHaveHolders, IsDuplicateFree
<1>8. CheckpointConsistent'
  BY DEF Construct, IInv, CheckpointConsistent, SamplesOfTile
<1> QED
  BY <1>4, <1>5, <1>6, <1>7, <1>8 DEF IInv

\* The table restore finds is the constructor's, so no lease survives in a
\* completed record, and the checkpoint's parts agree with each other.
LEMMA RestoreKeepsIInv ==
  ASSUME IInv, Restore
  PROVE  IInv'
<1> DEFINE done == checkpoint.completedTasks
<1>1. /\ phase = "constructed" /\ phase' = "serving"
      /\ checkpoint \in Checkpoints /\ checkpoint # NoCheckpoint
      /\ radiance' = checkpoint.radiance
      /\ sampleCounts' = checkpoint.sampleCounts
      /\ UNCHANGED <<checkpoint, now>>
  BY DEF Restore, IInv, TypeOK
<1>2. /\ state' = [t \in Tasks |-> IF t \in done THEN "completed" ELSE "pending"]
      /\ leasedTo' = [t \in Tasks |-> IF t \in done THEN leasedTo[t] ELSE NoWorker]
      /\ expiresAt' = [t \in Tasks |-> IF t \in done THEN expiresAt[t] ELSE 0]
      /\ pendingTasks' \in IndexOrder(Tasks \ done)
      /\ completedTaskCount' = Cardinality(done)
  BY DEF Restore, RebuildPendingQueue
<1>3. /\ done \in SUBSET Tasks
      /\ checkpoint.radiance \in [Tasks -> Nat]
      /\ checkpoint.sampleCounts \in [Tiles -> Nat]
  BY <1>1 DEF Checkpoints
<1>4. /\ \A t \in Tasks : checkpoint.radiance[t] = IF t \in done THEN 1 ELSE 0
      /\ \A tile \in Tiles :
            checkpoint.sampleCounts[tile] = Cardinality(SamplesOfTile(tile, done))
  BY <1>1 DEF IInv, CheckpointConsistent
<1>5. leasedTo' = [t \in Tasks |-> NoWorker]
  <2>1. \A t \in Tasks : leasedTo[t] = NoWorker
    BY <1>1 DEF IInv, TypeOK, FreshTable, BookkeepingExact, LeasesHaveHolders, Running, TasksIn
  <2> QED
    BY <1>2, <2>1
<1> HIDE DEF done
<1>6. /\ state' \in [Tasks -> TaskStates]
      /\ pendingTasks' \in Seq(Tasks)
      /\ Range(pendingTasks') = TasksIn("pending")'
      /\ IsDuplicateFree(pendingTasks')
      /\ done = TasksIn("completed")'
      /\ Cardinality(done) \in 0..NumTasks
      /\ \A t \in Tasks : state'[t] = "leased" <=> leasedTo'[t] \in Workers
  <2>1. TasksIn("pending")' = Tasks \ done /\ TasksIn("completed")' = done
    BY <1>2, <1>3, <1>5 DEF TasksIn
  <2>2. /\ pendingTasks' \in Seq(Tasks)
        /\ Range(pendingTasks') = Tasks \ done
        /\ IsDuplicateFree(pendingTasks')
    BY <1>2, <1>3, IndexOrderLists
  <2>3. state' \in [Tasks -> TaskStates]
    BY <1>2, <1>3, <1>5 DEF TaskStates
  <2>4. \A t \in Tasks : state'[t] = "leased" <=> leasedTo'[t] \in Workers
    BY <1>2, <1>3, <1>5, SizesAssumption
  <2> QED
    BY <1>3, <2>1, <2>2, <2>3, <2>4, TaskSetsFinite
<1>7. TypeOK'
  <2>1. sampleCounts' \in [Tiles -> 0..MaxSampleCount]
    <3>1. \A tile \in Tiles : checkpoint.sampleCounts[tile] \in 0..MaxSampleCount
      BY <1>3, <1>4, TileSamplesBounded, SizesAssumption
    <3> QED
      BY <1>1, <1>3, <3>1
  <2>2. expiresAt' \in [Tasks -> Nat]
    BY <1>2 DEF IInv, TypeOK
  <2> QED
    BY <1>1, <1>2, <1>3, <1>5, <1>6, <2>1, <2>2 DEF IInv, TypeOK
<1>8. ExactlyOnce' /\ FreshTable'
  BY <1>1, <1>2, <1>4 DEF ExactlyOnce, FreshTable
<1>9. SampleCountsExact'
  BY <1>1, <1>4, <1>6 DEF SampleCountsExact, SamplesOfTile
<1>10. BookkeepingExact'
  BY <1>2, <1>6 DEF BookkeepingExact, PendingQueueExact, CompletedCountExact,
     LeasesHaveHolders, IsDuplicateFree
<1>11. CheckpointConsistent'
  BY <1>1 DEF IInv, CheckpointConsistent, SamplesOfTile
<1> QED
  BY <1>7, <1>8, <1>9, <1>10, <1>11 DEF IInv

\* A snapshot is taken of exact bookkeeping, so the checkpoint is consistent.
LEMMA SaveSnapshotKeepsIInv ==
  ASSUME IInv, SaveSnapshot
  PROVE  IInv'
<1>1. /\ phase = "serving" /\ checkpoint' = SnapshotOf
      /\ UNCHANGED <<phase, memoryVars, now>>
  BY DEF SaveSnapshot
<1>2. /\ SnapshotOf \in Checkpoints
      /\ SnapshotOf.completedTasks = TasksIn("completed")
      /\ SnapshotOf.radiance = radiance
      /\ SnapshotOf.sampleCounts = sampleCounts
  <2>1. TasksIn("completed") \in SUBSET Tasks
    BY DEF TasksIn
  <2>2. sampleCounts \in [Tiles -> Nat]
    BY SizesAssumption DEF IInv, TypeOK
  <2> QED
    BY <2>1, <2>2 DEF SnapshotOf, Checkpoints, IInv, TypeOK
<1>3. TypeOK'
  BY <1>1, <1>2 DEF IInv, TypeOK, memoryVars, recordVars, bufferVars
<1>4. CheckpointConsistent'
  <2>1. /\ \A t \in Tasks : radiance[t] = IF t \in TasksIn("completed") THEN 1 ELSE 0
        /\ \A tile \in Tiles :
              sampleCounts[tile] = Cardinality(SamplesOfTile(tile, TasksIn("completed")))
    BY <1>1 DEF IInv, ExactlyOnce, SampleCountsExact, Running, TasksIn
  <2> QED
    BY <1>1, <1>2, <2>1 DEF CheckpointConsistent, SamplesOfTile
<1>5. ExactlyOnce' /\ SampleCountsExact' /\ BookkeepingExact' /\ FreshTable'
  BY <1>1 DEF IInv, ExactlyOnce, SampleCountsExact, BookkeepingExact, FreshTable,
     PendingQueueExact, CompletedCountExact, LeasesHaveHolders, Running, TasksIn,
     SamplesOfTile, memoryVars, recordVars, bufferVars
<1> QED
  BY <1>3, <1>4, <1>5 DEF IInv

\* The steps that leave the table alone.
LEMMA QuietStepKeepsIInv ==
  ASSUME IInv, Start \/ Crash \/ Tick \/ UNCHANGED vars
  PROVE  IInv'
<1>1. /\ UNCHANGED <<memoryVars, checkpoint>>
      /\ phase' \in {"constructed", "serving", "exited"}
      /\ now' \in Nat
      /\ Running' => Running
      /\ phase' = "constructed" => phase = "constructed"
  BY DEF Start, Crash, Tick, vars, IInv, TypeOK, Running
<1>2. TypeOK'
  BY <1>1 DEF IInv, TypeOK, memoryVars, recordVars, bufferVars
<1> QED
  BY <1>1, <1>2 DEF IInv, ExactlyOnce, SampleCountsExact, BookkeepingExact,
     CheckpointConsistent, FreshTable, PendingQueueExact, CompletedCountExact,
     LeasesHaveHolders, TasksIn, SamplesOfTile, memoryVars, recordVars, bufferVars

\* A rejected restore ends the process; only the types of its memory matter.
LEMMA RestoreRejectedKeepsIInv ==
  ASSUME IInv, RestoreRejected
  PROVE  IInv'
<1>1. /\ phase' = "exited" /\ checkpoint # NoCheckpoint
      /\ UNCHANGED <<recordVars, pendingTasks, completedTaskCount, checkpoint, now>>
      /\ \/ UNCHANGED bufferVars
         \/ radiance' = checkpoint.radiance /\ sampleCounts' = checkpoint.sampleCounts
  BY DEF RestoreRejected
<1>2. checkpoint \in Checkpoints
  BY <1>1 DEF IInv, TypeOK
<1>3. radiance' \in [Tasks -> Nat] /\ sampleCounts' \in [Tiles -> 0..MaxSampleCount]
  <2>1. checkpoint.completedTasks \in SUBSET Tasks /\ checkpoint.radiance \in [Tasks -> Nat]
    BY <1>2 DEF Checkpoints
  <2>2. checkpoint.sampleCounts \in [Tiles -> 0..MaxSampleCount]
    <3>1. \A tile \in Tiles : checkpoint.sampleCounts[tile] \in 0..MaxSampleCount
      BY <1>1, <2>1, TileSamplesBounded, SizesAssumption DEF IInv, CheckpointConsistent
    <3> QED
      BY <1>2, <3>1 DEF Checkpoints
  <2> QED
    BY <1>1, <2>1, <2>2 DEF IInv, TypeOK, bufferVars
<1>4. TypeOK'
  BY <1>1, <1>3 DEF IInv, TypeOK, recordVars
<1>5. CheckpointConsistent'
  BY <1>1 DEF IInv, CheckpointConsistent, SamplesOfTile
<1>6. ExactlyOnce' /\ SampleCountsExact' /\ BookkeepingExact' /\ FreshTable'
  BY <1>1 DEF ExactlyOnce, SampleCountsExact, BookkeepingExact, FreshTable, Running
<1> QED
  BY <1>4, <1>5, <1>6 DEF IInv
-----------------------------------------------------------------------------
(* The theorems.                                                           *)

\* Every step keeps the inductive invariant.
LEMMA NextKeepsIInv == IInv /\ [Next]_vars => IInv'
<1> SUFFICES ASSUME IInv, [Next]_vars PROVE IInv'
  OBVIOUS
<1> QED
  BY ConstructKeepsIInv, RestoreKeepsIInv, RestoreRejectedKeepsIInv, SaveSnapshotKeepsIInv,
     ServeKeepsIInv, QuietStepKeepsIInv DEF Next

\* The inductive invariant holds in every reachable state.
THEOREM InductiveInvariant == Spec => []IInv
<1> QED
  BY InitGivesIInv, NextKeepsIInv, PTL DEF Spec

\* Every variable keeps its type, whatever the sessions call in any order.
THEOREM TypeCorrect == Spec => []TypeOK
<1>1. IInv => TypeOK
  BY DEF IInv
<1> QED
  BY <1>1, InductiveInvariant, PTL

\* No retry, late result, lease expiry or restart puts a task into the
\* framebuffer twice, and none that counts as completed is missing from it.
THEOREM MergedExactlyOnce == Spec => []ExactlyOnce
<1>1. IInv => ExactlyOnce
  BY DEF IInv
<1> QED
  BY <1>1, InductiveInvariant, PTL

\* The divisor of every pixel of the final image is the number of its samples
\* in the framebuffer.
THEOREM SamplesCountedExactly == Spec => []SampleCountsExact
<1>1. IInv => SampleCountsExact
  BY DEF IInv
<1> QED
  BY <1>1, InductiveInvariant, PTL

\* Queue, counter and holders agree with the records.
THEOREM BookkeepingCorrect == Spec => []BookkeepingExact
<1>1. IInv => BookkeepingExact
  BY DEF IInv
<1> QED
  BY <1>1, InductiveInvariant, PTL

\* The overflow test of commitResult never refuses a result of an unfinished task.
THEOREM RoomForEveryResult == Spec => []NoSpuriousReject
<1>1. IInv => NoSpuriousReject
  BY RoomForUnfinished DEF NoSpuriousReject
<1> QED
  BY <1>1, InductiveInvariant, PTL
-----------------------------------------------------------------------------
(* What a step may never do.                                               *)

\* Only a requeue turns a leased record of a serving coordinator into a pending
\* one, and it requeues expired leases or all leases of one worker.
LEMMA StepHonoursLeases ==
  ASSUME IInv, Next, phase = "serving", NEW t \in Tasks,
         state[t] = "leased", state'[t] = "pending"
  PROVE  expiresAt[t] <= now \/ leasedTo[t] \notin {leasedTo'[u] : u \in Tasks}
<1>1. TypeOK /\ LeasesHaveHolders
  BY DEF IInv, BookkeepingExact, Running
<1>2. CASE Construct \/ Start \/ Restore \/ RestoreRejected
  BY <1>2 DEF Construct, Start, Restore, RestoreRejected
<1>3. CASE Crash \/ SaveSnapshot \/ Tick
  BY <1>3 DEF Crash, SaveSnapshot, Tick, memoryVars, recordVars
<1>4. ASSUME NEW w \in Workers, NEW nowMs \in ClockReadings, LeaseNext(w, nowMs)
      PROVE  FALSE
  BY <1>1, <1>4 DEF LeaseNext, TypeOK
<1>5. ASSUME NEW r \in Results, CommitResult(r)
      PROVE  FALSE
  BY <1>1, <1>5 DEF CommitResult, AcceptResult, TypeOK, memoryVars, recordVars
<1>6. ASSUME NEW w \in Workers, NEW nowMs \in ClockReadings, RenewWorkerLeases(w, nowMs)
      PROVE  FALSE
  BY <1>6 DEF RenewWorkerLeases
<1>7. ASSUME NEW w \in Workers, ReleaseWorkerLeases(w)
      PROVE  leasedTo[t] \notin {leasedTo'[u] : u \in Tasks}
  <2>1. leasedTo' = [u \in Tasks |-> IF u \in LeasedBy(w) THEN NoWorker ELSE leasedTo[u]]
    BY <1>7 DEF ReleaseWorkerLeases, Requeue
  <2>2. t \in LeasedBy(w)
    BY <1>7 DEF ReleaseWorkerLeases, Requeue
  <2>3. leasedTo[t] = w
    BY <2>2 DEF LeasedBy
  <2>4. ASSUME NEW u \in Tasks
        PROVE  leasedTo'[u] # w
    BY <1>1, <2>1, SizesAssumption DEF LeasesHaveHolders, LeasedBy, TasksIn
  <2> QED
    BY <2>3, <2>4
<1>8. ASSUME NEW nowMs \in ClockReadings, RequeueExpired(nowMs)
      PROVE  expiresAt[t] <= now
  <2>1. t \in Expired(nowMs)
    BY <1>8 DEF RequeueExpired, Requeue
  <2>2. expiresAt[t] <= nowMs /\ nowMs <= now /\ nowMs \in Nat /\ now \in Nat
    BY <1>1, <2>1 DEF Expired, ClockReadings, TypeOK
  <2>3. expiresAt[t] \in Nat
    BY <1>1 DEF TypeOK
  <2> QED
    BY <2>2, <2>3
<1> QED
  BY <1>2, <1>3, <1>4, <1>5, <1>6, <1>7, <1>8 DEF Next, Serve

\* A worker keeps a task until the lease has run out or it has lost all its leases.
THEOREM LeasesHonoured == Spec => LeaseHonoured
<1> DEFINE Honours ==
      phase = "serving" =>
        \A t \in Tasks :
            state[t] = "leased" /\ state'[t] = "pending" =>
                expiresAt[t] <= now \/ leasedTo[t] \notin {leasedTo'[u] : u \in Tasks}
<1>1. IInv /\ [Next]_vars => [Honours]_vars
  BY StepHonoursLeases
<1>2. Spec => [][Honours]_vars
  BY <1>1, InductiveInvariant, PTL DEF Spec
<1> QED
  BY <1>2 DEF LeaseHonoured

\* In a queue without duplicates a task has one position.
LEMMA PositionIs ==
  ASSUME NEW q, IsDuplicateFree(q), NEW i \in DOMAIN q
  PROVE  QueuePosition(q, q[i]) = i
  BY DEF QueuePosition, IsDuplicateFree

\* No operation of a serving coordinator moves a waiting task back.
LEMMA NoTaskMovesBack ==
  ASSUME IInv, Next, phase = "serving", NEW i \in DOMAIN pendingTasks,
         pendingTasks[i] \in Range(pendingTasks')
  PROVE  \E j \in DOMAIN pendingTasks' : j <= i /\ pendingTasks'[j] = pendingTasks[i]
<1> DEFINE q == pendingTasks
           n == Len(pendingTasks)
<1>1. /\ q \in Seq(Tasks) /\ IsDuplicateFree(q)
      /\ Range(q) = TasksIn("pending")
      /\ n \in Nat /\ DOMAIN q = 1..n
  BY LenProperties DEF IInv, TypeOK, BookkeepingExact, PendingQueueExact, Running, IsDuplicateFree
<1>2. CASE UNCHANGED pendingTasks
  BY <1>1, <1>2
<1>3. CASE q # <<>> /\ pendingTasks' = Tail(q)
  <2>1. /\ n \in Nat \ {0}
        /\ DOMAIN Tail(q) = 1..(n - 1)
        /\ \A k \in 1..(n - 1) : Tail(q)[k] = q[k + 1]
    BY <1>1, <1>3, HeadTailProperties, EmptySeq, LenProperties
  <2>2. i # 1
    <3>1. q[1] = Head(q) /\ Head(q) \notin Range(Tail(q))
      BY <1>1, <1>3, TailLists, HeadTailProperties
    <3> QED
      BY <1>3, <3>1
  <2>3. i - 1 \in 1..(n - 1) /\ (i - 1) + 1 = i /\ i - 1 <= i
    BY <1>1, <2>1, <2>2
  <2>4. Tail(q)[i - 1] = q[(i - 1) + 1]
    BY <2>1, <2>3
  <2> QED
    BY <1>3, <2>1, <2>3, <2>4
<1>4. ASSUME NEW e \in Range(q), pendingTasks' = RemoveFirst(q, e)
      PROVE  \E j \in DOMAIN pendingTasks' : j <= i /\ pendingTasks'[j] = pendingTasks[i]
  <2> DEFINE r == RemoveFirst(q, e)
  <2>1. r \in Seq(Tasks) /\ Len(r) = n - 1 /\ e \notin Range(r)
    <3>1. r \in Seq(Tasks) /\ Len(r) = n - 1
      BY <1>1, RemoveFirstShape
    <3>2. Range(r) = Range(q) \ {e}
      BY <1>1, RemoveFirstLists
    <3> QED
      BY <3>1, <3>2
  <2>2. PICK k \in 1..n :
           /\ q[k] = e
           /\ \A x \in 1..(n - 1) : r[x] = IF x < k THEN q[x] ELSE q[x + 1]
    BY <1>1, RemoveFirstShape
  <2>3. DOMAIN r = 1..(n - 1)
    BY <2>1, LenProperties
  <2>4. i # k
    BY <1>4, <2>1, <2>2
  <2> HIDE DEF r, n
  <2>5. CASE i < k
    <3>1. i \in 1..(n - 1) /\ i <= i
      BY <1>1, <2>2, <2>5
    <3>2. r[i] = q[i]
      BY <2>2, <2>5, <3>1
    <3> QED
      BY <1>4, <2>3, <3>1, <3>2 DEF r
  <2>6. CASE k < i
    <3>1. i - 1 \in 1..(n - 1) /\ ~(i - 1 < k) /\ (i - 1) + 1 = i /\ i - 1 <= i
      BY <1>1, <2>2, <2>6
    <3>2. r[i - 1] = q[(i - 1) + 1]
      BY <2>2, <3>1
    <3> QED
      BY <1>4, <2>3, <3>1, <3>2 DEF r
  <2> QED
    BY <1>1, <2>2, <2>4, <2>5, <2>6
<1>5. ASSUME NEW p \in Seq(Tasks), pendingTasks' = q \o p
      PROVE  \E j \in DOMAIN pendingTasks' : j <= i /\ pendingTasks'[j] = pendingTasks[i]
  <2>1. /\ i \in DOMAIN (q \o p)
        /\ (q \o p)[i] = q[i]
        /\ i <= i
    BY <1>1, ConcatProperties, LenProperties
  <2> QED
    BY <1>5, <2>1
<1>6. CASE Construct \/ Start \/ Restore
  BY <1>6 DEF Construct, Start, Restore
<1>7. CASE RestoreRejected \/ Crash \/ SaveSnapshot \/ Tick
  BY <1>2, <1>7 DEF RestoreRejected, Crash, SaveSnapshot, Tick, memoryVars
<1>8. ASSUME NEW w \in Workers, NEW nowMs \in ClockReadings, LeaseNext(w, nowMs)
      PROVE  q # <<>> /\ pendingTasks' = Tail(q)
  BY <1>8 DEF LeaseNext
<1>9. ASSUME NEW r \in Results, CommitResult(r)
      PROVE  \/ UNCHANGED pendingTasks
             \/ \E e \in Range(q) : pendingTasks' = RemoveFirst(q, e)
  <2>1. CASE CommitStatus(r) = "Accepted"
    <3>1. r.task \in Tasks
      BY <2>1 DEF CommitStatus, Results
    <3>2. state[r.task] = "pending" => r.task \in Range(q)
      BY <1>1, <3>1 DEF TasksIn
    <3> QED
      BY <1>9, <2>1, <3>2 DEF CommitResult, AcceptResult
  <2>2. CASE CommitStatus(r) # "Accepted"
    BY <1>9, <2>2 DEF CommitResult, memoryVars
  <2> QED
    BY <2>1, <2>2
<1>10. ASSUME NEW w \in Workers, NEW nowMs \in ClockReadings, RenewWorkerLeases(w, nowMs)
       PROVE  UNCHANGED pendingTasks
  BY <1>10 DEF RenewWorkerLeases
<1>11. ASSUME NEW S \in SUBSET Tasks, Requeue(S)
       PROVE  \E p \in Seq(Tasks) : pendingTasks' = q \o p
  BY <1>11, IndexOrderLists DEF Requeue
<1>12. ASSUME NEW w \in Workers, ReleaseWorkerLeases(w)
       PROVE  \E p \in Seq(Tasks) : pendingTasks' = q \o p
  BY <1>11, <1>12 DEF ReleaseWorkerLeases, LeasedBy, TasksIn
<1>13. ASSUME NEW nowMs \in ClockReadings, RequeueExpired(nowMs)
       PROVE  \E p \in Seq(Tasks) : pendingTasks' = q \o p
  BY <1>11, <1>13 DEF RequeueExpired, Expired, TasksIn
<1> HIDE DEF q
<1> QED
  BY <1>2, <1>3, <1>4, <1>5, <1>6, <1>7, <1>8, <1>9, <1>10, <1>12, <1>13 DEF Next, Serve

\* A waiting task never falls behind in the queue, so requeued tasks cannot
\* starve it.
THEOREM WaitingTasksAdvance == Spec => NeverOvertaken
<1> DEFINE Advances ==
      phase = "serving" =>
        \A t \in Range(pendingTasks) \cap Range(pendingTasks)' :
            QueuePosition(pendingTasks', t) <= QueuePosition(pendingTasks, t)
<1>1. ASSUME IInv, IInv', Next, phase = "serving",
             NEW t \in Range(pendingTasks) \cap Range(pendingTasks)'
      PROVE  QueuePosition(pendingTasks', t) <= QueuePosition(pendingTasks, t)
  <2>1. IsDuplicateFree(pendingTasks)
    BY <1>1 DEF IInv, BookkeepingExact, PendingQueueExact, Running, IsDuplicateFree
  <2>2. PICK i \in DOMAIN pendingTasks : pendingTasks[i] = t
    BY DEF Range
  <2>3. PICK j \in DOMAIN pendingTasks' : j <= i /\ pendingTasks'[j] = pendingTasks[i]
    BY <1>1, <2>2, NoTaskMovesBack DEF Range
  <2>4. IsDuplicateFree(pendingTasks')
    <3>1. CASE phase' # "exited"
      BY <1>1, <3>1 DEF IInv, BookkeepingExact, PendingQueueExact, Running, IsDuplicateFree
    <3>2. CASE phase' = "exited"
      <4>1. UNCHANGED pendingTasks
        BY <1>1, <3>2 DEF Next, Construct, Start, Restore, RestoreRejected, Crash,
           SaveSnapshot, Tick, Serve, LeaseNext, CommitResult, RenewWorkerLeases,
           ReleaseWorkerLeases, RequeueExpired, Requeue, memoryVars
      <4> QED
        BY <2>1, <4>1 DEF IsDuplicateFree
    <3> QED
      BY <3>1, <3>2
  <2> QED
    BY <2>1, <2>2, <2>3, <2>4, PositionIs
<1>2. IInv /\ IInv' /\ [Next]_vars => [Advances]_vars
  BY <1>1
<1>3. Spec => [][Advances]_vars
  BY <1>2, InductiveInvariant, PTL DEF Spec
<1> QED
  BY <1>3 DEF NeverOvertaken
-----------------------------------------------------------------------------
(* The coordinator implements the ledger.                                  *)

\* Every step of the coordinator is a step of the ledger or leaves it alone.
LEMMA StepMapsToLedger ==
  ASSUME IInv, [Next]_vars
  PROVE  [Ledger!LedgerNext]_(Ledger!ledgerVars)
<1> DEFINE saved == IF checkpoint = NoCheckpoint THEN EmptyRadiance ELSE checkpoint.radiance
<1> USE DEF Ledger!LedgerNext, Ledger!ledgerVars
<1>1. CASE UNCHANGED <<radiance, checkpoint>>
  BY <1>1
<1>2. CASE Construct
  <2>1. radiance' = EmptyRadiance /\ UNCHANGED checkpoint
    BY <1>2 DEF Construct
  <2> QED
    BY <2>1 DEF Ledger!Rollback, Ledger!EmptyLedger, EmptyRadiance
<1>3. CASE Restore \/ RestoreRejected
  <2>1. /\ checkpoint # NoCheckpoint
        /\ UNCHANGED radiance \/ radiance' = checkpoint.radiance
        /\ UNCHANGED checkpoint
    BY <1>3 DEF Restore, RestoreRejected, bufferVars
  <2> QED
    BY <2>1 DEF Ledger!Rollback
<1>4. CASE SaveSnapshot
  <2>1. /\ checkpoint' = SnapshotOf /\ UNCHANGED radiance
        /\ SnapshotOf.radiance = radiance
    BY <1>4 DEF SaveSnapshot, SnapshotOf, memoryVars, bufferVars
  <2>2. checkpoint' # NoCheckpoint
    <3>1. sampleCounts \in [Tiles -> Nat]
      BY SizesAssumption DEF IInv, TypeOK
    <3>2. SnapshotOf \in Checkpoints
      BY <3>1 DEF SnapshotOf, Checkpoints, IInv, TypeOK, TasksIn
    <3> QED
      BY <2>1, <3>2, NoCheckpointAssumption
  <2> QED
    BY <2>1, <2>2 DEF Ledger!Save
<1>5. ASSUME NEW r \in Results, CommitResult(r), phase = "serving"
      PROVE  UNCHANGED <<radiance, checkpoint>> \/ \E t \in Tasks : Ledger!Merge(t)
  <2>1. CASE CommitStatus(r) # "Accepted"
    BY <1>5, <2>1 DEF CommitResult, memoryVars, bufferVars
  <2>2. CASE CommitStatus(r) = "Accepted"
    <3>1. r.task \in Tasks /\ state[r.task] # "completed"
      BY <2>2 DEF CommitStatus, Results
    <3>2. radiance[r.task] = 0
      BY <1>5, <3>1 DEF IInv, ExactlyOnce, Running
    <3>3. radiance' = [radiance EXCEPT ![r.task] = 1] /\ UNCHANGED checkpoint
      BY <1>5, <2>2, <3>2 DEF CommitResult, AcceptResult
    <3> QED
      BY <3>1, <3>2, <3>3 DEF Ledger!Merge
  <2> QED
    BY <2>1, <2>2
<1> QED
  BY <1>1, <1>2, <1>3, <1>4, <1>5
     DEF Next, vars, Start, Crash, Tick, Serve, LeaseNext, RenewWorkerLeases,
         ReleaseWorkerLeases, RequeueExpired, Requeue, memoryVars, bufferVars

\* What the coordinator does with leases, queue, restarts and checkpoints is, of
\* the framebuffer's contents, what the exactly-once ledger does.
THEOREM CoordinatorImplementsLedger == Spec => ImplementsLedger
<1>1. Init => Ledger!LedgerInit
  BY DEF Init, Ledger!LedgerInit, Ledger!EmptyLedger, EmptyRadiance
<1>2. IInv /\ [Next]_vars => [Ledger!LedgerNext]_(Ledger!ledgerVars)
  BY StepMapsToLedger
<1> QED
  BY <1>1, <1>2, InductiveInvariant, PTL DEF Spec, ImplementsLedger, Ledger!LedgerSpec


Same(d) ==
    /\ client'[d] = client[d] /\ heartbeat'[d] = heartbeat[d] /\ task'[d] = task[d]
    /\ request'[d] = request[d] /\ reply'[d] = reply[d]
    /\ session'[d] = session[d] /\ registered'[d] = registered[d]
    /\ readAt'[d] = readAt[d] /\ status'[d] = status[d]

\* What a step of c does to the clients and sessions.
Keeps(c) ==
    /\ RenderTypeOK'
    /\ \A d \in Clients \ {c} : Same(d)
    /\ Conversation(c)'
    /\ Truthful(c)'
    /\ session'[c] # "none" => phase = "serving"
    /\ readAt'[c] <= now

\* What it does to the coordinator.
Grows ==
    /\ TasksIn("completed") \subseteq TasksIn("completed")'
    /\ UNCHANGED <<phase, now>>

NoNewLeases ==
    \A t \in TasksIn("leased")' : t \in TasksIn("leased") /\ leasedTo'[t] = leasedTo[t]
-----------------------------------------------------------------------------
(* The coordinator's operations.                                           *)

LEMMA LeaseNextEffect ==
    ASSUME IInv, phase = "serving", NEW w \in Workers, NEW nowMs \in Nat,
           LeaseNext(w, nowMs)
    PROVE  /\ Grows
           /\ Head(pendingTasks) \in Tasks
           /\ \A t \in TasksIn("leased")' :
                 \/ t \in TasksIn("leased") /\ leasedTo'[t] = leasedTo[t]
                 \/ leasedTo'[t] = w
<1> DEFINE t == Head(pendingTasks)
<1>1. pendingTasks # <<>> /\ pendingTasks \in Seq(Tasks)
    BY DEF LeaseNext, IInv, TypeOK
<1>2. t \in Range(pendingTasks)
    BY <1>1 DEF Range
<1>3. t \in TasksIn("pending")
    BY <1>2 DEF IInv, BookkeepingExact, PendingQueueExact, Running
<1> HIDE DEF t
<1>4. /\ state' = [state EXCEPT ![t] = "leased"]
      /\ leasedTo' = [leasedTo EXCEPT ![t] = w]
      /\ UNCHANGED <<phase, now>>
    BY DEF LeaseNext, t
<1>5. state \in [Tasks -> TaskStates] /\ leasedTo \in [Tasks -> Workers \cup {NoWorker}]
    BY DEF IInv, TypeOK
<1>6. Grows
    BY <1>3, <1>4, <1>5 DEF Grows, TasksIn
<1>7. ASSUME NEW u \in TasksIn("leased")'
      PROVE  (u \in TasksIn("leased") /\ leasedTo'[u] = leasedTo[u]) \/ leasedTo'[u] = w
    BY <1>3, <1>4, <1>5 DEF TasksIn
<1> QED
    BY <1>3, <1>6, <1>7 DEF TasksIn, t

\* A requeue completes nothing and leases nothing.
LEMMA RequeueEffect ==
    ASSUME IInv, NEW S \in SUBSET TasksIn("leased"), Requeue(S)
    PROVE  /\ Grows
           /\ NoNewLeases
           /\ TasksIn("leased")' \cap S = {}
<1>1. /\ state' = [t \in Tasks |-> IF t \in S THEN "pending" ELSE state[t]]
      /\ leasedTo' = [t \in Tasks |-> IF t \in S THEN NoWorker ELSE leasedTo[t]]
      /\ UNCHANGED <<phase, now>>
    BY DEF Requeue
<1>2. Grows
    BY <1>1 DEF Grows, TasksIn
<1>3. NoNewLeases /\ TasksIn("leased")' \cap S = {}
    BY <1>1 DEF NoNewLeases, TasksIn
<1> QED
    BY <1>2, <1>3

\* The result of one of the job's tasks, in good order, is merged or a duplicate.
LEMMA CommitEffect ==
    ASSUME IInv, phase = "serving", NEW r \in Results, CommitResult(r),
           r.jobMatches, r.wellFormed, r.task \in Tasks
    PROVE  /\ Grows
           /\ NoNewLeases
           /\ CommitStatus(r) \in {"Accepted", "Duplicate"}
           /\ r.task \in TasksIn("completed")'
<1> DEFINE t == r.task
<1>1. t # NoTask
    BY SizesAssumption DEF Tasks, NoTask
<1>2. state \in [Tasks -> TaskStates] /\ leasedTo \in [Tasks -> Workers \cup {NoWorker}]
    BY DEF IInv, TypeOK
<1>3. CASE state[t] = "completed"
    <2>1. CommitStatus(r) = "Duplicate"
        BY <1>1, <1>3 DEF CommitStatus
    <2>2. UNCHANGED <<phase, now, state, leasedTo>>
        BY <2>1 DEF CommitResult, memoryVars, recordVars
    <2> QED
        BY <1>3, <2>1, <2>2 DEF Grows, NoNewLeases, TasksIn
<1>4. CASE state[t] # "completed"
    <2>1. HasRoom(t)
        BY <1>4, RoomForUnfinished DEF Running
    <2>2. CommitStatus(r) = "Accepted"
        BY <1>1, <1>4, <2>1 DEF CommitStatus
    <2>3. /\ state' = [state EXCEPT ![t] = "completed"]
          /\ leasedTo' = [leasedTo EXCEPT ![t] = NoWorker]
          /\ UNCHANGED <<phase, now>>
        BY <2>2 DEF CommitResult, AcceptResult
    <2> HIDE DEF t
    <2>4. t \in Tasks
        BY DEF t
    <2>5. Grows /\ t \in TasksIn("completed")'
        BY <1>2, <2>3, <2>4 DEF Grows, TasksIn
    <2>6. NoNewLeases
        BY <1>2, <2>3, <2>4 DEF NoNewLeases, TasksIn
    <2> QED
        BY <2>2, <2>5, <2>6 DEF t
<1> QED
    BY <1>3, <1>4

LEMMA RenewEffect ==
    ASSUME NEW w, NEW nowMs, RenewWorkerLeases(w, nowMs)
    PROVE  Grows /\ NoNewLeases
BY DEF RenewWorkerLeases, Grows, NoNewLeases, TasksIn

LEMMA QuietEffect ==
    ASSUME UNCHANGED vars
    PROVE  /\ Grows /\ NoNewLeases
           /\ UNCHANGED <<phase, now, state, leasedTo>>
BY DEF vars, memoryVars, recordVars, Grows, NoNewLeases, TasksIn

\* A complete coordinator has every task's result.
LEMMA CompleteMeansAllMerged ==
    ASSUME IInv, phase = "serving", complete
    PROVE  AllMerged
<1>1. IsFiniteSet(Tasks) /\ Cardinality(Tasks) = NumTasks
    BY FS_Interval, SizesAssumption DEF Tasks
<1>2. Cardinality(TasksIn("completed")) = NumTasks
    BY DEF IInv, BookkeepingExact, CompletedCountExact, Running, complete
<1>3. TasksIn("completed") \in SUBSET Tasks
    BY DEF TasksIn
<1> QED
    BY <1>1, <1>2, <1>3, FS_Subset DEF AllMerged
-----------------------------------------------------------------------------
(* The other clients.                                                      *)

LEMMA OthersConverse ==
    ASSUME NEW d \in Clients, Conversation(d), Same(d)
    PROVE  Conversation(d)'
BY DEF Same, Conversation, Arriving, Working, Left, Asks, Hears, Rests

LEMMA OthersTruthful ==
    ASSUME NEW d \in Clients, Truthful(d), Same(d),
           TasksIn("completed") \subseteq TasksIn("completed")'
    PROVE  Truthful(d)'
<1>1. AllMerged => AllMerged'
    BY DEF AllMerged, TasksIn
<1> QED
    BY <1>1 DEF Same, Truthful

\* A lease needs a registered session, and the others' stay registered.
LEMMA LeasesStayServed ==
    ASSUME RenderIInv, NEW c \in Clients, Keeps(c), registered[c] => registered'[c],
           \A t \in TasksIn("leased")' :
              \/ t \in TasksIn("leased") /\ leasedTo'[t] = leasedTo[t]
              \/ registered'[c] /\ leasedTo'[t] = IdOf[c]
    PROVE  LeasesAreServed'
<1> SUFFICES ASSUME NEW t \in TasksIn("leased")'
             PROVE  \E d \in Clients : registered'[d] /\ IdOf[d] = leasedTo'[t]
    BY DEF LeasesAreServed
<1>1. CASE registered'[c] /\ leasedTo'[t] = IdOf[c]
    BY <1>1
<1>2. CASE t \in TasksIn("leased") /\ leasedTo'[t] = leasedTo[t]
    <2>1. PICK d \in Clients : registered[d] /\ IdOf[d] = leasedTo[t]
        BY <1>2 DEF RenderIInv, LeasesAreServed
    <2>2. registered'[d]
        BY <2>1 DEF Keeps, Same
    <2> QED
        BY <1>2, <2>1, <2>2
<1> QED
    BY <1>1, <1>2

\* What a step of c has to keep for all of them.
LEMMA StepKeepsAll ==
    ASSUME RenderIInv, NEW c \in Clients, Keeps(c), Grows, IInv', LeasesAreServed'
    PROVE  RenderIInv'
<1>1. ASSUME NEW d \in Clients \ {c}
      PROVE  Conversation(d)' /\ Truthful(d)'
    BY OthersConverse, OthersTruthful DEF RenderIInv, Keeps, Grows
<1>2. ServesItsSessions'
    <2>1. phase' = phase /\ now' = now
        BY DEF Grows
    <2>2. \A d \in Clients : session'[d] # "none" => phase = "serving"
        BY DEF Keeps, RenderIInv, ServesItsSessions, Same
    <2>3. \A d \in Clients : readAt'[d] <= now
        BY DEF Keeps, RenderIInv, ServesItsSessions, Same
    <2> QED
        BY <2>1, <2>2, <2>3 DEF RenderIInv, ServesItsSessions
<1> QED
    BY <1>1, <1>2 DEF RenderIInv, Keeps
-----------------------------------------------------------------------------
(* The steps of a worker process, which leave the coordinator alone.       *)

\* The fields that go with the kind of a reply.
LEMMA ReplyFields ==
    ASSUME NEW r \in Replies
    PROVE  /\ r.kind = "assignment" => r.task \in Tasks
           /\ r.kind = "noTask" => r.jobComplete \in BOOLEAN
           /\ r.kind = "ack" =>
                 r.task \in Tasks \cup {NoTask} /\ r.of \in Tasks /\ r.status \in Statuses
BY DEF Replies, Nothing

\* What the places of a worker that has no session, or an open one, say of the rest.
LEMMA ConversationOf ==
    ASSUME NEW c \in Clients, Conversation(c)
    PROVE  /\ client[c] \in {"sleeping", "requesting", "rendering", "joining", "submitting"} =>
                 Working(c)
           /\ client[c] \in {"down", "registering"} => Arriving(c)
           /\ client[c] \in Gone => Left(c)
BY DEF Conversation, Arriving, Working, Left, Gone

LEMMA MainThreadTypes ==
    ASSUME RenderIInv, NEW c \in Clients, MainThreadStep(c)
    PROVE  RenderTypeOK' /\ \A d \in Clients \ {c} : Same(d)
<1> USE DEF RenderIInv, RenderTypeOK, Client, Read, Send, Same, Places, Messages, sessionVars,
            NoReply, Gone
<1>1. NoReply \in Replies
    BY DEF Replies
<1>2. CASE Connect(c)
    BY <1>2 DEF Connect, SessionPlaces
<1>3. CASE Registered(c) \/ Refused(c)
    BY <1>1, <1>3 DEF Registered, Refused
<1>4. CASE RequestTask(c) \/ Rendered(c) \/ SubmitResult(c)
    BY <1>4 DEF RequestTask, Rendered, SubmitResult
<1>5. CASE Assigned(c)
    BY <1>1, <1>5, ReplyFields DEF Assigned
<1>6. CASE NoneAssigned(c)
    BY <1>1, <1>6 DEF NoneAssigned
<1>7. CASE Acknowledged(c)
    BY <1>1, <1>7, ReplyFields DEF Acknowledged, NextPlace
<1> QED
    BY <1>2, <1>3, <1>4, <1>5, <1>6, <1>7 DEF MainThreadStep

\* The main thread reads the answers it waits for and no others.
LEMMA MainThreadConverses ==
    ASSUME RenderIInv, NEW c \in Clients, MainThreadStep(c)
    PROVE  Conversation(c)'
<1>1. Conversation(c) /\ RenderTypeOK
    BY DEF RenderIInv
<1> USE DEF RenderTypeOK, Client, Read, Send, sessionVars, Nothing, NoReply, Gone,
            Asks, Hears, Rests
<1>2. CASE Connect(c)
    BY <1>1, <1>2, ConversationOf DEF Connect, Arriving, Conversation
<1>3. CASE Registered(c)
    BY <1>1, <1>3, ConversationOf DEF Registered, Arriving, Working, Conversation
<1>4. CASE Refused(c)
    BY <1>1, <1>4, ConversationOf DEF Refused, Arriving, Left, Conversation
<1>5. CASE RequestTask(c)
    BY <1>1, <1>5, ConversationOf DEF RequestTask, Working, Conversation
<1>6. CASE Rendered(c)
    BY <1>1, <1>6, ConversationOf DEF Rendered, Working, Conversation
<1>7. CASE SubmitResult(c)
    BY <1>1, <1>7, ConversationOf DEF SubmitResult, HeartbeatJoined, Working, Conversation
<1>8. CASE Assigned(c)
    BY <1>1, <1>8, ConversationOf DEF Assigned, Working, Conversation
<1>9. CASE NoneAssigned(c)
    BY <1>1, <1>9, ConversationOf DEF NoneAssigned, Working, Left, Conversation
<1>10. CASE Acknowledged(c)
    BY <1>1, <1>10, ConversationOf DEF Acknowledged, NextPlace, Working, Left, Conversation
<1> QED
    BY <1>2, <1>3, <1>4, <1>5, <1>6, <1>7, <1>8, <1>9, <1>10 DEF MainThreadStep

\* What it is told is true, and what it acts on is what it was told.
LEMMA MainThreadTruthful ==
    ASSUME RenderIInv, NEW c \in Clients, MainThreadStep(c)
    PROVE  Truthful(c)'
<1>1. Conversation(c) /\ Truthful(c) /\ RenderTypeOK
    BY DEF RenderIInv
<1>2. UNCHANGED <<vars, status>> /\ (client[c] # "down" => session'[c] = session[c])
    BY DEF MainThreadStep, Connect, Registered, Refused, RequestTask, Assigned, NoneAssigned,
           Rendered, SubmitResult, Acknowledged, Client, sessionVars
<1>3. (AllMerged => AllMerged') /\ TasksIn("completed")' = TasksIn("completed")
    BY <1>2 DEF AllMerged, TasksIn, vars, memoryVars, recordVars
<1> USE DEF RenderTypeOK, Client, Read, Send, sessionVars, Nothing, NoReply, Gone,
            Asks, Hears, Rests, Truthful
<1>4. CASE Connect(c)
    BY <1>1, <1>2, <1>3, <1>4, ConversationOf DEF Connect, Arriving
<1>5. CASE Registered(c) \/ Refused(c)
    BY <1>1, <1>2, <1>3, <1>5, ConversationOf DEF Registered, Refused, Arriving
<1>6. CASE RequestTask(c) \/ Rendered(c) \/ SubmitResult(c)
    BY <1>1, <1>2, <1>3, <1>6, ConversationOf DEF RequestTask, Rendered, SubmitResult, Working
<1>7. CASE Assigned(c)
    BY <1>1, <1>2, <1>3, <1>7, ConversationOf, ReplyFields DEF Assigned, Working
<1>8. CASE NoneAssigned(c)
    BY <1>1, <1>2, <1>3, <1>8, ConversationOf DEF NoneAssigned, Working
<1>9. CASE Acknowledged(c)
    BY <1>1, <1>2, <1>3, <1>9, ConversationOf, ReplyFields DEF Acknowledged, NextPlace, Working
<1> QED
    BY <1>4, <1>5, <1>6, <1>7, <1>8, <1>9 DEF MainThreadStep

\* The heartbeat thread, and the end of a process in the middle of anything.
OtherClientStep(c) == SendHeartbeat(c) \/ HeartbeatAcknowledged(c) \/ Fail(c)

LEMMA OtherThreadKeeps ==
    ASSUME RenderIInv, NEW c \in Clients, OtherClientStep(c)
    PROVE  /\ RenderTypeOK'
           /\ \A d \in Clients \ {c} : Same(d)
           /\ Conversation(c)'
           /\ Truthful(c)'
<1>1. Conversation(c) /\ Truthful(c) /\ RenderTypeOK
    BY DEF RenderIInv
<1>2. UNCHANGED <<vars, sessionVars>>
    BY DEF OtherClientStep, SendHeartbeat, HeartbeatAcknowledged, Fail
<1>3. (AllMerged => AllMerged') /\ TasksIn("completed")' = TasksIn("completed")
    BY <1>2 DEF AllMerged, TasksIn, vars, memoryVars, recordVars
<1>4. NoReply \in Replies
    BY DEF Replies, NoReply
<1> USE <1>1, <1>2, <1>3, <1>4
<1>5. CASE SendHeartbeat(c)
    <2> USE <1>5 DEF SendHeartbeat, Send, RenderTypeOK, sessionVars
    <2>1. RenderTypeOK' /\ \A d \in Clients \ {c} : Same(d)
        BY DEF Same, Messages
    <2>2. Conversation(c)'
        BY ConversationOf DEF Conversation, Working, Asks, Rests
    <2>3. Truthful(c)'
        BY ConversationOf DEF Truthful, Working, Asks, Rests, NoReply
    <2> QED
        BY <2>1, <2>2, <2>3
<1>6. CASE HeartbeatAcknowledged(c)
    <2> USE <1>6 DEF HeartbeatAcknowledged, Read, RenderTypeOK, sessionVars
    <2>1. RenderTypeOK' /\ \A d \in Clients \ {c} : Same(d)
        BY DEF Same, Messages
    <2>2. Conversation(c)'
        BY DEF Conversation, Arriving, Working, Left, Asks, Hears, Rests, NoReply, Nothing
    <2>3. Truthful(c)'
        BY DEF Truthful, NoReply, Nothing
    <2> QED
        BY <2>1, <2>2, <2>3
<1>7. CASE Fail(c)
    <2> USE <1>7 DEF Fail, RenderTypeOK, sessionVars
    <2>1. RenderTypeOK' /\ \A d \in Clients \ {c} : Same(d)
        BY DEF Same, Messages, Places, Gone
    <2>2. Conversation(c)'
        BY DEF Conversation, Arriving, Working, Left, Asks, Hears, Rests, NoReply, Nothing, Gone
    <2>3. Truthful(c)'
        BY DEF Conversation, Arriving, Working, Left, Asks, Hears, Rests, Truthful, NoReply,
               Nothing, Gone
    <2> QED
        BY <2>1, <2>2, <2>3
<1> QED
    BY <1>5, <1>6, <1>7 DEF OtherClientStep

\* A step of a worker process keeps the whole invariant.
LEMMA WorkerKeepsRenderIInv ==
    ASSUME RenderIInv, NEW c \in Clients, MainThreadStep(c) \/ OtherClientStep(c)
    PROVE  UNCHANGED vars /\ RenderIInv'
<1>1. UNCHANGED vars /\ UNCHANGED <<registered, readAt>>
    BY DEF MainThreadStep, Connect, Registered, Refused, RequestTask, Assigned, NoneAssigned,
           Rendered, SubmitResult, Acknowledged, Client, sessionVars,
           OtherClientStep, SendHeartbeat, HeartbeatAcknowledged, Fail
<1>2. session'[c] # "none" => phase = "serving"
    BY DEF MainThreadStep, Connect, Registered, Refused, RequestTask, Assigned, NoneAssigned,
           Rendered, SubmitResult, Acknowledged, Client, sessionVars,
           OtherClientStep, SendHeartbeat, HeartbeatAcknowledged, Fail,
           RenderIInv, ServesItsSessions
<1>3. Keeps(c)
    BY <1>1, <1>2, MainThreadTypes, MainThreadConverses, MainThreadTruthful, OtherThreadKeeps
       DEF Keeps, RenderIInv, ServesItsSessions
<1>4. IInv'
    BY <1>1, QuietStepKeepsIInv DEF RenderIInv
<1>5. Grows /\ NoNewLeases
    BY <1>1, QuietEffect
<1>6. LeasesAreServed'
    BY <1>1, <1>3, <1>5, LeasesStayServed DEF NoNewLeases
<1> QED
    BY <1>1, <1>3, <1>4, <1>5, <1>6, StepKeepsAll
-----------------------------------------------------------------------------
(* The steps of a session's thread: first what they do to the conversation. *)

\* An answer is of its type if the reply is.
LEMMA AnswerTypes ==
    ASSUME RenderTypeOK, NEW c \in Clients, NEW r \in Replies, NEW keepAlive \in BOOLEAN,
           Answer(c, r, keepAlive), registered' \in [Clients -> BOOLEAN],
           \A d \in Clients \ {c} : registered'[d] = registered[d]
    PROVE  RenderTypeOK' /\ \A d \in Clients \ {c} : Same(d)
<1>1. NoReply \in Replies
    BY DEF Replies, NoReply
<1> QED
    BY <1>1 DEF RenderTypeOK, Answer, clientVars, Same, Messages, SessionPlaces

\* It ends the exchange, unless the client is gone.
LEMMA AnswerConverses ==
    ASSUME RenderIInv, NEW c \in Clients, NEW r \in Replies, NEW keepAlive \in BOOLEAN,
           Answer(c, r, keepAlive), request[c] # Nothing,
           session[c] \in {"handling", "asking", "checking", "leasing"},
           registered'[c] = registered[c], registered[c], keepAlive,
           client[c] = "requesting" => r.kind \in {"assignment", "noTask"},
           client[c] = "submitting" => r.kind = "ack",
           heartbeat[c] = "awaiting" => r.kind = "heartbeatAck"
    PROVE  Conversation(c)'
<1>1. Conversation(c) /\ RenderTypeOK
    BY DEF RenderIInv
<1> USE DEF RenderTypeOK, Answer, clientVars, Asks, Hears, Rests, NoReply, Nothing, Gone
<1>2. CASE Arriving(c)
    BY <1>1, <1>2 DEF Arriving
<1>3. CASE Working(c)
    BY <1>1, <1>3 DEF Working, Conversation
<1>4. CASE Left(c)
    BY <1>1, <1>4 DEF Left, Conversation
<1> QED
    BY <1>1, <1>2, <1>3, <1>4 DEF Conversation

\* What it says has to be true.
LEMMA AnswerTruthful ==
    ASSUME RenderIInv, Grows, NEW c \in Clients, NEW r \in Replies,
           NEW keepAlive \in BOOLEAN,
           Answer(c, r, keepAlive),
           r.kind = "ack" => r.status # "Rejected" /\ r.of \in TasksIn("completed")',
           r.kind = "noTask" /\ r.jobComplete => AllMerged'
    PROVE  Truthful(c)'
<1>1. Truthful(c) /\ RenderTypeOK
    BY DEF RenderIInv
<1>2. AllMerged => AllMerged'
    BY DEF Grows, AllMerged, TasksIn
<1> QED
    BY <1>1, <1>2 DEF Truthful, RenderTypeOK, Answer, clientVars, NoReply, Nothing

LEMMA AnswerKeeps ==
    ASSUME RenderIInv, Grows, NEW c \in Clients, NEW r \in Replies,
           Answer(c, r, TRUE), request[c] # Nothing,
           session[c] \in {"handling", "asking", "checking", "leasing"},
           registered' = registered, registered[c],
           client[c] = "requesting" => r.kind \in {"assignment", "noTask"},
           client[c] = "submitting" => r.kind = "ack",
           heartbeat[c] = "awaiting" => r.kind = "heartbeatAck",
           r.kind = "ack" => r.status # "Rejected" /\ r.of \in TasksIn("completed")',
           r.kind = "noTask" /\ r.jobComplete => AllMerged'
    PROVE  Keeps(c)
<1>1. RenderTypeOK' /\ \A d \in Clients \ {c} : Same(d)
    BY AnswerTypes DEF RenderIInv, RenderTypeOK
<1>2. Conversation(c)' /\ Truthful(c)'
    BY AnswerConverses, AnswerTruthful
<1>3. phase = "serving"
    BY DEF RenderIInv, ServesItsSessions
<1>4. readAt'[c] <= now
    <2>1. readAt'[c] = 0 /\ now \in Nat
        BY DEF Answer, RenderIInv, RenderTypeOK, IInv, TypeOK
    <2> QED
        BY <2>1
<1> QED
    BY <1>1, <1>2, <1>3, <1>4 DEF Keeps

\* Only registered clients send anything but the hello.
LEMMA RegisteredWhenAsked ==
    ASSUME RenderIInv, NEW c \in Clients, request[c] \notin {Nothing, "hello"},
           session[c] \in {"handling", "asking", "checking", "leasing"}
    PROVE  /\ registered[c]
           /\ client[c] = "requesting" => request[c] = "taskRequest"
           /\ client[c] = "submitting" => request[c] = "taskResult"
           /\ heartbeat[c] = "awaiting" => request[c] = "heartbeat"
           /\ client[c] \in {"requesting", "submitting"} => heartbeat[c] = "quiet"
BY DEF RenderIInv, Conversation, Arriving, Working, Left, Asks, Hears, Rests, Nothing, Gone

\* The request a session works on in a place of its own.
LEMMA RequestBeingHandled ==
    ASSUME RenderIInv, NEW c \in Clients
    PROVE  /\ session[c] = "asking" => request[c] = "taskRequest"
           /\ session[c] \in {"checking", "leasing"} => request[c] = "taskResult"
BY DEF RenderIInv, Conversation, Arriving, Working, Left, Asks, Hears, Rests

\* A session that goes on with the same request.
LEMMA ProceedKeeps ==
    ASSUME RenderIInv, Grows, NEW c \in Clients, NEW place \in SessionPlaces,
           Proceed(c, place), status' \in [Clients -> Statuses \cup {Nothing}],
           \A d \in Clients \ {c} : status'[d] = status[d],
           \/ request[c] = "taskRequest" /\ session[c] = "handling" /\ place = "asking"
           \/ /\ request[c] = "taskResult" /\ session[c] \in {"handling", "checking"}
              /\ place \in {"checking", "leasing"}
              /\ status'[c] \in {"Accepted", "Duplicate"} /\ task[c] \in TasksIn("completed")'
    PROVE  Keeps(c)
<1> USE DEF Proceed, clientVars
<1>1. RenderTypeOK' /\ \A d \in Clients \ {c} : Same(d)
    BY DEF RenderIInv, RenderTypeOK, Same
<1>2. Conversation(c)'
    BY DEF RenderIInv, RenderTypeOK, Conversation, Arriving, Working, Left, Asks, Hears, Rests,
           NoReply, Nothing
<1>3. Truthful(c)'
    <2>1. AllMerged => AllMerged'
        BY DEF Grows, AllMerged, TasksIn
    <2>2. Truthful(c) /\ RenderTypeOK
        BY DEF RenderIInv
    <2> QED
        BY <2>1, <2>2 DEF Grows, Truthful, RenderTypeOK
<1>4. phase = "serving" /\ readAt'[c] <= now
    BY DEF RenderIInv, ServesItsSessions
<1> QED
    BY <1>1, <1>2, <1>3, <1>4 DEF Keeps

\* The clock is read when a message comes, and is a reading Coordinator allows
\* for as long as the mutex may take.
LEMMA ReadingsAllowed ==
    ASSUME RenderIInv, NEW c \in Clients
    PROVE  readAt[c] \in ClockReadings
<1>1. readAt[c] \in Nat /\ readAt[c] <= now /\ now <= MaxTime /\ now \in Nat
    BY DEF RenderIInv, RenderTypeOK, ServesItsSessions, IInv, TypeOK
<1> QED
    BY <1>1, LagAssumption, SizesAssumption DEF ClockReadings

LEMMA ReceiveKeeps ==
    ASSUME RenderIInv, NEW c \in Clients, Receive(c)
    PROVE  Keeps(c)
<1> USE DEF Receive, clientVars
<1>1. now \in Nat
    BY DEF RenderIInv, IInv, TypeOK
<1>2. RenderTypeOK' /\ \A d \in Clients \ {c} : Same(d)
    BY <1>1 DEF RenderIInv, RenderTypeOK, Same, SessionPlaces
<1>3. Conversation(c)'
    BY DEF RenderIInv, RenderTypeOK, Conversation, Arriving, Working, Left, Asks, Hears, Rests,
           NoReply, Nothing
<1>4. Truthful(c)'
    BY QuietEffect DEF RenderIInv, Truthful, RenderTypeOK, AllMerged, TasksIn
<1>5. phase = "serving" /\ readAt'[c] <= now
    BY <1>1 DEF RenderIInv, RenderTypeOK, ServesItsSessions
<1> QED
    BY <1>2, <1>3, <1>4, <1>5 DEF Keeps

LEMMA ExpireLeasesKeeps ==
    ASSUME RenderIInv, Grows, NEW c \in Clients, ExpireLeases(c)
    PROVE  Keeps(c)
<1> USE DEF ExpireLeases, clientVars
<1>1. RenderTypeOK' /\ \A d \in Clients \ {c} : Same(d)
    BY DEF RenderIInv, RenderTypeOK, Same, SessionPlaces
<1>2. Conversation(c)'
    BY DEF RenderIInv, RenderTypeOK, Conversation, Arriving, Working, Left, Asks, Hears, Rests,
           NoReply, Nothing
<1>3. Truthful(c)'
    <2>1. AllMerged => AllMerged'
        BY DEF Grows, AllMerged, TasksIn
    <2> QED
        BY <2>1 DEF Grows, RenderIInv, Truthful, RenderTypeOK
<1>4. phase = "serving" /\ readAt'[c] <= now
    BY DEF RenderIInv, RenderTypeOK, ServesItsSessions
<1> QED
    BY <1>1, <1>2, <1>3, <1>4 DEF Keeps

LEMMA HandleHelloKeeps ==
    ASSUME RenderIInv, NEW c \in Clients, HandleHello(c)
    PROVE  /\ Keeps(c)
           /\ registered[c] => registered'[c]
<1> DEFINE r == [kind |-> IF c \in Compatible THEN "accepted" ELSE "refused"]
<1>1. r \in Replies /\ r.kind \in {"accepted", "refused"}
    BY DEF Replies
<1>2. Answer(c, r, c \in Compatible) /\ (c \in Compatible) \in BOOLEAN
    BY DEF HandleHello
<1>3. registered' = [registered EXCEPT ![c] = c \in Compatible] /\ UNCHANGED vars
    BY DEF HandleHello
<1>4. session[c] = "handling" /\ request[c] = "hello"
    BY DEF HandleHello, Handling
<1>5. RenderTypeOK' /\ \A d \in Clients \ {c} : Same(d)
    <2>1. /\ registered' \in [Clients -> BOOLEAN]
          /\ \A d \in Clients \ {c} : registered'[d] = registered[d]
        BY <1>2, <1>3 DEF RenderIInv, RenderTypeOK
    <2> HIDE DEF r
    <2> QED
        BY <1>1, <1>2, <2>1, AnswerTypes DEF RenderIInv
<1>6. Conversation(c)'
    <2>1. (Arriving(c) /\ client[c] = "registering") \/ Left(c)
        BY <1>4 DEF RenderIInv, Conversation, Arriving, Working, Asks, Hears, Rests, Nothing
    <2> USE <1>2, <1>3, <1>4 DEF RenderIInv, RenderTypeOK, Answer, clientVars, NoReply,
        Nothing, Gone
    <2>2. CASE Arriving(c) /\ client[c] = "registering"
        BY <2>2 DEF Arriving, Asks, Hears, Conversation
    <2>3. CASE Left(c)
        BY <2>3 DEF Left, Conversation
    <2> QED
        BY <2>1, <2>2, <2>3
<1>7. Truthful(c)'
    BY <1>1, <1>2, <1>3, AnswerTruthful, QuietEffect
<1>8. phase = "serving" /\ readAt'[c] <= now
    BY <1>2, <1>4 DEF Answer, RenderIInv, RenderTypeOK, ServesItsSessions, IInv, TypeOK
<1>9. ~registered[c] \/ registered'[c]
    BY <1>4 DEF RenderIInv, Conversation, Arriving, Working, Left, Asks, Hears, Rests, Nothing
<1> QED
    BY <1>5, <1>6, <1>7, <1>8, <1>9 DEF Keeps

LEMMA LosingKeeps ==
    ASSUME RenderIInv, Grows, NEW c \in Clients, ReceiveFails(c) \/ Disconnect(c)
    PROVE  Keeps(c)
<1> USE DEF ReceiveFails, Disconnect, clientVars
<1>1. RenderTypeOK' /\ \A d \in Clients \ {c} : Same(d)
    BY DEF RenderIInv, RenderTypeOK, Same, SessionPlaces
<1>2. Conversation(c)'
    BY DEF RenderIInv, RenderTypeOK, Conversation, Arriving, Working, Left, Asks, Hears, Rests,
           NoReply, Nothing, Gone
<1>3. Truthful(c)'
    <2>1. AllMerged => AllMerged'
        BY DEF Grows, AllMerged, TasksIn
    <2> QED
        BY <2>1 DEF Grows, RenderIInv, Truthful, RenderTypeOK
<1>4. phase = "serving" /\ readAt'[c] <= now
    BY DEF RenderIInv, RenderTypeOK, ServesItsSessions
<1> QED
    BY <1>1, <1>2, <1>3, <1>4 DEF Keeps
-----------------------------------------------------------------------------
(* Then each with what it does to the coordinator.                         *)

\* What the lemmas below establish of a step of c's session.
SessionEffect(c) ==
    /\ [Next]_vars
    /\ RenderIInv'

\* It is enough to know it as one of the coordinator's operations.
LEMMA EffectOfServe ==
    ASSUME RenderIInv, NEW c \in Clients, Keeps(c), Grows, registered[c] => registered'[c],
           Serve \/ UNCHANGED vars,
           \A t \in TasksIn("leased")' :
              \/ t \in TasksIn("leased") /\ leasedTo'[t] = leasedTo[t]
              \/ registered'[c] /\ leasedTo'[t] = IdOf[c]
    PROVE  SessionEffect(c)
<1>1. IInv'
    BY ServeKeepsIInv, QuietStepKeepsIInv DEF RenderIInv
<1>2. LeasesAreServed'
    BY LeasesStayServed
<1>3. [Next]_vars
    BY DEF Next
<1> QED
    BY <1>1, <1>2, <1>3, StepKeepsAll DEF SessionEffect

LEMMA ServingWhenOpen ==
    ASSUME RenderIInv, NEW c \in Clients, session[c] # "none"
    PROVE  phase = "serving"
BY DEF RenderIInv, ServesItsSessions

LEMMA WorkerOf ==
    ASSUME NEW c \in Clients
    PROVE  IdOf[c] \in Workers
BY ClientsAssumption

LEMMA QuietSessionSteps ==
    ASSUME RenderIInv, NEW c \in Clients, Receive(c) \/ ReceiveFails(c) \/ HandleHello(c)
    PROVE  SessionEffect(c)
<1>1. UNCHANGED vars
    BY DEF Receive, ReceiveFails, HandleHello
<1>2. Grows /\ NoNewLeases
    BY <1>1, QuietEffect
<1>3. Keeps(c) /\ (registered[c] => registered'[c])
    BY <1>2, ReceiveKeeps, LosingKeeps, HandleHelloKeeps DEF Receive, ReceiveFails
<1> QED
    BY <1>1, <1>2, <1>3, EffectOfServe DEF NoNewLeases

LEMMA ExpireLeasesStep ==
    ASSUME RenderIInv, NEW c \in Clients, ExpireLeases(c)
    PROVE  SessionEffect(c)
<1>1. RequeueExpired(readAt[c]) /\ UNCHANGED registered
    BY DEF ExpireLeases
<1>2. Expired(readAt[c]) \in SUBSET TasksIn("leased")
    BY DEF Expired
<1>3. Grows /\ NoNewLeases
    BY <1>1, <1>2, RequeueEffect DEF RequeueExpired, RenderIInv
<1>4. phase = "serving"
    BY ServingWhenOpen DEF ExpireLeases
<1>5. Serve
    BY <1>1, <1>4, ReadingsAllowed DEF Serve
<1> QED
    BY <1>1, <1>3, <1>5, ExpireLeasesKeeps, EffectOfServe DEF NoNewLeases

\* The session's own worker gets the front task, and the session is registered.
LEMMA LeaseFrontStep ==
    ASSUME RenderIInv, NEW c \in Clients, LeaseFront(c), registered[c], session[c] # "none",
           Grows => Keeps(c)
    PROVE  SessionEffect(c)
<1>1. LeaseNext(IdOf[c], readAt[c]) /\ UNCHANGED registered
    BY DEF LeaseFront
<1>2. phase = "serving" /\ IdOf[c] \in Workers /\ readAt[c] \in ClockReadings
    BY ServingWhenOpen, WorkerOf, ReadingsAllowed
<1>3. readAt[c] \in Nat /\ IInv
    BY DEF RenderIInv, RenderTypeOK
<1>4. /\ Grows
      /\ \A t \in TasksIn("leased")' :
            \/ t \in TasksIn("leased") /\ leasedTo'[t] = leasedTo[t]
            \/ leasedTo'[t] = IdOf[c]
    BY <1>1, <1>2, <1>3, LeaseNextEffect
<1>5. Serve
    BY <1>1, <1>2 DEF Serve
<1> QED
    BY <1>1, <1>4, <1>5, EffectOfServe

\* The front task is one of the job's.
LEMMA FrontTask ==
    ASSUME RenderIInv, NEW c \in Clients, LeaseFront(c)
    PROVE  Head(pendingTasks) \in Tasks
<1>1. pendingTasks # <<>> /\ pendingTasks \in Seq(Tasks)
    BY DEF LeaseFront, LeaseNext, RenderIInv, IInv, TypeOK
<1> QED
    BY <1>1

LEMMA HandleTaskRequestStep ==
    ASSUME RenderIInv, NEW c \in Clients, HandleTaskRequest(c)
    PROVE  SessionEffect(c)
<1>1. session[c] = "handling" /\ request[c] = "taskRequest"
    BY DEF HandleTaskRequest, Handling
<1>2. registered[c] /\ client[c] # "submitting" /\ heartbeat[c] # "awaiting"
    BY <1>1, RegisteredWhenAsked DEF Nothing
<1>3. ASSUME LeaseFront(c),
             Answer(c, [kind |-> "assignment", task |-> Head(pendingTasks)], TRUE)
      PROVE  SessionEffect(c)
    <2> DEFINE r == [kind |-> "assignment", task |-> Head(pendingTasks)]
    <2>1. r \in Replies /\ r.kind = "assignment"
        BY <1>3, FrontTask DEF Replies
    <2>2. Answer(c, r, TRUE) /\ registered' = registered
        BY <1>3 DEF LeaseFront
    <2> HIDE DEF r
    <2>3. Grows => Keeps(c)
        BY <1>1, <1>2, <2>1, <2>2, AnswerKeeps DEF Nothing
    <2> QED
        BY <1>1, <1>2, <1>3, <2>3, LeaseFrontStep
<1>4. ASSUME Proceed(c, "asking"), UNCHANGED <<vars, status>>
      PROVE  SessionEffect(c)
    <2>1. Grows /\ NoNewLeases
        BY <1>4, QuietEffect
    <2>2. status' \in [Clients -> Statuses \cup {Nothing}]
        BY <1>4 DEF RenderIInv, RenderTypeOK
    <2>3. Keeps(c)
        BY <1>1, <1>4, <2>1, <2>2, ProceedKeeps DEF SessionPlaces
    <2> QED
        BY <1>4, <2>1, <2>3, EffectOfServe DEF Proceed, NoNewLeases
<1> QED
    BY <1>3, <1>4 DEF HandleTaskRequest

LEMMA AnswerNoTaskStep ==
    ASSUME RenderIInv, NEW c \in Clients, AnswerNoTask(c)
    PROVE  SessionEffect(c)
<1> DEFINE r == [kind |-> "noTask", jobComplete |-> complete]
<1>1. Answer(c, r, TRUE) /\ UNCHANGED vars /\ registered' = registered
    BY DEF AnswerNoTask, JobComplete
<1>2. session[c] = "asking" /\ request[c] = "taskRequest"
    BY RequestBeingHandled DEF AnswerNoTask
<1>3. registered[c] /\ client[c] # "submitting" /\ heartbeat[c] # "awaiting"
    BY <1>2, RegisteredWhenAsked DEF Nothing
<1>4. Grows /\ NoNewLeases /\ (AllMerged => AllMerged')
    BY <1>1, QuietEffect DEF AllMerged, TasksIn
<1>5. r \in Replies /\ r.kind = "noTask" /\ (r.jobComplete => complete)
    BY DEF Replies, complete
<1>6. complete => AllMerged
    BY <1>2, CompleteMeansAllMerged, ServingWhenOpen DEF RenderIInv
<1> HIDE DEF r
<1>7. Keeps(c)
    BY <1>1, <1>2, <1>3, <1>4, <1>5, <1>6, AnswerKeeps DEF Nothing
<1> QED
    BY <1>1, <1>4, <1>7, EffectOfServe DEF NoNewLeases

LEMMA ResultIsWellFormed ==
    ASSUME RenderIInv, NEW c \in Clients, request[c] = "taskResult"
    PROVE  /\ ResultOf(c) \in Results
           /\ ResultOf(c).jobMatches /\ ResultOf(c).wellFormed
           /\ ResultOf(c).task = task[c] /\ task[c] \in Tasks
<1>1. task[c] \in Tasks
    BY DEF RenderIInv, Truthful
<1> QED
    BY <1>1 DEF ResultOf, Results

\* The result is merged, or was before: never refused.
LEMMA HandleTaskResultStep ==
    ASSUME RenderIInv, NEW c \in Clients, HandleTaskResult(c)
    PROVE  SessionEffect(c)
<1>1. session[c] = "handling" /\ request[c] = "taskResult"
    BY DEF HandleTaskResult, Handling
<1>2. phase = "serving"
    BY <1>1, ServingWhenOpen
<1>3. CommitResult(ResultOf(c))
    BY DEF HandleTaskResult
<1>4. /\ Grows /\ NoNewLeases
      /\ CommitStatus(ResultOf(c)) \in {"Accepted", "Duplicate"}
      /\ task[c] \in TasksIn("completed")'
    BY <1>1, <1>2, <1>3, ResultIsWellFormed, CommitEffect DEF RenderIInv
<1>5. /\ Proceed(c, "checking")
      /\ status' = [status EXCEPT ![c] = CommitStatus(ResultOf(c))]
    BY <1>4 DEF HandleTaskResult
<1>6. /\ status' \in [Clients -> Statuses \cup {Nothing}]
      /\ status'[c] \in {"Accepted", "Duplicate"}
      /\ \A d \in Clients \ {c} : status'[d] = status[d]
    BY <1>4, <1>5 DEF RenderIInv, RenderTypeOK, Statuses
<1>7. Keeps(c)
    BY <1>1, <1>4, <1>5, <1>6, ProceedKeeps DEF SessionPlaces
<1>8. Serve
    BY <1>1, <1>2, <1>3, ResultIsWellFormed DEF Serve
<1> QED
    BY <1>4, <1>5, <1>7, <1>8, EffectOfServe DEF Proceed, NoNewLeases

\* An acknowledgment with or without a next task.
LEMMA AckKeeps ==
    ASSUME RenderIInv, Grows, NEW c \in Clients, NEW next \in Tasks \cup {NoTask},
           session[c] \in {"checking", "leasing"},
           Answer(c, Ack(c, status[c], next), TRUE), registered' = registered
    PROVE  Keeps(c)
<1> DEFINE r == Ack(c, status[c], next)
<1>1. request[c] = "taskResult"
    BY RequestBeingHandled
<1>2. registered[c] /\ client[c] # "requesting" /\ heartbeat[c] # "awaiting"
    BY <1>1, RegisteredWhenAsked DEF Nothing
<1>3. status[c] \in {"Accepted", "Duplicate"} /\ task[c] \in TasksIn("completed")
    BY DEF RenderIInv, Truthful
<1>4. /\ r \in Replies /\ r.kind = "ack" /\ r.status # "Rejected"
      /\ r.of \in TasksIn("completed")'
    BY <1>3 DEF Ack, Replies, Statuses, TasksIn, Grows
<1> HIDE DEF r
<1>5. Answer(c, r, TRUE)
    BY DEF r
<1> QED
    BY <1>1, <1>2, <1>4, <1>5, AnswerKeeps DEF Nothing

LEMMA CheckCompleteStep ==
    ASSUME RenderIInv, NEW c \in Clients, CheckComplete(c)
    PROVE  SessionEffect(c)
<1>1. session[c] = "checking" /\ UNCHANGED vars /\ request[c] = "taskResult"
    BY RequestBeingHandled DEF CheckComplete
<1>2. Grows /\ NoNewLeases
    BY <1>1, QuietEffect
<1>3. ASSUME Answer(c, Ack(c, status[c], NoTask), TRUE), UNCHANGED registered
      PROVE  Keeps(c)
    BY <1>1, <1>2, <1>3, AckKeeps
<1>4. ASSUME Proceed(c, "leasing"), UNCHANGED status
      PROVE  Keeps(c)
    <2>1. /\ status' \in [Clients -> Statuses \cup {Nothing}]
          /\ status'[c] \in {"Accepted", "Duplicate"} /\ task[c] \in TasksIn("completed")'
        BY <1>1, <1>2, <1>4 DEF RenderIInv, RenderTypeOK, Truthful, Grows
    <2> QED
        BY <1>1, <1>2, <1>4, <2>1, ProceedKeeps DEF SessionPlaces
<1>5. Keeps(c) /\ UNCHANGED registered
    BY <1>3, <1>4 DEF CheckComplete, Proceed
<1> QED
    BY <1>1, <1>2, <1>5, EffectOfServe DEF NoNewLeases

LEMMA AckWithNextTaskStep ==
    ASSUME RenderIInv, NEW c \in Clients, AckWithNextTask(c)
    PROVE  SessionEffect(c)
<1>1. session[c] = "leasing" /\ request[c] = "taskResult"
    BY RequestBeingHandled DEF AckWithNextTask
<1>2. registered[c]
    BY <1>1, RegisteredWhenAsked DEF Nothing
<1>3. ASSUME LeaseFront(c), Answer(c, Ack(c, status[c], Head(pendingTasks)), TRUE)
      PROVE  SessionEffect(c)
    <2>1. Head(pendingTasks) \in Tasks /\ registered' = registered
        BY <1>3, FrontTask DEF LeaseFront
    <2>2. Grows => Keeps(c)
        BY <1>1, <1>3, <2>1, AckKeeps
    <2> QED
        BY <1>1, <1>2, <1>3, <2>2, LeaseFrontStep
<1>4. ASSUME Answer(c, Ack(c, status[c], NoTask), TRUE), UNCHANGED <<vars, registered>>
      PROVE  SessionEffect(c)
    <2>1. Grows /\ NoNewLeases
        BY <1>4, QuietEffect
    <2>2. Keeps(c)
        BY <1>1, <1>4, <2>1, AckKeeps
    <2> QED
        BY <1>4, <2>1, <2>2, EffectOfServe DEF NoNewLeases
<1> QED
    BY <1>3, <1>4 DEF AckWithNextTask

LEMMA HandleHeartbeatStep ==
    ASSUME RenderIInv, NEW c \in Clients, HandleHeartbeat(c)
    PROVE  SessionEffect(c)
<1> DEFINE r == [kind |-> "heartbeatAck"]
<1>1. session[c] = "handling" /\ request[c] = "heartbeat"
    BY DEF HandleHeartbeat, Handling
<1>2. registered[c] /\ client[c] \notin {"requesting", "submitting"}
    BY <1>1, RegisteredWhenAsked DEF Nothing
<1>3. /\ RenewWorkerLeases(IdOf[c], readAt[c])
      /\ Answer(c, r, TRUE) /\ registered' = registered
    BY DEF HandleHeartbeat
<1>4. r \in Replies /\ r.kind = "heartbeatAck"
    BY DEF Replies
<1>5. Grows /\ NoNewLeases
    BY <1>3, RenewEffect
<1> HIDE DEF r
<1>6. Keeps(c)
    BY <1>1, <1>2, <1>3, <1>4, <1>5, AnswerKeeps DEF Nothing
<1>7. Serve
    BY <1>1, <1>3, ServingWhenOpen, WorkerOf, ReadingsAllowed DEF Serve
<1> QED
    BY <1>3, <1>5, <1>6, <1>7, EffectOfServe DEF NoNewLeases

\* The worker's leases go with its session, whoever holds them by then.
LEMMA DisconnectStep ==
    ASSUME RenderIInv, NEW c \in Clients, Disconnect(c)
    PROVE  SessionEffect(c)
<1>1. /\ session[c] = "disconnecting"
      /\ registered' = [registered EXCEPT ![c] = FALSE]
    BY DEF Disconnect
<1>2. phase = "serving" /\ IdOf[c] \in Workers
    BY <1>1, ServingWhenOpen, WorkerOf
<1>3. CASE registered[c]
    <2>1. ReleaseWorkerLeases(IdOf[c])
        BY <1>3 DEF Disconnect
    <2>2. LeasedBy(IdOf[c]) \in SUBSET TasksIn("leased")
        BY DEF LeasedBy
    <2>3. Grows /\ NoNewLeases /\ TasksIn("leased")' \cap LeasedBy(IdOf[c]) = {}
        BY <2>1, <2>2, RequeueEffect DEF ReleaseWorkerLeases, RenderIInv
    <2>4. Keeps(c)
        BY <2>3, LosingKeeps
    <2>5. Serve
        BY <1>2, <2>1 DEF Serve
    <2>6. IInv'
        BY <2>5, ServeKeepsIInv DEF RenderIInv
    <2>7. LeasesAreServed'
        <3> SUFFICES ASSUME NEW t \in TasksIn("leased")'
                     PROVE  \E d \in Clients : registered'[d] /\ IdOf[d] = leasedTo'[t]
            BY DEF LeasesAreServed
        <3>1. t \in TasksIn("leased") /\ leasedTo'[t] = leasedTo[t] /\ leasedTo[t] # IdOf[c]
            BY <2>3 DEF NoNewLeases, LeasedBy
        <3>2. PICK d \in Clients : registered[d] /\ IdOf[d] = leasedTo[t]
            BY <3>1 DEF RenderIInv, LeasesAreServed
        <3>3. registered'[d]
            BY <1>1, <3>1, <3>2 DEF RenderIInv, RenderTypeOK
        <3> QED
            BY <3>1, <3>2, <3>3
    <2>8. [Next]_vars
        BY <2>5 DEF Next
    <2> QED
        BY <2>3, <2>4, <2>6, <2>7, <2>8, StepKeepsAll DEF SessionEffect
<1>4. CASE ~registered[c]
    <2>1. UNCHANGED vars
        BY <1>4 DEF Disconnect
    <2>2. Grows /\ NoNewLeases
        BY <2>1, QuietEffect
    <2> QED
        BY <1>4, <2>1, <2>2, LosingKeeps, EffectOfServe DEF NoNewLeases
<1> QED
    BY <1>3, <1>4
-----------------------------------------------------------------------------
(* The theorems.                                                           *)

LEMMA InitGivesRenderIInv == RenderInit => RenderIInv
<1> SUFFICES ASSUME RenderInit PROVE RenderIInv
    OBVIOUS
<1>1. Init /\ IInv
    BY InitGivesIInv DEF RenderInit
<1>2. RenderTypeOK
    BY DEF RenderInit, RenderTypeOK, Places, SessionPlaces, Messages, Replies, NoReply
<1>3. ServesItsSessions
    BY <1>1, SizesAssumption DEF RenderInit, Init, ServesItsSessions
<1>4. LeasesAreServed
    BY <1>1 DEF LeasesAreServed, Init, TasksIn
<1>5. ASSUME NEW c \in Clients
      PROVE  Conversation(c) /\ Truthful(c)
    BY DEF RenderInit, Conversation, Arriving, Truthful, NoReply, Nothing
<1> QED
    BY <1>1, <1>2, <1>3, <1>4, <1>5 DEF RenderIInv

\* Start and the clock touch no session.
LEMMA OwnStepsKeep ==
    ASSUME RenderIInv, Start \/ Tick, UNCHANGED othersVars
    PROVE  RenderIInv'
<1>1. IInv'
    BY QuietStepKeepsIInv DEF RenderIInv
<1>2. /\ UNCHANGED memoryVars /\ now' \in Nat /\ now <= now' /\ now' <= MaxTime
      /\ phase' \in {"constructed", "serving"} /\ (phase = "serving" => phase' = "serving")
    BY SizesAssumption DEF Start, Tick, RenderIInv, ServesItsSessions, IInv, TypeOK
<1>3. UNCHANGED <<client, heartbeat, task, request, reply, session, registered, readAt, status>>
    BY DEF othersVars, clientVars, sessionVars
<1>4. RenderTypeOK'
    BY <1>3 DEF RenderIInv, RenderTypeOK
<1>5. ServesItsSessions'
    BY <1>2, <1>3 DEF RenderIInv, ServesItsSessions, RenderTypeOK, IInv, TypeOK
<1>6. LeasesAreServed'
    BY <1>2, <1>3 DEF RenderIInv, LeasesAreServed, TasksIn, memoryVars, recordVars
<1>7. ASSUME NEW d \in Clients
      PROVE  Conversation(d)' /\ Truthful(d)'
    <2>1. Same(d) /\ TasksIn("completed") \subseteq TasksIn("completed")'
        BY <1>2, <1>3 DEF Same, TasksIn, memoryVars, recordVars
    <2> QED
        BY <2>1, OthersConverse, OthersTruthful DEF RenderIInv
<1> QED
    BY <1>1, <1>4, <1>5, <1>6, <1>7 DEF RenderIInv

\* A step of the composed system is one of the coordinator's or leaves it alone.
LEMMA RenderStep ==
    ASSUME RenderIInv, [RenderNext]_renderVars
    PROVE  RenderIInv' /\ [Next]_vars
<1>1. CASE (Start \/ Tick) /\ UNCHANGED othersVars
    BY <1>1, OwnStepsKeep DEF Next
<1>2. CASE UNCHANGED renderVars
    <2>1. UNCHANGED vars /\ \A d \in Clients : Same(d)
        BY <1>2 DEF renderVars, clientVars, sessionVars, Same
    <2>2. Grows /\ NoNewLeases
        BY <2>1, QuietEffect
    <2>3. IInv' /\ RenderTypeOK' /\ ServesItsSessions'
        BY <1>2, <2>1, QuietStepKeepsIInv
           DEF RenderIInv, RenderTypeOK, ServesItsSessions, renderVars, clientVars,
               sessionVars, vars
    <2>4. \A d \in Clients : Conversation(d)' /\ Truthful(d)'
        BY <2>1, <2>2, OthersConverse, OthersTruthful DEF RenderIInv, Grows
    <2>5. LeasesAreServed'
        BY <1>2, <2>2 DEF RenderIInv, LeasesAreServed, NoNewLeases, renderVars, sessionVars
    <2> QED
        BY <2>1, <2>3, <2>4, <2>5 DEF RenderIInv
<1>3. ASSUME NEW c \in Clients, SessionStep(c) \/ ReceiveFails(c)
      PROVE  RenderIInv' /\ [Next]_vars
    BY <1>3, QuietSessionSteps, ExpireLeasesStep, HandleTaskRequestStep, AnswerNoTaskStep,
       HandleTaskResultStep, CheckCompleteStep, AckWithNextTaskStep, HandleHeartbeatStep,
       DisconnectStep DEF SessionStep, SessionEffect
<1>4. ASSUME NEW c \in Clients, ClientStep(c) \/ SendHeartbeat(c) \/ Fail(c)
      PROVE  RenderIInv' /\ [Next]_vars
    BY <1>4, WorkerKeepsRenderIInv DEF ClientStep, OtherClientStep
<1> QED
    BY <1>1, <1>2, <1>3, <1>4 DEF RenderNext

\* The invariant that ties workers, sessions and coordinator together.
THEOREM RenderInvariant == RenderSpec => []RenderIInv
<1> QED
    BY InitGivesRenderIInv, RenderStep, PTL DEF RenderSpec

\* The sessions of any number of workers use the coordinator as its Spec allows,
\* so all the theorems about it hold while they run.
THEOREM SessionsUseCoordinator == RenderSpec => UsesCoordinator
<1>1. RenderInit => Init
    BY DEF RenderInit
<1>2. RenderSpec => Init /\ [][Next]_vars
    BY <1>1, RenderStep, RenderInvariant, PTL DEF RenderSpec
<1> QED
    BY <1>2 DEF UsesCoordinator, Spec

\* A lost worker's tasks are back in the queue when its last session is gone.
THEOREM LeasesAlwaysServed == RenderSpec => []LeasesAreServed
<1>1. RenderIInv => LeasesAreServed
    BY DEF RenderIInv
<1> QED
    BY <1>1, RenderInvariant, PTL

\* The two threads of a worker never read each other's answer.
THEOREM RepliesReachTheirThread == RenderSpec => []RepliesMatchRequests
<1>1. RenderIInv => RepliesMatchRequests
    <2> SUFFICES ASSUME RenderIInv, NEW c \in Clients
                 PROVE  /\ reply[c] # NoReply => reply[c].kind \in Awaited(c)
                        /\ client[c] = "submitting" => heartbeat[c] = "quiet"
        BY DEF RepliesMatchRequests
    <2> QED
        BY DEF RenderIInv, Conversation, Arriving, Working, Left, Asks, Hears, Rests, Awaited,
             Gone
<1> QED
    BY <1>1, RenderInvariant, PTL

\* No result of an assigned task is refused, and what is acknowledged is merged.
THEOREM NoWorkIsRefused == RenderSpec => []AcknowledgedIsMerged
<1>1. RenderIInv => AcknowledgedIsMerged
    BY DEF RenderIInv, Truthful, AcknowledgedIsMerged, TasksIn
<1> QED
    BY <1>1, RenderInvariant, PTL

\* No worker is told that the job is complete while a task is missing.
THEOREM NobodyLeavesEarly == RenderSpec => []DoneMeansComplete
<1>1. RenderIInv => DoneMeansComplete
    BY DEF RenderIInv, Truthful, DoneMeansComplete, AllMerged
<1> QED
    BY <1>1, RenderInvariant, PTL
-----------------------------------------------------------------------------
(* What a step may not do to a worker that renders.                        *)

\* Only the expiry scan and a disconnect make a leased task pending again.
LEMMA WhoRequeues ==
    ASSUME RenderIInv, [RenderNext]_renderVars, NEW t \in Tasks,
           state[t] = "leased", state'[t] = "pending"
    PROVE  \E d \in Clients : ExpireLeases(d) \/ Disconnect(d)
<1>1. TypeOK /\ TaskStates = {"pending", "leased", "completed"}
    BY DEF RenderIInv, IInv, TaskStates
<1>2. ~ UNCHANGED state
    OBVIOUS
<1>3. ASSUME NEW w, NEW nowMs, LeaseNext(w, nowMs)
      PROVE  FALSE
    BY <1>1, <1>3 DEF LeaseNext, TypeOK
<1>4. ASSUME NEW r, CommitResult(r)
      PROVE  FALSE
    BY <1>1, <1>2, <1>4 DEF CommitResult, AcceptResult, TypeOK, memoryVars, recordVars
<1>5. CASE \/ (Start \/ Tick) /\ UNCHANGED othersVars
           \/ UNCHANGED renderVars
    BY <1>2, <1>5 DEF Start, Tick, renderVars, vars, memoryVars, recordVars
<1>6. ASSUME NEW d \in Clients, ClientStep(d) \/ SendHeartbeat(d) \/ Fail(d)
      PROVE  FALSE
    BY <1>2, <1>6, WorkerKeepsRenderIInv
       DEF ClientStep, OtherClientStep, vars, memoryVars, recordVars
<1>7. ASSUME NEW d \in Clients, SessionStep(d) \/ ReceiveFails(d)
      PROVE  ExpireLeases(d) \/ Disconnect(d)
    <2>1. CASE Receive(d) \/ ReceiveFails(d) \/ HandleHello(d) \/ AnswerNoTask(d)
               \/ CheckComplete(d)
        BY <1>2, <2>1 DEF Receive, ReceiveFails, HandleHello, AnswerNoTask, CheckComplete,
           vars, memoryVars, recordVars
    <2>2. CASE HandleTaskRequest(d) \/ AckWithNextTask(d)
        BY <1>2, <1>3, <2>2 DEF HandleTaskRequest, AckWithNextTask, LeaseFront,
           vars, memoryVars, recordVars
    <2>3. CASE HandleTaskResult(d)
        BY <1>4, <2>3 DEF HandleTaskResult
    <2>4. CASE HandleHeartbeat(d)
        BY <1>2, <2>4 DEF HandleHeartbeat, RenewWorkerLeases
    <2> QED
        BY <1>7, <2>1, <2>2, <2>3, <2>4 DEF SessionStep
<1> QED
    BY <1>5, <1>6, <1>7 DEF RenderNext

\* The step of KeepsItsTask, for one client.
LEMMA StepKeepsTask ==
    ASSUME RenderIInv, [RenderNext]_renderVars, NEW c \in Clients,
           client[c] = "rendering",
           \A d \in Clients \ {c} : IdOf[d] # IdOf[c],
           state[task[c]] = "leased", leasedTo[task[c]] = IdOf[c],
           state'[task[c]] = "pending"
    PROVE  expiresAt[task[c]] <= now
<1> DEFINE t == task[c]
<1>1. t \in Tasks /\ TypeOK
    BY DEF RenderIInv, Truthful, IInv
<1>2. session[c] # "disconnecting"
    BY DEF RenderIInv, Conversation, Arriving, Working, Left, Asks, Hears, Rests, Gone
<1>3. PICK d \in Clients : ExpireLeases(d) \/ Disconnect(d)
    BY <1>1, WhoRequeues
<1>4. CASE ExpireLeases(d)
    <2>1. t \in Expired(readAt[d])
        BY <1>1, <1>4 DEF ExpireLeases, RequeueExpired, Requeue
    <2>2. expiresAt[t] <= readAt[d] /\ readAt[d] <= now
        BY <2>1 DEF Expired, RenderIInv, ServesItsSessions
    <2>3. expiresAt[t] \in Nat /\ readAt[d] \in Nat /\ now \in Nat
        BY <1>1 DEF TypeOK, RenderIInv, RenderTypeOK
    <2> QED
        BY <2>2, <2>3
<1>5. CASE Disconnect(d)
    <2>1. d # c /\ IdOf[d] # IdOf[c]
        BY <1>2, <1>5 DEF Disconnect
    <2>2. t \notin LeasedBy(IdOf[d])
        BY <2>1 DEF LeasedBy
    <2>3. CASE registered[d]
        BY <1>1, <1>5, <2>2, <2>3 DEF Disconnect, ReleaseWorkerLeases, Requeue
    <2>4. CASE ~registered[d]
        BY <1>5, <2>4 DEF Disconnect, vars, memoryVars, recordVars
    <2> QED
        BY <2>3, <2>4
<1> QED
    BY <1>3, <1>4, <1>5

\* A worker with an ID of its own keeps the task it renders until its lease runs out.
THEOREM WorkersKeepTheirTasks == RenderSpec => KeepsItsTask
<1> DEFINE KeepsTasks ==
      \A c \in Clients :
        /\ client[c] = "rendering"
        /\ \A d \in Clients \ {c} : IdOf[d] # IdOf[c]
        /\ state[task[c]] = "leased" /\ leasedTo[task[c]] = IdOf[c]
        /\ state'[task[c]] = "pending"
        => expiresAt[task[c]] <= now
<1>1. RenderIInv /\ [RenderNext]_renderVars => [KeepsTasks]_renderVars
    BY StepKeepsTask
<1>2. RenderSpec => [][KeepsTasks]_renderVars
    BY <1>1, RenderInvariant, PTL DEF RenderSpec
<1> QED
    BY <1>2 DEF KeepsItsTask
=============================================================================
