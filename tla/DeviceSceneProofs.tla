-------------------------- MODULE DeviceSceneProofs --------------------------
(***************************************************************************)
(* That what a worker prepares on its device is right for every scene: a   *)
(* hit names its own light, the table of uploadTriangleLights              *)
(* (src/scene/scene.cu) draws every light in proportion to its weight, and *)
(* a gather finds the nearest photons (src/renderer/photon_mapping.cu),    *)
(* whatever the scene has of meshes, instances, lights and photons. And    *)
(* that a ray through its tree (include/renderer/device_traversal.cuh)     *)
(* finds its closest hit, whatever the triangles are and however a builder *)
(* (src/scene/bvh.cpp, src/scene/bvh_sbvh.cpp) has cut them up.            *)
(*                                                                         *)
(* The argument about the table: as long as its loop runs, the lights that *)
(* are still open have, together, one share each, and what the table gives *)
(* to a light, with what is still open of it, is what its weight asks for. *)
(* When one of the two lists is empty, those in the other are all above or *)
(* all below one share, so that each of them has one share exactly.        *)
(*                                                                         *)
(* The argument about the photons: if a photon is taken to point already   *)
(* to what its thread has got from the exchange, and stores only later,    *)
(* every cell has one list at any time, of the photons whose threads have  *)
(* begun. So the gather's walk, along the lists of the cells near it,      *)
(* meets each photon of theirs once, and at each of its steps the places   *)
(* hold the nearest of those it has met.                                   *)
(*                                                                         *)
(* The argument about the trees: a node stands for references, and those   *)
(* of its children lose no point of a triangle that must be kept. So each  *)
(* point of a ray that lies in the box of an untested triangle, before the *)
(* closest hit, lies in a node that is still on the stack: a node that is  *)
(* taken off is missed by the ray, or leaves its children there that are   *)
(* not. How deep a node is says how many places its stack has used.        *)
(***************************************************************************)
EXTENDS DeviceScene, FiniteSetTheorems, SequenceTheorems, NaturalsInduction,
        WellFoundedInduction, TLAPS

-----------------------------------------------------------------------------
(* Induction and recursion.                                                *)

\* A set of numbers that has 0 and with each number the next one has them all.
LEMMA Induction ==
    ASSUME NEW G, 0 \in G, \A n \in Nat : n \in G => n + 1 \in G
    PROVE  Nat \subseteq G
<1> SUFFICES ASSUME Nat \ G # {} PROVE FALSE
  OBVIOUS
<1> DEFINE R == {p \in Nat \X Nat : p[1] < p[2]}
           T == Nat \ G
<1>1. IsWellFoundedOn(R, Nat)
  BY NatLessThanWellFounded DEF OpToRel
<1>2. PICK n \in T : \A m \in T : ~ (<<m, n>> \in R)
  <2>1. T \subseteq Nat /\ T # {}
    OBVIOUS
  <2> HIDE DEF R, T
  <2> QED BY <1>1, <2>1, WFMin
<1>3. \A m \in T : ~ (m < n)
  BY <1>2
<1>4. n # 0 /\ n \in Nat
  OBVIOUS
<1>5. n - 1 \in Nat /\ n - 1 \notin T
  BY <1>3, <1>4
<1> QED
  BY <1>4, <1>5

\* A function on 1..n is a sequence.
LEMMA FormsSequence ==
    ASSUME NEW T, NEW n \in Nat, NEW s, s = [i \in 1..n |-> s[i]], \A i \in 1..n : s[i] \in T
    PROVE  s \in Seq(T)
    OBVIOUS

\* A recursion along 0..m has a solution.
IsSolvable(m, T, base, step) ==
    \E h \in [0..m -> T] : \A n \in 0..m : h[n] = IF n = 0 THEN base ELSE step[<<n, h[n - 1]>>]

\* It has one, whatever is done with the number and the value before.
LEMMA Recursion ==
    ASSUME NEW m \in Nat, NEW T, NEW base \in T, NEW step \in [Nat \X T -> T]
    PROVE  IsSolvable(m, T, base, step)
<1> DEFINE Solves(h, k) ==
              /\ h \in [0..k -> T]
              /\ \A n \in 0..k : h[n] = IF n = 0 THEN base ELSE step[<<n, h[n - 1]>>]
           Solved == {k \in Nat : \E h : Solves(h, k)}
<1>1. 0 \in Solved
    <2>1. Solves([n \in 0..0 |-> base], 0)
        OBVIOUS
    <2> HIDE DEF Solves
    <2> QED
        BY <2>1
<1>2. ASSUME NEW k \in Nat, k \in Solved PROVE k + 1 \in Solved
    <2>1. PICK h : Solves(h, k)
        <3> HIDE DEF Solves
        <3> QED
            BY <1>2
    <2> DEFINE g == [n \in 0..k + 1 |-> IF n = k + 1 THEN step[<<n, h[k]>>] ELSE h[n]]
    <2>2. /\ g[k + 1] = step[<<k + 1, h[k]>>] /\ g[k + 1] \in T
          /\ \A n \in 0..k : g[n] = h[n] /\ g[n] \in T
        <3>1. k + 1 \in 0..k + 1 /\ k \in 0..k /\ \A n \in 0..k : n \in 0..k + 1 /\ n # k + 1
            OBVIOUS
        <3>2. h[k] \in T /\ <<k + 1, h[k]>> \in Nat \X T
            BY <2>1, <3>1
        <3> QED
            BY <2>1, <3>1, <3>2
    <2>3. g \in [0..k + 1 -> T]
        <3>1. \A n \in 0..k + 1 : g[n] \in T
            <4> HIDE DEF g
            <4>1. \A n \in 0..k + 1 : n \in 0..k \/ n = k + 1
                OBVIOUS
            <4> QED
                BY <2>2, <4>1
        <3> QED
            BY <3>1
    <2>4. \A n \in 0..k + 1 : g[n] = IF n = 0 THEN base ELSE step[<<n, g[n - 1]>>]
        <3> HIDE DEF g
        <3>1. \A n \in 0..k : n # 0 => n - 1 \in 0..k
            OBVIOUS
        <3>2. \A n \in 0..k : g[n] = IF n = 0 THEN base ELSE step[<<n, g[n - 1]>>]
            BY <2>1, <2>2, <3>1
        <3>3. k + 1 # 0 /\ (k + 1) - 1 = k /\ k \in 0..k
            OBVIOUS
        <3>4. g[k + 1] = step[<<k + 1, g[k]>>]
            BY <2>2, <3>3
        <3> QED
            BY <3>2, <3>3, <3>4
    <2>5. Solves(g, k + 1)
        <3> HIDE DEF g
        <3> QED
            BY <2>3, <2>4
    <2> HIDE DEF Solves, g
    <2> QED
        BY <2>5
<1>3. m \in Solved
    <2> HIDE DEF Solved
    <2> QED
        BY <1>1, <1>2, Induction
<1> QED
    BY <1>3 DEF IsSolvable
-----------------------------------------------------------------------------
(* What numbers add up to.                                                 *)

Prefix(f, n) == [i \in 1..n |-> f[i]]

\* The partial sums of f.
PartialSums(f, s) ==
    /\ s \in [0..Len(f) -> Int] /\ s[0] = 0
    /\ \A n \in 1..Len(f) : s[n] = s[n - 1] + f[n]

\* Total is the last of the partial sums, ...
LEMMA LastPartialSum ==
    ASSUME NEW f \in Seq(Int), NEW s, PartialSums(f, s)
    PROVE  Total(f) = s[Len(f)]
<1> DEFINE m == Len(f)
           Def(h) == h = [n \in 0..m |-> IF n = 0 THEN 0 ELSE h[n - 1] + f[n]]
           sum == CHOOSE h : Def(h)
<1>1. m \in Nat
    OBVIOUS
<1>2. Def(s)
    <2> HIDE DEF m
    <2>1. \A n \in 0..m : s[n] = IF n = 0 THEN 0 ELSE s[n - 1] + f[n]
        BY <1>1 DEF PartialSums, m
    <2> QED
        BY <2>1 DEF PartialSums, m
<1>3. Def(sum)
    <2> HIDE DEF Def
    <2> QED
        BY <1>2
<1>4. Total(f) = sum[m]
    BY DEF Total
<1> HIDE DEF sum
<1> DEFINE Good == {n \in Nat : n \in 0..m => sum[n] = s[n]}
<1>5. 0 \in Good
    BY <1>1, <1>2, <1>3
<1>6. ASSUME NEW n \in Nat, n \in Good PROVE n + 1 \in Good
    <2> SUFFICES ASSUME n + 1 \in 0..m PROVE sum[n + 1] = s[n + 1]
        OBVIOUS
    <2> HIDE DEF m
    <2>1. n + 1 # 0 /\ n + 1 - 1 = n /\ n \in 0..m
        BY <1>1
    <2> QED
        BY <1>2, <1>3, <1>6, <2>1
<1>7. m \in Good
    <2> HIDE DEF Good
    <2> QED
        BY <1>1, <1>5, <1>6, Induction
<1> QED
    BY <1>1, <1>4, <1>7

\* ... which there are: each number adds itself to what those before it add up to.
LEMMA TotalOfPrefix ==
    ASSUME NEW f \in Seq(Int)
    PROVE  /\ Total(Prefix(f, 0)) = 0
           /\ \A n \in 1..Len(f) : Total(Prefix(f, n)) = Total(Prefix(f, n - 1)) + f[n]
           /\ \A n \in 0..Len(f) : Total(Prefix(f, n)) \in Int
           /\ Prefix(f, Len(f)) = f
<1> DEFINE m == Len(f)
           step == [a \in Nat \X Int |-> IF a[1] \in 1..m THEN a[2] + f[a[1]] ELSE 0]
<1>1. m \in Nat /\ \A n \in 1..m : f[n] \in Int
    OBVIOUS
<1>2. step \in [Nat \X Int -> Int]
    <2> HIDE DEF m
    <2>1. \A a \in Nat \X Int : (IF a[1] \in 1..m THEN a[2] + f[a[1]] ELSE 0) \in Int
        BY <1>1
    <2> QED
        BY <2>1
<1>3. PICK s \in [0..m -> Int] :
         \A n \in 0..m : s[n] = IF n = 0 THEN 0 ELSE step[<<n, s[n - 1]>>]
    <2> HIDE DEF m, step
    <2>1. 0 \in Int
        OBVIOUS
    <2>2. IsSolvable(m, Int, 0, step)
        BY <1>1, <1>2, <2>1, Recursion
    <2> QED
        BY <2>2 DEF IsSolvable
<1>4. s[0] = 0 /\ \A n \in 1..m : s[n] = s[n - 1] + f[n] /\ s[n] \in Int /\ s[n - 1] \in Int
    <2> HIDE DEF m
    <2>1. 0 \in 0..m
        BY <1>1
    <2>2. ASSUME NEW n \in 1..m
          PROVE  s[n] = s[n - 1] + f[n] /\ s[n] \in Int /\ s[n - 1] \in Int
        <3>1. n \in 0..m /\ n # 0 /\ n - 1 \in 0..m /\ n \in Nat
            BY <1>1
        <3>2. s[n] \in Int /\ s[n - 1] \in Int
            BY <3>1
        <3>3. step[<<n, s[n - 1]>>] = s[n - 1] + f[n]
            BY <3>1, <3>2
        <3> QED
            BY <1>3, <3>1, <3>2, <3>3
    <2> QED
        BY <1>3, <2>1, <2>2
<1> HIDE DEF step
<1>5. ASSUME NEW n \in 0..m PROVE Total(Prefix(f, n)) = s[n] /\ s[n] \in Int
    <2> DEFINE t == [i \in 0..n |-> s[i]]
    <2>1. /\ Prefix(f, n) \in Seq(Int) /\ Len(Prefix(f, n)) = n
          /\ \A i \in 1..n : Prefix(f, n)[i] = f[i]
        BY <1>1 DEF Prefix
    <2>2. \A i \in 0..n : i \in 0..m
        BY <1>1
    <2> HIDE DEF m
    <2>3. t \in [0..n -> Int] /\ \A i \in 0..n : t[i] = s[i]
        BY <2>2
    <2>4. t[0] = 0
        BY <1>1, <1>4, <2>3
    <2>5. \A i \in 1..n : t[i] = t[i - 1] + Prefix(f, n)[i]
        <3>1. \A i \in 1..n : i \in 1..m /\ i \in 0..n /\ i - 1 \in 0..n
            BY <1>1
        <3> HIDE DEF t
        <3> QED
            BY <1>4, <2>1, <2>3, <3>1
    <2>6. PartialSums(Prefix(f, n), t)
        <3> HIDE DEF t
        <3> QED
            BY <2>1, <2>3, <2>4, <2>5 DEF PartialSums
    <2>7. n \in 0..n
        BY <1>1
    <2> HIDE DEF t
    <2> QED
        BY <2>1, <2>3, <2>6, <2>7, LastPartialSum
<1>6. 0 \in 0..m /\ \A n \in 1..m : n \in 0..m /\ n - 1 \in 0..m
    BY <1>1
<1>7. Prefix(f, m) = f
    BY DEF Prefix
<1> QED
    BY <1>4, <1>5, <1>6, <1>7

\* Integers add up to one.
LEMMA TotalIsInteger == ASSUME NEW f \in Seq(Int) PROVE Total(f) \in Int
<1>1. Len(f) \in 0..Len(f)
    OBVIOUS
<1> QED
    BY <1>1, TotalOfPrefix

\* What holds of no numbers, and of n if of n - 1, holds of all.
LEMMA AlongSequence ==
    ASSUME NEW f \in Seq(Int), NEW G, 0 \in G, \A n \in 1..Len(f) : n - 1 \in G => n \in G
    PROVE  Len(f) \in G
<1> DEFINE H == {n \in Nat : n \in 0..Len(f) => n \in G}
<1>1. Nat \subseteq H
    <2>1. 0 \in H
        OBVIOUS
    <2>2. ASSUME NEW n \in Nat, n \in H PROVE n + 1 \in H
        BY <2>2
    <2> HIDE DEF H
    <2> QED
        BY <2>1, <2>2, Induction
<1>2. Len(f) \in Nat
    OBVIOUS
<1> QED
    BY <1>1, <1>2

\* The sums of two sequences that differ in one place.
LEMMA TotalAfterChange ==
    ASSUME NEW f \in Seq(Int), NEW g \in Seq(Int), Len(f) = Len(g), NEW k \in 1..Len(f),
           \A i \in 1..Len(f) : i # k => g[i] = f[i]
    PROVE  Total(g) = Total(f) + (g[k] - f[k])
<1> DEFINE G == {n \in 0..Len(f) : Total(Prefix(g, n)) =
                    Total(Prefix(f, n)) + (IF k <= n THEN g[k] - f[k] ELSE 0)}
<1>1. 0 \in G
    BY TotalOfPrefix
<1>2. ASSUME NEW n \in 1..Len(f), n - 1 \in G PROVE n \in G
    <2>1. /\ Total(Prefix(g, n)) = Total(Prefix(g, n - 1)) + g[n]
          /\ Total(Prefix(f, n)) = Total(Prefix(f, n - 1)) + f[n]
        BY TotalOfPrefix
    <2>2. /\ n - 1 \in 0..Len(f) /\ n \in 0..Len(f)
          /\ Total(Prefix(f, n - 1)) \in Int /\ Total(Prefix(g, n - 1)) \in Int
          /\ f[n] \in Int /\ g[n] \in Int /\ f[k] \in Int /\ g[k] \in Int
        BY TotalOfPrefix
    <2>3. Total(Prefix(g, n - 1)) = Total(Prefix(f, n - 1))
                                    + (IF k <= n - 1 THEN g[k] - f[k] ELSE 0)
        BY <1>2
    <2> HIDE DEF G
    <2>4. Total(Prefix(g, n)) = Total(Prefix(f, n)) + (IF k <= n THEN g[k] - f[k] ELSE 0)
        <3> DEFINE p == Total(Prefix(f, n - 1))
                   q == Total(Prefix(g, n - 1))
                   x == f[n]
                   y == g[n]
                   d == g[k] - f[k]
        <3>1. p \in Int /\ q \in Int /\ x \in Int /\ y \in Int /\ d \in Int
            BY <2>2
        <3>2. CASE n = k
            <4>1. ~ (k <= n - 1) /\ k <= n /\ d = y - x
                BY <3>2
            <4>2. q = p + 0
                BY <2>3, <4>1
            <4> HIDE DEF p, q, x, y, d
            <4>3. q + y = (p + x) + d
                BY <3>1, <4>1, <4>2
            <4> QED
                BY <2>1, <4>1, <4>3 DEF p, q, x, y, d
        <3>3. CASE n # k
            <4>1. (k <= n <=> k <= n - 1) /\ x = y
                BY <3>3
            <4> DEFINE e == IF k <= n THEN d ELSE 0
            <4>2. q = p + e /\ e \in Int
                BY <2>3, <3>1, <4>1
            <4> HIDE DEF p, q, x, y, d, e
            <4>3. q + y = (p + x) + e
                BY <3>1, <4>1, <4>2
            <4> QED
                BY <2>1, <4>3 DEF p, q, x, y, d, e
        <3> QED
            BY <3>2, <3>3
    <2> QED
        BY <2>2, <2>4 DEF G
<1>3. Len(f) \in G
    <2> HIDE DEF G
    <2> QED
        BY <1>1, <1>2, AlongSequence
<1>4. /\ k <= Len(f) /\ g[k] \in Int /\ f[k] \in Int
      /\ Prefix(f, Len(f)) = f /\ Prefix(g, Len(f)) = g
    BY TotalOfPrefix
<1> QED
    BY <1>3, <1>4

\* The sums of two sequences that differ in two places.
LEMMA TotalAfterChanges ==
    ASSUME NEW f \in Seq(Int), NEW g \in Seq(Int), Len(f) = Len(g),
           NEW a \in 1..Len(f), NEW b \in 1..Len(f), a # b,
           \A i \in 1..Len(f) : i # a /\ i # b => g[i] = f[i]
    PROVE  Total(g) = Total(f) + (g[a] - f[a]) + (g[b] - f[b])
<1> DEFINE mid == [i \in 1..Len(f) |-> IF i = a THEN g[a] ELSE f[i]]
<1>1. /\ mid \in Seq(Int) /\ Len(mid) = Len(f) /\ mid[a] = g[a]
      /\ \A i \in 1..Len(f) : i # a => mid[i] = f[i]
    OBVIOUS
<1> HIDE DEF mid
<1>2. Total(mid) = Total(f) + (mid[a] - f[a])
    BY <1>1, TotalAfterChange
<1>3. Total(g) = Total(mid) + (g[b] - mid[b])
    <2>1. \A i \in 1..Len(f) : i # b => g[i] = mid[i]
        BY <1>1
    <2> QED
        BY <1>1, <2>1, TotalAfterChange
<1> QED
    BY <1>1, <1>2, <1>3

\* The sum of numbers that are all scaled and moved alike.
LEMMA TotalOfMultiple ==
    ASSUME NEW f \in Seq(Int), NEW g \in Seq(Int), Len(f) = Len(g),
           NEW c \in Int, NEW d \in Int,
           \A i \in 1..Len(f) : g[i] = c * f[i] + d
    PROVE  Total(g) = c * Total(f) + d * Len(f)
<1> DEFINE G == {n \in 0..Len(f) : Total(Prefix(g, n)) = c * Total(Prefix(f, n)) + d * n}
<1>1. 0 \in G
    BY TotalOfPrefix
<1>2. ASSUME NEW n \in 1..Len(f), n - 1 \in G PROVE n \in G
    <2>1. /\ Total(Prefix(g, n)) = Total(Prefix(g, n - 1)) + g[n]
          /\ Total(Prefix(f, n)) = Total(Prefix(f, n - 1)) + f[n]
        BY TotalOfPrefix
    <2>2. /\ n - 1 \in 0..Len(f) /\ n \in 0..Len(f)
          /\ Total(Prefix(f, n - 1)) \in Int /\ Total(Prefix(g, n - 1)) \in Int
          /\ f[n] \in Int /\ g[n] = c * f[n] + d
        BY TotalOfPrefix
    <2>3. \A x, y \in Int : c * (x + y) + d * n = c * x + d * (n - 1) + (c * y + d)
        OBVIOUS
    <2> QED
        BY <1>2, <2>1, <2>2, <2>3
<1>3. Len(f) \in G
    <2> HIDE DEF G
    <2> QED
        BY <1>1, <1>2, AlongSequence
<1>4. Prefix(f, Len(f)) = f /\ Prefix(g, Len(f)) = g
    BY TotalOfPrefix
<1> QED
    BY <1>3, <1>4

\* Numbers of one sign that sum up to zero are all zero.
LEMMA NoneIsPositive ==
    ASSUME NEW f \in Seq(Int), \A i \in 1..Len(f) : f[i] >= 0, Total(f) = 0
    PROVE  \A i \in 1..Len(f) : f[i] = 0
<1> SUFFICES ASSUME NEW k \in 1..Len(f) PROVE f[k] = 0
    OBVIOUS
<1> DEFINE G == {n \in 0..Len(f) : /\ Total(Prefix(f, n)) >= 0
                                   /\ k <= n => Total(Prefix(f, n)) >= f[k]}
<1>1. 0 \in G
    BY TotalOfPrefix
<1>2. ASSUME NEW n \in 1..Len(f), n - 1 \in G PROVE n \in G
    <2>1. Total(Prefix(f, n)) = Total(Prefix(f, n - 1)) + f[n]
        BY TotalOfPrefix
    <2>2. /\ n - 1 \in 0..Len(f) /\ n \in 0..Len(f)
          /\ Total(Prefix(f, n - 1)) \in Int /\ f[n] \in Int /\ f[k] \in Int
        BY TotalOfPrefix
    <2>3. f[n] >= 0
        OBVIOUS
    <2>4. k <= n => k = n \/ k <= n - 1
        OBVIOUS
    <2> QED
        BY <1>2, <2>1, <2>2, <2>3, <2>4
<1>3. Len(f) \in G
    <2> HIDE DEF G
    <2> QED
        BY <1>1, <1>2, AlongSequence
<1>4. Prefix(f, Len(f)) = f /\ k <= Len(f) /\ f[k] \in Int /\ f[k] >= 0
    BY TotalOfPrefix
<1> QED
    BY <1>3, <1>4

\* The same for the other sign.
LEMMA NoneIsNegative ==
    ASSUME NEW f \in Seq(Int), \A i \in 1..Len(f) : f[i] <= 0, Total(f) = 0
    PROVE  \A i \in 1..Len(f) : f[i] = 0
<1> DEFINE n == Len(f)
           g == [i \in 1..n |-> - f[i]]
<1>1. n \in Nat /\ n \in Int /\ \A i \in 1..n : f[i] \in Int /\ f[i] <= 0
    OBVIOUS
<1> HIDE DEF n
<1>2. /\ g \in Seq(Int) /\ Len(g) = n
      /\ \A i \in 1..n : g[i] = - f[i] /\ g[i] = (-1) * f[i] + 0 /\ g[i] >= 0
    BY <1>1
<1> HIDE DEF g
<1>3. Total(g) = (-1) * Total(f) + 0 * Len(f)
    <2>1. Len(f) = Len(g) /\ -1 \in Int /\ 0 \in Int
        BY <1>2 DEF n
    <2>2. \A i \in 1..Len(f) : g[i] = (-1) * f[i] + 0
        BY <1>2 DEF n
    <2> QED
        BY <1>2, <2>1, <2>2, TotalOfMultiple
<1>4. Total(g) = 0
    BY <1>1, <1>3 DEF n
<1>5. \A i \in 1..n : g[i] = 0
    <2>1. \A i \in 1..Len(g) : g[i] >= 0
        BY <1>2
    <2> QED
        BY <1>2, <1>4, <2>1, NoneIsPositive
<1> QED
    BY <1>1, <1>2, <1>5 DEF n
-----------------------------------------------------------------------------
(* Indices in order.                                                       *)

Below(S, k) == {j \in S : j < k}

\* InOrder lists every index once, behind as many as are less.
LEMMA InOrderLists ==
    ASSUME NEW S, S \subseteq Nat, IsFiniteSet(S)
    PROVE  /\ InOrder(S) \in Seq(S)
           /\ \A k \in S : /\ Cardinality(Below(S, k)) \in Nat
                           /\ Cardinality(Below(S, k)) + 1 \in DOMAIN InOrder(S)
                           /\ InOrder(S)[Cardinality(Below(S, k)) + 1] = k
           /\ \A n, m \in DOMAIN InOrder(S) : InOrder(S)[n] = InOrder(S)[m] => n = m
<1> DEFINE c == Cardinality(S)
           rank == [k \in S |-> Cardinality(Below(S, k)) + 1]
           nth(n) == CHOOSE k \in S : Cardinality(Below(S, k)) = n - 1
<1>1. c \in Nat
    BY FS_CardinalityType
<1>2. ASSUME NEW k \in S
      PROVE  /\ IsFiniteSet(Below(S, k)) /\ Cardinality(Below(S, k)) \in Nat
             /\ Cardinality(Below(S, k)) < c
    <2>1. Below(S, k) \subseteq S /\ k \notin Below(S, k)
        BY DEF Below
    <2>2. IsFiniteSet(Below(S, k)) /\ Cardinality(Below(S, k)) \in Nat
        BY <2>1, FS_Subset, FS_CardinalityType
    <2>3. Cardinality(Below(S, k)) <= c /\ Cardinality(Below(S, k)) # c
        BY <2>1, FS_Subset
    <2> QED
        BY <1>1, <2>2, <2>3
<1>3. ASSUME NEW a \in S, NEW b \in S, a < b
      PROVE  Cardinality(Below(S, a)) # Cardinality(Below(S, b))
    <2>1. a \in Nat /\ b \in Nat
        OBVIOUS
    <2>2. Below(S, a) \subseteq Below(S, b)
        <3> SUFFICES ASSUME NEW j \in S, j < a PROVE j < b
            BY DEF Below
        <3>1. j \in Nat
            OBVIOUS
        <3> QED
            BY <1>3, <2>1, <3>1
    <2>3. a \in Below(S, b) /\ a \notin Below(S, a)
        BY <1>3, <2>1 DEF Below
    <2> QED
        BY <1>2, <2>2, <2>3, FS_Subset
<1>4. \A a, b \in S : Cardinality(Below(S, a)) = Cardinality(Below(S, b)) => a = b
    <2> SUFFICES ASSUME NEW a \in S, NEW b \in S, a # b
                 PROVE  Cardinality(Below(S, a)) # Cardinality(Below(S, b))
        OBVIOUS
    <2>1. a < b \/ b < a
        <3>1. a \in Nat /\ b \in Nat
            OBVIOUS
        <3> QED
            BY <3>1
    <2> QED
        BY <1>3, <2>1
<1>5. \A n \in 1..c : \E k \in S : Cardinality(Below(S, k)) = n - 1
    <2> HIDE DEF c
    <2>1. \A k \in S : rank[k] = Cardinality(Below(S, k)) + 1 /\ rank[k] \in 1..c
        BY <1>1, <1>2 DEF c
    <2>2. rank \in [S -> 1..c]
        <3>1. rank = [k \in S |-> rank[k]]
            OBVIOUS
        <3> HIDE DEF rank
        <3> QED
            BY <2>1, <3>1
    <2> HIDE DEF rank
    <2>3. \A a, b \in S : rank[a] = rank[b] => a = b
        BY <1>2, <1>4, <2>1
    <2>4. rank \in Injection(S, 1..c)
        BY <2>2, <2>3 DEF Injection, IsInjective
    <2>5. IsFiniteSet(1..c) /\ Cardinality(1..c) = c
        BY <1>1, FS_Interval
    <2>6. rank \in Surjection(S, 1..c)
        BY <2>4, <2>5, FS_Injection DEF c
    <2>7. \A n \in 1..c : \E k \in S : rank[k] = n
        BY <2>6 DEF Surjection
    <2> QED
        BY <1>2, <2>1, <2>7
<1>6. \A n \in 1..c : nth(n) \in S /\ Cardinality(Below(S, nth(n))) = n - 1
    <2> HIDE DEF c
    <2> QED
        BY <1>5
<1>7. \A k \in S : nth(Cardinality(Below(S, k)) + 1) = k
    <2> SUFFICES ASSUME NEW k \in S PROVE nth(Cardinality(Below(S, k)) + 1) = k
        OBVIOUS
    <2> DEFINE n == Cardinality(Below(S, k)) + 1
    <2> HIDE DEF nth, c
    <2>1. n \in 1..c /\ n - 1 = Cardinality(Below(S, k))
        BY <1>1, <1>2 DEF c
    <2> HIDE DEF n
    <2>2. nth(n) \in S /\ Cardinality(Below(S, nth(n))) = Cardinality(Below(S, k))
        BY <1>6, <2>1
    <2>3. nth(n) = k
        BY <1>4, <2>2
    <2> QED
        BY <2>3 DEF n
<1>8. InOrder(S) = [n \in 1..c |-> nth(n)]
    BY DEF InOrder, Below
<1> HIDE DEF nth, c
<1>9. InOrder(S) \in Seq(S)
    BY <1>1, <1>6, <1>8
<1>10. DOMAIN InOrder(S) = 1..c /\ \A n \in 1..c : InOrder(S)[n] = nth(n)
    BY <1>8
<1>11. ASSUME NEW k \in S
       PROVE  /\ Cardinality(Below(S, k)) \in Nat
              /\ Cardinality(Below(S, k)) + 1 \in 1..c
    BY <1>1, <1>2 DEF c
<1>12. ASSUME NEW n \in 1..c, NEW m \in 1..c, nth(n) = nth(m) PROVE n = m
    BY <1>1, <1>6, <1>12
<1> QED
    BY <1>7, <1>9, <1>10, <1>11, <1>12
-----------------------------------------------------------------------------
(* Sequences joined.                                                       *)

\* The lengths of the sequences before the i-th.
LengthBefore(seqs, i) == Total([j \in 1..i - 1 |-> Len(seqs[j])])

\* Each sequence behind those before it, and nothing else.
InPlace(seqs, s) ==
    /\ \A i \in DOMAIN seqs : \A k \in DOMAIN seqs[i] :
          /\ LengthBefore(seqs, i) + k \in DOMAIN s
          /\ s[LengthBefore(seqs, i) + k] = seqs[i][k]
    /\ \A p \in DOMAIN s : \E i \in DOMAIN seqs : \E k \in DOMAIN seqs[i] :
          p = LengthBefore(seqs, i) + k

\* FlattenSeq puts each sequence behind those before it.
LEMMA FlattenInPlace ==
    ASSUME NEW S, NEW seqs \in Seq(Seq(S))
    PROVE  FlattenSeq(seqs) \in Seq(S) /\ InPlace(seqs, FlattenSeq(seqs))
<1> DEFINE m == Len(seqs)
           T == Seq(S)
           lengths == [j \in 1..m |-> Len(seqs[j])]
           step == [a \in Nat \X T |-> IF a[1] \in 1..m THEN a[2] \o seqs[a[1]] ELSE <<>>]
           joined(f) == [i \in 1..m |-> IF i = 1 THEN seqs[i] ELSE f[i - 1] \o seqs[i]]
           Flattens(f) == f = joined(f)
           chosen == CHOOSE f : Flattens(f)
           size(n) == Total(Prefix(lengths, n))
<1>1. m \in Nat /\ DOMAIN seqs = 1..m /\ \A i \in 1..m : seqs[i] \in T
    OBVIOUS
<1>2. step \in [Nat \X T -> T]
    <2>1. <<>> \in T /\ \A s, t \in T : s \o t \in T
        OBVIOUS
    <2> HIDE DEF m, T
    <2>2. \A a \in Nat \X T : (IF a[1] \in 1..m THEN a[2] \o seqs[a[1]] ELSE <<>>) \in T
        BY <1>1, <2>1
    <2> QED
        BY <2>2
<1>3. PICK h \in [0..m -> T] :
         \A n \in 0..m : h[n] = IF n = 0 THEN <<>> ELSE step[<<n, h[n - 1]>>]
    <2>1. <<>> \in T
        OBVIOUS
    <2> HIDE DEF m, step, T
    <2>2. IsSolvable(m, T, <<>>, step)
        BY <1>1, <1>2, <2>1, Recursion
    <2> QED
        BY <2>2 DEF IsSolvable
<1>4. h[0] = <<>> /\ \A n \in 1..m : h[n] = h[n - 1] \o seqs[n] /\ h[n] \in T /\ h[n - 1] \in T
    <2> HIDE DEF m, T
    <2>1. 0 \in 0..m
        BY <1>1
    <2>2. ASSUME NEW n \in 1..m
          PROVE  h[n] = h[n - 1] \o seqs[n] /\ h[n] \in T /\ h[n - 1] \in T
        <3>1. n \in 0..m /\ n # 0 /\ n - 1 \in 0..m /\ n \in Nat
            BY <1>1
        <3>2. h[n] \in T /\ h[n - 1] \in T
            BY <3>1
        <3>3. step[<<n, h[n - 1]>>] = h[n - 1] \o seqs[n]
            BY <3>1, <3>2
        <3> QED
            BY <1>3, <3>1, <3>2, <3>3
    <2> QED
        BY <1>3, <2>1, <2>2
<1> HIDE DEF step
<1>5. FlattenSeq(seqs) = h[m]
    <2>1. CASE m = 0
        BY <1>4, <2>1 DEF FlattenSeq
    <2>2. CASE m # 0
        <3> DEFINE f == [i \in 1..m |-> h[i]]
        <3>1. Flattens(f)
            <4> HIDE DEF m, T
            <4>1. ASSUME NEW i \in 1..m
                  PROVE  f[i] = IF i = 1 THEN seqs[i] ELSE f[i - 1] \o seqs[i]
                <5>1. CASE i = 1
                    <6>1. 1 \in 1..m /\ 1 - 1 = 0
                        BY <1>1, <5>1
                    <6>2. h[1] = <<>> \o seqs[1] /\ seqs[1] \in T
                        BY <1>1, <1>4, <6>1
                    <6>3. <<>> \o seqs[1] = seqs[1]
                        BY <6>2 DEF T
                    <6> QED
                        BY <5>1, <6>2, <6>3
                <5>2. CASE i # 1
                    <6>1. i - 1 \in 1..m
                        BY <1>1, <5>2
                    <6> QED
                        BY <1>4, <5>2, <6>1
                <5> QED
                    BY <5>1, <5>2
            <4> QED
                BY <4>1
        <3>2. Flattens(chosen)
            <4> HIDE DEF Flattens, f
            <4> QED
                BY <3>1
        <3>3. FlattenSeq(seqs) = chosen[m]
            BY <2>2 DEF FlattenSeq
        <3> HIDE DEF chosen
        <3> DEFINE Good == {n \in Nat : n \in 1..m => chosen[n] = h[n]}
        <3>4. 0 \in Good
            OBVIOUS
        <3>5. ASSUME NEW n \in Nat, n \in Good PROVE n + 1 \in Good
            <4> SUFFICES ASSUME n + 1 \in 1..m PROVE chosen[n + 1] = h[n + 1]
                OBVIOUS
            <4> HIDE DEF m, T
            <4>1. ASSUME NEW g, Flattens(g)
                  PROVE  g[n + 1] = IF n + 1 = 1 THEN seqs[n + 1]
                                    ELSE g[n + 1 - 1] \o seqs[n + 1]
                <5>1. joined(g)[n + 1] =
                         IF n + 1 = 1 THEN seqs[n + 1] ELSE g[n + 1 - 1] \o seqs[n + 1]
                    OBVIOUS
                <5> HIDE DEF joined
                <5> QED
                    BY <4>1, <5>1
            <4>2. n + 1 # 1 => n \in 1..m /\ n + 1 - 1 = n
                BY <1>1
            <4>3. n + 1 # 1 => chosen[n] = f[n]
                BY <3>5, <4>2
            <4>4. f[n + 1] = h[n + 1]
                OBVIOUS
            <4> HIDE DEF Flattens, f
            <4> QED
                BY <3>1, <3>2, <4>1, <4>2, <4>3, <4>4
        <3>6. m \in Good
            <4> HIDE DEF Good
            <4> QED
                BY <1>1, <3>4, <3>5, Induction
        <3>7. m \in 1..m
            BY <1>1, <2>2
        <3> QED
            BY <3>3, <3>6, <3>7
    <2> QED
        BY <2>1, <2>2
\* So far the sequences are where they should be.
<1> DEFINE Placed(s, n) ==
              /\ s \in T /\ Len(s) = size(n)
              /\ \A i \in 1..n : \A k \in DOMAIN seqs[i] :
                    size(i - 1) + k \in DOMAIN s /\ s[size(i - 1) + k] = seqs[i][k]
              /\ \A p \in DOMAIN s : \E i \in 1..n : \E k \in DOMAIN seqs[i] : p = size(i - 1) + k
           Good == {n \in Nat : n \in 0..m => Placed(h[n], n)}
<1>6. lengths \in Seq(Int) /\ Len(lengths) = m /\ \A n \in 1..m : lengths[n] = Len(seqs[n])
    <2> HIDE DEF m
    <2>1. \A j \in 1..m : Len(seqs[j]) \in Int
        BY <1>1
    <2> QED
        BY <1>1, <2>1
<1>7. /\ size(0) = 0
      /\ \A n \in 1..m : size(n) = size(n - 1) + Len(seqs[n]) /\ size(n - 1) \in Int
    <2> HIDE DEF m, lengths
    <2>1. \A n \in 1..m : n - 1 \in 0..m
        BY <1>1
    <2> QED
        BY <1>6, <2>1, TotalOfPrefix
<1>8. 0 \in Good
    BY <1>4, <1>7
<1>9. ASSUME NEW n \in Nat, n \in Good PROVE n + 1 \in Good
    <2> SUFFICES ASSUME n + 1 \in 0..m PROVE Placed(h[n + 1], n + 1)
        <3> HIDE DEF Placed
        <3> QED
            OBVIOUS
    <2> DEFINE a == h[n]
               b == seqs[n + 1]
    <2>1. n \in 0..m /\ n + 1 \in 1..m /\ n + 1 - 1 = n
        BY <1>1
    <2>2. Placed(a, n) /\ b \in T /\ h[n + 1] = a \o b /\ size(n + 1) = size(n) + Len(b)
        <3> HIDE DEF Placed, size, m, T
        <3>1. Placed(h[n], n)
            BY <1>9, <2>1
        <3>2. size(n + 1) = size(n + 1 - 1) + Len(seqs[n + 1]) /\ seqs[n + 1] \in T
            BY <1>1, <1>7, <2>1
        <3>3. \A l \in 1..m : h[l] = h[l - 1] \o seqs[l]
            BY <1>4
        <3>4. PICK l \in 1..m : l = n + 1
            BY <2>1
        <3>5. h[l] = h[l - 1] \o seqs[l] /\ l - 1 = n
            <4>1. h[l] = h[l - 1] \o seqs[l]
                BY <3>3
            <4>2. l - 1 = n
                BY <3>4
            <4> QED
                BY <4>1, <4>2
        <3> QED
            BY <2>1, <3>1, <3>2, <3>4, <3>5
    <2> HIDE DEF a, b, m, lengths
    <2>3. /\ a \o b \in T /\ Len(a \o b) = Len(a) + Len(b)
          /\ DOMAIN (a \o b) = 1..Len(a) + Len(b) /\ Len(a) \in Nat /\ Len(b) \in Nat
          /\ DOMAIN a = 1..Len(a) /\ DOMAIN b = 1..Len(b)
          /\ \A l \in 1..Len(a) : (a \o b)[l] = a[l]
          /\ \A l \in 1..Len(b) : (a \o b)[Len(a) + l] = b[l]
        <3>1. a \in Seq(S) /\ b \in Seq(S)
            BY <2>2
        <3> QED
            BY <3>1
    <2>4. ASSUME NEW i \in 1..n + 1, NEW k \in DOMAIN seqs[i]
          PROVE  size(i - 1) + k \in DOMAIN (a \o b) /\ (a \o b)[size(i - 1) + k] = seqs[i][k]
        <3>1. CASE i = n + 1
            <4> HIDE DEF size
            <4>1. k \in 1..Len(b) /\ size(i - 1) = Len(a)
                <5>1. seqs[i] = b
                    BY <3>1 DEF b
                <5>2. i - 1 = n
                    BY <3>1
                <5>3. Len(a) = size(n)
                    BY <2>2
                <5> QED
                    BY <2>3, <5>1, <5>2, <5>3
            <4>2. Len(a) + k \in 1..Len(a) + Len(b)
                BY <2>3, <4>1
            <4> QED
                BY <2>3, <3>1, <4>1, <4>2 DEF b
        <3>2. CASE i # n + 1
            <4>1. i \in 1..n
                BY <3>2
            <4>2. size(i - 1) + k \in DOMAIN a /\ a[size(i - 1) + k] = seqs[i][k]
                BY <2>2, <4>1
            <4> HIDE DEF size
            <4> QED
                BY <2>3, <4>2
        <3> QED
            BY <3>1, <3>2
    <2>5. ASSUME NEW p \in DOMAIN (a \o b)
          PROVE  \E i \in 1..n + 1 : \E k \in DOMAIN seqs[i] : p = size(i - 1) + k
        <3>1. p \in 1..Len(a) + Len(b) /\ Len(a) = size(n)
            BY <2>2, <2>3
        <3>2. CASE p \in 1..Len(a)
            <4>1. PICK i \in 1..n : \E k \in DOMAIN seqs[i] : p = size(i - 1) + k
                BY <2>2, <2>3, <3>2
            <4>2. i \in 1..n + 1
                OBVIOUS
            <4> QED
                BY <4>1, <4>2
        <3>3. CASE p \notin 1..Len(a)
            <4>1. p - Len(a) \in 1..Len(b) /\ p = Len(a) + (p - Len(a))
                BY <2>3, <3>1, <3>3
            <4>2. DOMAIN seqs[n + 1] = 1..Len(b) /\ n + 1 \in 1..n + 1
                BY <2>3 DEF b
            <4> DEFINE i == n + 1
            <4>3. i \in 1..n + 1 /\ p - Len(a) \in DOMAIN seqs[i] /\ i - 1 = n
                BY <2>1, <4>1, <4>2
            <4> HIDE DEF size, i
            <4>4. p = size(i - 1) + (p - Len(a))
                BY <3>1, <4>1, <4>3
            <4> QED
                BY <4>3, <4>4
        <3> QED
            BY <3>2, <3>3
    <2> QED
        BY <2>2, <2>3, <2>4, <2>5
<1>10. Placed(h[m], m)
    <2>1. m \in Good
        <3> HIDE DEF Good
        <3> QED
            BY <1>1, <1>8, <1>9, Induction
    <2> HIDE DEF Placed
    <2> QED
        BY <1>1, <2>1
<1>11. ASSUME NEW i \in 1..m PROVE LengthBefore(seqs, i) = size(i - 1)
    <2>1. Prefix(lengths, i - 1) = [j \in 1..i - 1 |-> Len(seqs[j])]
        BY <1>1 DEF Prefix
    <2> QED
        BY <2>1 DEF LengthBefore
<1> DEFINE s == h[m]
<1>12. /\ s \in T
       /\ \A i \in 1..m : \A k \in DOMAIN seqs[i] :
             size(i - 1) + k \in DOMAIN s /\ s[size(i - 1) + k] = seqs[i][k]
       /\ \A p \in DOMAIN s : \E i \in 1..m : \E k \in DOMAIN seqs[i] : p = size(i - 1) + k
    BY <1>10
<1> HIDE DEF size, m, T, s
<1>13. InPlace(seqs, s)
    <2>1. ASSUME NEW i \in 1..m, NEW k \in DOMAIN seqs[i]
          PROVE  /\ LengthBefore(seqs, i) + k \in DOMAIN s
                 /\ s[LengthBefore(seqs, i) + k] = seqs[i][k]
        BY <1>11, <1>12
    <2>2. ASSUME NEW p \in DOMAIN s
          PROVE  \E i \in 1..m : \E k \in DOMAIN seqs[i] : p = LengthBefore(seqs, i) + k
        <3>1. PICK i \in 1..m : \E k \in DOMAIN seqs[i] : p = size(i - 1) + k
            BY <1>12
        <3>2. LengthBefore(seqs, i) = size(i - 1)
            BY <1>11
        <3> QED
            BY <3>1, <3>2
    <2>3. DOMAIN seqs = 1..m
        BY <1>1
    <2> QED
        BY <2>1, <2>2, <2>3 DEF InPlace
<1>14. FlattenSeq(seqs) = s
    BY <1>5 DEF s
<1> QED
    BY <1>12, <1>13, <1>14 DEF T
\* Joined, sequences that have nothing in common have nothing twice.
LEMMA JoinedApart ==
    ASSUME NEW S, NEW seqs \in Seq(Seq(S)), \A i \in DOMAIN seqs : IsInjective(seqs[i]),
           \A i, j \in DOMAIN seqs : i # j => ToSet(seqs[i]) \cap ToSet(seqs[j]) = {}
    PROVE  /\ FlattenSeq(seqs) \in Seq(S) /\ IsInjective(FlattenSeq(seqs))
           /\ ToSet(FlattenSeq(seqs)) = UNION {ToSet(seqs[i]) : i \in DOMAIN seqs}
<1> DEFINE s == FlattenSeq(seqs)
<1>1. s \in Seq(S) /\ InPlace(seqs, s)
    BY FlattenInPlace
<1> HIDE DEF s
<1>2. \A i \in DOMAIN seqs : \A k \in DOMAIN seqs[i] :
         LengthBefore(seqs, i) + k \in DOMAIN s /\ s[LengthBefore(seqs, i) + k] = seqs[i][k]
    BY <1>1 DEF InPlace
<1>3. \A p \in DOMAIN s : \E i \in DOMAIN seqs : \E k \in DOMAIN seqs[i] :
         p = LengthBefore(seqs, i) + k
    BY <1>1 DEF InPlace
<1>4. ASSUME NEW p \in DOMAIN s, NEW q \in DOMAIN s, s[p] = s[q] PROVE p = q
    <2> PICK i \in DOMAIN seqs : \E k \in DOMAIN seqs[i] : p = LengthBefore(seqs, i) + k
        BY <1>3
    <2>1. PICK k \in DOMAIN seqs[i] : p = LengthBefore(seqs, i) + k
        OBVIOUS
    <2> PICK j \in DOMAIN seqs : \E m \in DOMAIN seqs[j] : q = LengthBefore(seqs, j) + m
        BY <1>3
    <2>2. PICK m \in DOMAIN seqs[j] : q = LengthBefore(seqs, j) + m
        OBVIOUS
    <2>3. s[p] = seqs[i][k] /\ s[q] = seqs[j][m]
        BY <1>2, <2>1, <2>2
    <2>4. seqs[i][k] = seqs[j][m]
        BY <1>4, <2>3
    <2>5. seqs[i][k] \in ToSet(seqs[i]) /\ seqs[j][m] \in ToSet(seqs[j])
        BY DEF ToSet
    <2>6. i = j
        BY <2>4, <2>5
    <2>7. k = m
        BY <2>4, <2>6 DEF IsInjective
    <2> QED
        BY <2>1, <2>2, <2>6, <2>7
<1>5. IsInjective(s)
    BY <1>4 DEF IsInjective
<1>6. ASSUME NEW x PROVE x \in ToSet(s) <=> x \in UNION {ToSet(seqs[i]) : i \in DOMAIN seqs}
    <2>1. ASSUME x \in ToSet(s) PROVE \E i \in DOMAIN seqs : x \in ToSet(seqs[i])
        <3>1. PICK p \in DOMAIN s : x = s[p]
            BY <2>1 DEF ToSet
        <3> PICK i \in DOMAIN seqs : \E k \in DOMAIN seqs[i] : p = LengthBefore(seqs, i) + k
            BY <1>3
        <3>2. PICK k \in DOMAIN seqs[i] : p = LengthBefore(seqs, i) + k
            OBVIOUS
        <3>3. x = seqs[i][k]
            BY <1>2, <3>1, <3>2
        <3> QED
            BY <3>3 DEF ToSet
    <2>2. ASSUME NEW i \in DOMAIN seqs, x \in ToSet(seqs[i]) PROVE x \in ToSet(s)
        <3>1. PICK k \in DOMAIN seqs[i] : x = seqs[i][k]
            BY <2>2 DEF ToSet
        <3> QED
            BY <1>2, <3>1 DEF ToSet
    <2> QED
        BY <2>1, <2>2
<1> QED
    BY <1>1, <1>5, <1>6 DEF s

-----------------------------------------------------------------------------
(* The index of a light.                                                   *)

\* A triangle that emits is listed where its light index says.
LEMMA EmittingIsIndexed ==
    ASSUME NEW triangles \in Seq(BOOLEAN)
    PROVE  /\ Emitting(triangles) \in Seq(Nat)
           /\ \A t \in ToSet(Emitting(triangles)) :
                 /\ LightIndex(triangles, t) \in Nat
                 /\ LightIndex(triangles, t) + 1 \in DOMAIN Emitting(triangles)
                 /\ Emitting(triangles)[LightIndex(triangles, t) + 1] = t
<1> DEFINE S == {t \in DOMAIN triangles : triangles[t]}
<1>1. DOMAIN triangles = 1..Len(triangles) /\ Len(triangles) \in Nat
    OBVIOUS
<1>2. S \subseteq Nat /\ IsFiniteSet(S)
    <2>1. IsFiniteSet(1..Len(triangles))
        BY <1>1, FS_Interval
    <2> QED
        BY <1>1, <2>1, FS_Subset
<1>3. Emitting(triangles) = InOrder(S)
    BY DEF Emitting
<1>4. \A t \in S : LightIndex(triangles, t) = Cardinality(Below(S, t))
    <2> SUFFICES ASSUME NEW t \in S
                 PROVE  LightIndex(triangles, t) = Cardinality(Below(S, t))
        OBVIOUS
    <2>1. {u \in 1..t - 1 : triangles[u]} = Below(S, t)
        BY <1>1 DEF Below
    <2> QED
        BY <2>1 DEF LightIndex
<1> HIDE DEF S
<1>5. /\ InOrder(S) \in Seq(S)
      /\ \A t \in S : /\ Cardinality(Below(S, t)) \in Nat
                      /\ Cardinality(Below(S, t)) + 1 \in DOMAIN InOrder(S)
                      /\ InOrder(S)[Cardinality(Below(S, t)) + 1] = t
    BY <1>2, InOrderLists
<1>6. ToSet(InOrder(S)) \subseteq S
    <2>1. \A n \in DOMAIN InOrder(S) : InOrder(S)[n] \in S
        BY <1>5
    <2> QED
        BY <2>1 DEF ToSet
<1>7. InOrder(S) \in Seq(Nat)
    <2>1. /\ InOrder(S) = [n \in 1..Len(InOrder(S)) |-> InOrder(S)[n]]
          /\ Len(InOrder(S)) \in Nat /\ \A n \in 1..Len(InOrder(S)) : InOrder(S)[n] \in S
        BY <1>5
    <2>2. \A n \in 1..Len(InOrder(S)) : InOrder(S)[n] \in Nat
        BY <1>2, <2>1
    <2> QED
        BY <2>1, <2>2, FormsSequence
<1> QED
    BY <1>3, <1>4, <1>5, <1>6, <1>7

\* Only triangles that emit are listed.
LEMMA ListedTrianglesEmit ==
    ASSUME NEW triangles \in Seq(BOOLEAN), NEW t \in ToSet(Emitting(triangles))
    PROVE  t \in DOMAIN triangles /\ triangles[t] = TRUE
<1> DEFINE S == {u \in DOMAIN triangles : triangles[u]}
<1>1. S \subseteq Nat /\ IsFiniteSet(S)
    <2>1. IsFiniteSet(1..Len(triangles)) /\ S \subseteq 1..Len(triangles)
        BY FS_Interval
    <2> QED
        BY <2>1, FS_Subset
<1>2. t \in S
    <2> HIDE DEF S
    <2>1. InOrder(S) \in Seq(S)
        BY <1>1, InOrderLists
    <2>2. t \in ToSet(InOrder(S))
        BY DEF Emitting, S
    <2> QED
        BY <2>1, <2>2 DEF ToSet
<1>3. \A u \in DOMAIN triangles : triangles[u] \in BOOLEAN
    OBVIOUS
<1> QED
    BY <1>2, <1>3

\* A hit names its own triangle among the lights.
LEMMA HitsNameTheirLight ==
    ASSUME host \in HostScenes
    PROVE  /\ \A i \in DOMAIN host.instances : \A t \in ToSet(Emitting(Mesh(i))) :
                 HostLights[HitLight(i, t) + 1] = <<i, t>>
           /\ \A t \in ToSet(Emitting(host.statics)) :
                 HostLights[StaticLightIndex(t) + 1] = <<0, t>>
<1> DEFINE piece(i) == [k \in DOMAIN Emitting(Mesh(i)) |-> <<i, Emitting(Mesh(i))[k]>>]
           pieces == [i \in DOMAIN host.instances |-> piece(i)]
           S == Nat \X Nat
<1>1. /\ host.instances \in Seq(DOMAIN host.meshes) /\ host.statics \in Seq(BOOLEAN)
      /\ \A m \in DOMAIN host.meshes : host.meshes[m] \in Seq(BOOLEAN)
    BY HostAssumption
<1>2. /\ DOMAIN host.instances = 1..Len(host.instances) /\ Len(host.instances) \in Nat
      /\ \A i \in DOMAIN host.instances : Mesh(i) \in Seq(BOOLEAN)
    BY <1>1 DEF Mesh
<1>3. \A i \in DOMAIN host.instances :
         /\ piece(i) \in Seq(S) /\ DOMAIN piece(i) = DOMAIN Emitting(Mesh(i))
         /\ Len(piece(i)) = Len(Emitting(Mesh(i)))
    <2> SUFFICES ASSUME NEW i \in DOMAIN host.instances
                 PROVE  /\ piece(i) \in Seq(S) /\ DOMAIN piece(i) = DOMAIN Emitting(Mesh(i))
                        /\ Len(piece(i)) = Len(Emitting(Mesh(i)))
        OBVIOUS
    <2>1. Emitting(Mesh(i)) \in Seq(Nat) /\ i \in Nat
        BY <1>2, EmittingIsIndexed
    <2> QED
        BY <2>1
<1>4. pieces \in Seq(Seq(S)) /\ DOMAIN pieces = DOMAIN host.instances
    <2> HIDE DEF piece, S
    <2> QED
        BY <1>2, <1>3
<1>5. MeshLights = FlattenSeq(pieces)
    BY DEF MeshLights
<1>6. \A i \in DOMAIN host.instances : LengthBefore(pieces, i) = LightOffset(i)
    <2> SUFFICES ASSUME NEW i \in DOMAIN host.instances
                 PROVE  LengthBefore(pieces, i) = LightOffset(i)
        OBVIOUS
    <2>1. \A j \in 1..i - 1 : j \in DOMAIN host.instances
        BY <1>2
    <2>2. [j \in 1..i - 1 |-> Len(pieces[j])] = [j \in 1..i - 1 |-> Len(Emitting(Mesh(j)))]
        <3> HIDE DEF piece
        <3>1. \A j \in 1..i - 1 : Len(pieces[j]) = Len(Emitting(Mesh(j)))
            BY <1>3, <2>1
        <3> QED
            BY <3>1
    <2> HIDE DEF pieces
    <2> QED
        BY <2>2 DEF LengthBefore, LightOffset
<1>7. \A i \in DOMAIN host.instances : LightOffset(i) \in Int
    <2> SUFFICES ASSUME NEW i \in DOMAIN host.instances PROVE LightOffset(i) \in Int
        OBVIOUS
    <2>1. \A j \in 1..i - 1 : Emitting(Mesh(j)) \in Seq(Nat)
        BY <1>2, EmittingIsIndexed
    <2>2. i - 1 \in Nat
        BY <1>2
    <2>3. [j \in 1..i - 1 |-> Len(Emitting(Mesh(j)))] \in Seq(Int)
        BY <2>1, <2>2
    <2> QED
        BY <2>3, TotalIsInteger DEF LightOffset
<1> HIDE DEF S
<1>8. /\ MeshLights \in Seq(S)
      /\ \A i \in DOMAIN host.instances : \A k \in DOMAIN pieces[i] :
            /\ LightOffset(i) + k \in DOMAIN MeshLights
            /\ MeshLights[LightOffset(i) + k] = pieces[i][k]
    <2> HIDE DEF pieces
    <2> QED
        BY <1>4, <1>5, <1>6, FlattenInPlace DEF InPlace
<1>9. StaticLights \in Seq(S) /\ DOMAIN StaticLights = DOMAIN Emitting(host.statics)
    <2>1. Emitting(host.statics) \in Seq(Nat)
        BY <1>1, EmittingIsIndexed
    <2> QED
        BY <2>1 DEF StaticLights, S
<1>10. /\ \A n \in DOMAIN MeshLights : HostLights[n] = MeshLights[n]
       /\ \A n \in DOMAIN StaticLights : HostLights[Len(MeshLights) + n] = StaticLights[n]
       /\ Len(MeshLights) \in Nat
    BY <1>8, <1>9 DEF HostLights
<1>11. ASSUME NEW i \in DOMAIN host.instances, NEW t \in ToSet(Emitting(Mesh(i)))
       PROVE  HostLights[HitLight(i, t) + 1] = <<i, t>>
    <2> DEFINE k == LightIndex(Mesh(i), t)
    <2>1. /\ k \in Nat /\ k + 1 \in DOMAIN Emitting(Mesh(i)) /\ Emitting(Mesh(i))[k + 1] = t
        BY <1>2, EmittingIsIndexed
    <2>2. HitLight(i, t) + 1 = LightOffset(i) + (k + 1)
        <3>1. k # NoLight /\ LightOffset(i) \in Int
            BY <1>7, <2>1 DEF NoLight
        <3>2. i \notin host.overridden
            <4>1. t \in DOMAIN Mesh(i) /\ Mesh(i)[t] = TRUE
                BY <1>2, ListedTrianglesEmit
            <4>2. TRUE \in ToSet(host.meshes[host.instances[i]])
                BY <4>1 DEF ToSet, Mesh
            <4> QED
                BY <4>2, HostAssumption
        <3> HIDE DEF k
        <3>3. HitLight(i, t) = LightOffset(i) + k
            BY <3>1, <3>2 DEF HitLight, k
        <3> QED
            BY <2>1, <3>1, <3>3
    <2> HIDE DEF k
    <2>3. k + 1 \in DOMAIN pieces[i] /\ pieces[i][k + 1] = <<i, t>>
        BY <2>1
    <2> HIDE DEF pieces
    <2> QED
        BY <1>8, <1>10, <2>2, <2>3
<1>12. ASSUME NEW t \in ToSet(Emitting(host.statics))
       PROVE  HostLights[StaticLightIndex(t) + 1] = <<0, t>>
    <2> DEFINE k == LightIndex(host.statics, t)
    <2>1. /\ k \in Nat /\ k + 1 \in DOMAIN Emitting(host.statics)
          /\ Emitting(host.statics)[k + 1] = t
        BY <1>1, EmittingIsIndexed
    <2>2. host.statics[t]
        <3>1. k # NoLight
            BY <2>1 DEF NoLight
        <3> QED
            BY <3>1 DEF LightIndex
    <2>3. StaticLightIndex(t) = Len(MeshLights) + k
        BY <2>2 DEF StaticLightIndex
    <2> HIDE DEF k
    <2>4. StaticLightIndex(t) + 1 = Len(MeshLights) + (k + 1)
        BY <1>10, <2>1, <2>3
    <2>5. StaticLights[k + 1] = <<0, t>>
        BY <2>1 DEF StaticLights
    <2> QED
        BY <1>9, <1>10, <2>1, <2>4, <2>5
<1> QED
    BY <1>11, <1>12
-----------------------------------------------------------------------------
(* Lists of lights.                                                        *)

\* What a sequence holds is of its kind.
LEMMA Elements ==
    ASSUME NEW S, NEW s \in Seq(S)
    PROVE  ToSet(s) \subseteq S
    BY DEF ToSet

\* A list loses its last element, ...
LEMMA WithoutLast ==
    ASSUME NEW S, NEW s \in Seq(S), s # <<>>, IsInjective(s)
    PROVE  /\ Front(s) \in Seq(S) /\ IsInjective(Front(s))
           /\ Last(s) \in ToSet(s) /\ Last(s) \in S
           /\ ToSet(Front(s)) = ToSet(s) \ {Last(s)}
<1> DEFINE n == Len(s)
           f == SubSeq(s, 1, n - 1)
<1>1. n \in Nat /\ DOMAIN s = 1..n /\ \A i \in 1..n : s[i] \in S
    OBVIOUS
<1>2. n # 0
    OBVIOUS
<1>3. Last(s) = s[n]
    BY DEF Last
<1>4. Front(s) = f
    BY DEF Front
<1> HIDE DEF n, f
<1>5. n \in 1..n /\ \A i \in 1..n - 1 : i \in 1..n /\ i # n
    BY <1>1, <1>2
<1>6. f \in Seq(S) /\ DOMAIN f = 1..n - 1 /\ \A i \in 1..n - 1 : f[i] = s[i]
    <2>1. n - 1 \in Int /\ 1 \in Int /\ \A i \in 1..n - 1 : s[i] \in S
        BY <1>1, <1>5
    <2>2. /\ f \in Seq(S) /\ Len(f) = IF 1 <= n - 1 THEN n - 1 - 1 + 1 ELSE 0
          /\ \A i \in 1..n - 1 - 1 + 1 : f[i] = s[1 + i - 1]
        BY <2>1, SubSeqProperties DEF f
    <2>3. (IF 1 <= n - 1 THEN n - 1 - 1 + 1 ELSE 0) = n - 1
        BY <1>1, <1>2
    <2>4. \A i \in 1..n - 1 : i \in 1..n - 1 - 1 + 1 /\ 1 + i - 1 = i
        BY <1>1
    <2>5. DOMAIN f = 1..Len(f)
        BY <2>2
    <2> QED
        BY <2>2, <2>3, <2>4, <2>5
<1>7. s[n] \in ToSet(s) /\ s[n] \in S
    BY <1>1, <1>5 DEF ToSet
<1>8. \A i, j \in 1..n : s[i] = s[j] => i = j
    BY <1>1 DEF IsInjective
<1>9. IsInjective(f)
    BY <1>5, <1>6, <1>8 DEF IsInjective
<1>10. \A i \in 1..n : i = n \/ i \in 1..n - 1
    BY <1>1
<1>11. ASSUME NEW x PROVE x \in ToSet(f) <=> x \in ToSet(s) \ {s[n]}
    <2>1. x \in ToSet(f) <=> \E i \in 1..n - 1 : x = s[i]
        BY <1>6 DEF ToSet
    <2>2. x \in ToSet(s) <=> \E i \in 1..n : x = s[i]
        BY <1>1 DEF ToSet
    <2>3. \A i \in 1..n - 1 : s[i] # s[n]
        BY <1>5, <1>8
    <2> QED
        BY <1>5, <1>10, <2>1, <2>2, <2>3
<1> QED
    BY <1>3, <1>4, <1>6, <1>7, <1>9, <1>11

\* ... and gains one.
LEMMA WithOneMore ==
    ASSUME NEW S, NEW s \in Seq(S), NEW x \in S, x \notin ToSet(s), IsInjective(s)
    PROVE  /\ Append(s, x) \in Seq(S) /\ IsInjective(Append(s, x))
           /\ ToSet(Append(s, x)) = ToSet(s) \cup {x}
<1>1. Len(s) \in Nat /\ DOMAIN s = 1..Len(s)
    OBVIOUS
<1>2. /\ Append(s, x) \in Seq(S) /\ DOMAIN Append(s, x) = 1..Len(s) + 1
      /\ \A i \in 1..Len(s) : Append(s, x)[i] = s[i]
      /\ Append(s, x)[Len(s) + 1] = x
    OBVIOUS
<1> DEFINE a == Append(s, x)
<1> HIDE DEF a
<1>3. \A i \in 1..Len(s) + 1 : i = Len(s) + 1 \/ i \in DOMAIN s
    BY <1>1
<1>4. \A i \in DOMAIN s : s[i] \in ToSet(s) /\ i \in 1..Len(s) + 1
    BY <1>1 DEF ToSet
<1>5. Len(s) + 1 \in 1..Len(s) + 1
    BY <1>1
<1>6. IsInjective(a)
    BY <1>1, <1>2, <1>3, <1>4 DEF IsInjective, a
<1>7. ASSUME NEW y PROVE y \in ToSet(a) <=> y \in ToSet(s) \cup {x}
    <2>1. y \in ToSet(a) <=> \E i \in 1..Len(s) + 1 : y = a[i]
        BY <1>2 DEF ToSet, a
    <2>2. y \in ToSet(s) <=> \E i \in DOMAIN s : y = s[i]
        BY DEF ToSet
    <2> QED
        BY <1>1, <1>2, <1>3, <1>4, <1>5, <2>1, <2>2 DEF a
<1> QED
    BY <1>2, <1>6, <1>7 DEF a

\* The elements of two lists.
LEMMA OfEither ==
    ASSUME NEW S, NEW s \in Seq(S), NEW t \in Seq(S)
    PROVE  ToSet(s \o t) = ToSet(s) \cup ToSet(t)
<1>1. /\ Len(s) \in Nat /\ Len(t) \in Nat /\ DOMAIN s = 1..Len(s) /\ DOMAIN t = 1..Len(t)
      /\ DOMAIN (s \o t) = 1..Len(s) + Len(t)
      /\ \A i \in 1..Len(s) : (s \o t)[i] = s[i]
      /\ \A i \in 1..Len(t) : (s \o t)[Len(s) + i] = t[i]
    OBVIOUS
<1> DEFINE u == s \o t
<1> HIDE DEF u
<1>2. \A i \in 1..Len(s) + Len(t) : i \in 1..Len(s) \/ \E j \in 1..Len(t) : i = Len(s) + j
    <2> SUFFICES ASSUME NEW i \in 1..Len(s) + Len(t), i \notin 1..Len(s)
                 PROVE  \E j \in 1..Len(t) : i = Len(s) + j
        OBVIOUS
    <2>1. i - Len(s) \in 1..Len(t) /\ i = Len(s) + (i - Len(s))
        BY <1>1
    <2> QED
        BY <2>1
<1>3. /\ \A i \in 1..Len(s) : i \in 1..Len(s) + Len(t)
      /\ \A j \in 1..Len(t) : Len(s) + j \in 1..Len(s) + Len(t)
    BY <1>1
<1>4. ASSUME NEW y PROVE y \in ToSet(u) <=> y \in ToSet(s) \cup ToSet(t)
    <2>1. /\ y \in ToSet(u) <=> \E i \in 1..Len(s) + Len(t) : y = u[i]
          /\ y \in ToSet(s) <=> \E i \in 1..Len(s) : y = s[i]
          /\ y \in ToSet(t) <=> \E i \in 1..Len(t) : y = t[i]
        BY <1>1 DEF ToSet, u
    <2>2. \A i \in 1..Len(s) : u[i] = s[i]
        BY <1>1 DEF u
    <2>3. \A i \in 1..Len(t) : u[Len(s) + i] = t[i]
        BY <1>1 DEF u
    <2> QED
        BY <1>2, <1>3, <2>1, <2>2, <2>3
<1> QED
    BY <1>4 DEF u
-----------------------------------------------------------------------------
(* The table of the lights: how it begins, ...                             *)

\* The lights that are not yet in the table l of the weights w, ...
Open(l) == ToSet(l.small) \cup ToSet(l.large)

\* ... what these have beyond one share each, ...
Excess(w, l) == [j \in 1..Len(w) |-> IF j \in Open(l) THEN l.scaled[j] - Total(w) ELSE 0]

\* ... what a column of the table draws of the light i, ...
Drawn(w, l, i, j) == (IF j = i THEN l.alias[j].probability ELSE 0)
                     + (IF l.alias[j].alias = i THEN Total(w) - l.alias[j].probability ELSE 0)

\* ... and what the light i has in each column, or has still to be given there.
Shares(w, l, i) ==
    [j \in 1..Len(w) |-> IF j \in Open(l) THEN (IF j = i THEN l.scaled[j] ELSE 0)
                         ELSE Drawn(w, l, i, j)]

IsTable(w, l) ==
    l \in [scaled : [1..Len(w) -> Int], small : Seq(1..Len(w)), large : Seq(1..Len(w)),
           alias : [1..Len(w) -> [probability : Int, alias : Nat]]]

ListsApart(w, l) ==
    /\ IsInjective(l.small) /\ IsInjective(l.large)
    /\ ToSet(l.small) \cap ToSet(l.large) = {}
    /\ \A j \in ToSet(l.small) : l.scaled[j] < Total(w)
    /\ \A j \in ToSet(l.large) : l.scaled[j] >= Total(w)

\* Nothing is lost or gained on the way.
Balanced(w, l) ==
    /\ Total(Excess(w, l)) = 0
    /\ \A i \in 1..Len(w) : Total(Shares(w, l, i)) = Len(w) * w[i]

DrawsByWeight(w, l) ==
    \A i \in 1..Len(w) : Total([j \in 1..Len(w) |-> Drawn(w, l, i, j)]) = Len(w) * w[i]

\* A set of indices, in order, is a list that has each of them once.
LEMMA ListOf ==
    ASSUME NEW n \in Nat, NEW S, S \subseteq 1..n
    PROVE  /\ InOrder(S) \in Seq(1..n) /\ IsInjective(InOrder(S))
           /\ ToSet(InOrder(S)) = S
<1>1. S \subseteq Nat /\ IsFiniteSet(S)
    <2>1. IsFiniteSet(1..n)
        BY FS_Interval
    <2>2. IsFiniteSet(S)
        BY <2>1, FS_Subset
    <2> QED
        BY <2>2
<1> DEFINE s == InOrder(S)
<1> HIDE DEF s
<1>2. /\ s \in Seq(S)
      /\ \A k \in S : \E m \in DOMAIN s : s[m] = k
      /\ \A k, m \in DOMAIN s : s[k] = s[m] => k = m
    BY <1>1, InOrderLists DEF s
<1>3. /\ s = [m \in 1..Len(s) |-> s[m]] /\ Len(s) \in Nat /\ DOMAIN s = 1..Len(s)
      /\ \A m \in 1..Len(s) : s[m] \in S
    BY <1>2
<1>4. s \in Seq(1..n)
    <2>1. \A m \in 1..Len(s) : s[m] \in 1..n
        BY <1>3
    <2> QED
        BY <1>3, <2>1, FormsSequence
<1>5. IsInjective(s)
    BY <1>2 DEF IsInjective
<1>6. ToSet(s) = S
    BY <1>2, <1>3 DEF ToSet
<1> QED
    BY <1>4, <1>5, <1>6 DEF s

\* uploadTriangleLights before its loop.
LEMMA TableBegins ==
    ASSUME NEW w \in Seq(Nat), NEW scaled, NEW l,
           scaled = [i \in DOMAIN w |-> w[i] * Len(w)],
           l = [scaled |-> scaled,
                small |-> InOrder({i \in DOMAIN scaled : scaled[i] < Total(w)}),
                large |-> InOrder({i \in DOMAIN scaled : scaled[i] >= Total(w)}),
                alias |-> [i \in DOMAIN scaled |-> [probability |-> 0, alias |-> 1]]]
    PROVE  IsTable(w, l) /\ ListsApart(w, l) /\ Balanced(w, l)
<1> DEFINE n == Len(w)
           T == Total(w)
           low == {i \in DOMAIN scaled : scaled[i] < T}
           high == {i \in DOMAIN scaled : scaled[i] >= T}
<1>1. /\ n \in Nat /\ DOMAIN w = 1..n /\ w \in Seq(Int) /\ DOMAIN scaled = 1..n
      /\ \A i \in 1..n : w[i] \in Nat
    OBVIOUS
<1>2. T \in Int
    BY <1>1, TotalIsInteger
<1>3. \A i \in 1..n : scaled[i] = w[i] * n /\ scaled[i] \in Int
    BY <1>1
<1>4. scaled \in [1..n -> Int]
    <2> HIDE DEF n
    <2>1. scaled = [i \in 1..n |-> scaled[i]]
        BY <1>1 DEF n
    <2> QED
        BY <1>3, <2>1
<1> HIDE DEF n, T
<1>5. low \subseteq 1..n /\ high \subseteq 1..n /\ low \cap high = {} /\ low \cup high = 1..n
    BY <1>1, <1>2, <1>3
<1> DEFINE small == InOrder(low)
           large == InOrder(high)
<1>6. /\ small \in Seq(1..n) /\ IsInjective(small) /\ ToSet(small) = low
      /\ large \in Seq(1..n) /\ IsInjective(large) /\ ToSet(large) = high
    <2> HIDE DEF low, high
    <2> QED
        BY <1>1, <1>5, ListOf
<1> DEFINE alias == [i \in 1..n |-> [probability |-> 0, alias |-> 1]]
<1>7. alias \in [1..n -> [probability : Int, alias : Nat]]
    OBVIOUS
<1> HIDE DEF small, large
<1>8. l = [scaled |-> scaled, small |-> small, large |-> large, alias |-> alias]
    BY <1>1 DEF small, large, n, T
<1>9. /\ l.scaled = scaled /\ l.small = small /\ l.large = large /\ l.alias = alias
      /\ \A j \in low : scaled[j] < T
      /\ \A j \in high : scaled[j] >= T
    BY <1>8
<1> HIDE DEF alias, low, high
<1>10. IsTable(w, l)
    BY <1>4, <1>6, <1>7, <1>8 DEF IsTable, n
<1>11. ListsApart(w, l)
    BY <1>5, <1>6, <1>9 DEF ListsApart, T
<1>12. Open(l) = 1..n
    BY <1>5, <1>6, <1>9 DEF Open
<1>13. Total(Excess(w, l)) = 0
    <2>1. Excess(w, l) = [j \in 1..n |-> scaled[j] - T]
        <3> DEFINE e(j) == IF j \in Open(l) THEN l.scaled[j] - T ELSE 0
        <3>1. Excess(w, l) = [j \in 1..n |-> e(j)]
            BY DEF Excess, n, T
        <3>2. \A j \in 1..n : e(j) = scaled[j] - T
            BY <1>9, <1>12
        <3> HIDE DEF e
        <3> QED
            BY <3>1, <3>2
    <2>2. \A j \in 1..n : scaled[j] - T = n * w[j] + (- T)
        <3>1. \A x, y, z \in Int : x * y - z = y * x + (- z)
            OBVIOUS
        <3>2. \A j \in 1..n : w[j] \in Int /\ n \in Int
            BY <1>1
        <3>3. ASSUME NEW j \in 1..n PROVE scaled[j] - T = n * w[j] + (- T)
            <4>1. w[j] * n - T = n * w[j] + (- T)
                BY <1>2, <3>1, <3>2
            <4> QED
                BY <1>3, <4>1
        <3> QED
            BY <3>3
    <2>3. [j \in 1..n |-> scaled[j] - T] \in Seq(Int)
        BY <1>1, <1>2, <1>3
    <2> DEFINE g == [j \in 1..n |-> scaled[j] - T]
    <2>4. Len(g) = n /\ \A j \in 1..n : g[j] = n * w[j] + (- T)
        BY <1>1, <2>2
    <2>5. - T \in Int /\ n \in Int
        BY <1>1, <1>2
    <2> HIDE DEF g
    <2>6. Total(g) = n * Total(w) + (- T) * Len(w)
        BY <1>1, <2>3, <2>4, <2>5, TotalOfMultiple DEF g, n
    <2>7. \A x, y \in Int : x * y + (- y) * x = 0
        OBVIOUS
    <2>8. Total(g) = 0
        BY <1>1, <1>2, <2>6, <2>7 DEF n, T
    <2> QED
        BY <2>1, <2>8 DEF g
<1>14. ASSUME NEW i \in 1..n PROVE Total(Shares(w, l, i)) = n * w[i]
    <2> DEFINE f == [j \in 1..n |-> 0]
               g == [j \in 1..n |-> IF j = i THEN scaled[j] ELSE 0]
    <2>1. Shares(w, l, i) = g
        BY <1>9, <1>12 DEF Shares, n
    <2>2. /\ f \in Seq(Int) /\ Len(f) = n /\ DOMAIN f = 1..n /\ \A j \in 1..n : f[j] = 0
          /\ g \in Seq(Int) /\ Len(g) = n /\ g[i] = scaled[i]
          /\ \A j \in 1..n : j # i => g[j] = f[j]
        BY <1>1, <1>3
    <2> HIDE DEF f, g
    <2>3. Total(f) = 0
        <3>1. \A j \in 1..Len(w) : f[j] = 0 * w[j] + 0
            BY <1>1, <2>2 DEF n
        <3>2. 0 \in Int /\ Total(w) \in Int /\ Len(w) \in Int
            BY <1>1, <1>2 DEF n, T
        <3>3. Total(f) = 0 * Total(w) + 0 * Len(w)
            BY <1>1, <2>2, <3>1, <3>2, TotalOfMultiple DEF n
        <3> QED
            BY <3>2, <3>3
    <2>4. Total(g) = Total(f) + (g[i] - f[i])
        BY <2>2, TotalAfterChange
    <2>5. Total(g) = scaled[i]
        BY <1>3, <2>2, <2>3, <2>4
    <2>6. scaled[i] = n * w[i]
        <3>1. \A x, y \in Int : x * y = y * x
            OBVIOUS
        <3> QED
            BY <1>1, <1>3, <3>1
    <2> QED
        BY <2>1, <2>5, <2>6
<1>15. Balanced(w, l)
    BY <1>13, <1>14 DEF Balanced, n
<1> QED
    BY <1>10, <1>11, <1>15
-----------------------------------------------------------------------------
(* ... grows and ends.                                                     *)

\* What is summed up for Balanced is integers.
LEMMA DrawnIsInteger ==
    ASSUME NEW w \in Seq(Nat), NEW l, IsTable(w, l), NEW i, NEW j \in 1..Len(w)
    PROVE  Drawn(w, l, i, j) \in Int
<1>1. Total(w) \in Int
    BY TotalIsInteger
<1>2. l.alias[j].probability \in Int
    BY DEF IsTable
<1> QED
    BY <1>1, <1>2 DEF Drawn

\* So are the two sequences of Balanced, index by index what their definitions say.
LEMMA Summands ==
    ASSUME NEW w \in Seq(Nat), NEW l, IsTable(w, l), NEW i
    PROVE  /\ Excess(w, l) \in Seq(Int) /\ Len(Excess(w, l)) = Len(w)
           /\ \A j \in 1..Len(w) : Excess(w, l)[j] =
                 IF j \in Open(l) THEN l.scaled[j] - Total(w) ELSE 0
           /\ Shares(w, l, i) \in Seq(Int) /\ Len(Shares(w, l, i)) = Len(w)
           /\ \A j \in 1..Len(w) : Shares(w, l, i)[j] =
                 IF j \in Open(l) THEN (IF j = i THEN l.scaled[j] ELSE 0) ELSE Drawn(w, l, i, j)
<1> DEFINE n == Len(w)
           e(j) == IF j \in Open(l) THEN l.scaled[j] - Total(w) ELSE 0
           s(j) == IF j \in Open(l) THEN (IF j = i THEN l.scaled[j] ELSE 0)
                   ELSE Drawn(w, l, i, j)
<1>1. n \in Nat /\ Total(w) \in Int
    BY TotalIsInteger
<1>2. \A j \in 1..n : l.scaled[j] \in Int
    BY DEF IsTable
<1>3. \A j \in 1..n : e(j) \in Int /\ s(j) \in Int
    <2>1. \A j \in 1..n : Drawn(w, l, i, j) \in Int
        BY DrawnIsInteger
    <2> HIDE DEF n
    <2> QED
        BY <1>1, <1>2, <2>1
<1>4. Excess(w, l) = [j \in 1..n |-> e(j)] /\ Shares(w, l, i) = [j \in 1..n |-> s(j)]
    BY DEF Excess, Shares
<1> HIDE DEF n, e, s
<1>5. /\ Excess(w, l) \in Seq(Int) /\ Len(Excess(w, l)) = n
      /\ \A j \in 1..n : Excess(w, l)[j] = e(j)
    BY <1>1, <1>3, <1>4
<1>6. /\ Shares(w, l, i) \in Seq(Int) /\ Len(Shares(w, l, i)) = n
      /\ \A j \in 1..n : Shares(w, l, i)[j] = s(j)
    BY <1>1, <1>3, <1>4
<1> QED
    BY <1>5, <1>6 DEF n, e, s

\* A turn of the loop of uploadTriangleLights.
Grown(w, l) ==
    LET low == Last(l.small)
        high == Last(l.large)
        rest == l.scaled[high] + l.scaled[low] - Total(w)
    IN  [scaled |-> [l.scaled EXCEPT ![high] = rest],
         small |-> IF rest < Total(w) THEN Append(Front(l.small), high) ELSE Front(l.small),
         large |-> IF rest < Total(w) THEN Front(l.large) ELSE Append(Front(l.large), high),
         alias |-> [l.alias EXCEPT
                       ![low] = [probability |-> l.scaled[low], alias |-> high]]]

\* It keeps the table in balance, and the two lists apart.
LEMMA TableGrows ==
    ASSUME NEW w \in Seq(Nat), NEW l, IsTable(w, l), ListsApart(w, l), Balanced(w, l),
           l.small # <<>>, l.large # <<>>, NEW k, k = Grown(w, l)
    PROVE  IsTable(w, k) /\ ListsApart(w, k) /\ Balanced(w, k)
<1> DEFINE n == Len(w)
           T == Total(w)
           A == Front(l.small)
           B == Front(l.large)
           low == Last(l.small)
           high == Last(l.large)
           rest == l.scaled[high] + l.scaled[low] - T
<1>1. n \in Nat /\ T \in Int
    BY TotalIsInteger
<1> HIDE DEF n, T, A, B, low, high, rest
<1>2. /\ l.scaled \in [1..n -> Int] /\ l.small \in Seq(1..n) /\ l.large \in Seq(1..n)
      /\ l.alias \in [1..n -> [probability : Int, alias : Nat]]
    BY DEF IsTable, n
<1>3. /\ A \in Seq(1..n) /\ IsInjective(A) /\ ToSet(A) = ToSet(l.small) \ {low}
      /\ low \in ToSet(l.small) /\ low \in 1..n
    BY <1>2, WithoutLast DEF ListsApart, A, low
<1>4. /\ B \in Seq(1..n) /\ IsInjective(B) /\ ToSet(B) = ToSet(l.large) \ {high}
      /\ high \in ToSet(l.large) /\ high \in 1..n
    BY <1>2, WithoutLast DEF ListsApart, B, high
<1>5. ToSet(l.small) \cap ToSet(l.large) = {}
    BY DEF ListsApart
<1>6. low # high /\ high \notin ToSet(A) /\ high \notin ToSet(B) /\ low \notin ToSet(l.large)
    BY <1>3, <1>4, <1>5
<1>7. /\ Append(A, high) \in Seq(1..n) /\ IsInjective(Append(A, high))
      /\ ToSet(Append(A, high)) = ToSet(A) \cup {high}
      /\ Append(B, high) \in Seq(1..n) /\ IsInjective(Append(B, high))
      /\ ToSet(Append(B, high)) = ToSet(B) \cup {high}
    <2> DEFINE R == 1..n
    <2>1. A \in Seq(R) /\ B \in Seq(R) /\ high \in R
        BY <1>3, <1>4
    <2>2. IsInjective(A) /\ IsInjective(B)
        BY <1>3, <1>4
    <2> HIDE DEF R
    <2>3. /\ Append(A, high) \in Seq(R) /\ IsInjective(Append(A, high))
          /\ ToSet(Append(A, high)) = ToSet(A) \cup {high}
        BY <1>6, <2>1, <2>2, WithOneMore
    <2>4. /\ Append(B, high) \in Seq(R) /\ IsInjective(Append(B, high))
          /\ ToSet(Append(B, high)) = ToSet(B) \cup {high}
        BY <1>6, <2>1, <2>2, WithOneMore
    <2> QED
        BY <2>3, <2>4 DEF R
<1>8. ToSet(A) \subseteq 1..n /\ ToSet(B) \subseteq 1..n
    <2>1. A \in Seq(1..n) /\ B \in Seq(1..n)
        BY <1>3, <1>4
    <2> QED
        BY <2>1, Elements
<1>9. l.scaled[low] \in Int /\ l.scaled[high] \in Int /\ rest \in Int
      /\ rest = l.scaled[high] + l.scaled[low] - T
    <2>1. low \in 1..n /\ high \in 1..n
        BY <1>3, <1>4
    <2>2. l.scaled[low] \in Int /\ l.scaled[high] \in Int
        BY <1>2, <2>1
    <2> QED
        BY <1>1, <2>2 DEF rest
<1> DEFINE scaled == [l.scaled EXCEPT ![high] = rest]
           small == IF rest < T THEN Append(A, high) ELSE A
           large == IF rest < T THEN B ELSE Append(B, high)
           alias == [l.alias EXCEPT ![low] = [probability |-> l.scaled[low], alias |-> high]]
<1>10. k = [scaled |-> scaled, small |-> small, large |-> large, alias |-> alias]
    BY DEF Grown, T, A, B, low, high, rest
<1>11. /\ scaled \in [1..n -> Int] /\ scaled[high] = rest
       /\ \A j \in 1..n : j # high => scaled[j] = l.scaled[j]
    BY <1>2, <1>4, <1>9
<1>12. /\ alias \in [1..n -> [probability : Int, alias : Nat]]
       /\ alias[low] = [probability |-> l.scaled[low], alias |-> high]
       /\ \A j \in 1..n : j # low => alias[j] = l.alias[j]
    <2>1. high \in Nat
        BY <1>1, <1>4
    <2>2. [probability |-> l.scaled[low], alias |-> high] \in [probability : Int, alias : Nat]
        BY <1>9, <2>1
    <2> QED
        BY <1>2, <1>3, <2>2
<1>13. /\ small \in Seq(1..n) /\ large \in Seq(1..n) /\ IsInjective(small) /\ IsInjective(large)
       /\ ToSet(small) \cap ToSet(large) = {}
       /\ ToSet(small) \subseteq ToSet(A) \cup {high}
       /\ ToSet(large) \subseteq ToSet(B) \cup {high}
       /\ high \in ToSet(small) => rest < T
       /\ high \in ToSet(large) => ~ (rest < T)
       /\ ToSet(small) \cup ToSet(large) = ToSet(A) \cup ToSet(B) \cup {high}
    <2>1. ToSet(A) \cap ToSet(B) = {}
        BY <1>3, <1>4, <1>5
    <2>2. CASE rest < T
        BY <1>3, <1>4, <1>6, <1>7, <2>1, <2>2
    <2>3. CASE ~ (rest < T)
        BY <1>3, <1>4, <1>6, <1>7, <2>1, <2>3
    <2> QED
        BY <2>2, <2>3
<1> HIDE DEF scaled, small, large, alias
<1>14. k.scaled = scaled /\ k.small = small /\ k.large = large /\ k.alias = alias
    BY <1>10
<1>15. IsTable(w, k)
    BY <1>10, <1>11, <1>12, <1>13 DEF IsTable, n
<1>16. ListsApart(w, k)
    <2>1. /\ \A j \in ToSet(l.small) : l.scaled[j] < T
          /\ \A j \in ToSet(l.large) : l.scaled[j] >= T
        BY DEF ListsApart, T
    <2>2. ASSUME NEW j \in ToSet(small) PROVE scaled[j] < T
        <3>1. CASE j = high
            BY <1>11, <1>13, <3>1
        <3>2. CASE j # high
            <4>1. j \in ToSet(A) /\ j \in 1..n /\ j \in ToSet(l.small)
                BY <1>3, <1>8, <1>13, <3>2
            <4> QED
                BY <1>11, <2>1, <3>2, <4>1
        <3> QED
            BY <3>1, <3>2
    <2>3. ASSUME NEW j \in ToSet(large) PROVE scaled[j] >= T
        <3>1. CASE j = high
            BY <1>1, <1>9, <1>11, <1>13, <3>1
        <3>2. CASE j # high
            <4>1. j \in ToSet(B) /\ j \in 1..n /\ j \in ToSet(l.large)
                BY <1>4, <1>8, <1>13, <3>2
            <4> QED
                BY <1>11, <2>1, <3>2, <4>1
        <3> QED
            BY <3>1, <3>2
    <2> QED
        BY <1>13, <1>14, <2>2, <2>3 DEF ListsApart, T
<1>17. Open(k) = Open(l) \ {low} /\ low \in Open(l) /\ high \in Open(l) /\ high \in Open(k)
    BY <1>3, <1>4, <1>6, <1>13, <1>14 DEF Open
<1>18. Total(Excess(w, k)) = 0
    <2> DEFINE f == Excess(w, l)
               g == Excess(w, k)
    <2>1. /\ f \in Seq(Int) /\ Len(f) = n
          /\ \A j \in 1..n : f[j] = IF j \in Open(l) THEN l.scaled[j] - T ELSE 0
        BY Summands DEF n, T
    <2>2. /\ g \in Seq(Int) /\ Len(g) = n
          /\ \A j \in 1..n : g[j] = IF j \in Open(k) THEN scaled[j] - T ELSE 0
        BY <1>14, <1>15, Summands DEF n, T
    <2>3. Total(f) = 0
        BY DEF Balanced
    <2> HIDE DEF f, g
    <2>4. \A j \in 1..n : j # low /\ j # high => g[j] = f[j]
        BY <1>11, <1>17, <2>1, <2>2
    <2>5. Total(g) = Total(f) + (g[low] - f[low]) + (g[high] - f[high])
        <3>1. /\ f \in Seq(Int) /\ g \in Seq(Int) /\ Len(f) = Len(g) /\ low # high
              /\ low \in 1..Len(f) /\ high \in 1..Len(f)
              /\ \A j \in 1..Len(f) : j # low /\ j # high => g[j] = f[j]
            BY <1>3, <1>4, <1>6, <2>1, <2>2, <2>4
        <3> QED
            BY <3>1, TotalAfterChanges
    <2>6. g[low] = 0 /\ f[low] = l.scaled[low] - T
        BY <1>3, <1>17, <2>1, <2>2
    <2>7. g[high] = rest - T /\ f[high] = l.scaled[high] - T
        BY <1>4, <1>11, <1>17, <2>1, <2>2
    <2>8. Total(g) = 0
        BY <1>1, <1>9, <2>3, <2>5, <2>6, <2>7
    <2> QED
        BY <2>8 DEF g
<1>19. ASSUME NEW i \in 1..n PROVE Total(Shares(w, k, i)) = n * w[i]
    <2> DEFINE f == Shares(w, l, i)
               g == Shares(w, k, i)
    <2>1. /\ f \in Seq(Int) /\ Len(f) = n
          /\ \A j \in 1..n : f[j] = IF j \in Open(l) THEN (IF j = i THEN l.scaled[j] ELSE 0)
                                    ELSE Drawn(w, l, i, j)
        BY Summands DEF n
    <2>2. /\ g \in Seq(Int) /\ Len(g) = n
          /\ \A j \in 1..n : g[j] = IF j \in Open(k) THEN (IF j = i THEN scaled[j] ELSE 0)
                                    ELSE Drawn(w, k, i, j)
        BY <1>14, <1>15, Summands DEF n
    <2>3. Total(f) = n * w[i]
        BY DEF Balanced, n
    <2> HIDE DEF f, g
    <2>4. \A j \in 1..n : j # low => Drawn(w, k, i, j) = Drawn(w, l, i, j)
        BY <1>12, <1>14 DEF Drawn
    <2>5. \A j \in 1..n : j # low /\ j # high => g[j] = f[j]
        BY <1>11, <1>17, <2>1, <2>2, <2>4
    <2>6. Total(g) = Total(f) + (g[low] - f[low]) + (g[high] - f[high])
        <3>1. /\ f \in Seq(Int) /\ g \in Seq(Int) /\ Len(f) = Len(g) /\ low # high
              /\ low \in 1..Len(f) /\ high \in 1..Len(f)
              /\ \A j \in 1..Len(f) : j # low /\ j # high => g[j] = f[j]
            BY <1>3, <1>4, <1>6, <2>1, <2>2, <2>5
        <3> QED
            BY <3>1, TotalAfterChanges
    <2>7. /\ f[low] = IF low = i THEN l.scaled[low] ELSE 0
          /\ g[low] = (IF low = i THEN l.scaled[low] ELSE 0)
                      + (IF high = i THEN T - l.scaled[low] ELSE 0)
        <3>1. Drawn(w, k, i, low) = (IF low = i THEN l.scaled[low] ELSE 0)
                                    + (IF high = i THEN T - l.scaled[low] ELSE 0)
            BY <1>12, <1>14 DEF Drawn, T
        <3> QED
            BY <1>3, <1>17, <2>1, <2>2, <3>1
    <2>8. /\ f[high] = IF high = i THEN l.scaled[high] ELSE 0
          /\ g[high] = IF high = i THEN rest ELSE 0
        BY <1>4, <1>11, <1>17, <2>1, <2>2
    <2>9. Total(f) \in Int
        BY <2>1, TotalIsInteger
    <2>10. Total(g) = Total(f)
        <3>1. CASE high = i
            BY <1>1, <1>6, <1>9, <2>6, <2>7, <2>8, <2>9, <3>1
        <3>2. CASE high # i
            BY <1>1, <1>6, <1>9, <2>6, <2>7, <2>8, <2>9, <3>2
        <3> QED
            BY <3>1, <3>2
    <2> QED
        BY <2>3, <2>10 DEF g
<1>20. Balanced(w, k)
    BY <1>18, <1>19 DEF Balanced, n
<1> QED
    BY <1>15, <1>16, <1>20

\* ... and what follows the loop.
Closed(w, l) ==
    [j \in DOMAIN l.alias |-> IF j \in ToSet(l.small \o l.large)
                              THEN [probability |-> Total(w), alias |-> j] ELSE l.alias[j]]

\* Then a light that is still open has one share exactly, and the table draws by weight.
LEMMA TableEnds ==
    ASSUME NEW w \in Seq(Nat), NEW l, IsTable(w, l), ListsApart(w, l), Balanced(w, l),
           l.small = <<>> \/ l.large = <<>>, NEW k,
           k.alias = Closed(w, l)
    PROVE  DrawsByWeight(w, k)
<1> DEFINE n == Len(w)
           T == Total(w)
           f == Excess(w, l)
<1>1. n \in Nat /\ T \in Int
    BY TotalIsInteger
<1>2. /\ f \in Seq(Int) /\ Len(f) = n
      /\ \A j \in 1..n : f[j] = IF j \in Open(l) THEN l.scaled[j] - T ELSE 0
    BY Summands
<1>3. Total(f) = 0
    BY DEF Balanced
<1> HIDE DEF n, T, f
<1>4. \A j \in 1..n : l.scaled[j] \in Int
    BY DEF IsTable, n
<1>5. ToSet(<<>>) = {}
    BY DEF ToSet
<1>6. \A j \in 1..n : f[j] = 0
    <2>1. CASE l.small = <<>>
        <3>1. \A j \in Open(l) : l.scaled[j] >= T
            BY <1>5, <2>1 DEF ListsApart, Open, T
        <3>2. ASSUME NEW j \in 1..n PROVE f[j] >= 0
            <4>1. CASE j \in Open(l)
                <5>1. f[j] = l.scaled[j] - T /\ l.scaled[j] \in Int
                    BY <1>2, <1>4, <4>1
                <5> QED
                    BY <1>1, <3>1, <4>1, <5>1
            <4>2. CASE j \notin Open(l)
                BY <1>2, <4>2
            <4> QED
                BY <4>1, <4>2
        <3>3. \A j \in 1..Len(f) : f[j] >= 0
            BY <1>2, <3>2
        <3> QED
            BY <1>2, <1>3, <3>3, NoneIsPositive
    <2>2. CASE l.large = <<>>
        <3>1. \A j \in Open(l) : l.scaled[j] < T
            BY <1>5, <2>2 DEF ListsApart, Open, T
        <3>2. ASSUME NEW j \in 1..n PROVE f[j] <= 0
            <4>1. CASE j \in Open(l)
                <5>1. f[j] = l.scaled[j] - T /\ l.scaled[j] \in Int
                    BY <1>2, <1>4, <4>1
                <5> QED
                    BY <1>1, <3>1, <4>1, <5>1
            <4>2. CASE j \notin Open(l)
                BY <1>2, <4>2
            <4> QED
                BY <4>1, <4>2
        <3>3. \A j \in 1..Len(f) : f[j] <= 0
            BY <1>2, <3>2
        <3> QED
            BY <1>2, <1>3, <3>3, NoneIsNegative
    <2> QED
        BY <2>1, <2>2
<1>7. \A j \in 1..n : j \in Open(l) => l.scaled[j] = T
    BY <1>1, <1>2, <1>4, <1>6
<1>8. DOMAIN l.alias = 1..n
    BY DEF IsTable, n
<1>9. ToSet(l.small \o l.large) = Open(l)
    BY OfEither DEF IsTable, Open
<1>10. ASSUME NEW j \in 1..n
       PROVE  k.alias[j] = IF j \in Open(l) THEN [probability |-> T, alias |-> j]
                           ELSE l.alias[j]
    BY <1>8, <1>9 DEF Closed, T
<1>11. ASSUME NEW i \in 1..n
       PROVE  Total([j \in 1..n |-> Drawn(w, k, i, j)]) = n * w[i]
    <2> DEFINE d(j) == Drawn(w, k, i, j)
               s == Shares(w, l, i)
    <2>1. /\ s \in Seq(Int) /\ Len(s) = n
          /\ \A j \in 1..n : s[j] = IF j \in Open(l) THEN (IF j = i THEN l.scaled[j] ELSE 0)
                                    ELSE Drawn(w, l, i, j)
        BY Summands DEF n
    <2>2. Total(s) = n * w[i]
        BY DEF Balanced, n
    <2>3. ASSUME NEW j \in 1..n PROVE d(j) = s[j]
        <3>1. CASE j \in Open(l)
            <4>1. k.alias[j].probability = T /\ k.alias[j].alias = j
                <5>1. k.alias[j] = [probability |-> T, alias |-> j]
                    BY <1>10, <3>1
                <5> QED
                    BY <5>1
            <4>2. d(j) = (IF j = i THEN T ELSE 0) + (IF j = i THEN T - T ELSE 0)
                BY <4>1 DEF Drawn, T
            <4>3. s[j] = IF j = i THEN T ELSE 0
                BY <1>7, <2>1, <3>1
            <4> HIDE DEF d, s
            <4> QED
                BY <1>1, <4>2, <4>3
        <3>2. CASE j \notin Open(l)
            <4>1. k.alias[j] = l.alias[j]
                BY <1>10, <3>2
            <4> QED
                BY <2>1, <3>2, <4>1 DEF Drawn
        <3> QED
            BY <3>1, <3>2
    <2>4. s = [j \in 1..n |-> s[j]]
        BY DEF Shares, n
    <2> HIDE DEF d, s
    <2>5. [j \in 1..n |-> d(j)] = s
        BY <2>3, <2>4
    <2> QED
        BY <2>2, <2>5 DEF d
<1> QED
    BY <1>11 DEF DrawsByWeight, n
-----------------------------------------------------------------------------
(* The invariant of the lights.                                            *)

\* The table of the lights is in balance as it grows, and draws by weight once it is there.
LightsIInv ==
    /\ host \in HostScenes
    /\ stage = "lights" => /\ IsTable(host.weights, lights)
                           /\ ListsApart(host.weights, lights)
                           /\ Balanced(host.weights, lights)
    /\ stage \in {"photons", "rendering"} => DrawsByWeight(host.weights, lights)

\* The invariant holds at first, ...
LEMMA LightsBegin == Init => LightsIInv
    BY DEF Init, LightsIInv

\* ... is kept by a step that leaves the scene, the stage and the lights alone, ...
LEMMA LightsStay ==
    ASSUME LightsIInv, host' = host, stage' = stage, lights' = lights
    PROVE  LightsIInv'
    BY DEF LightsIInv

\* ... and by every step;
LEMMA LightsStep == LightsIInv /\ [Next]_vars => LightsIInv'
<1> SUFFICES ASSUME LightsIInv, [Next]_vars PROVE LightsIInv'
    OBVIOUS
<1>1. host \in HostScenes /\ host.weights \in Seq(Nat)
    BY HostAssumption DEF LightsIInv
<1>2. CASE BuildNode
    BY <1>2, LightsStay DEF BuildNode
<1>3. CASE BeginLights
    <2> DEFINE w == host.weights
               scaled == [i \in DOMAIN w |-> w[i] * Len(w)]
    <2>1. lights' = [scaled |-> scaled,
                     small |-> InOrder({i \in DOMAIN scaled : scaled[i] < Total(w)}),
                     large |-> InOrder({i \in DOMAIN scaled : scaled[i] >= Total(w)}),
                     alias |-> [i \in DOMAIN scaled |-> [probability |-> 0, alias |-> 1]]]
        BY <1>3 DEF BeginLights, TotalWeight
    <2>2. host' = host /\ stage' = "lights"
        BY <1>3 DEF BeginLights
    <2>3. IsTable(w, lights') /\ ListsApart(w, lights') /\ Balanced(w, lights')
        <3> HIDE DEF scaled
        <3>1. scaled = [i \in DOMAIN w |-> w[i] * Len(w)]
            BY DEF scaled
        <3> HIDE DEF w
        <3> QED
            BY <1>1, <2>1, <3>1, TableBegins DEF w
    <2> HIDE DEF scaled
    <2> QED
        BY <1>1, <2>2, <2>3 DEF LightsIInv
<1>4. CASE PairLights
    <2>1. /\ lights' = Grown(host.weights, lights) /\ host' = host /\ stage' = "lights"
          /\ stage = "lights" /\ lights.small # <<>> /\ lights.large # <<>>
        BY <1>4 DEF PairLights, Grown, TotalWeight
    <2>2. /\ IsTable(host.weights, lights) /\ ListsApart(host.weights, lights)
          /\ Balanced(host.weights, lights)
        BY <2>1 DEF LightsIInv
    <2>3. /\ IsTable(host.weights, lights') /\ ListsApart(host.weights, lights')
          /\ Balanced(host.weights, lights')
        BY <1>1, <2>1, <2>2, TableGrows
    <2> QED
        BY <1>1, <2>1, <2>3 DEF LightsIInv
<1>5. CASE FinishLights
    <2>1. /\ lights' = [lights EXCEPT !.alias = Closed(host.weights, lights)]
          /\ host' = host /\ stage' = "photons"
          /\ stage = "lights" /\ (lights.small = <<>> \/ lights.large = <<>>)
        BY <1>5 DEF FinishLights, Closed, TotalWeight
    <2>2. /\ IsTable(host.weights, lights) /\ ListsApart(host.weights, lights)
          /\ Balanced(host.weights, lights)
        BY <2>1 DEF LightsIInv
    <2>3. lights'.alias = Closed(host.weights, lights)
        BY <2>1, <2>2 DEF IsTable
    <2>4. DrawsByWeight(host.weights, lights')
        BY <1>1, <2>1, <2>2, <2>3, TableEnds
    <2> QED
        BY <1>1, <2>1, <2>4 DEF LightsIInv
<1>6. ASSUME NEW i \in Photons, ExchangeHead(i) PROVE LightsIInv'
    BY <1>6, LightsStay DEF ExchangeHead
<1>7. ASSUME NEW i \in Photons, StoreNext(i) PROVE LightsIInv'
    BY <1>7, LightsStay DEF StoreNext
<1>8. CASE GridBuilt
    BY <1>8 DEF GridBuilt, LightsIInv
<1>9. CASE BeginRay
    BY <1>9, LightsStay DEF BeginRay
<1>10. CASE PopMissed
    BY <1>10, LightsStay DEF PopMissed
<1>11. CASE PushChildren
    BY <1>11, LightsStay DEF PushChildren
<1>12. CASE PushWideChildren
    BY <1>12, LightsStay DEF PushWideChildren
<1>13. CASE TestLeaf
    BY <1>13, LightsStay DEF TestLeaf
<1>14. CASE EndRay
    BY <1>14, LightsStay DEF EndRay
<1>15. ASSUME NEW hit \in Hits, GatherAt(hit) PROVE LightsIInv'
    BY <1>15, LightsStay DEF GatherAt
<1>16. CASE UNCHANGED vars
    BY <1>16, LightsStay DEF vars
<1> QED
    BY <1>2, <1>3, <1>4, <1>5, <1>6, <1>7, <1>8, <1>9, <1>10, <1>11, <1>12, <1>13, <1>14,
       <1>15, <1>16 DEF Next

\* with it, LightsExact.
LEMMA LightsFollow == LightsIInv => LightsExact
<1> SUFFICES ASSUME LightsIInv, stage \in {"photons", "rendering"}
             PROVE  LightsExact
    BY DEF LightsExact
<1>1. host \in HostScenes /\ host.weights \in Seq(Nat)
    BY HostAssumption DEF LightsIInv
<1>2. \A i \in 1..Len(host.weights) :
         Total([j \in 1..Len(host.weights) |-> Drawn(host.weights, lights, i, j)])
            = Len(host.weights) * host.weights[i]
    BY DEF LightsIInv, DrawsByWeight
<1>3. DOMAIN host.weights = 1..Len(host.weights)
    BY <1>1
<1> DEFINE drawn(i, j) == (IF j = i THEN lights.alias[j].probability ELSE 0)
                          + (IF lights.alias[j].alias = i
                             THEN TotalWeight - lights.alias[j].probability ELSE 0)
<1>4. \A i \in DOMAIN host.weights :
         Total([j \in DOMAIN host.weights |-> drawn(i, j)])
            = Len(host.weights) * host.weights[i]
    BY <1>2, <1>3 DEF Drawn, TotalWeight
<1>5. /\ \A i \in DOMAIN host.instances : \A t \in ToSet(Emitting(Mesh(i))) :
            HostLights[HitLight(i, t) + 1] = <<i, t>>
      /\ \A t \in ToSet(Emitting(host.statics)) :
            HostLights[StaticLightIndex(t) + 1] = <<0, t>>
    BY <1>1, HitsNameTheirLight
<1> QED
    BY <1>4, <1>5 DEF LightsExact

\* A hit on an emissive triangle names the light that is this triangle of this instance,
\* and the table draws every light in proportion to its weight: for every scene, and in
\* whichever order the table is filled (scene_host.cpp, scene.cu).
THEOREM LightsAreExact == Spec => []LightsExact
<1>1. Spec => []LightsIInv
    BY LightsBegin, LightsStep, PTL DEF Spec
<1> QED
    BY <1>1, LightsFollow, PTL

-----------------------------------------------------------------------------
(* Cells.                                                                  *)

\* The cells to each side reach as far as the search, on every axis. CellRadius is that
\* of the first axis: this is true of the program's grid and the radius it has by
\* default, and false of some that --caustic-radius can give it.
CellsReach == \A a \in 1..3 : SearchRadius * Resolution <= CellRadius * GridExtent(a)

\* Clamped, a number is within the limits, and two come no further apart.
LEMMA ClampValue ==
    ASSUME NEW n \in Int, NEW low \in Int, NEW high \in Int, low <= high
    PROVE  Clamp(n, low, high) = IF n < low THEN low ELSE IF n > high THEN high ELSE n
<1>1. \A m \in {n, high} : (\A k \in {n, high} : m <= k) => m = IF n < high THEN n ELSE high
    OBVIOUS
<1>2. Min({n, high}) = IF n < high THEN n ELSE high
    BY DEF Min
<1> DEFINE m == IF n < high THEN n ELSE high
<1>3. m \in Int
    OBVIOUS
<1> HIDE DEF m
<1>4. Max({low, m}) = IF m < low THEN low ELSE m
    BY <1>3 DEF Max
<1> QED
    BY <1>2, <1>4 DEF Clamp, m

\* A quotient and the rest of it.
LEMMA Quotient ==
    ASSUME NEW a \in Int, NEW d \in Nat, d > 0
    PROVE  /\ a \div d \in Int
           /\ (a \div d) * d <= a
           /\ a < (a \div d) * d + d
    BY SMT

\* Numbers that are close have quotients that are.
LEMMA QuotientsClose ==
    ASSUME NEW a \in Int, NEW b \in Int, NEW d \in Nat, d > 0, NEW c \in Int, a <= b + c * d
    PROVE  a \div d <= b \div d + c
<1> DEFINE x == a \div d
           y == b \div d
<1>1. x \in Int /\ y \in Int /\ x * d <= a /\ b < y * d + d
    BY Quotient
<1> HIDE DEF x, y
<1> SUFFICES ASSUME x >= y + c + 1 PROVE FALSE
    BY <1>1 DEF x, y
<1>2. x * d >= (y + c + 1) * d
    <2>1. \A p, q \in Int : p >= q => p * d >= q * d
        BY SMT
    <2> QED
        BY <1>1, <2>1
<1>3. (y + c + 1) * d = y * d + c * d + d
    BY <1>1, SMT
<1> QED
    BY <1>1, <1>2, <1>3, SMT

\* A square is no larger than another one: then so is the number, either way.
LEMMA SquareBounds ==
    ASSUME NEW n \in Int, NEW m \in Nat, n * n <= m * m
    PROVE  n <= m /\ -m <= n
<1>1. \A k \in Nat : k > m => k * k > m * m
    BY SMT
<1>2. CASE n > m
    BY <1>1, <1>2
<1>3. CASE -n > m
    <2>1. (-n) * (-n) = n * n
        OBVIOUS
    <2> QED
        BY <1>1, <1>3, <2>1
<1> QED
    BY <1>2, <1>3

\* The cells of the grid, and where photons and hits are.
Cells == [1..3 -> 0..Resolution - 1]
Points == [1..3 -> Int]

\* What is known of the grid.
LEMMA Geometry ==
    /\ Resolution \in Nat /\ Resolution > 0 /\ SearchRadius \in Nat /\ MaxNearest \in Nat
    /\ MaxNearest > 0 /\ CellRadius \in Int
    /\ \A a \in 1..3 : /\ GridMinimum[a] \in Int
                       /\ GridExtent(a) \in Nat /\ GridExtent(a) > 0
<1>1. /\ Resolution \in Nat /\ Resolution > 0 /\ SearchRadius \in Nat
      /\ MaxNearest \in Nat /\ MaxNearest > 0
    BY GridAssumption
<1>2. \A a \in 1..3 : /\ GridMinimum[a] \in Int
                      /\ GridExtent(a) \in Nat /\ GridExtent(a) > 0
    BY GridAssumption DEF GridExtent
<1>3. CellRadius \in Int
    <2> DEFINE q == -((-(SearchRadius * Resolution)) \div GridExtent(1))
    <2>1. q \in Int
        BY <1>1, <1>2, Quotient
    <2> HIDE DEF q
    <2>2. Max({1, q}) = IF 1 < q THEN q ELSE 1
        BY <2>1 DEF Max
    <2> QED
        BY <2>1, <2>2 DEF CellRadius, q
<1> QED
    BY <1>1, <1>2, <1>3

\* A point outside of the grid has the nearest of its cells.
LEMMA CellInGrid ==
    ASSUME NEW p \in Points
    PROVE  /\ CellOf(p) \in Cells
           /\ \A a \in 1..3 :
                 LET n == ((p[a] - GridMinimum[a]) * Resolution) \div GridExtent(a)
                 IN  /\ n \in Int
                     /\ CellOf(p)[a] = IF n < 0 THEN 0
                                       ELSE IF n > Resolution - 1 THEN Resolution - 1 ELSE n
<1> DEFINE n(a) == ((p[a] - GridMinimum[a]) * Resolution) \div GridExtent(a)
<1>1. ASSUME NEW a \in 1..3
      PROVE  /\ n(a) \in Int /\ CellOf(p)[a] = Clamp(n(a), 0, Resolution - 1)
    <2>1. (p[a] - GridMinimum[a]) * Resolution \in Int
        BY Geometry DEF Points
    <2> QED
        BY <2>1, Geometry, Quotient DEF CellOf
<1> HIDE DEF n
<1>2. ASSUME NEW a \in 1..3
      PROVE  CellOf(p)[a] = IF n(a) < 0 THEN 0
                            ELSE IF n(a) > Resolution - 1 THEN Resolution - 1 ELSE n(a)
    BY <1>1, Geometry, ClampValue
<1>3. CellOf(p) = [a \in 1..3 |-> CellOf(p)[a]]
    BY DEF CellOf
<1>4. \A a \in 1..3 : CellOf(p)[a] \in 0..Resolution - 1
    BY <1>1, <1>2, Geometry
<1>5. CellOf(p) \in Cells
    BY <1>3, <1>4 DEF Cells
<1> QED
    BY <1>1, <1>2, <1>5 DEF n

\* Whatever is in the search radius lies in a cell that is searched.
LEMMA NearInCells ==
    ASSUME CellsReach, NEW p \in Points, NEW h \in Points,
           DistanceSquared(p, h) <= SearchRadius * SearchRadius, NEW a \in 1..3
    PROVE  CellOf(p)[a] - CellOf(h)[a] \in -CellRadius..CellRadius
<1>1. p[a] \in Int /\ h[a] \in Int /\ SearchRadius \in Nat
    BY Geometry DEF Points
<1>2. (p[a] - h[a]) * (p[a] - h[a]) <= SearchRadius * SearchRadius
    <2>1. \A x \in Int : x * x \in Int /\ x * x >= 0
        BY SMT
    <2>2. \A b \in 1..3 : p[b] - h[b] \in Int
        BY DEF Points
    <2> DEFINE s(b) == (p[b] - h[b]) * (p[b] - h[b])
    <2>3. \A b \in 1..3 : s(b) \in Int /\ s(b) >= 0
        BY <2>1, <2>2
    <2>4. s(1) + s(2) + s(3) <= SearchRadius * SearchRadius
        BY DEF DistanceSquared, Square
    <2>5. SearchRadius * SearchRadius \in Int
        BY Geometry
    <2> HIDE DEF s
    <2>6. s(a) <= SearchRadius * SearchRadius
        <3>1. /\ s(1) \in Int /\ s(2) \in Int /\ s(3) \in Int
              /\ s(1) >= 0 /\ s(2) >= 0 /\ s(3) >= 0
            BY <2>3
        <3>2. a = 1 \/ a = 2 \/ a = 3
            OBVIOUS
        <3> QED
            BY <2>4, <2>5, <3>1, <3>2
    <2> QED
        BY <2>6 DEF s
<1>3. p[a] - h[a] <= SearchRadius /\ -SearchRadius <= p[a] - h[a]
    BY <1>1, <1>2, SquareBounds
<1> DEFINE R == Resolution
           E == GridExtent(a)
           x == (p[a] - GridMinimum[a]) * R
           y == (h[a] - GridMinimum[a]) * R
<1>4. R \in Nat /\ R > 0 /\ E \in Nat /\ E > 0 /\ CellRadius \in Int /\ GridMinimum[a] \in Int
    BY Geometry
<1>5. SearchRadius * R <= CellRadius * E
    BY DEF CellsReach
<1> HIDE DEF R, E
<1>6. x \in Int /\ y \in Int /\ x <= y + CellRadius * E /\ y <= x + CellRadius * E
    <2>1. \A u, v \in Int : u - v <= SearchRadius => u * R <= v * R + SearchRadius * R
        <3>1. \A u, v \in Int : u <= v => u * R <= v * R
            BY <1>4, SMT
        <3>2. \A v \in Int : (v + SearchRadius) * R = v * R + SearchRadius * R
            BY <1>1, <1>4
        <3> SUFFICES ASSUME NEW u \in Int, NEW v \in Int, u - v <= SearchRadius
                     PROVE  u * R <= v * R + SearchRadius * R
            OBVIOUS
        <3>3. u <= v + SearchRadius /\ v + SearchRadius \in Int
            BY <1>1
        <3> QED
            BY <3>1, <3>2, <3>3
    <2> DEFINE u == p[a] - GridMinimum[a]
               v == h[a] - GridMinimum[a]
    <2>2. u \in Int /\ v \in Int /\ u - v <= SearchRadius /\ v - u <= SearchRadius
        BY <1>1, <1>3, <1>4
    <2> HIDE DEF u, v
    <2>3. /\ u * R \in Int /\ v * R \in Int
          /\ u * R <= v * R + SearchRadius * R /\ v * R <= u * R + SearchRadius * R
        <3>1. u * R \in Int /\ v * R \in Int
            BY <1>4, <2>2
        <3>2. u * R <= v * R + SearchRadius * R
            BY <2>1, <2>2
        <3>3. v * R <= u * R + SearchRadius * R
            BY <2>1, <2>2
        <3> QED
            BY <3>1, <3>2, <3>3
    <2>4. /\ SearchRadius * R \in Int /\ CellRadius * E \in Int
        BY <1>1, <1>4
    <2>5. x = u * R /\ y = v * R
        BY DEF u, v
    <2> HIDE DEF x, y
    <2> QED
        BY <1>5, <2>3, <2>4, <2>5
<1> HIDE DEF x, y
<1>7. x \div E <= y \div E + CellRadius /\ y \div E <= x \div E + CellRadius
    BY <1>4, <1>6, QuotientsClose
<1>8. /\ x \div E \in Int /\ y \div E \in Int
      /\ CellOf(p)[a] = IF x \div E < 0 THEN 0 ELSE IF x \div E > R - 1 THEN R - 1 ELSE x \div E
      /\ CellOf(h)[a] = IF y \div E < 0 THEN 0 ELSE IF y \div E > R - 1 THEN R - 1 ELSE y \div E
    BY CellInGrid DEF x, y, R, E
<1> QED
    BY <1>4, <1>7, <1>8

\* A cell's place in the array is its own.
LEMMA CellIndexOfOne ==
    ASSUME NEW c \in Cells, NEW d \in Cells
    PROVE  /\ CellIndex(c) \in Nat
           /\ CellIndex(c) = CellIndex(d) => c = d
<1> DEFINE R == Resolution
<1>1. R \in Nat /\ R > 0
    BY Geometry
<1>2. /\ \A a \in 1..3 : c[a] \in 0..R - 1 /\ d[a] \in 0..R - 1
      /\ c = [a \in 1..3 |-> c[a]] /\ d = [a \in 1..3 |-> d[a]]
    BY DEF Cells
<1> HIDE DEF R
<1>3. /\ c[1] \in 0..R - 1 /\ c[2] \in 0..R - 1 /\ c[3] \in 0..R - 1
      /\ d[1] \in 0..R - 1 /\ d[2] \in 0..R - 1 /\ d[3] \in 0..R - 1
    BY <1>2
<1>4. /\ CellIndex(c) = (c[3] * R + c[2]) * R + c[1]
      /\ CellIndex(d) = (d[3] * R + d[2]) * R + d[1]
    BY DEF CellIndex, R
<1>5. \A u, v \in Nat, x, y \in 0..R - 1 : u * R + x = v * R + y => u = v /\ x = y
    <2> SUFFICES ASSUME NEW u \in Nat, NEW v \in Nat, NEW x \in 0..R - 1, NEW y \in 0..R - 1,
                        u * R + x = v * R + y
                 PROVE  u = v /\ x = y
        OBVIOUS
    <2>1. \A k, m \in Nat : k < m => k * R + R <= m * R
        BY <1>1, SMT
    <2>2. ~ (u < v)
        BY <1>1, <2>1
    <2>3. ~ (v < u)
        BY <1>1, <2>1
    <2>4. u = v
        BY <2>2, <2>3
    <2> QED
        BY <1>1, <2>4
<1>6. c[3] * R + c[2] \in Nat /\ d[3] * R + d[2] \in Nat
    BY <1>1, <1>3
<1>7. CellIndex(c) \in Nat
    BY <1>1, <1>3, <1>4, <1>6
<1>8. ASSUME CellIndex(c) = CellIndex(d) PROVE c = d
    <2>1. c[3] * R + c[2] = d[3] * R + d[2] /\ c[1] = d[1]
        BY <1>3, <1>4, <1>5, <1>6, <1>8
    <2>2. c[3] = d[3] /\ c[2] = d[2]
        <3>1. c[3] \in Nat /\ d[3] \in Nat
            BY <1>1, <1>3
        <3> QED
            BY <1>3, <1>5, <2>1, <3>1
    <2>3. \A a \in 1..3 : a = 1 \/ a = 2 \/ a = 3
        OBVIOUS
    <2>4. \A a \in 1..3 : c[a] = d[a]
        BY <2>1, <2>2, <2>3
    <2> QED
        BY <1>2, <2>4
<1> QED
    BY <1>7, <1>8

\* The cells a gather searches are the near ones that have photons, each once.
LEMMA SearchedCells ==
    ASSUME NEW h, DOMAIN h \subseteq Cells, IsFiniteSet(DOMAIN h), NEW point
    PROVE  /\ Searched(h, point) \in Seq(Around(h, point))
           /\ IsInjective(Searched(h, point))
           /\ ToSet(Searched(h, point)) = Around(h, point)
<1> DEFINE N == Around(h, point)
           index == [c \in N |-> CellIndex(c)]
           I == {CellIndex(c) : c \in N}
           o == InOrder(I)
           s == Searched(h, point)
<1>1. N \subseteq DOMAIN h /\ N \subseteq Cells
    BY DEF Around
<1>2. IsFiniteSet(N)
    BY <1>1, FS_Subset
<1> HIDE DEF N
<1>3. I \subseteq Nat
    BY <1>1, CellIndexOfOne
<1>4. IsFiniteSet(I)
    <2>1. index \in Surjection(N, I)
        BY DEF Surjection
    <2> HIDE DEF index, I
    <2> QED
        BY <1>2, <2>1, FS_Surjection
<1>5. \A i \in I : \E c \in N : CellIndex(c) = i
    OBVIOUS
<1>6. \A c \in N : CellIndex(c) \in I
    OBVIOUS
<1> HIDE DEF I
<1>7. /\ o \in Seq(I)
      /\ \A i \in I : \E k \in DOMAIN o : o[k] = i
      /\ \A k, m \in DOMAIN o : o[k] = o[m] => k = m
    BY <1>3, <1>4, InOrderLists
<1>8. s = [k \in DOMAIN o |-> CHOOSE c \in N : CellIndex(c) = o[k]]
    BY DEF Searched, N, I
<1> HIDE DEF s, o
<1>9. \A k \in DOMAIN o : o[k] \in I
    BY <1>7
<1>10. \A k \in DOMAIN o : s[k] \in N /\ CellIndex(s[k]) = o[k]
    BY <1>5, <1>8, <1>9
<1>11. DOMAIN s = DOMAIN o /\ DOMAIN o = 1..Len(o) /\ Len(o) \in Nat
    BY <1>7, <1>8
<1>12. s \in Seq(N)
    <2>1. s = [k \in 1..Len(o) |-> s[k]]
        BY <1>8, <1>11
    <2> QED
        BY <1>10, <1>11, <2>1, FormsSequence
<1>13. IsInjective(s)
    BY <1>7, <1>10, <1>11 DEF IsInjective
<1>14. \A c \in N : \E k \in DOMAIN s : s[k] = c
    <2> SUFFICES ASSUME NEW c \in N PROVE \E k \in DOMAIN s : s[k] = c
        OBVIOUS
    <2>1. PICK k \in DOMAIN o : o[k] = CellIndex(c)
        BY <1>6, <1>7
    <2>2. s[k] \in Cells /\ c \in Cells /\ CellIndex(s[k]) = CellIndex(c)
        BY <1>1, <1>10, <2>1
    <2> QED
        BY <1>11, <2>2, CellIndexOfOne
<1>15. ToSet(s) = N
    BY <1>10, <1>11, <1>14 DEF ToSet
<1> QED
    BY <1>12, <1>13, <1>15 DEF s, N

-----------------------------------------------------------------------------
(* The list of a cell.                                                     *)

\* Whether q is the list that starts at head and goes on along link.
IsList(q, head, link) ==
    /\ head = IF q = <<>> THEN NoPhoton ELSE q[1]
    /\ \A k \in 1..Len(q) :
          q[k] # NoPhoton /\ link[q[k]] = IF k < Len(q) THEN q[k + 1] ELSE NoPhoton

\* A gather finds the list of a cell.
LEMMA ChainIsList ==
    ASSUME NEW tops, NEW links, NEW cell, Len(links) \in Nat,
           NEW q \in Seq(Nat), q # <<>>, Len(q) <= Len(links),
           IsList(q, tops[cell], links)
    PROVE  Chain(tops, links, cell) = q
<1> DEFINE m == Len(links)
           shown(n) == IF n < Len(q) THEN n ELSE Len(q)
           first(n) == [k \in 1..shown(n) |-> q[k]]
           joined(f) == [n \in 1..m |->
                            IF n = 1 THEN <<tops[cell]>>
                            ELSE IF links[Last(f[n - 1])] = NoPhoton THEN f[n - 1]
                                 ELSE Append(f[n - 1], links[Last(f[n - 1])])]
           Lists(f) == f = joined(f)
           chosen == CHOOSE f : Lists(f)
           whole == [n \in 1..m |-> first(n)]
<1>1. /\ m \in Nat /\ Len(q) \in 1..m /\ Len(q) \in Nat
      /\ q = [k \in 1..Len(q) |-> q[k]] /\ \A k \in 1..Len(q) : q[k] \in Nat
    OBVIOUS
<1>2. /\ tops[cell] = q[1]
      /\ \A k \in 1..Len(q) :
            q[k] # NoPhoton /\ links[q[k]] = IF k < Len(q) THEN q[k + 1] ELSE NoPhoton
    BY DEF IsList
<1> HIDE DEF m
<1>3. \A n \in 1..m : shown(n) \in 1..Len(q)
    BY <1>1
<1>4. ASSUME NEW n \in 1..m
      PROVE  /\ first(n) \in Seq(Nat) /\ Len(first(n)) = shown(n)
             /\ Last(first(n)) = q[shown(n)]
    <2>1. shown(n) \in 1..Len(q) /\ shown(n) \in Nat
        BY <1>1, <1>3
    <2> HIDE DEF shown
    <2>2. \A k \in 1..shown(n) : k \in 1..Len(q) /\ q[k] \in Nat
        BY <1>1, <2>1
    <2>3. first(n) \in Seq(Nat) /\ Len(first(n)) = shown(n)
        BY <2>1, <2>2
    <2>4. first(n)[shown(n)] = q[shown(n)]
        BY <1>1, <2>1
    <2> HIDE DEF first
    <2> QED
        BY <2>3, <2>4 DEF Last
<1>5. first(1) = <<tops[cell]>>
    <2>1. shown(1) = 1
        BY <1>1
    <2> HIDE DEF shown
    <2> QED
        BY <1>2, <2>1
<1>6. ASSUME NEW n \in 1..m, n # 1
      PROVE  first(n) = IF links[Last(first(n - 1))] = NoPhoton THEN first(n - 1)
                        ELSE Append(first(n - 1), links[Last(first(n - 1))])
    <2>1. n - 1 \in 1..m /\ n - 1 \in Nat
        BY <1>1, <1>6
    <2>2. Last(first(n - 1)) = q[shown(n - 1)] /\ shown(n - 1) \in 1..Len(q)
        BY <1>3, <1>4, <2>1
    <2>3. CASE n - 1 < Len(q)
        <3>1. shown(n - 1) = n - 1 /\ shown(n) = n /\ n \in 1..Len(q)
            BY <1>1, <2>1, <2>3
        <3>2. links[q[n - 1]] = q[n] /\ q[n] # NoPhoton
            BY <1>1, <1>2, <2>1, <2>3, <3>1
        <3> HIDE DEF shown
        <3>3. Append(first(n - 1), q[n]) = first(n)
            <4> DEFINE a == first(n - 1)
            <4>1. a \in Seq(Nat) /\ Len(a) = n - 1 /\ \A k \in 1..n - 1 : a[k] = q[k]
                BY <1>4, <2>1, <3>1
            <4>2. first(n) = [k \in 1..n |-> q[k]]
                BY <3>1
            <4> HIDE DEF a, first
            <4>3. q[n] \in Nat
                BY <1>1, <3>1
            <4>4. DOMAIN Append(a, q[n]) = 1..n
                BY <2>1, <4>1, <4>3
            <4>5. \A k \in 1..n : Append(a, q[n])[k] = q[k]
                BY <2>1, <4>1, <4>3
            <4> QED
                BY <4>2, <4>4, <4>5, <4>1, <4>3 DEF a
        <3> HIDE DEF first
        <3> QED
            BY <2>2, <3>1, <3>2, <3>3
    <2>4. CASE ~ (n - 1 < Len(q))
        <3>1. shown(n - 1) = Len(q) /\ shown(n) = Len(q)
            BY <1>1, <2>1, <2>4
        <3>2. links[q[Len(q)]] = NoPhoton
            BY <1>1, <1>2
        <3> HIDE DEF shown
        <3> QED
            BY <2>2, <3>1, <3>2
    <2> QED
        BY <2>3, <2>4
<1>7. first(m) = q
    BY <1>1
<1> HIDE DEF first, shown
<1>8. Lists(whole)
    <2>1. ASSUME NEW n \in 1..m
          PROVE  whole[n] = IF n = 1 THEN <<tops[cell]>>
                            ELSE IF links[Last(whole[n - 1])] = NoPhoton THEN whole[n - 1]
                                 ELSE Append(whole[n - 1], links[Last(whole[n - 1])])
        <3>1. n # 1 => n - 1 \in 1..m
            BY <1>1
        <3>2. CASE n = 1
            BY <1>5, <3>2
        <3>3. CASE n # 1
            <4>1. whole[n] = first(n) /\ whole[n - 1] = first(n - 1)
                BY <3>1, <3>3
            <4> HIDE DEF whole
            <4> QED
                BY <1>6, <3>3, <4>1
        <3> QED
            BY <3>2, <3>3
    <2> QED
        BY <2>1
<1>9. Lists(chosen)
    <2> HIDE DEF Lists, whole
    <2> QED
        BY <1>8
<1>10. Chain(tops, links, cell) = chosen[m]
    BY DEF Chain, m
<1> HIDE DEF chosen, whole
<1> DEFINE Good == {n \in Nat : n \in 1..m => chosen[n] = first(n)}
<1>11. 0 \in Good
    OBVIOUS
<1>12. ASSUME NEW n \in Nat, n \in Good PROVE n + 1 \in Good
    <2> SUFFICES ASSUME n + 1 \in 1..m PROVE chosen[n + 1] = first(n + 1)
        OBVIOUS
    <2>1. chosen[n + 1] = joined(chosen)[n + 1]
        <3> HIDE DEF joined
        <3> QED
            BY <1>9
    <2>2. joined(chosen)[n + 1] =
             IF n + 1 = 1 THEN <<tops[cell]>>
             ELSE IF links[Last(chosen[n + 1 - 1])] = NoPhoton THEN chosen[n + 1 - 1]
                  ELSE Append(chosen[n + 1 - 1], links[Last(chosen[n + 1 - 1])])
        OBVIOUS
    <2> HIDE DEF joined, Lists
    <2>3. CASE n = 0
        <3>1. n + 1 = 1
            BY <2>3
        <3> QED
            BY <1>5, <2>1, <2>2, <3>1
    <2>4. CASE n # 0
        <3>1. n \in 1..m /\ n + 1 - 1 = n /\ n + 1 # 1
            BY <1>1, <2>4
        <3>2. chosen[n] = first(n)
            BY <1>12, <3>1
        <3>3. first(n + 1) = IF links[Last(first(n))] = NoPhoton THEN first(n)
                             ELSE Append(first(n), links[Last(first(n))])
            <4> DEFINE j == n + 1
            <4>1. j \in 1..m /\ j # 1 /\ j - 1 = n
                BY <3>1
            <4> HIDE DEF j
            <4>2. first(j) = IF links[Last(first(j - 1))] = NoPhoton THEN first(j - 1)
                             ELSE Append(first(j - 1), links[Last(first(j - 1))])
                BY <1>6, <4>1
            <4>3. first(j - 1) = first(n)
                BY <4>1
            <4> QED
                BY <4>2, <4>3 DEF j
        <3> QED
            BY <2>1, <2>2, <3>1, <3>2, <3>3
    <2> QED
        BY <2>3, <2>4
<1>13. m \in Good
    <2> HIDE DEF Good
    <2> QED
        BY <1>1, <1>11, <1>12, Induction
<1>14. m \in 1..m
    BY <1>1
<1> QED
    BY <1>7, <1>10, <1>13, <1>14

-----------------------------------------------------------------------------
(* The nearest of a walk.                                                  *)

\* A walk's photon and its distance, and what a walk has kept.
Candidate == [index : Nat, distance : Nat]
Places == [entries : Seq(Candidate), farthest : Nat, distance : Nat]

\* One of the farthest comes first.
IsFirst(entries, i) ==
    /\ \A j \in DOMAIN entries : entries[j].distance <= entries[i].distance
    /\ \A j \in 1..i - 1 : entries[j].distance < entries[i].distance

\* There is such a one.
LEMMA FirstOfFarthest ==
    ASSUME NEW s \in Seq(Candidate), s # <<>>
    PROVE  \E i \in DOMAIN s : IsFirst(s, i)
<1> DEFINE m == Len(s)
           Among(n, i) == /\ \A j \in 1..n : s[j].distance <= s[i].distance
                          /\ \A j \in 1..i - 1 : s[j].distance < s[i].distance
           Good == {n \in Nat : n \in 1..m => \E i \in 1..n : Among(n, i)}
<1>1. m \in Nat /\ m \in 1..m /\ DOMAIN s = 1..m /\ \A j \in 1..m : s[j].distance \in Nat
    <2>1. m \in Nat /\ m # 0 /\ DOMAIN s = 1..m /\ \A j \in 1..m : s[j] \in Candidate
        OBVIOUS
    <2> HIDE DEF m
    <2> QED
        BY <2>1 DEF Candidate
<1> HIDE DEF m
<1>2. 0 \in Good
    OBVIOUS
<1>3. ASSUME NEW n \in Nat, n \in Good PROVE n + 1 \in Good
    <2> SUFFICES ASSUME n + 1 \in 1..m PROVE \E i \in 1..n + 1 : Among(n + 1, i)
        OBVIOUS
    <2>1. \A j \in 1..n + 1 : (j \in 1..n \/ j = n + 1) /\ s[j].distance \in Nat
        BY <1>1
    <2>2. CASE n = 0
        <3>1. Among(n + 1, 1) /\ 1 \in 1..n + 1
            BY <1>1, <2>2
        <3> QED
            BY <3>1
    <2>3. CASE n # 0
        <3>1. n \in 1..m
            BY <1>1, <2>3
        <3>2. PICK i \in 1..n : Among(n, i)
            BY <1>3, <3>1
        <3>3. i \in 1..n + 1 /\ \A j \in 1..i - 1 : j \in 1..n
            OBVIOUS
        <3>4. s[i].distance \in Nat /\ s[n + 1].distance \in Nat
            BY <2>1, <3>3
        <3>5. CASE s[n + 1].distance > s[i].distance
            <4>1. Among(n + 1, n + 1)
                <5>1. n + 1 - 1 = n
                    OBVIOUS
                <5>2. \A j \in 1..n : s[j].distance < s[n + 1].distance
                    BY <2>1, <3>2, <3>4, <3>5
                <5> QED
                    BY <2>1, <3>4, <5>1, <5>2
            <4> HIDE DEF Among
            <4> QED
                BY <4>1
        <3>6. CASE s[n + 1].distance <= s[i].distance
            <4>1. Among(n + 1, i)
                BY <2>1, <3>2, <3>6
            <4> HIDE DEF Among
            <4> QED
                BY <3>3, <4>1
        <3> QED
            BY <3>4, <3>5, <3>6
    <2> QED
        BY <2>2, <2>3
<1>4. m \in Good
    <2> HIDE DEF Good
    <2> QED
        BY <1>1, <1>2, <1>3, Induction
<1> QED
    BY <1>1, <1>4 DEF IsFirst

\* What Keep comes to.
Replaced(K, p) == [K.entries EXCEPT ![K.farthest] = p]
FirstIn(s) == CHOOSE i \in DOMAIN s : IsFirst(s, i)

\* The four cases of Keep, one by one.
LEMMA KeepCases ==
    ASSUME NEW K \in Places, NEW p \in Candidate
    PROVE  /\ Len(K.entries) < MaxNearest /\ p.distance > K.distance
                 => Keep(K, p) = [entries |-> Append(K.entries, p),
                                  farthest |-> Len(Append(K.entries, p)),
                                  distance |-> p.distance]
           /\ Len(K.entries) < MaxNearest /\ p.distance <= K.distance
                 => Keep(K, p) = [entries |-> Append(K.entries, p), farthest |-> K.farthest,
                                  distance |-> K.distance]
           /\ Len(K.entries) = MaxNearest /\ p.distance < K.distance
                 => Keep(K, p) = [entries |-> Replaced(K, p),
                                  farthest |-> FirstIn(Replaced(K, p)),
                                  distance |-> Replaced(K, p)[FirstIn(Replaced(K, p))].distance]
           /\ Len(K.entries) >= MaxNearest
              /\ ~ (Len(K.entries) = MaxNearest /\ p.distance < K.distance)
                 => Keep(K, p) = K
<1> DEFINE n == Len(K.entries)
           a == [entries |-> Append(K.entries, p), farthest |-> Len(Append(K.entries, p)),
                 distance |-> p.distance]
           b == [K EXCEPT !.entries = Append(K.entries, p)]
           c == [entries |-> Replaced(K, p), farthest |-> FirstIn(Replaced(K, p)),
                 distance |-> Replaced(K, p)[FirstIn(Replaced(K, p))].distance]
<1>1. Keep(K, p) = CASE n < MaxNearest /\ p.distance > K.distance -> a
                     [] n < MaxNearest /\ p.distance <= K.distance -> b
                     [] n = MaxNearest /\ p.distance < K.distance -> c
                     [] OTHER -> K
    BY DEF Keep, Replaced, FirstIn, IsFirst
<1>2. n \in Nat /\ MaxNearest \in Nat /\ p.distance \in Nat /\ K.distance \in Nat
    BY Geometry DEF Places, Candidate
<1>3. b = [entries |-> Append(K.entries, p), farthest |-> K.farthest, distance |-> K.distance]
    BY DEF Places
<1> HIDE DEF n, a, b, c
<1>4. /\ n < MaxNearest /\ p.distance > K.distance => Keep(K, p) = a
      /\ n < MaxNearest /\ p.distance <= K.distance => Keep(K, p) = b
      /\ n = MaxNearest /\ p.distance < K.distance => Keep(K, p) = c
      /\ n >= MaxNearest /\ ~ (n = MaxNearest /\ p.distance < K.distance) => Keep(K, p) = K
    BY <1>1, <1>2
<1> QED
    BY <1>3, <1>4 DEF n, a, c

\* The entry of the farthest is another one.
LEMMA ReplacedEntries ==
    ASSUME NEW K \in Places, NEW p \in Candidate
    PROVE  /\ Replaced(K, p) \in Seq(Candidate)
           /\ Len(Replaced(K, p)) = Len(K.entries)
           /\ \A j \in 1..Len(K.entries) :
                 Replaced(K, p)[j] = IF j = K.farthest THEN p ELSE K.entries[j]
           /\ K.entries # <<>> =>
                 /\ FirstIn(Replaced(K, p)) \in 1..Len(K.entries)
                 /\ IsFirst(Replaced(K, p), FirstIn(Replaced(K, p)))
<1> DEFINE s == Replaced(K, p)
<1>1. K.entries \in Seq(Candidate)
    BY DEF Places
<1>2. /\ s \in Seq(Candidate) /\ Len(s) = Len(K.entries)
      /\ \A j \in 1..Len(K.entries) : s[j] = IF j = K.farthest THEN p ELSE K.entries[j]
    <2>1. s = [j \in 1..Len(K.entries) |-> IF j = K.farthest THEN p ELSE K.entries[j]]
        BY <1>1 DEF Replaced
    <2> DEFINE k == Len(K.entries)
    <2>2. \A j \in 1..k : /\ s[j] = IF j = K.farthest THEN p ELSE K.entries[j]
                          /\ s[j] \in Candidate
        BY <1>1, <2>1
    <2>3. s = [j \in 1..k |-> s[j]]
        BY <2>1
    <2>4. k \in Nat
        BY <1>1
    <2> HIDE DEF s, k
    <2>5. s \in Seq(Candidate)
        BY <2>2, <2>3, <2>4, FormsSequence
    <2>6. Len(s) = k
        BY <2>3, <2>4, <2>5
    <2> QED
        BY <2>2, <2>5, <2>6 DEF k
<1>3. ASSUME K.entries # <<>>
      PROVE  FirstIn(s) \in 1..Len(K.entries) /\ IsFirst(s, FirstIn(s))
    <2> HIDE DEF s
    <2>1. s # <<>> /\ DOMAIN s = 1..Len(K.entries)
        BY <1>1, <1>2, <1>3
    <2>2. \E i \in DOMAIN s : IsFirst(s, i)
        BY <1>2, <2>1, FirstOfFarthest
    <2> QED
        BY <2>1, <2>2 DEF FirstIn
<1> QED
    BY <1>2, <1>3 DEF s

\* Keep stays among what a walk can have kept.
LEMMA KeepType ==
    ASSUME NEW K \in Places, NEW p \in Candidate
    PROVE  Keep(K, p) \in Places
<1>1. /\ K.entries \in Seq(Candidate) /\ K.farthest \in Nat /\ K.distance \in Nat
      /\ p.distance \in Nat /\ Len(K.entries) \in Nat /\ MaxNearest \in Nat /\ MaxNearest > 0
    BY Geometry DEF Places, Candidate
<1>2. Append(K.entries, p) \in Seq(Candidate) /\ Len(Append(K.entries, p)) \in Nat
    BY <1>1
<1>3. CASE Len(K.entries) < MaxNearest /\ p.distance > K.distance
    BY <1>1, <1>2, <1>3, KeepCases DEF Places
<1>4. CASE Len(K.entries) < MaxNearest /\ p.distance <= K.distance
    BY <1>1, <1>2, <1>4, KeepCases DEF Places
<1>5. CASE Len(K.entries) = MaxNearest /\ p.distance < K.distance
    <2> DEFINE s == Replaced(K, p)
               f == FirstIn(s)
    <2>1. K.entries # <<>>
        BY <1>1, <1>5
    <2>2. s \in Seq(Candidate) /\ f \in 1..Len(K.entries) /\ Len(s) = Len(K.entries)
        BY <2>1, ReplacedEntries
    <2>3. Keep(K, p) = [entries |-> s, farthest |-> f, distance |-> s[f].distance]
        BY <1>5, KeepCases
    <2> HIDE DEF s, f
    <2>4. s[f] \in Candidate /\ f \in Nat
        BY <1>1, <2>2
    <2>5. s[f].distance \in Nat
        BY <2>4 DEF Candidate
    <2> QED
        BY <2>2, <2>3, <2>4, <2>5 DEF Places
<1>6. CASE /\ Len(K.entries) >= MaxNearest
           /\ ~ (Len(K.entries) = MaxNearest /\ p.distance < K.distance)
    BY <1>6, KeepCases
<1> QED
    BY <1>1, <1>3, <1>4, <1>5, <1>6

\* Among the entries, a photon.
Has(entries, i) == \E k \in 1..Len(entries) : entries[k].index = i

\* The walk has kept nearest ones of the photons C it has counted, whose distances are D.
IsKept(K, C, D) ==
    /\ K \in Places /\ Len(K.entries) <= MaxNearest
    /\ \A k \in 1..Len(K.entries) :
          /\ K.entries[k].index \in C
          /\ K.entries[k].distance = D[K.entries[k].index]
          /\ K.entries[k].distance <= K.distance
    /\ \A j, k \in 1..Len(K.entries) : K.entries[j].index = K.entries[k].index => j = k
    /\ IF K.entries = <<>> THEN K.farthest = 1 /\ K.distance = 0
       ELSE /\ K.farthest \in 1..Len(K.entries)
            /\ K.entries[K.farthest].distance = K.distance
    /\ \A i \in C : Has(K.entries, i) \/ (Len(K.entries) = MaxNearest /\ D[i] >= K.distance)

\* A photon more in a free place, ...
LEMMA AppendKeeps ==
    ASSUME NEW C, NEW D, NEW K, IsKept(K, C, D), NEW i \in Nat, i \notin C, D[i] \in Nat,
           Len(K.entries) < MaxNearest, NEW L, L \in Places,
           L.entries = Append(K.entries, [index |-> i, distance |-> D[i]]),
           \/ /\ D[i] > K.distance
              /\ L.farthest = Len(K.entries) + 1 /\ L.distance = D[i]
           \/ D[i] <= K.distance /\ L.farthest = K.farthest /\ L.distance = K.distance
    PROVE  IsKept(L, C \cup {i}, D)
<1> DEFINE p == [index |-> i, distance |-> D[i]]
           n == Len(K.entries)
<1>1. /\ K.entries \in Seq(Candidate) /\ n \in Nat /\ K.distance \in Nat /\ L.distance \in Nat
      /\ MaxNearest \in Nat /\ p \in Candidate /\ p.index = i /\ p.distance = D[i]
    BY Geometry DEF IsKept, Places, Candidate
<1>2. L.entries = Append(K.entries, p)
    OBVIOUS
<1> HIDE DEF p
<1>3. /\ Len(L.entries) = n + 1 /\ L.entries[n + 1] = p
      /\ \A k \in 1..n : L.entries[k] = K.entries[k]
    BY <1>1, <1>2
<1> HIDE DEF n
<1>4. /\ \A k \in 1..n + 1 : k \in 1..n \/ k = n + 1
      /\ \A k \in 1..n : k \in 1..n + 1
      /\ n + 1 \in 1..n + 1
    BY <1>1
<1>5. /\ \A k \in 1..n : /\ K.entries[k].index \in C
                         /\ K.entries[k].distance = D[K.entries[k].index]
                         /\ K.entries[k].distance <= K.distance
                         /\ K.entries[k].distance \in Nat
      /\ \A j, k \in 1..n : K.entries[j].index = K.entries[k].index => j = k
    <2>1. \A k \in 1..n : K.entries[k].distance \in Nat
        <3>1. \A k \in 1..n : K.entries[k] \in Candidate
            BY <1>1 DEF n
        <3> QED
            BY <3>1 DEF Candidate
    <2> QED
        BY <2>1 DEF IsKept, n
<1>6. K.distance <= L.distance /\ D[i] <= L.distance
    BY <1>1
<1>7. \A k \in 1..n + 1 : /\ L.entries[k].index \in C \cup {i}
                          /\ L.entries[k].distance = D[L.entries[k].index]
                          /\ L.entries[k].distance <= L.distance
    <2>1. ASSUME NEW k \in 1..n
          PROVE  /\ L.entries[k].index \in C \cup {i}
                 /\ L.entries[k].distance = D[L.entries[k].index]
                 /\ L.entries[k].distance <= L.distance
        BY <1>1, <1>3, <1>5, <1>6
    <2>2. /\ L.entries[n + 1].index \in C \cup {i}
          /\ L.entries[n + 1].distance = D[L.entries[n + 1].index]
          /\ L.entries[n + 1].distance <= L.distance
        BY <1>1, <1>3, <1>6
    <2> QED
        BY <1>4, <2>1, <2>2
<1>8. \A j, k \in 1..n + 1 : L.entries[j].index = L.entries[k].index => j = k
    BY <1>1, <1>3, <1>4, <1>5
<1>9. /\ L.entries # <<>> /\ L.farthest \in 1..n + 1
      /\ L.entries[L.farthest].distance = L.distance
    <2>1. L.entries # <<>>
        BY <1>1, <1>2
    <2>2. CASE D[i] > K.distance
        BY <1>1, <1>3, <1>4, <2>1, <2>2 DEF n
    <2>3. CASE D[i] <= K.distance
        <3>1. L.farthest = K.farthest /\ L.distance = K.distance
            BY <1>1, <2>3
        <3>2. CASE K.entries = <<>>
            <4>1. n = 0
                BY <3>2 DEF n
            <4>2. K.farthest = 1 /\ K.distance = 0
                BY <3>2 DEF IsKept
            <4>3. L.entries[1] = p
                BY <1>3, <4>1
            <4> QED
                BY <1>1, <2>1, <2>3, <3>1, <4>1, <4>2, <4>3
        <3>3. CASE K.entries # <<>>
            <4>1. K.farthest \in 1..n /\ K.entries[K.farthest].distance = K.distance
                BY <3>3 DEF IsKept, n
            <4> QED
                BY <1>3, <1>4, <2>1, <3>1, <4>1
        <3> QED
            BY <3>2, <3>3
    <2> QED
        BY <1>1, <2>2, <2>3
<1>10. \A j \in C \cup {i} : Has(L.entries, j)
    <2>1. Has(L.entries, i)
        BY <1>1, <1>3, <1>4 DEF Has
    <2>2. ASSUME NEW j \in C PROVE Has(L.entries, j)
        <3>1. Has(K.entries, j)
            BY <1>1 DEF IsKept, n
        <3>2. PICK k \in 1..n : K.entries[k].index = j
            BY <3>1 DEF Has, n
        <3> QED
            BY <1>3, <1>4, <3>2 DEF Has
    <2> QED
        BY <2>1, <2>2
<1>11. n + 1 <= MaxNearest
    BY <1>1 DEF n
<1> QED
    BY <1>3, <1>7, <1>8, <1>9, <1>10, <1>11 DEF IsKept

\* ... or in that of the farthest.
LEMMA ReplaceKeeps ==
    ASSUME NEW C, NEW D, NEW K, IsKept(K, C, D), NEW i \in Nat, i \notin C, D[i] \in Nat,
           \A c \in C : D[c] \in Nat,
           Len(K.entries) = MaxNearest, D[i] < K.distance, NEW L, L \in Places,
           NEW f, f \in 1..Len(K.entries),
           NEW s, Len(s) = Len(K.entries), DOMAIN s = 1..Len(K.entries),
           \A j \in 1..Len(K.entries) :
              s[j] = IF j = K.farthest THEN [index |-> i, distance |-> D[i]] ELSE K.entries[j],
           IsFirst(s, f), L.entries = s, L.farthest = f, L.distance = s[f].distance
    PROVE  IsKept(L, C \cup {i}, D)
<1> DEFINE p == [index |-> i, distance |-> D[i]]
           n == Len(K.entries)
           r == K.farthest
<1>1. /\ K.entries \in Seq(Candidate) /\ n \in Nat /\ n = MaxNearest /\ MaxNearest > 0
      /\ K.distance \in Nat /\ L.distance \in Nat
      /\ p \in Candidate /\ p.index = i /\ p.distance = D[i]
    BY Geometry DEF IsKept, Places, Candidate
<1>2. K.entries # <<>>
    BY <1>1
<1>3. r \in 1..n /\ K.entries[r].distance = K.distance
    BY <1>2 DEF IsKept
<1>4. \A j \in 1..n : s[j] = IF j = r THEN p ELSE K.entries[j]
    OBVIOUS
<1>5. f \in 1..n /\ L.entries = s /\ Len(s) = n /\ L.farthest = f /\ L.distance = s[f].distance
    OBVIOUS
<1> HIDE DEF p, n, r
<1>6. /\ \A k \in 1..n : /\ K.entries[k].index \in C
                         /\ K.entries[k].distance = D[K.entries[k].index]
                         /\ K.entries[k].distance <= K.distance
                         /\ K.entries[k].distance \in Nat
      /\ \A j, k \in 1..n : K.entries[j].index = K.entries[k].index => j = k
    <2>1. \A k \in 1..n : K.entries[k].distance \in Nat
        <3>1. \A k \in 1..n : K.entries[k] \in Candidate
            BY <1>1 DEF n
        <3> QED
            BY <3>1 DEF Candidate
    <2> QED
        BY <2>1 DEF IsKept, n
<1>7. \A k \in 1..n : s[k].distance <= L.distance
    BY <1>5 DEF IsFirst, n
<1>8. \A k \in 1..n : s[k].index \in C \cup {i} /\ s[k].distance = D[s[k].index]
    BY <1>1, <1>4, <1>6
<1>9. \A j, k \in 1..n : s[j].index = s[k].index => j = k
    BY <1>1, <1>4, <1>6
<1>10. L.distance <= K.distance
    <2>1. s[f].distance <= K.distance
        BY <1>1, <1>4, <1>5, <1>6
    <2> QED
        BY <1>5, <2>1
<1>11. ASSUME NEW j \in C \cup {i} PROVE Has(s, j) \/ D[j] >= L.distance
    <2>1. CASE j = i
        BY <1>1, <1>3, <1>4, <1>5, <2>1 DEF Has
    <2>2. CASE j # i /\ Has(K.entries, j)
        <3>1. PICK k \in 1..n : K.entries[k].index = j
            BY <2>2 DEF Has, n
        <3>2. CASE k = r
            <4>1. D[j] = K.distance
                BY <1>3, <1>6, <3>1, <3>2
            <4> QED
                BY <1>1, <1>10, <4>1
        <3>3. CASE k # r
            BY <1>4, <1>5, <3>1, <3>3 DEF Has
        <3> QED
            BY <3>2, <3>3
    <2>3. CASE j # i /\ ~ Has(K.entries, j)
        <3>1. D[j] >= K.distance /\ D[j] \in Nat
            BY <2>3 DEF IsKept
        <3> QED
            BY <1>1, <1>10, <3>1
    <2> QED
        BY <2>1, <2>2, <2>3
<1>12. /\ Len(L.entries) = n /\ Len(L.entries) = MaxNearest /\ L.farthest \in 1..n
       /\ L.entries[L.farthest].distance = L.distance /\ L.entries # <<>>
    <2>1. s # <<>>
        BY <1>1, <1>5
    <2> QED
        BY <1>1, <1>5, <2>1
<1>13. MaxNearest <= MaxNearest
    BY <1>1
<1> QED
    BY <1>5, <1>7, <1>8, <1>9, <1>11, <1>12, <1>13 DEF IsKept

\* A photon more.
LEMMA KeepKeeps ==
    ASSUME NEW C, NEW D, NEW K, IsKept(K, C, D), NEW i \in Nat, i \notin C, D[i] \in Nat,
           \A c \in C : D[c] \in Nat
    PROVE  IsKept(Keep(K, [index |-> i, distance |-> D[i]]), C \cup {i}, D)
<1> DEFINE p == [index |-> i, distance |-> D[i]]
           L == Keep(K, p)
<1>1. /\ p \in Candidate /\ p.index = i /\ p.distance = D[i] /\ K \in Places
      /\ p = [index |-> i, distance |-> D[i]]
      /\ K.distance \in Nat /\ K.entries \in Seq(Candidate) /\ Len(K.entries) \in Nat
      /\ Len(K.entries) <= MaxNearest /\ MaxNearest \in Nat /\ MaxNearest > 0
    BY Geometry DEF IsKept, Places, Candidate
<1> HIDE DEF p
<1>2. L \in Places
    BY <1>1, KeepType
<1>3. Len(Append(K.entries, p)) = Len(K.entries) + 1
    BY <1>1
<1>4. CASE Len(K.entries) < MaxNearest /\ p.distance > K.distance
    <2>1. L = [entries |-> Append(K.entries, p), farthest |-> Len(Append(K.entries, p)),
               distance |-> p.distance]
        BY <1>1, <1>4, KeepCases
    <2>2. /\ L.entries = Append(K.entries, p) /\ L.farthest = Len(K.entries) + 1
          /\ L.distance = D[i]
        BY <1>1, <1>3, <2>1
    <2> HIDE DEF L
    <2>3. IsKept(L, C \cup {i}, D)
        BY <1>1, <1>2, <1>4, <2>2, AppendKeeps
    <2> QED
        BY <2>3 DEF L, p
<1>5. CASE Len(K.entries) < MaxNearest /\ p.distance <= K.distance
    <2>1. L = [entries |-> Append(K.entries, p), farthest |-> K.farthest,
               distance |-> K.distance]
        BY <1>1, <1>5, KeepCases
    <2>2. /\ L.entries = Append(K.entries, p) /\ L.farthest = K.farthest
          /\ L.distance = K.distance
        BY <2>1
    <2> HIDE DEF L
    <2>3. IsKept(L, C \cup {i}, D)
        BY <1>1, <1>2, <1>5, <2>2, AppendKeeps
    <2> QED
        BY <2>3 DEF L, p
<1>6. CASE Len(K.entries) = MaxNearest /\ p.distance < K.distance
    <2> DEFINE s == Replaced(K, p)
               f == FirstIn(s)
    <2>1. K.entries # <<>>
        BY <1>1, <1>6
    <2>2. L = [entries |-> s, farthest |-> f, distance |-> s[f].distance]
        BY <1>1, <1>6, KeepCases
    <2>3. L.entries = s /\ L.farthest = f /\ L.distance = s[f].distance
        BY <2>2
    <2>4. /\ s \in Seq(Candidate) /\ Len(s) = Len(K.entries) /\ f \in 1..Len(K.entries)
          /\ IsFirst(s, f)
          /\ \A j \in 1..Len(K.entries) : s[j] = IF j = K.farthest THEN p ELSE K.entries[j]
        BY <1>1, <2>1, ReplacedEntries
    <2> HIDE DEF L, s, f
    <2>5. DOMAIN s = 1..Len(K.entries)
        BY <2>4
    <2>6. IsKept(L, C \cup {i}, D)
        BY <1>1, <1>2, <1>6, <2>3, <2>4, <2>5, ReplaceKeeps
    <2> QED
        BY <2>6 DEF L, p
<1>7. CASE Len(K.entries) = MaxNearest /\ ~ (p.distance < K.distance)
    <2>1. L = K
        BY <1>1, <1>7, KeepCases
    <2>2. D[i] >= K.distance
        BY <1>1, <1>7
    <2> HIDE DEF L
    <2>3. IsKept(K, C \cup {i}, D)
        BY <1>7, <2>2 DEF IsKept
    <2> QED
        BY <2>1, <2>3 DEF L, p
<1>8. \/ Len(K.entries) < MaxNearest /\ p.distance > K.distance
      \/ Len(K.entries) < MaxNearest /\ p.distance <= K.distance
      \/ Len(K.entries) = MaxNearest /\ p.distance < K.distance
      \/ Len(K.entries) = MaxNearest /\ ~ (p.distance < K.distance)
    BY <1>1
<1> QED
    BY <1>4, <1>5, <1>6, <1>7, <1>8

\* The indices of the entries, as Gathered has them.
Indices(entries) == {p.index : p \in ToSet(entries)}

\* Kept are as many as there is room for, and none that is left out is nearer.
LEMMA KeptIsNearest ==
    ASSUME NEW C, C \subseteq Nat, IsFiniteSet(C), NEW D, \A i \in C : D[i] \in Nat,
           NEW K, IsKept(K, C, D)
    PROVE  /\ Indices(K.entries) \subseteq C
           /\ Cardinality(Indices(K.entries)) = Min({MaxNearest, Cardinality(C)})
           /\ \A i \in Indices(K.entries), j \in C \ Indices(K.entries) : D[i] <= D[j]
<1> DEFINE n == Len(K.entries)
           G == Indices(K.entries)
           index == [k \in 1..n |-> K.entries[k].index]
<1>1. /\ K.entries \in Seq(Candidate) /\ n \in Nat /\ n <= MaxNearest /\ DOMAIN K.entries = 1..n
      /\ MaxNearest \in Nat /\ K.distance \in Nat
    BY Geometry DEF IsKept, Places
<1>2. /\ \A k \in 1..n : /\ K.entries[k].index \in C
                         /\ K.entries[k].distance = D[K.entries[k].index]
                         /\ K.entries[k].distance <= K.distance
      /\ \A j, k \in 1..n : K.entries[j].index = K.entries[k].index => j = k
      /\ \A i \in C : Has(K.entries, i) \/ (n = MaxNearest /\ D[i] >= K.distance)
    BY DEF IsKept
<1>3. /\ \A i \in G : \E k \in 1..n : K.entries[k].index = i
      /\ \A k \in 1..n : K.entries[k].index \in G
    BY <1>1 DEF Indices, ToSet
<1>4. \A i : i \in G <=> Has(K.entries, i)
    BY <1>3 DEF Has
<1> HIDE DEF n, G
<1>5. G \subseteq C
    BY <1>2, <1>3
<1>6. IsFiniteSet(G) /\ Cardinality(G) = n
    <2>1. index \in [1..n -> G]
        BY <1>3
    <2>2. index \in Bijection(1..n, G)
        <3>1. \A i \in G : \E k \in 1..n : index[k] = i
            BY <1>3
        <3>2. \A j, k \in 1..n : index[j] = index[k] => j = k
            BY <1>2
        <3> HIDE DEF index
        <3> QED
            BY <2>1, <3>1, <3>2 DEF Bijection, Injection, Surjection, IsInjective
    <2>3. ExistsBijection(1..n, G)
        BY <2>2 DEF ExistsBijection
    <2>4. IsFiniteSet(1..n) /\ Cardinality(1..n) = n
        BY <1>1, FS_Interval
    <2> QED
        BY <2>3, <2>4, FS_Bijection
<1>7. Cardinality(C) \in Nat
    BY FS_CardinalityType
<1>8. Cardinality(G) = Min({MaxNearest, Cardinality(C)})
    <2> DEFINE c == Cardinality(C)
    <2>1. n <= c
        BY <1>5, <1>6, FS_Subset
    <2>2. n = MaxNearest \/ n = c
        <3>1. CASE C \subseteq G
            <4>1. C = G
                BY <1>5, <3>1
            <4> QED
                BY <1>6, <4>1
        <3>2. CASE ~ (C \subseteq G)
            BY <1>2, <1>4, <3>2
        <3> QED
            BY <3>1, <3>2
    <2> HIDE DEF c
    <2>3. Min({MaxNearest, c}) = IF MaxNearest < c THEN MaxNearest ELSE c
        BY <1>1, <1>7 DEF Min, c
    <2> QED
        BY <1>1, <1>6, <1>7, <2>1, <2>2, <2>3 DEF c
<1>9. ASSUME NEW i \in G, NEW j \in C \ G PROVE D[i] <= D[j]
    <2>1. PICK k \in 1..n : K.entries[k].index = i
        BY <1>3
    <2>2. D[i] <= K.distance
        BY <1>2, <2>1
    <2>3. K.distance <= D[j]
        BY <1>2, <1>4
    <2>4. D[i] \in Nat /\ D[j] \in Nat
        BY <1>5
    <2> QED
        BY <1>1, <2>2, <2>3, <2>4
<1> QED
    BY <1>5, <1>8, <1>9 DEF G

-----------------------------------------------------------------------------
(* A gather's walk.                                                        *)

\* What a gather walks along.
Walk(tops, links, hit) ==
    FlattenSeq([c \in DOMAIN Searched(tops, hit.position) |->
                   Chain(tops, links, Searched(tops, hit.position)[c])])

\* What a photon of the host scene is.
Photon == [position : [1..3 -> Int], side : {-1, 1}, way : Seq(STRING)]

\* The photons' distances from a hit.
Distances(items, hit) ==
    [i \in DOMAIN items |-> DistanceSquared(items[i].position, hit.position)]

\* They are numbers from zero.
LEMMA DistanceType ==
    ASSUME NEW p \in Points, NEW q \in Points
    PROVE  DistanceSquared(p, q) \in Nat
<1>1. \A n \in Int : n * n \in Nat
    <2>1. \A n \in Int : n * n \in Int /\ n * n >= 0
        BY SMT
    <2> QED
        BY <2>1
<1>2. /\ p[1] - q[1] \in Int /\ p[2] - q[2] \in Int /\ p[3] - q[3] \in Int
    BY DEF Points
<1>3. Square(p[1] - q[1]) \in Nat /\ Square(p[2] - q[2]) \in Nat /\ Square(p[3] - q[3]) \in Nat
    BY <1>1, <1>2 DEF Square
<1> QED
    BY <1>3 DEF DistanceSquared

\* Along a walk that meets no photon twice, the nearest of those that count are kept.
LEMMA WalkKeeps ==
    ASSUME NEW items \in Seq(Photon), NEW hit, hit.position \in [1..3 -> Int],
           NEW tops, NEW links,
           Walk(tops, links, hit) \in Seq(DOMAIN items),
           IsInjective(Walk(tops, links, hit))
    PROVE  \E K : /\ IsKept(K, {i \in ToSet(Walk(tops, links, hit)) : Counts(items[i], hit)},
                            Distances(items, hit))
                  /\ Gathered(items, tops, links, hit) = Indices(K.entries)
<1> DEFINE walk == Walk(tops, links, hit)
           D == Distances(items, hit)
           m == Len(walk)
           photon(i) == [index |-> i,
                         distance |-> DistanceSquared(items[i].position, hit.position)]
           none == [entries |-> <<>>, farthest |-> 1, distance |-> 0]
           after(n, K) == IF Counts(items[walk[n]], hit) THEN Keep(K, photon(walk[n])) ELSE K
           step == [a \in Nat \X Places |-> IF a[1] \in 1..m THEN after(a[1], a[2]) ELSE a[2]]
           joined(f) == [n \in 0..m |-> IF n = 0 THEN none ELSE after(n, f[n - 1])]
           Keeps(f) == f = joined(f)
           kept == CHOOSE f : Keeps(f)
           passed(n) == {walk[k] : k \in 1..n}
           counted(n) == {i \in passed(n) : Counts(items[i], hit)}
<1>1. m \in Nat /\ \A n \in 1..m : walk[n] \in DOMAIN items
    OBVIOUS
<1>2. DOMAIN items = 1..Len(items) /\ Len(items) \in Nat
    OBVIOUS
<1>3. \A i \in DOMAIN items : /\ D[i] = DistanceSquared(items[i].position, hit.position)
                              /\ D[i] \in Nat /\ i \in Nat
    <2>1. \A i \in DOMAIN items : items[i] \in Photon
        OBVIOUS
    <2>2. \A i \in DOMAIN items : items[i].position \in Points
        BY <2>1 DEF Photon, Points
    <2>3. hit.position \in Points
        BY DEF Points
    <2> QED
        BY <1>2, <2>2, <2>3, DistanceType DEF Distances
<1> HIDE DEF m, walk, D
<1>4. ASSUME NEW i \in DOMAIN items
      PROVE  photon(i) = [index |-> i, distance |-> D[i]] /\ photon(i) \in Candidate
    BY <1>3 DEF Candidate
<1>5. none \in Places
    BY DEF Places
<1>6. step \in [Nat \X Places -> Places]
    <2>1. ASSUME NEW a \in Nat \X Places
          PROVE  (IF a[1] \in 1..m THEN after(a[1], a[2]) ELSE a[2]) \in Places
        <3>1. a[2] \in Places
            OBVIOUS
        <3>2. ASSUME a[1] \in 1..m PROVE after(a[1], a[2]) \in Places
            <4>1. photon(walk[a[1]]) \in Candidate
                BY <1>1, <1>4, <3>2
            <4> HIDE DEF photon
            <4> QED
                BY <3>1, <4>1, KeepType
        <3> HIDE DEF after
        <3> QED
            BY <3>1, <3>2
    <2> QED
        BY <2>1
<1>7. PICK h \in [0..m -> Places] :
         \A n \in 0..m : h[n] = IF n = 0 THEN none ELSE step[<<n, h[n - 1]>>]
    <2> HIDE DEF step, none
    <2>1. IsSolvable(m, Places, none, step)
        BY <1>1, <1>5, <1>6, Recursion
    <2> QED
        BY <2>1 DEF IsSolvable
<1>8. Keeps(h)
    <2> HIDE DEF none
    <2>1. ASSUME NEW n \in 0..m PROVE h[n] = IF n = 0 THEN none ELSE after(n, h[n - 1])
        <3>1. CASE n = 0
            BY <1>7, <3>1
        <3>2. CASE n # 0
            <4>1. n \in 1..m /\ n \in Nat /\ n - 1 \in 0..m
                BY <1>1, <3>2
            <4>2. step[<<n, h[n - 1]>>] = after(n, h[n - 1])
                <5>1. <<n, h[n - 1]>> \in Nat \X Places
                    BY <4>1
                <5> HIDE DEF after
                <5> QED
                    BY <4>1, <5>1
            <4> HIDE DEF step, after
            <4> QED
                BY <1>7, <3>2, <4>2
        <3> QED
            BY <3>1, <3>2
    <2> HIDE DEF after
    <2>2. h = [n \in 0..m |-> h[n]]
        OBVIOUS
    <2> QED
        BY <2>1, <2>2
<1>9. Keeps(kept)
    <2> HIDE DEF Keeps
    <2> QED
        BY <1>8
<1>10. Gathered(items, tops, links, hit) = Indices(kept[m].entries)
    BY DEF Gathered, Walk, Indices, m, walk
<1> HIDE DEF kept, step
<1>11. \A n \in 0..m : kept[n] = IF n = 0 THEN none ELSE after(n, kept[n - 1])
    <2>1. ASSUME NEW n \in 0..m PROVE kept[n] = IF n = 0 THEN none ELSE after(n, kept[n - 1])
        <3>1. joined(kept)[n] = IF n = 0 THEN none ELSE after(n, kept[n - 1])
            <4> HIDE DEF none, after
            <4> QED
                OBVIOUS
        <3> HIDE DEF joined, none, after
        <3> QED
            BY <1>9, <3>1
    <2> QED
        BY <2>1
<1> HIDE DEF Keeps, joined
<1> DEFINE Good == {n \in Nat : n \in 0..m => IsKept(kept[n], counted(n), D)}
<1>12. 0 \in Good
    <2>1. kept[0] = none /\ none.entries = <<>> /\ none.farthest = 1 /\ none.distance = 0
        <3>1. none.entries = <<>> /\ none.farthest = 1 /\ none.distance = 0
            OBVIOUS
        <3> HIDE DEF none, after
        <3>2. 0 \in 0..m
            BY <1>1
        <3> QED
            BY <1>11, <3>1, <3>2
    <2>2. counted(0) = {}
        OBVIOUS
    <2>3. MaxNearest \in Nat
        BY Geometry
    <2> HIDE DEF none, counted
    <2>4. IsKept(none, {}, D)
        BY <1>5, <2>1, <2>3 DEF IsKept
    <2> QED
        BY <2>1, <2>2, <2>4
<1>13. ASSUME NEW n \in Nat, n \in Good PROVE n + 1 \in Good
    <2> SUFFICES ASSUME n + 1 \in 0..m PROVE IsKept(kept[n + 1], counted(n + 1), D)
        OBVIOUS
    <2>1. n \in 0..m /\ n + 1 \in 1..m /\ n + 1 # 0 /\ n + 1 - 1 = n
        BY <1>1
    <2>2. IsKept(kept[n], counted(n), D)
        BY <1>13, <2>1
    <2> DEFINE i == walk[n + 1]
    <2>3. i \in DOMAIN items /\ i \in Nat /\ D[i] \in Nat
        BY <1>1, <1>3, <2>1
    <2>4. i \notin passed(n)
        <3>1. \A k \in 1..n : k \in 1..m /\ k # n + 1
            BY <1>1, <2>1
        <3>2. DOMAIN walk = 1..m
            BY DEF m, walk
        <3>3. \A k \in 1..n : walk[k] # walk[n + 1]
            BY <2>1, <3>1, <3>2 DEF IsInjective, walk
        <3> QED
            BY <3>3
    <2>5. passed(n + 1) = passed(n) \cup {i}
        <3>1. 1..n + 1 = 1..n \cup {n + 1}
            OBVIOUS
        <3> QED
            BY <3>1
    <2>6. \A c \in counted(n) : D[c] \in Nat
        <3>1. \A k \in 1..n : k \in 1..m
            BY <1>1, <2>1
        <3> QED
            BY <1>1, <1>3, <3>1
    <2>7. kept[n + 1] = after(n + 1, kept[n])
        <3> HIDE DEF after, none
        <3> QED
            BY <1>11, <2>1
    <2>8. CASE Counts(items[i], hit)
        <3>1. counted(n + 1) = counted(n) \cup {i} /\ i \notin counted(n)
            BY <2>4, <2>5, <2>8
        <3>2. kept[n + 1] = Keep(kept[n], [index |-> i, distance |-> D[i]])
            BY <1>4, <2>3, <2>7, <2>8
        <3> HIDE DEF counted, i, after
        <3> QED
            BY <2>2, <2>3, <2>6, <3>1, <3>2, KeepKeeps
    <2>9. CASE ~ Counts(items[i], hit)
        <3>1. counted(n + 1) = counted(n)
            BY <2>5, <2>9
        <3>2. kept[n + 1] = kept[n]
            BY <2>7, <2>9
        <3> HIDE DEF counted
        <3> QED
            BY <2>2, <3>1, <3>2
    <2> QED
        BY <2>8, <2>9
<1>14. IsKept(kept[m], counted(m), D)
    <2>1. m \in Good
        <3> HIDE DEF Good
        <3> QED
            BY <1>1, <1>12, <1>13, Induction
    <2> HIDE DEF counted
    <2> QED
        BY <1>1, <2>1
<1>15. passed(m) = ToSet(walk)
    BY DEF ToSet, m, walk
<1> QED
    BY <1>10, <1>14, <1>15 DEF walk, D

-----------------------------------------------------------------------------
(* The grid.                                                               *)

\* A photon that is inserted, and the cell it is in.
Belongs(photon) == Stored(photon.way) /\ Inside(photon.position)
CellsOf(items) == {CellOf(items[i].position) : i \in DOMAIN items}
Inserted(items, S, c) == {i \in S : CellOf(items[i].position) = c}

\* A cell's list has the photons S that are in it, each once.
ListsCell(items, S, c, head, link) ==
    \E q \in Seq(DOMAIN items) :
        IsInjective(q) /\ ToSet(q) = Inserted(items, S, c) /\ IsList(q, head, link)

\* The photons that belong in the grid, and the grid that has them.
Settled(items) == {i \in DOMAIN items : Belongs(items[i])}

IsGrid(items, tops, links) ==
    /\ Len(links) = Len(items)
    /\ DOMAIN tops = CellsOf(items)
    /\ \A c \in CellsOf(items) : ListsCell(items, Settled(items), c, tops[c], links)

\* The array of heads is finite, and its cells are those of the grid.
LEMMA CellsAreFew ==
    ASSUME NEW items \in Seq(Photon)
    PROVE  /\ CellsOf(items) \subseteq Cells
           /\ IsFiniteSet(CellsOf(items))
           /\ \A i \in DOMAIN items : items[i].position \in Points
<1> DEFINE P == DOMAIN items
           cell == [i \in P |-> CellOf(items[i].position)]
<1>1. \A i \in P : items[i].position \in Points
    <2>1. \A i \in P : items[i] \in Photon
        OBVIOUS
    <2> QED
        BY <2>1 DEF Photon, Points
<1>2. P = 1..Len(items) /\ Len(items) \in Nat
    OBVIOUS
<1>3. IsFiniteSet(P)
    <2> HIDE DEF P
    <2> QED
        BY <1>2, FS_Interval
<1>4. cell \in Surjection(P, CellsOf(items))
    BY DEF Surjection, CellsOf
<1>5. IsFiniteSet(CellsOf(items))
    <2> HIDE DEF cell, P
    <2> QED
        BY <1>3, <1>4, FS_Surjection
<1>6. CellsOf(items) \subseteq Cells
    BY <1>1, CellInGrid DEF CellsOf
<1> QED
    BY <1>1, <1>5, <1>6

\* A sequence that has nothing twice is no longer than what it is of.
LEMMA InjectiveIsShort ==
    ASSUME NEW m \in Nat, NEW q \in Seq(1..m), IsInjective(q)
    PROVE  Len(q) <= m
<1>1. q \in Injection(1..Len(q), 1..m)
    BY DEF Injection
<1>2. IsFiniteSet(1..m) /\ Cardinality(1..m) = m
    BY FS_Interval
<1>3. Cardinality(1..Len(q)) = Len(q)
    <2> DEFINE n == Len(q)
    <2>1. n \in Nat
        OBVIOUS
    <2> HIDE DEF n
    <2>2. Cardinality(1..n) = n
        BY <2>1, FS_Interval
    <2> QED
        BY <2>2 DEF n
<1>4. Cardinality(1..Len(q)) <= Cardinality(1..m)
    BY <1>1, <1>2, FS_Injection
<1> QED
    BY <1>2, <1>3, <1>4

\* In the grid, a gather walks along the photons near it, each once, ...
LEMMA GridIsWalked ==
    ASSUME NEW items \in Seq(Photon), NEW tops, NEW links, IsGrid(items, tops, links),
           NEW hit, hit.position \in [1..3 -> Int]
    PROVE  /\ Walk(tops, links, hit) \in Seq(DOMAIN items)
           /\ IsInjective(Walk(tops, links, hit))
           /\ ToSet(Walk(tops, links, hit)) =
                 {i \in Settled(items) : CellOf(items[i].position) \in Around(tops, hit.position)}
<1> DEFINE P == DOMAIN items
           N == Around(tops, hit.position)
           s == Searched(tops, hit.position)
           chains == [k \in DOMAIN s |-> Chain(tops, links, s[k])]
           of(c) == Inserted(items, Settled(items), c)
<1>1. /\ DOMAIN tops \subseteq Cells /\ IsFiniteSet(DOMAIN tops)
      /\ DOMAIN tops = CellsOf(items)
    BY CellsAreFew DEF IsGrid
<1>2. s \in Seq(N) /\ IsInjective(s) /\ ToSet(s) = N
    BY <1>1, SearchedCells
<1>3. N \subseteq CellsOf(items) /\ \A c \in N : tops[c] # NoPhoton
    BY <1>1 DEF Around
<1> HIDE DEF N, s
<1>4. ASSUME NEW c \in N
      PROVE  /\ Chain(tops, links, c) \in Seq(P) /\ IsInjective(Chain(tops, links, c))
             /\ ToSet(Chain(tops, links, c)) = of(c)
    <2>1. ListsCell(items, Settled(items), c, tops[c], links)
        BY <1>3 DEF IsGrid
    <2>2. PICK q \in Seq(P) : /\ IsInjective(q) /\ ToSet(q) = of(c)
                              /\ IsList(q, tops[c], links)
        BY <2>1 DEF ListsCell
    <2>3. q # <<>>
        BY <1>3, <2>2 DEF IsList
    <2>4. P = 1..Len(items) /\ Len(items) \in Nat
        OBVIOUS
    <2>5. Len(links) = Len(items)
        BY DEF IsGrid
    <2> HIDE DEF P, of
    <2>6. q \in Seq(1..Len(items)) /\ Len(q) <= Len(items)
        BY <2>2, <2>4, InjectiveIsShort
    <2>7. q \in Seq(Nat)
        <3>1. \A k \in 1..Len(q) : q[k] \in Nat
            BY <2>4, <2>6
        <3>2. q = [k \in 1..Len(q) |-> q[k]] /\ Len(q) \in Nat
            BY <2>6
        <3> QED
            BY <3>1, <3>2, FormsSequence
    <2>8. Chain(tops, links, c) = q
        BY <2>2, <2>3, <2>4, <2>5, <2>6, <2>7, ChainIsList
    <2> QED
        BY <2>2, <2>8
<1>5. /\ DOMAIN s = 1..Len(s) /\ Len(s) \in Nat /\ \A k \in DOMAIN s : s[k] \in N
      /\ \A c \in N : \E k \in DOMAIN s : s[k] = c
    BY <1>2 DEF ToSet
<1>6. /\ chains \in Seq(Seq(P)) /\ DOMAIN chains = DOMAIN s
      /\ \A k \in DOMAIN s : /\ IsInjective(chains[k])
                             /\ ToSet(chains[k]) = of(s[k])
    <2>1. \A k \in DOMAIN s : /\ chains[k] \in Seq(P) /\ IsInjective(chains[k])
                              /\ ToSet(chains[k]) = of(s[k])
        <3> HIDE DEF of, P
        <3> QED
            BY <1>4, <1>5
    <2>2. chains = [k \in 1..Len(s) |-> chains[k]] /\ DOMAIN chains = DOMAIN s
        BY <1>5
    <2> HIDE DEF chains, of, P
    <2>3. chains \in Seq(Seq(P))
        BY <1>5, <2>1, <2>2, FormsSequence
    <2> QED
        BY <2>1, <2>2, <2>3
<1>7. Walk(tops, links, hit) = FlattenSeq(chains)
    BY DEF Walk, s
<1> HIDE DEF chains
<1>8. \A j, k \in DOMAIN s : j # k => of(s[j]) \cap of(s[k]) = {}
    <2>1. \A j, k \in DOMAIN s : j # k => s[j] # s[k]
        BY <1>2 DEF IsInjective
    <2> QED
        BY <2>1 DEF Inserted
<1>9. \A j, k \in DOMAIN chains : j # k => ToSet(chains[j]) \cap ToSet(chains[k]) = {}
    <2> HIDE DEF of
    <2> QED
        BY <1>6, <1>8
<1>10. /\ FlattenSeq(chains) \in Seq(P) /\ IsInjective(FlattenSeq(chains))
       /\ ToSet(FlattenSeq(chains)) = UNION {ToSet(chains[k]) : k \in DOMAIN chains}
    <2> HIDE DEF P, of
    <2> QED
        BY <1>6, <1>9, JoinedApart
<1>11. UNION {ToSet(chains[k]) : k \in DOMAIN chains}
          = {i \in Settled(items) : CellOf(items[i].position) \in N}
    <2>1. UNION {ToSet(chains[k]) : k \in DOMAIN chains} = UNION {of(s[k]) : k \in DOMAIN s}
        <3> HIDE DEF of
        <3> QED
            BY <1>6
    <2>2. UNION {of(s[k]) : k \in DOMAIN s} = UNION {of(c) : c \in N}
        <3> HIDE DEF of
        <3> QED
            BY <1>5
    <2>3. UNION {of(c) : c \in N} = {i \in Settled(items) : CellOf(items[i].position) \in N}
        BY DEF Inserted
    <2> QED
        BY <2>1, <2>2, <2>3
<1> QED
    BY <1>7, <1>10, <1>11 DEF N

\* ... and comes across all that count.
LEMMA GridIsSearched ==
    ASSUME CellsReach,
           NEW items \in Seq(Photon), NEW tops, NEW links, IsGrid(items, tops, links),
           NEW hit, hit.position \in [1..3 -> Int]
    PROVE  {i \in ToSet(Walk(tops, links, hit)) : Counts(items[i], hit)}
              = {i \in Settled(items) : Counts(items[i], hit)}
<1>1. SUFFICES ASSUME NEW i \in Settled(items), Counts(items[i], hit)
               PROVE  CellOf(items[i].position) \in Around(tops, hit.position)
    BY GridIsWalked
<1> DEFINE c == CellOf(items[i].position)
           p == items[i].position
           h == hit.position
<1>2. p \in Points /\ h \in Points /\ c \in CellsOf(items) /\ i \in DOMAIN items
    BY CellsAreFew DEF Settled, CellsOf, Points
<1>3. c \in DOMAIN tops
    BY <1>2 DEF IsGrid
<1>4. tops[c] # NoPhoton
    <2>1. ListsCell(items, Settled(items), c, tops[c], links)
        BY <1>2 DEF IsGrid
    <2>2. PICK q \in Seq(DOMAIN items) : /\ ToSet(q) = Inserted(items, Settled(items), c)
                                         /\ IsList(q, tops[c], links)
        BY <2>1 DEF ListsCell
    <2>3. i \in ToSet(q)
        BY <1>1, <2>2 DEF Inserted
    <2>4. q # <<>> /\ 1 \in 1..Len(q)
        BY <2>3 DEF ToSet
    <2> QED
        BY <2>2, <2>4 DEF IsList
<1>5. DistanceSquared(p, h) <= SearchRadius * SearchRadius
    BY <1>1 DEF Counts
<1> HIDE DEF p, h
<1>6. \A a \in 1..3 : CellOf(p)[a] - CellOf(h)[a] \in -CellRadius..CellRadius
    BY <1>2, <1>5, NearInCells
<1> QED
    BY <1>3, <1>4, <1>6 DEF Around, p, h

-----------------------------------------------------------------------------
(* How a list grows.                                                       *)

\* A photon comes first in its cell's list, ...
LEMMA ListGrows ==
    ASSUME NEW items \in Seq(Photon), NEW S, S \subseteq DOMAIN items, NEW i \in DOMAIN items,
           i \notin S, NEW c, CellOf(items[i].position) = c, NEW head, NEW link, NEW link2,
           ListsCell(items, S, c, head, link), link2[i] = head, \A j \in S : link2[j] = link[j]
    PROVE  ListsCell(items, S \cup {i}, c, i, link2)
<1> DEFINE P == DOMAIN items
<1>1. P = 1..Len(items) /\ Len(items) \in Nat /\ i # NoPhoton
    BY DEF NoPhoton
<1>2. PICK q \in Seq(P) : /\ IsInjective(q) /\ ToSet(q) = Inserted(items, S, c)
                          /\ IsList(q, head, link)
    BY DEF ListsCell
<1>3. i \in P /\ Inserted(items, S \cup {i}, c) = Inserted(items, S, c) \cup {i}
    BY DEF Inserted
<1>4. Inserted(items, S, c) \subseteq S
    BY DEF Inserted
<1> HIDE DEF P
<1> DEFINE r == <<i>> \o q
           n == Len(q)
<1>5. /\ r \in Seq(P) /\ Len(r) = n + 1 /\ n \in Nat /\ r[1] = i /\ r # <<>>
      /\ \A k \in 1..n : r[k + 1] = q[k]
    BY <1>3
<1>6. \A k \in 1..n : q[k] \in S /\ q[k] \in Inserted(items, S, c) /\ q[k] # i
    BY <1>2, <1>4 DEF ToSet
<1>7. \A j, k \in 1..n : q[j] = q[k] => j = k
    BY <1>2 DEF IsInjective
<1>8. \A k \in 1..n : q[k] # NoPhoton /\ link[q[k]] = IF k < n THEN q[k + 1] ELSE NoPhoton
    BY <1>2 DEF IsList
<1>9. head = IF n = 0 THEN NoPhoton ELSE q[1]
    BY <1>2 DEF IsList
<1>10. \A v \in Inserted(items, S, c) : \E k \in 1..n : q[k] = v
    BY <1>2 DEF ToSet
<1> HIDE DEF r, n
<1>11. \A k \in 1..n + 1 : k = 1 \/ (k - 1 \in 1..n /\ r[k] = q[k - 1])
    <2>1. ASSUME NEW k \in 1..n + 1, k # 1 PROVE k - 1 \in 1..n /\ r[k] = q[k - 1]
        <3>1. k - 1 \in 1..n /\ (k - 1) + 1 = k
            BY <1>5, <2>1
        <3> QED
            BY <1>5, <3>1
    <2> QED
        BY <2>1
<1>12. IsInjective(r)
    <2>1. DOMAIN r = 1..n + 1
        BY <1>5
    <2>2. ASSUME NEW j \in 1..n + 1, NEW k \in 1..n + 1, r[j] = r[k] PROVE j = k
        <3>1. CASE j = 1 \/ k = 1
            <4>1. \A m \in 1..n + 1 : m # 1 => r[m] # i
                BY <1>6, <1>11
            <4> QED
                BY <1>5, <2>2, <3>1, <4>1
        <3>2. CASE j # 1 /\ k # 1
            <4>1. j - 1 = k - 1
                BY <1>7, <1>11, <2>2, <3>2
            <4> QED
                BY <1>5, <4>1
        <3> QED
            BY <3>1, <3>2
    <2> QED
        BY <2>1, <2>2 DEF IsInjective
<1>13. ToSet(r) = Inserted(items, S \cup {i}, c)
    <2>1. DOMAIN r = 1..n + 1 /\ 1 \in 1..n + 1 /\ \A k \in 1..n : k + 1 \in 1..n + 1
        BY <1>5
    <2>2. \A v \in Inserted(items, S, c) : \E k \in DOMAIN r : r[k] = v
        BY <1>5, <1>10, <2>1
    <2>3. \A k \in DOMAIN r : r[k] \in Inserted(items, S, c) \cup {i}
        BY <1>5, <1>6, <1>11, <2>1
    <2>4. ToSet(r) = {r[k] : k \in DOMAIN r}
        BY DEF ToSet
    <2>5. \A v \in Inserted(items, S, c) \cup {i} : \E k \in DOMAIN r : r[k] = v
        BY <1>5, <2>1, <2>2
    <2> DEFINE X == Inserted(items, S, c) \cup {i}
    <2>6. (\A k \in DOMAIN r : r[k] \in X) /\ \A v \in X : \E k \in DOMAIN r : r[k] = v
        BY <2>3, <2>5
    <2>7. Inserted(items, S \cup {i}, c) = X
        BY <1>3
    <2> HIDE DEF X
    <2> QED
        BY <2>4, <2>6, <2>7
<1>14. ASSUME NEW k \in 1..n + 1
       PROVE  r[k] # NoPhoton /\ link2[r[k]] = IF k < n + 1 THEN r[k + 1] ELSE NoPhoton
    <2>1. CASE k = 1
        <3>1. CASE n = 0
            BY <1>1, <1>5, <1>9, <2>1, <3>1
        <3>2. CASE n # 0
            <4>1. 1 \in 1..n /\ r[2] = q[1]
                <5>1. 1 \in 1..n /\ 1 + 1 = 2
                    BY <1>5, <3>2
                <5> QED
                    BY <1>5, <5>1
            <4> QED
                BY <1>1, <1>5, <1>9, <2>1, <3>2, <4>1
        <3> QED
            BY <3>1, <3>2
    <2>2. CASE k # 1
        <3> DEFINE j == k - 1
        <3>1. j \in 1..n /\ r[k] = q[j] /\ j + 1 = k
            BY <1>5, <1>11, <2>2
        <3>2. link2[q[j]] = IF j < n THEN q[j + 1] ELSE NoPhoton
            BY <1>6, <1>8, <3>1
        <3>3. j < n => k \in 1..n /\ r[k + 1] = q[k]
            BY <1>5, <3>1
        <3>4. j < n <=> k < n + 1
            BY <1>5, <3>1
        <3> HIDE DEF j
        <3> QED
            BY <1>8, <3>1, <3>2, <3>3, <3>4
    <2> QED
        BY <2>1, <2>2
<1>15. IsList(r, i, link2)
    BY <1>5, <1>14 DEF IsList
<1> QED
    BY <1>5, <1>12, <1>13, <1>15 DEF ListsCell, P

\* ... and the other lists stay.
LEMMA ListStays ==
    ASSUME NEW items, NEW S, NEW T, NEW c, Inserted(items, T, c) = Inserted(items, S, c),
           NEW head, NEW link, NEW link2,
           ListsCell(items, S, c, head, link), \A j \in S : link2[j] = link[j]
    PROVE  ListsCell(items, T, c, head, link2)
<1>1. PICK q \in Seq(DOMAIN items) : /\ IsInjective(q) /\ ToSet(q) = Inserted(items, S, c)
                                     /\ IsList(q, head, link)
    BY DEF ListsCell
<1>2. \A k \in 1..Len(q) : q[k] \in S
    BY <1>1 DEF ToSet, Inserted
<1>3. IsList(q, head, link2)
    BY <1>1, <1>2 DEF IsList
<1> QED
    BY <1>1, <1>3 DEF ListsCell

-----------------------------------------------------------------------------
(* The invariant of the photons.                                           *)

\* Where a photon points to, or will once its thread has stored it.
Begun == {i \in Photons : thread[i] # Idle}
Link == [i \in Photons |-> IF thread[i] \in Nat THEN thread[i] ELSE next[i]]

\* In every cell the photons whose threads have begun are in one list, in whichever order,
\* if each is taken to point already to what its thread has got from the exchange.
PhotonsIInv ==
    /\ host \in HostScenes
    /\ thread \in [Photons -> {Idle, Done} \cup Nat]
    /\ next \in [Photons -> Nat]
    /\ heads \in [CellsOf(host.photons) -> Nat]
    /\ \A i \in Begun : Inserts(i)
    /\ stage = "rendering" => \A i \in Photons : thread[i] = Done \/ ~ Inserts(i)
    /\ \A c \in CellsOf(host.photons) : ListsCell(host.photons, Begun, c, heads[c], Link)
    /\ GatherIsNearest

\* What is known of a scene.
LEMMA SceneOfPhotons ==
    ASSUME host \in HostScenes
    PROVE  /\ host.photons \in Seq(Photon)
           /\ Photons = 1..Len(host.photons) /\ Len(host.photons) \in Nat
           /\ \A i \in Photons : Inserts(i) <=> i \in Settled(host.photons)
<1>1. host.photons \in Seq(Photon)
    BY HostAssumption DEF Photon
<1>2. Photons = 1..Len(host.photons) /\ Len(host.photons) \in Nat
    BY <1>1 DEF Photons
<1>3. \A i \in Photons : Inserts(i) <=> i \in Settled(host.photons)
    BY DEF Settled, Belongs, Inserts, Photons
<1> QED
    BY <1>1, <1>2, <1>3

\* The invariant holds at first.
LEMMA PhotonsBegin == Init => PhotonsIInv
<1> SUFFICES ASSUME Init PROVE PhotonsIInv
    OBVIOUS
<1>1. host \in HostScenes /\ stage = "tree" /\ gathered = NoGather
    BY DEF Init
<1>2. /\ heads = [c \in CellsOf(host.photons) |-> NoPhoton]
      /\ next = [i \in Photons |-> NoPhoton] /\ thread = [i \in Photons |-> Idle]
    BY DEF Init, CellsOf, Photons
<1>3. Begun = {}
    BY <1>2 DEF Begun
<1>4. ASSUME NEW c \in CellsOf(host.photons)
      PROVE  ListsCell(host.photons, Begun, c, heads[c], Link)
    <2>1. heads[c] = NoPhoton
        BY <1>2
    <2>2. <<>> \in Seq(DOMAIN host.photons) /\ IsInjective(<<>>) /\ ToSet(<<>>) = {}
        BY DEF IsInjective, ToSet
    <2>3. IsList(<<>>, heads[c], Link)
        BY <2>1 DEF IsList
    <2>4. Inserted(host.photons, Begun, c) = {}
        BY <1>3 DEF Inserted
    <2> QED
        BY <2>2, <2>3, <2>4 DEF ListsCell
<1>5. GatherIsNearest
    BY <1>1 DEF GatherIsNearest
<1> QED
    BY <1>1, <1>2, <1>3, <1>4, <1>5 DEF PhotonsIInv, Idle, NoPhoton

\* A step that leaves the scene, the grid and the gather alone keeps it, ...
LEMMA PhotonsStay ==
    ASSUME PhotonsIInv, host' = host, UNCHANGED gridVars, gathered' = gathered,
           stage' = stage \/ stage' # "rendering"
    PROVE  PhotonsIInv'
<1>1. thread' = thread /\ next' = next /\ heads' = heads
    BY DEF gridVars
<1>2. Photons' = Photons /\ Begun' = Begun /\ Link' = Link
    BY <1>1 DEF Photons, Begun, Link
<1>3. \A i : Inserts(i)' <=> Inserts(i)
    BY DEF Inserts
<1>4. GatherIsNearest'
    <2>1. GatherIsNearest
        BY DEF PhotonsIInv
    <2> QED
        BY <1>2, <1>3, <2>1 DEF GatherIsNearest
<1> QED
    BY <1>1, <1>2, <1>3, <1>4 DEF PhotonsIInv

\* ... an exchange puts a photon first in its list, ...
LEMMA ExchangeKeepsLists ==
    ASSUME PhotonsIInv, NEW i \in Photons, ExchangeHead(i)
    PROVE  PhotonsIInv'
<1> DEFINE items == host.photons
           cell == CellOf(items[i].position)
<1>1. /\ items \in Seq(Photon) /\ Photons = 1..Len(items) /\ DOMAIN items = Photons
      /\ i \in Nat
    BY SceneOfPhotons DEF PhotonsIInv, Photons
<1>2. /\ host' = host /\ next' = next /\ gathered' = gathered
      /\ stage = "photons" /\ stage' = "photons" /\ thread[i] = Idle /\ Inserts(i)
      /\ heads' = [heads EXCEPT ![cell] = i] /\ thread' = [thread EXCEPT ![i] = heads[cell]]
    BY DEF ExchangeHead
<1>3. /\ thread \in [Photons -> {Idle, Done} \cup Nat] /\ next \in [Photons -> Nat]
      /\ heads \in [CellsOf(items) -> Nat] /\ host \in HostScenes
      /\ \A j \in Begun : Inserts(j)
      /\ \A c \in CellsOf(items) : ListsCell(items, Begun, c, heads[c], Link)
      /\ GatherIsNearest
    BY DEF PhotonsIInv
<1>4. cell \in CellsOf(items)
    BY <1>1 DEF CellsOf
<1>5. heads[cell] \in Nat
    BY <1>3, <1>4
<1> HIDE DEF cell
<1>6. Photons' = Photons
    BY <1>2 DEF Photons
<1>7. thread' \in [Photons -> {Idle, Done} \cup Nat] /\ heads' \in [CellsOf(items) -> Nat]
    BY <1>1, <1>2, <1>3, <1>5
<1>8. Begun' = Begun \cup {i} /\ i \notin Begun /\ Begun \subseteq Photons
    <2>1. heads[cell] # Idle
        BY <1>5 DEF Idle
    <2> QED
        BY <1>2, <1>3, <1>6, <2>1 DEF Begun
<1>9. Link'[i] = heads[cell] /\ \A j \in Begun : Link'[j] = Link[j]
    <2>1. Link' = [j \in Photons |-> IF thread'[j] \in Nat THEN thread'[j] ELSE next'[j]]
        BY <1>6 DEF Link
    <2>2. thread'[i] = heads[cell]
        BY <1>2, <1>3
    <2>3. Link'[i] = heads[cell]
        BY <1>5, <2>1, <2>2
    <2>4. ASSUME NEW j \in Begun PROVE Link'[j] = Link[j]
        <3>1. j \in Photons /\ j # i /\ thread'[j] = thread[j] /\ next'[j] = next[j]
            BY <1>2, <1>3, <1>8
        <3> QED
            BY <2>1, <3>1 DEF Link
    <2> QED
        BY <2>3, <2>4
<1>10. ASSUME NEW c \in CellsOf(items)
       PROVE  ListsCell(items, Begun', c, heads'[c], Link')
    <2>1. ListsCell(items, Begun, c, heads[c], Link)
        BY <1>3
    <2>2. CASE c = cell
        <3>1. heads'[c] = i
            BY <1>2, <1>3, <2>2
        <3>2. ListsCell(items, Begun \cup {i}, c, i, Link')
            BY <1>1, <1>8, <1>9, <2>1, <2>2, ListGrows DEF cell
        <3> QED
            BY <1>8, <3>1, <3>2
    <2>3. CASE c # cell
        <3>1. heads'[c] = heads[c]
            BY <1>2, <1>3, <2>3
        <3>2. Inserted(items, Begun \cup {i}, c) = Inserted(items, Begun, c)
            BY <2>3 DEF Inserted, cell
        <3>3. ListsCell(items, Begun', c, heads[c], Link')
            BY <1>8, <1>9, <2>1, <3>2, ListStays
        <3> QED
            BY <3>1, <3>3
    <2> QED
        BY <2>2, <2>3
<1>11. \A j : Inserts(j)' <=> Inserts(j)
    BY <1>2 DEF Inserts
<1>12. GatherIsNearest'
    BY <1>2, <1>3, <1>6, <1>11 DEF GatherIsNearest
<1>13. \A j \in Begun' : Inserts(j)'
    BY <1>2, <1>3, <1>8, <1>11
<1>14. /\ host' \in HostScenes /\ thread' \in [Photons' -> {Idle, Done} \cup Nat]
       /\ next' \in [Photons' -> Nat] /\ heads' \in [CellsOf(host'.photons) -> Nat]
       /\ stage' # "rendering"
       /\ \A c \in CellsOf(host'.photons) :
             ListsCell(host'.photons, Begun', c, heads'[c], Link')
    BY <1>2, <1>3, <1>6, <1>7, <1>10
<1> QED
    BY <1>12, <1>13, <1>14 DEF PhotonsIInv

\* ... and a store has it point to where it was taken to point already.
LEMMA StoreKeepsLists ==
    ASSUME PhotonsIInv, NEW i \in Photons, StoreNext(i)
    PROVE  PhotonsIInv'
<1> DEFINE items == host.photons
<1>1. Photons = 1..Len(items) /\ DOMAIN items = Photons
    BY SceneOfPhotons DEF PhotonsIInv, Photons
<1>2. /\ host' = host /\ heads' = heads /\ gathered' = gathered
      /\ stage = "photons" /\ stage' = "photons" /\ thread[i] >= NoPhoton
      /\ next' = [next EXCEPT ![i] = thread[i]] /\ thread' = [thread EXCEPT ![i] = Done]
    BY DEF StoreNext
<1>3. /\ thread \in [Photons -> {Idle, Done} \cup Nat] /\ next \in [Photons -> Nat]
      /\ heads \in [CellsOf(items) -> Nat] /\ host \in HostScenes
      /\ \A j \in Begun : Inserts(j)
      /\ \A c \in CellsOf(items) : ListsCell(items, Begun, c, heads[c], Link)
      /\ GatherIsNearest
    BY DEF PhotonsIInv
<1>4. thread[i] \in Nat /\ thread[i] # Idle
    BY <1>2, <1>3 DEF Idle, Done, NoPhoton
<1>5. Photons' = Photons
    BY <1>2 DEF Photons
<1>6. thread' \in [Photons -> {Idle, Done} \cup Nat] /\ next' \in [Photons -> Nat]
    BY <1>2, <1>3, <1>4
<1>7. Begun' = Begun
    BY <1>2, <1>3, <1>4, <1>5 DEF Begun, Done, Idle
<1>8. \A j \in Photons : Link'[j] = Link[j]
    <2>1. Link' = [j \in Photons |-> IF thread'[j] \in Nat THEN thread'[j] ELSE next'[j]]
        BY <1>5 DEF Link
    <2>2. Link'[i] = thread[i] /\ Link[i] = thread[i]
        <3>1. thread'[i] = Done /\ next'[i] = thread[i] /\ Done \notin Nat
            BY <1>2, <1>3 DEF Done
        <3> QED
            BY <1>4, <2>1, <3>1 DEF Link
    <2>3. ASSUME NEW j \in Photons, j # i PROVE Link'[j] = Link[j]
        <3>1. thread'[j] = thread[j] /\ next'[j] = next[j]
            BY <1>2, <1>3, <2>3
        <3> QED
            BY <2>1, <3>1 DEF Link
    <2> QED
        BY <2>2, <2>3
<1>9. ASSUME NEW c \in CellsOf(items) PROVE ListsCell(items, Begun', c, heads'[c], Link')
    <2>1. ListsCell(items, Begun, c, heads[c], Link)
        BY <1>3
    <2>2. \A j \in Begun : Link'[j] = Link[j]
        BY <1>8 DEF Begun
    <2>3. ListsCell(items, Begun, c, heads[c], Link')
        BY <2>1, <2>2, ListStays
    <2> QED
        BY <1>2, <1>7, <2>3
<1>10. \A j : Inserts(j)' <=> Inserts(j)
    BY <1>2 DEF Inserts
<1>11. GatherIsNearest'
    BY <1>2, <1>3, <1>5, <1>10 DEF GatherIsNearest
<1>12. \A j \in Begun' : Inserts(j)'
    BY <1>3, <1>7, <1>10
<1>13. /\ host' \in HostScenes /\ thread' \in [Photons' -> {Idle, Done} \cup Nat]
       /\ next' \in [Photons' -> Nat] /\ heads' \in [CellsOf(host'.photons) -> Nat]
       /\ stage' # "rendering"
       /\ \A c \in CellsOf(host'.photons) :
             ListsCell(host'.photons, Begun', c, heads'[c], Link')
    BY <1>2, <1>3, <1>5, <1>6, <1>9
<1> QED
    BY <1>11, <1>12, <1>13 DEF PhotonsIInv

\* When paths are traced, the grid is there.
LEMMA GridIsThere ==
    ASSUME PhotonsIInv, stage = "rendering"
    PROVE  IsGrid(host.photons, heads, next)
<1> DEFINE items == host.photons
<1>1. /\ items \in Seq(Photon) /\ Photons = 1..Len(items) /\ DOMAIN items = Photons
      /\ Len(items) \in Nat /\ \A i \in Photons : Inserts(i) <=> i \in Settled(items)
    BY SceneOfPhotons DEF PhotonsIInv, Photons
<1>2. /\ thread \in [Photons -> {Idle, Done} \cup Nat] /\ next \in [Photons -> Nat]
      /\ heads \in [CellsOf(items) -> Nat]
      /\ \A j \in Begun : Inserts(j)
      /\ \A i \in Photons : thread[i] = Done \/ ~ Inserts(i)
      /\ \A c \in CellsOf(items) : ListsCell(items, Begun, c, heads[c], Link)
    BY DEF PhotonsIInv
<1>3. Settled(items) \subseteq Photons
    BY <1>1 DEF Settled
<1>4. Done # Idle /\ Done \notin Nat
    BY DEF Done, Idle
<1>5. Begun = Settled(items)
    <2>1. Begun \subseteq Settled(items)
        BY <1>1, <1>2 DEF Begun
    <2>2. \A i \in Settled(items) : thread[i] = Done
        BY <1>1, <1>2, <1>3
    <2>3. Settled(items) \subseteq Begun
        BY <1>3, <1>4, <2>2 DEF Begun
    <2> QED
        BY <2>1, <2>3
<1>6. \A i \in Begun : next[i] = Link[i]
    <2>1. ASSUME NEW i \in Begun PROVE next[i] = Link[i]
        <3>1. i \in Photons /\ thread[i] = Done
            BY <1>1, <1>2, <1>3, <1>5
        <3> QED
            BY <1>4, <3>1 DEF Link
    <2> QED
        BY <2>1
<1>7. ASSUME NEW c \in CellsOf(items) PROVE ListsCell(items, Settled(items), c, heads[c], next)
    <2>1. ListsCell(items, Begun, c, heads[c], Link)
        BY <1>2
    <2> QED
        BY <1>5, <1>6, <2>1, ListStays
<1>8. Len(next) = Len(items) /\ DOMAIN heads = CellsOf(items)
    BY <1>1, <1>2
<1> QED
    BY <1>7, <1>8 DEF IsGrid

\* What GatherIsNearest says of a gather.
IsNearest(items, hit, G) ==
    LET eligible == {i \in Settled(items) : Counts(items[i], hit)}
    IN  /\ G \subseteq eligible
        /\ Cardinality(G) = Min({MaxNearest, Cardinality(eligible)})
        /\ \A i \in G, j \in eligible \ G : Distances(items, hit)[i] <= Distances(items, hit)[j]

\* A gather finds the nearest, ...
LEMMA GatherNearest ==
    ASSUME CellsReach, PhotonsIInv, NEW hit \in Hits, GatherAt(hit)
    PROVE  IsNearest(host.photons, hit, Gathered(host.photons, heads, next, hit))
<1> DEFINE items == host.photons
           G == Gathered(items, heads, next, hit)
           C == {i \in Settled(items) : Counts(items[i], hit)}
           D == Distances(items, hit)
           walk == Walk(heads, next, hit)
<1>1. /\ items \in Seq(Photon) /\ DOMAIN items = 1..Len(items) /\ Len(items) \in Nat
    BY SceneOfPhotons DEF PhotonsIInv
<1>2. IsGrid(items, heads, next)
    BY GridIsThere DEF GatherAt
<1>3. hit.position \in [1..3 -> Int]
    BY HitsAssumption
<1> HIDE DEF items
<1>4. walk \in Seq(DOMAIN items) /\ IsInjective(walk)
    BY <1>1, <1>2, <1>3, GridIsWalked
<1>5. {i \in ToSet(walk) : Counts(items[i], hit)} = C
    BY <1>1, <1>2, <1>3, GridIsSearched
<1> HIDE DEF C
<1>6. PICK K : IsKept(K, C, D) /\ G = Indices(K.entries)
    <2>1. \E K : /\ IsKept(K, {i \in ToSet(walk) : Counts(items[i], hit)}, D)
                 /\ G = Indices(K.entries)
        BY <1>1, <1>3, <1>4, WalkKeeps
    <2> HIDE DEF D, G, walk
    <2> QED
        BY <1>5, <2>1
<1>7. C \subseteq DOMAIN items /\ C \subseteq Nat
    BY <1>1 DEF C, Settled
<1>8. IsFiniteSet(C)
    <2>1. IsFiniteSet(1..Len(items))
        BY <1>1, FS_Interval
    <2> QED
        BY <1>1, <1>7, <2>1, FS_Subset
<1>9. \A i \in C : D[i] \in Nat
    <2>1. \A i \in DOMAIN items : items[i].position \in Points
        BY <1>1, CellsAreFew
    <2> QED
        BY <1>3, <1>7, <2>1, DistanceType DEF Distances, Points
<1> HIDE DEF D, G
<1>10. /\ G \subseteq C /\ Cardinality(G) = Min({MaxNearest, Cardinality(C)})
       /\ \A i \in G, j \in C \ G : D[i] <= D[j]
    BY <1>6, <1>7, <1>8, <1>9, KeptIsNearest
<1> QED
    BY <1>10 DEF IsNearest, C, D, G, items

\* ... so that it keeps the invariant,
LEMMA GatherKeepsNearest ==
    ASSUME CellsReach, PhotonsIInv, NEW hit \in Hits, GatherAt(hit)
    PROVE  PhotonsIInv'
<1> DEFINE items == host.photons
           G == Gathered(items, heads, next, hit)
<1>1. /\ host' = host /\ stage' = stage /\ UNCHANGED gridVars
      /\ gathered' = [hit |-> hit, photons |-> G]
    BY DEF GatherAt
<1>2. thread' = thread /\ next' = next /\ heads' = heads
    BY <1>1 DEF gridVars
<1>3. Photons' = Photons /\ Begun' = Begun /\ Link' = Link
    BY <1>1, <1>2 DEF Photons, Begun, Link
<1>4. \A i : Inserts(i)' <=> Inserts(i)
    BY <1>1 DEF Inserts
<1>5. IsNearest(items, hit, G)
    BY GatherNearest
<1>6. gathered'.hit = hit /\ gathered'.photons = G
    BY <1>1
<1>7. Photons = DOMAIN items /\ \A i \in Photons : Inserts(i) <=> i \in Settled(items)
    BY SceneOfPhotons DEF PhotonsIInv, Photons
<1> HIDE DEF G
<1> DEFINE C == {i \in Settled(items) : Counts(items[i], hit)}
           E == {i \in Photons : /\ Inserts(i) /\ items[i].side = hit.side
                                 /\ DistanceSquared(items[i].position, hit.position)
                                       <= SearchRadius * SearchRadius}
<1>8. E = C
    BY <1>7 DEF Settled, Counts
<1>9. /\ G \subseteq C /\ Cardinality(G) = Min({MaxNearest, Cardinality(C)})
      /\ \A i \in G, j \in C \ G : Distances(items, hit)[i] <= Distances(items, hit)[j]
    BY <1>5 DEF IsNearest
<1>10. C \subseteq DOMAIN items
    BY DEF Settled
<1> HIDE DEF C
<1>11. \A i \in G, j \in C \ G : DistanceSquared(items[i].position, hit.position)
                                   <= DistanceSquared(items[j].position, hit.position)
    BY <1>9, <1>10 DEF Distances
<1>12. GatherIsNearest'
    <2>1. GatherIsNearest' <=>
             (gathered' # NoGather =>
                 /\ G \subseteq E /\ Cardinality(G) = Min({MaxNearest, Cardinality(E)})
                 /\ \A i \in G, j \in E \ G :
                       DistanceSquared(items[i].position, hit.position)
                          <= DistanceSquared(items[j].position, hit.position))
        BY <1>1, <1>3, <1>4, <1>6 DEF GatherIsNearest
    <2> HIDE DEF E, items
    <2> QED
        BY <1>8, <1>9, <1>11, <2>1
<1> QED
    BY <1>1, <1>2, <1>3, <1>4, <1>12 DEF PhotonsIInv

\* as does every step.
LEMMA PhotonsStep == CellsReach /\ PhotonsIInv /\ [Next]_vars => PhotonsIInv'
<1> SUFFICES ASSUME CellsReach, PhotonsIInv, [Next]_vars PROVE PhotonsIInv'
    OBVIOUS
<1>1. CASE BuildNode
    BY <1>1, PhotonsStay DEF BuildNode
<1>2. CASE BeginLights
    BY <1>2, PhotonsStay DEF BeginLights
<1>3. CASE PairLights
    BY <1>3, PhotonsStay DEF PairLights
<1>4. CASE FinishLights
    BY <1>4, PhotonsStay DEF FinishLights
<1>5. ASSUME NEW i \in Photons, ExchangeHead(i) PROVE PhotonsIInv'
    BY <1>5, ExchangeKeepsLists
<1>6. ASSUME NEW i \in Photons, StoreNext(i) PROVE PhotonsIInv'
    BY <1>6, StoreKeepsLists
<1>7. CASE GridBuilt
    <2>1. /\ host' = host /\ thread' = thread /\ next' = next /\ heads' = heads
          /\ gathered' = gathered /\ \A i \in Photons : thread[i] = Done \/ ~ Inserts(i)
        BY <1>7 DEF GridBuilt, gridVars
    <2>2. Photons' = Photons /\ Begun' = Begun /\ Link' = Link
        BY <2>1 DEF Photons, Begun, Link
    <2>3. \A i : Inserts(i)' <=> Inserts(i)
        BY <2>1 DEF Inserts
    <2>4. GatherIsNearest'
        <3>1. GatherIsNearest
            BY DEF PhotonsIInv
        <3> QED
            BY <2>1, <2>2, <2>3, <3>1 DEF GatherIsNearest
    <2> QED
        BY <2>1, <2>2, <2>3, <2>4 DEF PhotonsIInv
<1>8. CASE BeginRay
    BY <1>8, PhotonsStay DEF BeginRay
<1>9. CASE PopMissed
    BY <1>9, PhotonsStay DEF PopMissed
<1>10. CASE PushChildren
    BY <1>10, PhotonsStay DEF PushChildren
<1>11. CASE PushWideChildren
    BY <1>11, PhotonsStay DEF PushWideChildren
<1>12. CASE TestLeaf
    BY <1>12, PhotonsStay DEF TestLeaf
<1>13. CASE EndRay
    BY <1>13, PhotonsStay DEF EndRay
<1>14. ASSUME NEW hit \in Hits, GatherAt(hit) PROVE PhotonsIInv'
    BY <1>14, GatherKeepsNearest
<1>15. CASE UNCHANGED vars
    BY <1>15, PhotonsStay DEF vars
<1> QED
    BY <1>1, <1>2, <1>3, <1>4, <1>5, <1>6, <1>7, <1>8, <1>9, <1>10, <1>11, <1>12, <1>13,
       <1>14, <1>15 DEF Next

\* A gather finds the nearest of the photons that are stored, within its radius and on
\* its side, in whichever order the threads have inserted them, if only the cells it
\* searches reach as far as its radius: for every scene, grid and number of photons
\* (photon_mapping.cu).
THEOREM GathersAreNearest == ASSUME CellsReach PROVE Spec => []GatherIsNearest
<1>1. PhotonsIInv => GatherIsNearest
    BY DEF PhotonsIInv
<1>2. PhotonsIInv /\ [Next]_vars => PhotonsIInv'
    BY PhotonsStep
<1> QED
    BY PhotonsBegin, <1>1, <1>2, PTL DEF Spec
-----------------------------------------------------------------------------
(* Boxes and rays.                                                         *)

\* A finite set of numbers has a least one and a greatest one.
LEMMA ExtremesOf ==
    ASSUME NEW S, IsFiniteSet(S), S # {}, S \subseteq Int
    PROVE  /\ Min(S) \in S /\ \A x \in S : Min(S) <= x
           /\ Max(S) \in S /\ \A x \in S : Max(S) >= x
<1> DEFINE Bounded(T) == /\ \E y \in T : \A x \in T : y <= x
                         /\ \E y \in T : \A x \in T : y >= x
           G == {n \in Nat : \A T \in SUBSET S : T # {} /\ Cardinality(T) = n => Bounded(T)}
<1>1. \A T \in SUBSET S : IsFiniteSet(T) /\ Cardinality(T) \in Nat
    BY FS_Subset, FS_CardinalityType
<1>2. 0 \in G
    BY <1>1, FS_EmptySet
<1>3. ASSUME NEW n \in Nat, n \in G PROVE n + 1 \in G
    <2> SUFFICES ASSUME NEW T \in SUBSET S, T # {}, Cardinality(T) = n + 1 PROVE Bounded(T)
        OBVIOUS
    <2>1. PICK z \in T : TRUE
        OBVIOUS
    <2> DEFINE U == T \ {z}
    <2>2. Cardinality(U) = n /\ U \in SUBSET S
        <3>1. IsFiniteSet(T)
            BY <1>1
        <3>2. Cardinality(U) = Cardinality(T) - 1
            BY <2>1, <3>1, FS_RemoveElement
        <3> HIDE DEF U
        <3>3. Cardinality(U) = n
            BY <2>1, <3>2
        <3> QED
            BY <3>3 DEF U
    <2>3. CASE U = {}
        <3>1. T = {z} /\ z \in Int
            BY <2>1, <2>3
        <3> QED
            BY <3>1
    <2>4. CASE U # {}
        <3>1. Bounded(U)
            <4> HIDE DEF Bounded, U
            <4> QED
                BY <1>3, <2>2, <2>4
        <3>2. PICK low \in U : \A x \in U : low <= x
            BY <3>1
        <3>3. PICK high \in U : \A x \in U : high >= x
            BY <3>1
        <3>4. z \in Int /\ low \in Int /\ high \in Int /\ low \in T /\ high \in T
              /\ \A x \in T : x \in Int /\ (x = z \/ x \in U)
            OBVIOUS
        <3>5. \E y \in T : \A x \in T : y <= x
            <4>1. CASE low <= z
                BY <3>2, <3>4, <4>1
            <4>2. CASE ~ (low <= z)
                <5>1. \A x \in T : z <= x
                    BY <3>2, <3>4, <4>2
                <5> QED
                    BY <5>1
            <4> QED
                BY <4>1, <4>2
        <3>6. \E y \in T : \A x \in T : y >= x
            <4>1. CASE high >= z
                BY <3>3, <3>4, <4>1
            <4>2. CASE ~ (high >= z)
                <5>1. \A x \in T : z >= x
                    BY <3>3, <3>4, <4>2
                <5> QED
                    BY <5>1
            <4> QED
                BY <4>1, <4>2
        <3> QED
            BY <3>5, <3>6
    <2> QED
        BY <2>3, <2>4
<1>4. Bounded(S)
    <2>1. Nat \subseteq G
        <3> HIDE DEF G
        <3> QED
            BY <1>2, <1>3, Induction
    <2> HIDE DEF Bounded
    <2> QED
        BY <1>1, <2>1
<1> QED
    BY <1>4 DEF Min, Max

\* Where a ray is at a distance.
PointAt(way, t) == [a \in Axes |-> way.origin[a] + t * way.direction[a]]
Encloses(box, x) == \A a \in Axes : box.lo[a] <= x[a] /\ x[a] <= box.hi[a]
IsWay(way) == way.origin \in [Axes -> Int] /\ way.direction \in [Axes -> {-1, 1}]

LEMMA PairExtremes ==
    ASSUME NEW p \in Int, NEW q \in Int
    PROVE  /\ Min({p, q}) = IF p <= q THEN p ELSE q
           /\ Max({p, q}) = IF p <= q THEN q ELSE p
<1>1. IsFiniteSet({p, q}) /\ {p, q} # {} /\ {p, q} \subseteq Int
    <2>1. {p, q} = {p} \cup {q}
        OBVIOUS
    <2>2. IsFiniteSet({p})
        BY FS_Singleton
    <2>3. IsFiniteSet({p} \cup {q})
        BY <2>2, FS_AddElement
    <2> QED
        BY <2>1, <2>3
<1> DEFINE low == Min({p, q})
           high == Max({p, q})
<1>2. low \in {p, q} /\ low <= p /\ low <= q /\ high \in {p, q} /\ high >= p /\ high >= q
    BY <1>1, ExtremesOf
<1> HIDE DEF low, high
<1>3. low = (IF p <= q THEN p ELSE q) /\ high = (IF p <= q THEN q ELSE p)
    BY <1>2
<1> QED
    BY <1>3 DEF low, high

LEMMA AxisExtremes ==
    ASSUME NEW f, \A a \in Axes : f[a] \in Int
    PROVE  /\ Min({f[a] : a \in Axes}) \in Int
           /\ \A a \in Axes : Min({f[b] : b \in Axes}) <= f[a]
           /\ \E a \in Axes : Min({f[b] : b \in Axes}) = f[a]
           /\ Max({f[a] : a \in Axes}) \in Int
           /\ \A a \in Axes : Max({f[b] : b \in Axes}) >= f[a]
           /\ \E a \in Axes : Max({f[b] : b \in Axes}) = f[a]
<1> DEFINE S == {f[a] : a \in Axes}
<1>1. S = {f[1]} \cup {f[2]} \cup {f[3]}
    BY DEF Axes
<1>2. IsFiniteSet(S)
    <2>1. IsFiniteSet({f[1]})
        BY FS_Singleton
    <2>2. IsFiniteSet({f[1]} \cup {f[2]})
        BY <2>1, FS_AddElement
    <2>3. IsFiniteSet(({f[1]} \cup {f[2]}) \cup {f[3]})
        BY <2>2, FS_AddElement
    <2> QED
        BY <1>1, <2>3
<1>3. S # {} /\ S \subseteq Int
    BY DEF Axes
<1> QED
    BY <1>2, <1>3, ExtremesOf

\* A ray comes through a box at the distances at which its points are in the box.
LEMMA StretchHasPoints ==
    ASSUME NEW way, IsWay(way), NEW box \in AllBoxes
    PROVE  /\ Near(way, box) \in Int
           /\ Stretch(way, box) \subseteq Int
           /\ \A t \in Int : t \in Stretch(way, box) <=>
                   t >= 1 /\ Encloses(box, PointAt(way, t))
           /\ \A t \in Stretch(way, box) : Near(way, box) <= t
<1> DEFINE from == [a \in Axes |-> Min(Slabs(way, box)[a])]
           to == [a \in Axes |-> Max(Slabs(way, box)[a])]
<1>1. /\ \A a \in Axes : way.origin[a] \in Int /\ way.direction[a] \in {-1, 1}
      /\ \A a \in Axes : box.lo[a] \in Int /\ box.hi[a] \in Int /\ box.lo[a] <= box.hi[a]
    BY DEF IsWay, AllBoxes
<1>2. ASSUME NEW a \in Axes
      PROVE  /\ from[a] \in Int /\ to[a] \in Int
             /\ \A t \in Int : from[a] <= t /\ t <= to[a] <=>
                    box.lo[a] <= PointAt(way, t)[a] /\ PointAt(way, t)[a] <= box.hi[a]
    <2> DEFINE o == way.origin[a]
               d == way.direction[a]
               low == box.lo[a]
               high == box.hi[a]
               p == (low - o) * d
               q == (high - o) * d
    <2>1. Slabs(way, box)[a] = {p, q}
        BY DEF Slabs
    <2>2. from[a] = Min({p, q}) /\ to[a] = Max({p, q})
        BY <2>1
    <2>3. \A t : PointAt(way, t)[a] = o + t * d
        BY DEF PointAt
    <2>4. o \in Int /\ d \in {-1, 1} /\ low \in Int /\ high \in Int /\ low <= high
        BY <1>1
    <2> DEFINE m == from[a]
               n == to[a]
    <2>5. CASE d = 1
        <3>1. p = low - o /\ q = high - o /\ p \in Int /\ q \in Int
            <4> HIDE DEF o, d, low, high
            <4> QED
                BY <2>4, <2>5
        <3>2. m = p /\ n = q
            <4>1. p <= q
                <5> HIDE DEF o, d, low, high, p, q
                <5> QED
                    BY <2>4, <3>1
            <4> HIDE DEF p, q
            <4> QED
                BY <2>2, <3>1, <4>1, PairExtremes
        <3>3. \A t \in Int : PointAt(way, t)[a] = o + t
            <4> HIDE DEF o, d, low, high
            <4> QED
                BY <2>3, <2>4, <2>5
        <3> HIDE DEF o, d, low, high, p, q, m, n
        <3>4. \A t \in Int : m <= t /\ t <= n <=> low <= o + t /\ o + t <= high
            BY <2>4, <3>1, <3>2
        <3> QED
            BY <3>1, <3>2, <3>3, <3>4 DEF m, n, low, high
    <2>6. CASE d = -1
        <3>1. p = o - low /\ q = o - high /\ p \in Int /\ q \in Int
            <4> HIDE DEF o, d, low, high
            <4> QED
                BY <2>4, <2>6
        <3>2. m = q /\ n = p
            <4>1. q <= p
                <5> HIDE DEF o, d, low, high, p, q
                <5> QED
                    BY <2>4, <3>1
            <4>2. m = (IF p <= q THEN p ELSE q) /\ n = (IF p <= q THEN q ELSE p)
                <5> HIDE DEF p, q
                <5> QED
                    BY <2>2, <3>1, PairExtremes
            <4> HIDE DEF p, q, m, n
            <4> QED
                BY <3>1, <4>1, <4>2
        <3>3. \A t \in Int : PointAt(way, t)[a] = o - t
            <4> HIDE DEF o, d, low, high
            <4> QED
                BY <2>3, <2>4, <2>6
        <3> HIDE DEF o, d, low, high, p, q, m, n
        <3>4. \A t \in Int : m <= t /\ t <= n <=> low <= o - t /\ o - t <= high
            BY <2>4, <3>1, <3>2
        <3> QED
            BY <3>1, <3>2, <3>3, <3>4 DEF m, n, low, high
    <2> QED
        BY <2>4, <2>5, <2>6
<1>3. Near(way, box) = Max({from[a] : a \in Axes}) /\ Far(way, box) = Min({to[a] : a \in Axes})
    <2>1. {from[a] : a \in Axes} = {Min(Slabs(way, box)[a]) : a \in Axes}
          /\ {to[a] : a \in Axes} = {Max(Slabs(way, box)[a]) : a \in Axes}
        OBVIOUS
    <2> QED
        BY <2>1 DEF Near, Far
<1> HIDE DEF from, to
<1> DEFINE near == Near(way, box)
           far == Far(way, box)
           first == Max({near, 1})
<1>4. /\ near \in Int /\ far \in Int
      /\ \A t \in Int : near <= t <=> \A a \in Axes : from[a] <= t
      /\ \A t \in Int : t <= far <=> \A a \in Axes : t <= to[a]
    <2>1. /\ near \in Int /\ \A a \in Axes : near >= from[a]
          /\ \E a \in Axes : near = from[a]
        BY <1>2, <1>3, AxisExtremes
    <2>2. /\ far \in Int /\ \A a \in Axes : far <= to[a]
          /\ \E a \in Axes : far = to[a]
        BY <1>2, <1>3, AxisExtremes
    <2> HIDE DEF near, far
    <2> QED
        BY <1>2, <2>1, <2>2
<1>5. first = IF near <= 1 THEN 1 ELSE near
    <2>1. near \in Int /\ 1 \in Int
        BY <1>4
    <2> HIDE DEF near
    <2>2. first = IF near <= 1 THEN 1 ELSE near
        BY <2>1, PairExtremes
    <2> QED
        BY <2>2
<1>6. Stretch(way, box) = first..far
    BY DEF Stretch
<1>7. \A t \in Int : t \in first..far <=> t >= 1 /\ near <= t /\ t <= far
    <2> HIDE DEF near, far, first
    <2> QED
        BY <1>4, <1>5
<1>8. \A t \in Int : near <= t /\ t <= far <=> Encloses(box, PointAt(way, t))
    <2> HIDE DEF near, far
    <2>1. \A t \in Int : near <= t /\ t <= far <=> \A a \in Axes : from[a] <= t /\ t <= to[a]
        BY <1>4
    <2> QED
        BY <1>2, <2>1 DEF Encloses
<1>9. first..far \subseteq Int
    <2> HIDE DEF first, far
    <2> QED
        OBVIOUS
<1> HIDE DEF near, far, first
<1>10. \A t \in first..far : near <= t
    BY <1>7, <1>9
<1>11. Stretch(way, box) \subseteq Int
       /\ \A t \in Int : t \in Stretch(way, box) <=> t >= 1 /\ Encloses(box, PointAt(way, t))
    BY <1>6, <1>7, <1>8, <1>9
<1> QED
    BY <1>4, <1>6, <1>10, <1>11 DEF near

\* A ray enters a box that has a point of it before the distance.
LEMMA EntersBefore ==
    ASSUME NEW way, IsWay(way), NEW box \in AllBoxes, NEW closest \in Int,
           NEW t \in Stretch(way, box), t < closest
    PROVE  Enters(way, box, closest)
<1>1. Near(way, box) \in Int /\ t \in Int /\ Near(way, box) <= t
    BY StretchHasPoints
<1> QED
    BY <1>1 DEF Enters
-----------------------------------------------------------------------------
(* The references of a node, and their bounds.                             *)

Solid(box) == \A a \in Axes : Extent(box, a) > 0

\* References of some of the boxes: no part of a box with an extent is without one.
IsRefs(boxes, refs) ==
    /\ DOMAIN refs \subseteq DOMAIN boxes /\ DOMAIN refs # {}
    /\ \A i \in DOMAIN refs : refs[i] \in AllBoxes /\ (Solid(boxes[i]) => Solid(refs[i]))

\* Whatever point is in a box of S is in one of its parts.
Covers(parts, refs, S) ==
    \A i \in DOMAIN refs \cap S, x \in [Axes -> Int] :
        Encloses(refs[i], x) =>
            \E side \in DOMAIN parts : i \in DOMAIN parts[side] /\ Encloses(parts[side][i], x)

LEMMA RefsAreFinite ==
    ASSUME NEW boxes \in Seq(AllBoxes), NEW refs, IsRefs(boxes, refs)
    PROVE  /\ IsFiniteSet(DOMAIN refs) /\ Cardinality(DOMAIN refs) \in Nat \ {0}
           /\ Cardinality(DOMAIN refs) <= Len(boxes)
<1>1. DOMAIN boxes = 1..Len(boxes) /\ Len(boxes) \in Nat
    OBVIOUS
<1>2. IsFiniteSet(1..Len(boxes)) /\ Cardinality(1..Len(boxes)) = Len(boxes)
    BY <1>1, FS_Interval
<1>3. DOMAIN refs \in SUBSET (1..Len(boxes)) /\ DOMAIN refs # {}
    BY <1>1 DEF IsRefs
<1>4. IsFiniteSet(DOMAIN refs) /\ Cardinality(DOMAIN refs) <= Len(boxes)
    BY <1>2, <1>3, FS_Subset
<1> QED
    BY <1>3, <1>4, FS_CardinalityType, FS_EmptySet

LEMMA BoundsContain ==
    ASSUME NEW boxes \in Seq(AllBoxes), NEW refs, IsRefs(boxes, refs)
    PROVE  /\ Bounds(refs) \in AllBoxes
           /\ \A i \in DOMAIN refs, x \in [Axes -> Int] :
                  Encloses(refs[i], x) => Encloses(Bounds(refs), x)
<1> DEFINE D == DOMAIN refs
           lows(a) == {refs[i].lo[a] : i \in D}
           highs(a) == {refs[i].hi[a] : i \in D}
<1>1. \A i \in D, a \in Axes :
          refs[i].lo[a] \in Int /\ refs[i].hi[a] \in Int /\ refs[i].lo[a] <= refs[i].hi[a]
    BY DEF IsRefs, AllBoxes
<1>2. IsFiniteSet(D) /\ D # {}
    BY RefsAreFinite DEF IsRefs
<1>3. ASSUME NEW a \in Axes
      PROVE  /\ Min(lows(a)) \in Int /\ \A i \in D : Min(lows(a)) <= refs[i].lo[a]
             /\ Max(highs(a)) \in Int /\ \A i \in D : Max(highs(a)) >= refs[i].hi[a]
    <2>1. IsFiniteSet(lows(a))
        <3> DEFINE f == [i \in D |-> refs[i].lo[a]]
        <3>1. f \in Surjection(D, lows(a))
            BY DEF Surjection
        <3> HIDE DEF f, D
        <3> QED
            BY <1>2, <3>1, FS_Surjection
    <2>2. IsFiniteSet(highs(a))
        <3> DEFINE f == [i \in D |-> refs[i].hi[a]]
        <3>1. f \in Surjection(D, highs(a))
            BY DEF Surjection
        <3> HIDE DEF f, D
        <3> QED
            BY <1>2, <3>1, FS_Surjection
    <2>3. lows(a) # {} /\ highs(a) # {} /\ lows(a) \subseteq Int /\ highs(a) \subseteq Int
        BY <1>1, <1>2
    <2>4. \A i \in D : refs[i].lo[a] \in lows(a) /\ refs[i].hi[a] \in highs(a)
        OBVIOUS
    <2> HIDE DEF lows, highs
    <2>5. Min(lows(a)) \in lows(a) /\ \A p \in lows(a) : Min(lows(a)) <= p
        BY <2>1, <2>3, ExtremesOf
    <2>6. Max(highs(a)) \in highs(a) /\ \A p \in highs(a) : Max(highs(a)) >= p
        BY <2>2, <2>3, ExtremesOf
    <2> QED
        BY <2>3, <2>4, <2>5, <2>6
<1>4. Bounds(refs) = [lo |-> [a \in Axes |-> Min(lows(a))],
                    hi |-> [a \in Axes |-> Max(highs(a))]]
    <2>1. \A a : {b.lo[a] : b \in {refs[i] : i \in D}} = lows(a)
        OBVIOUS
    <2>2. \A a : {b.hi[a] : b \in {refs[i] : i \in D}} = highs(a)
        OBVIOUS
    <2> HIDE DEF lows, highs
    <2> QED
        BY <2>1, <2>2 DEF Bounds, BoundsOf
<1> DEFINE box == Bounds(refs)
<1> HIDE DEF lows, highs
<1>5. /\ box = [lo |-> box.lo, hi |-> box.hi]
      /\ box.lo = [a \in Axes |-> Min(lows(a))] /\ box.hi = [a \in Axes |-> Max(highs(a))]
    BY <1>4
<1> HIDE DEF box
<1>6. \A a \in Axes : box.lo[a] = Min(lows(a)) /\ box.hi[a] = Max(highs(a))
    BY <1>5
<1>7. \A i \in D, a \in Axes : box.lo[a] <= refs[i].lo[a] /\ refs[i].hi[a] <= box.hi[a]
    BY <1>1, <1>3, <1>6
<1>8. \A a \in Axes : box.lo[a] \in Int /\ box.hi[a] \in Int /\ box.lo[a] <= box.hi[a]
    <2> SUFFICES ASSUME NEW a \in Axes
                 PROVE  box.lo[a] \in Int /\ box.hi[a] \in Int /\ box.lo[a] <= box.hi[a]
        OBVIOUS
    <2>1. PICK i \in D : TRUE
        BY <1>2
    <2>2. box.lo[a] \in Int /\ box.hi[a] \in Int
        BY <1>3, <1>6
    <2> QED
        BY <1>1, <1>7, <2>1, <2>2
<1>9. box \in AllBoxes
    <2>1. box.lo \in [Axes -> Int] /\ box.hi \in [Axes -> Int]
        BY <1>5, <1>8
    <2> QED
        BY <1>5, <1>8, <2>1 DEF AllBoxes
<1>10. \A i \in D, x \in [Axes -> Int] : Encloses(refs[i], x) => Encloses(box, x)
    <2> SUFFICES ASSUME NEW i \in D, NEW x \in [Axes -> Int], Encloses(refs[i], x),
                        NEW a \in Axes
                 PROVE  box.lo[a] <= x[a] /\ x[a] <= box.hi[a]
        BY DEF Encloses
    <2>1. refs[i].lo[a] <= x[a] /\ x[a] <= refs[i].hi[a] /\ x[a] \in Int
        BY DEF Encloses
    <2>2. box.lo[a] <= refs[i].lo[a] /\ refs[i].hi[a] <= box.hi[a]
        BY <1>7
    <2>3. /\ refs[i].lo[a] \in Int /\ refs[i].hi[a] \in Int
          /\ box.lo[a] \in Int /\ box.hi[a] \in Int
        BY <1>1, <1>8
    <2> HIDE DEF D
    <2> QED
        BY <2>1, <2>2, <2>3
<1> QED
    BY <1>9, <1>10 DEF box

\* Some of a node's references.
LEMMA OnlyRefs ==
    ASSUME NEW boxes, NEW refs, IsRefs(boxes, refs), NEW s \in SUBSET DOMAIN refs, s # {}
    PROVE  /\ IsRefs(boxes, Only(refs, s)) /\ DOMAIN Only(refs, s) = s
           /\ \A i \in s : Only(refs, s)[i] = refs[i]
    BY DEF IsRefs, Only

\* The halves of a node.
LEMMA HalvesCover ==
    ASSUME NEW boxes \in Seq(AllBoxes), NEW refs, IsRefs(boxes, refs), NEW key,
           NEW parts \in Halves(refs, key), Cardinality(DOMAIN refs) >= 2
    PROVE  /\ parts = <<parts[1], parts[2]>>
           /\ \A side \in 1..2 :
                  /\ IsRefs(boxes, parts[side]) /\ DOMAIN parts[side] \subseteq DOMAIN refs
                  /\ 2 * Cardinality(DOMAIN parts[side]) <= Cardinality(DOMAIN refs) + 1
           /\ Covers(parts, refs, DOMAIN refs)
<1> DEFINE D == DOMAIN refs
           n == Cardinality(D)
<1>1. IsFiniteSet(D) /\ n \in Nat
    BY RefsAreFinite
<1>2. PICK low \in SUBSET D :
              /\ Cardinality(low) = n \div 2
              /\ parts = <<Only(refs, low), Only(refs, D \ low)>>
    BY DEF Halves, kSubset
<1>3. IsFiniteSet(low) /\ IsFiniteSet(D \ low) /\ Cardinality(D \ low) \in Nat
    BY <1>1, FS_Subset, FS_CardinalityType
<1>4. Cardinality(D) = Cardinality(low) + Cardinality(D \ low)
    <2>1. Cardinality(low \cup (D \ low))
             = Cardinality(low) + Cardinality(D \ low) - Cardinality(low \cap (D \ low))
        BY <1>3, FS_Union
    <2>2. low \cup (D \ low) = D /\ low \cap (D \ low) = {}
        OBVIOUS
    <2>3. Cardinality(low) \in Nat
        BY <1>3, FS_CardinalityType
    <2> HIDE DEF D
    <2>4. Cardinality(D) = Cardinality(low) + Cardinality(D \ low) - 0
        BY <2>1, <2>2, FS_EmptySet
    <2> QED
        BY <1>3, <2>3, <2>4
<1> DEFINE p == Cardinality(low)
           q == Cardinality(D \ low)
<1>5. p >= 1 /\ q >= 1 /\ 2 * p <= n + 1 /\ 2 * q <= n + 1
    <2>1. p = n \div 2 /\ n = p + q /\ n >= 2 /\ n \in Nat /\ q \in Nat
        BY <1>1, <1>2, <1>3, <1>4
    <2> HIDE DEF n, p, q
    <2>2. 2 * (n \div 2) <= n /\ n <= 2 * (n \div 2) + 1 /\ n \div 2 \in Int
        BY <2>1
    <2> QED
        BY <2>1, <2>2
<1>6. low # {} /\ D \ low # {}
    <2>1. p # 0 /\ q # 0
        <3> HIDE DEF p, q, n
        <3> QED
            BY <1>5
    <2> HIDE DEF D
    <2> QED
        BY <2>1, FS_EmptySet
<1>7. /\ IsRefs(boxes, parts[1]) /\ DOMAIN parts[1] = low
      /\ \A i \in low : parts[1][i] = refs[i]
      /\ IsRefs(boxes, parts[2]) /\ DOMAIN parts[2] = D \ low
      /\ \A i \in D \ low : parts[2][i] = refs[i]
    <2>1. parts[1] = Only(refs, low) /\ parts[2] = Only(refs, D \ low)
        BY <1>2
    <2>2. low \in SUBSET D /\ D \ low \in SUBSET D
        OBVIOUS
    <2> QED
        BY <1>6, <2>1, <2>2, OnlyRefs
<1>8. parts = <<parts[1], parts[2]>> /\ DOMAIN parts = 1..2
    BY <1>2
<1>9. Covers(parts, refs, D)
    <2> SUFFICES ASSUME NEW i \in D, NEW x \in [Axes -> Int], Encloses(refs[i], x)
                 PROVE  \E side \in 1..2 :
                            i \in DOMAIN parts[side] /\ Encloses(parts[side][i], x)
        BY <1>8 DEF Covers
    <2>1. CASE i \in low
        BY <1>7, <2>1
    <2>2. CASE i \notin low
        BY <1>7, <2>2
    <2> QED
        BY <2>1, <2>2
<1>10. \A side \in 1..2 : side = 1 \/ side = 2
    OBVIOUS
<1>11. Cardinality(DOMAIN parts[1]) = p /\ Cardinality(DOMAIN parts[2]) = q
    BY <1>7
<1> HIDE DEF p, q
<1>12. \A side \in 1..2 : /\ IsRefs(boxes, parts[side]) /\ DOMAIN parts[side] \subseteq D
                          /\ 2 * Cardinality(DOMAIN parts[side]) <= n + 1
    BY <1>5, <1>7, <1>10, <1>11
<1> QED
    BY <1>8, <1>9, <1>12
-----------------------------------------------------------------------------
(* Splits by a plane.                                                      *)

\* A box that is cut off, or extended, at a plane.
LEMMA BoxUpTo ==
    ASSUME NEW box \in AllBoxes, NEW a \in Axes, NEW p \in Int, box.lo[a] < p
    PROVE  /\ [box EXCEPT !.hi[a] = p] \in AllBoxes
           /\ [box EXCEPT !.hi[a] = p].lo = box.lo
           /\ \A c \in Axes : [box EXCEPT !.hi[a] = p].hi[c] = IF c = a THEN p ELSE box.hi[c]
           /\ Solid(box) => Solid([box EXCEPT !.hi[a] = p])
<1> DEFINE cut == [box EXCEPT !.hi[a] = p]
<1>1. /\ box \in [lo : [Axes -> Int], hi : [Axes -> Int]]
      /\ \A c \in Axes : box.lo[c] \in Int /\ box.hi[c] \in Int /\ box.lo[c] <= box.hi[c]
    BY DEF AllBoxes
<1>2. cut = [lo |-> box.lo, hi |-> [c \in Axes |-> IF c = a THEN p ELSE box.hi[c]]]
    BY <1>1
<1> HIDE DEF cut
<1>3. /\ cut = [lo |-> cut.lo, hi |-> cut.hi] /\ cut.lo = box.lo
      /\ cut.hi = [c \in Axes |-> IF c = a THEN p ELSE box.hi[c]]
    BY <1>2
<1>4. \A c \in Axes : cut.hi[c] = IF c = a THEN p ELSE box.hi[c]
    BY <1>3
<1>5. \A c \in Axes : cut.lo[c] \in Int /\ cut.hi[c] \in Int /\ cut.lo[c] <= cut.hi[c]
    BY <1>1, <1>3, <1>4
<1>6. cut.lo \in [Axes -> Int] /\ cut.hi \in [Axes -> Int]
    BY <1>1, <1>3, <1>5
<1>7. cut \in AllBoxes
    BY <1>3, <1>5, <1>6 DEF AllBoxes
<1>8. Solid(box) => Solid(cut)
    <2> SUFFICES ASSUME Solid(box), NEW c \in Axes PROVE cut.hi[c] - cut.lo[c] > 0
        BY DEF Solid, Extent
    <2>1. box.hi[c] - box.lo[c] > 0
        BY DEF Solid, Extent
    <2> QED
        BY <1>1, <1>3, <1>4, <2>1
<1> QED
    BY <1>3, <1>4, <1>7, <1>8 DEF cut

LEMMA BoxFrom ==
    ASSUME NEW box \in AllBoxes, NEW a \in Axes, NEW p \in Int, p < box.hi[a]
    PROVE  /\ [box EXCEPT !.lo[a] = p] \in AllBoxes
           /\ [box EXCEPT !.lo[a] = p].hi = box.hi
           /\ \A c \in Axes : [box EXCEPT !.lo[a] = p].lo[c] = IF c = a THEN p ELSE box.lo[c]
           /\ Solid(box) => Solid([box EXCEPT !.lo[a] = p])
<1> DEFINE cut == [box EXCEPT !.lo[a] = p]
<1>1. /\ box \in [lo : [Axes -> Int], hi : [Axes -> Int]]
      /\ \A c \in Axes : box.lo[c] \in Int /\ box.hi[c] \in Int /\ box.lo[c] <= box.hi[c]
    BY DEF AllBoxes
<1>2. cut = [lo |-> [c \in Axes |-> IF c = a THEN p ELSE box.lo[c]], hi |-> box.hi]
    BY <1>1
<1> HIDE DEF cut
<1>3. /\ cut = [lo |-> cut.lo, hi |-> cut.hi] /\ cut.hi = box.hi
      /\ cut.lo = [c \in Axes |-> IF c = a THEN p ELSE box.lo[c]]
    BY <1>2
<1>4. \A c \in Axes : cut.lo[c] = IF c = a THEN p ELSE box.lo[c]
    BY <1>3
<1>5. \A c \in Axes : cut.lo[c] \in Int /\ cut.hi[c] \in Int /\ cut.lo[c] <= cut.hi[c]
    BY <1>1, <1>3, <1>4
<1>6. cut.lo \in [Axes -> Int] /\ cut.hi \in [Axes -> Int]
    BY <1>1, <1>3, <1>5
<1>7. cut \in AllBoxes
    BY <1>3, <1>5, <1>6 DEF AllBoxes
<1>8. Solid(box) => Solid(cut)
    <2> SUFFICES ASSUME Solid(box), NEW c \in Axes PROVE cut.hi[c] - cut.lo[c] > 0
        BY DEF Solid, Extent
    <2>1. box.hi[c] - box.lo[c] > 0
        BY DEF Solid, Extent
    <2> QED
        BY <1>1, <1>3, <1>4, <2>1
<1> QED
    BY <1>3, <1>4, <1>7, <1>8 DEF cut

PlaneSplits == [axis : Axes, bin : 1..SplitBins - 1]

LEMMA PositionIsInteger ==
    ASSUME NEW box \in AllBoxes, NEW split \in PlaneSplits
    PROVE  Position(box, split) \in Int
<1> DEFINE a == split.axis
           low == box.lo[a]
           high == box.hi[a]
           bin == split.bin
<1>1. a \in Axes /\ bin \in 1..SplitBins - 1
    BY DEF PlaneSplits
<1>2. SplitBins \in Nat \ {0, 1}
    BY TreeAssumption
<1>3. low \in Int /\ high \in Int
    BY <1>1 DEF AllBoxes
<1>4. Position(box, split) = low + ((high - low) * bin) \div SplitBins
    BY DEF Position, Extent
<1> HIDE DEF low, high, bin, a
<1>5. (high - low) * bin \in Int
    BY <1>1, <1>2, <1>3
<1> DEFINE reach == (high - low) * bin
<1> HIDE DEF reach
<1>6. reach \div SplitBins \in Int
    BY <1>2, <1>5 DEF reach
<1> QED
    BY <1>3, <1>4, <1>6 DEF reach

\* A plane leaves no triangle out, unless it is flat and lies in the plane.
LEMMA SplitCovers ==
    ASSUME NEW boxes \in Seq(AllBoxes), NEW refs, IsRefs(boxes, refs),
           NEW split \in PlaneSplits,
           DOMAIN SplitParts(refs, split)[1] # {}, DOMAIN SplitParts(refs, split)[2] # {}
    PROVE  /\ SplitParts(refs, split) =
                  <<SplitParts(refs, split)[1], SplitParts(refs, split)[2]>>
           /\ \A side \in 1..2 :
                  /\ IsRefs(boxes, SplitParts(refs, split)[side])
                  /\ DOMAIN SplitParts(refs, split)[side] \subseteq DOMAIN refs
           /\ Covers(SplitParts(refs, split), refs, {i \in DOMAIN boxes : Solid(boxes[i])})
<1> DEFINE a == split.axis
           p == Position(Bounds(refs), split)
           left == {i \in DOMAIN refs : refs[i].lo[a] < p}
           right == {i \in DOMAIN refs : refs[i].hi[a] > p}
           lower == [i \in left |-> [refs[i] EXCEPT !.hi[a] = p]]
           upper == [i \in right |-> [refs[i] EXCEPT !.lo[a] = p]]
           parts == SplitParts(refs, split)
<1>1. parts = <<lower, upper>>
    BY DEF SplitParts
<1>2. a \in Axes /\ p \in Int
    BY BoundsContain, PositionIsInteger DEF PlaneSplits
<1>3. /\ \A i \in DOMAIN refs : refs[i] \in AllBoxes /\ (Solid(boxes[i]) => Solid(refs[i]))
      /\ DOMAIN refs \subseteq DOMAIN boxes
    BY DEF IsRefs
<1>4. DOMAIN lower = left /\ DOMAIN upper = right /\ parts[1] = lower /\ parts[2] = upper
    BY <1>1
<1>5. ASSUME NEW i \in left
      PROVE  /\ lower[i] \in AllBoxes /\ lower[i].lo = refs[i].lo
             /\ \A c \in Axes : lower[i].hi[c] = IF c = a THEN p ELSE refs[i].hi[c]
             /\ Solid(refs[i]) => Solid(lower[i])
    <2>1. lower[i] = [refs[i] EXCEPT !.hi[a] = p]
        OBVIOUS
    <2>2. refs[i] \in AllBoxes /\ refs[i].lo[a] < p
        BY <1>3
    <2> DEFINE box == refs[i]
    <2>3. box \in AllBoxes /\ box.lo[a] < p
        BY <2>2
    <2> HIDE DEF p, a, box
    <2>4. /\ [box EXCEPT !.hi[a] = p] \in AllBoxes
          /\ [box EXCEPT !.hi[a] = p].lo = box.lo
          /\ \A c \in Axes : [box EXCEPT !.hi[a] = p].hi[c] = IF c = a THEN p ELSE box.hi[c]
          /\ Solid(box) => Solid([box EXCEPT !.hi[a] = p])
        BY <1>2, <2>3, BoxUpTo
    <2>5. lower[i] = [box EXCEPT !.hi[a] = p]
        BY <2>1 DEF box
    <2> HIDE DEF lower
    <2> QED
        BY <2>4, <2>5 DEF box
<1>6. ASSUME NEW i \in right
      PROVE  /\ upper[i] \in AllBoxes /\ upper[i].hi = refs[i].hi
             /\ \A c \in Axes : upper[i].lo[c] = IF c = a THEN p ELSE refs[i].lo[c]
             /\ Solid(refs[i]) => Solid(upper[i])
    <2>1. upper[i] = [refs[i] EXCEPT !.lo[a] = p]
        OBVIOUS
    <2>2. refs[i] \in AllBoxes /\ refs[i].hi[a] > p /\ refs[i].hi[a] \in Int
        BY <1>2, <1>3 DEF AllBoxes
    <2> DEFINE box == refs[i]
    <2>3. box \in AllBoxes /\ box.hi[a] > p /\ box.hi[a] \in Int
        BY <2>2
    <2> HIDE DEF p, a, box
    <2>4. p < box.hi[a]
        BY <1>2, <2>3
    <2>5. /\ [box EXCEPT !.lo[a] = p] \in AllBoxes
          /\ [box EXCEPT !.lo[a] = p].hi = box.hi
          /\ \A c \in Axes : [box EXCEPT !.lo[a] = p].lo[c] = IF c = a THEN p ELSE box.lo[c]
          /\ Solid(box) => Solid([box EXCEPT !.lo[a] = p])
        BY <1>2, <2>3, <2>4, BoxFrom
    <2>6. upper[i] = [box EXCEPT !.lo[a] = p]
        BY <2>1 DEF box
    <2> HIDE DEF upper
    <2> QED
        BY <2>5, <2>6 DEF box
<1>7. left \subseteq DOMAIN refs /\ right \subseteq DOMAIN refs
    OBVIOUS
<1>8. left # {} /\ right # {}
    BY <1>4
<1>9. IsRefs(boxes, lower) /\ IsRefs(boxes, upper)
    <2> HIDE DEF lower, upper, left, right
    <2> QED
        BY <1>3, <1>4, <1>5, <1>6, <1>7, <1>8 DEF IsRefs
<1>10. ASSUME NEW i \in DOMAIN refs, Solid(boxes[i]), NEW x \in [Axes -> Int],
              Encloses(refs[i], x)
       PROVE  (i \in left /\ Encloses(lower[i], x)) \/ (i \in right /\ Encloses(upper[i], x))
    <2>1. /\ \A c \in Axes : refs[i].lo[c] \in Int /\ refs[i].hi[c] \in Int /\ x[c] \in Int
          /\ \A c \in Axes : refs[i].lo[c] <= x[c] /\ x[c] <= refs[i].hi[c]
        <3>1. refs[i] \in AllBoxes
            BY <1>3
        <3>2. \A c \in Axes : refs[i].lo[c] \in Int /\ refs[i].hi[c] \in Int
            BY <3>1 DEF AllBoxes
        <3>3. \A c \in Axes : refs[i].lo[c] <= x[c] /\ x[c] <= refs[i].hi[c]
            BY <1>10 DEF Encloses
        <3> QED
            BY <3>2, <3>3
    <2>2. refs[i].hi[a] - refs[i].lo[a] > 0
        BY <1>2, <1>3, <1>10 DEF Solid, Extent
    <2> DEFINE low == refs[i].lo[a]
               high == refs[i].hi[a]
    <2>3. (i \in left <=> low < p) /\ (i \in right <=> high > p)
        OBVIOUS
    <2>4. (low < p /\ x[a] <= p) \/ (high > p /\ p <= x[a])
        <3>1. low \in Int /\ high \in Int /\ x[a] \in Int
              /\ low <= x[a] /\ x[a] <= high /\ high - low > 0
            BY <1>2, <2>1, <2>2
        <3> HIDE DEF low, high, p, a
        <3> QED
            BY <1>2, <3>1
    <2>5. CASE low < p /\ x[a] <= p
        <3>1. i \in left
            BY <2>3, <2>5
        <3> HIDE DEF low, lower, left, p
        <3>2. \A c \in Axes : lower[i].lo[c] <= x[c] /\ x[c] <= lower[i].hi[c]
            BY <1>5, <2>1, <2>5, <3>1
        <3> QED
            BY <3>1, <3>2 DEF Encloses
    <2>6. CASE high > p /\ p <= x[a]
        <3>1. i \in right
            BY <2>3, <2>6
        <3> HIDE DEF high, upper, right, p
        <3>2. \A c \in Axes : upper[i].lo[c] <= x[c] /\ x[c] <= upper[i].hi[c]
            BY <1>6, <2>1, <2>6, <3>1
        <3> QED
            BY <3>1, <3>2 DEF Encloses
    <2> QED
        BY <2>4, <2>5, <2>6
<1> HIDE DEF lower, upper, left, right
<1>11. DOMAIN <<lower, upper>> = 1..2
    OBVIOUS
<1>12. Covers(parts, refs, {i \in DOMAIN boxes : Solid(boxes[i])})
    <2> SUFFICES ASSUME NEW i \in DOMAIN refs, Solid(boxes[i]),
                        NEW x \in [Axes -> Int], Encloses(refs[i], x)
                 PROVE  \E side \in DOMAIN parts :
                            i \in DOMAIN parts[side] /\ Encloses(parts[side][i], x)
        BY DEF Covers
    <2>1. DOMAIN parts = 1..2
        BY <1>1, <1>11
    <2> HIDE DEF parts
    <2> QED
        BY <1>4, <1>10, <2>1
<1>13. \A side \in 1..2 : IsRefs(boxes, parts[side]) /\ DOMAIN parts[side] \subseteq DOMAIN refs
    <2>1. \A side \in 1..2 : side = 1 \/ side = 2
        OBVIOUS
    <2> HIDE DEF parts
    <2> QED
        BY <1>4, <1>7, <1>9, <2>1
<1>14. parts = <<parts[1], parts[2]>>
    BY <1>1, <1>4
<1> QED
    BY <1>12, <1>13, <1>14

LEMMA WeightIsInteger ==
    ASSUME NEW boxes \in Seq(AllBoxes), NEW refs, IsRefs(boxes, refs)
    PROVE  Weight(refs) \in Int
<1> DEFINE box == Bounds(refs)
           n == Cardinality(DOMAIN refs)
           e(a) == Extent(box, a)
           area == 2 * (e(1) * e(2) + e(2) * e(3) + e(3) * e(1))
<1>1. e(1) \in Int /\ e(2) \in Int /\ e(3) \in Int
    <2>1. \A a \in Axes : box.hi[a] \in Int /\ box.lo[a] \in Int
        BY BoundsContain DEF AllBoxes
    <2>2. 1 \in Axes /\ 2 \in Axes /\ 3 \in Axes
        BY DEF Axes
    <2> QED
        BY <2>1, <2>2 DEF Extent
<1>2. n \in Int
    BY RefsAreFinite
<1>3. Weight(refs) = area * n
    BY DEF Weight, SurfaceArea
<1>4. area \in Int
    <2> HIDE DEF e
    <2>1. e(1) * e(2) \in Int /\ e(2) * e(3) \in Int /\ e(3) * e(1) \in Int
        BY <1>1
    <2> QED
        BY <2>1
<1> HIDE DEF area, n
<1> QED
    BY <1>2, <1>3, <1>4

\* There is a best split if there is one.
LEMMA BestSplitIsOne ==
    ASSUME NEW boxes \in Seq(AllBoxes), NEW refs, IsRefs(boxes, refs), Splits(refs) # {}
    PROVE  BestSplit(refs) \in Splits(refs)
<1> DEFINE cost(split) == SplitCost(refs, split)
           place(split) == SplitBins * split.axis + split.bin
<1>1. Splits(refs) \subseteq PlaneSplits
    BY DEF Splits, PlaneSplits
<1>2. \A split \in Splits(refs) : cost(split) \in Int
    <2> SUFFICES ASSUME NEW split \in Splits(refs) PROVE cost(split) \in Int
        OBVIOUS
    <2>1. split \in PlaneSplits
        BY <1>1
    <2>2. DOMAIN SplitParts(refs, split)[1] # {} /\ DOMAIN SplitParts(refs, split)[2] # {}
        BY DEF Splits
    <2>3. 1 \in 1..2 /\ 2 \in 1..2
        OBVIOUS
    <2>4. IsRefs(boxes, SplitParts(refs, split)[1]) /\ IsRefs(boxes, SplitParts(refs, split)[2])
        BY <2>1, <2>2, <2>3, SplitCovers
    <2>5. Weight(SplitParts(refs, split)[1]) \in Int
          /\ Weight(SplitParts(refs, split)[2]) \in Int
        BY <2>4, WeightIsInteger
    <2> QED
        BY <2>5 DEF SplitCost
<1>3. \A split \in Splits(refs) : place(split) \in Int
    <2> SUFFICES ASSUME NEW split \in Splits(refs) PROVE place(split) \in Int
        OBVIOUS
    <2>1. split.axis \in 1..3 /\ split.bin \in 1..SplitBins - 1 /\ SplitBins \in Nat
        BY <1>1, TreeAssumption DEF PlaneSplits, Axes
    <2> QED
        BY <2>1
<1>4. IsFiniteSet(Splits(refs))
    <2>1. SplitBins \in Nat /\ IsFiniteSet(1..SplitBins - 1) /\ IsFiniteSet(1..3)
        <3>1. SplitBins \in Nat
            BY TreeAssumption
        <3>2. SplitBins - 1 \in Int /\ 1 \in Int /\ 3 \in Int
            BY <3>1
        <3> QED
            BY <3>1, <3>2, FS_Interval
    <2> DEFINE B == 1..SplitBins - 1
               f == [pair \in Axes \X B |-> [axis |-> pair[1], bin |-> pair[2]]]
    <2>2. f \in Surjection(Axes \X B, PlaneSplits)
        <3>1. f \in [Axes \X B -> PlaneSplits]
            BY DEF PlaneSplits
        <3>2. ASSUME NEW split \in PlaneSplits PROVE \E pair \in Axes \X B : f[pair] = split
            <4>1. <<split.axis, split.bin>> \in Axes \X B
                BY DEF PlaneSplits
            <4>2. f[<<split.axis, split.bin>>] = split
                BY <4>1 DEF PlaneSplits
            <4> QED
                BY <4>1, <4>2
        <3> QED
            BY <3>1, <3>2 DEF Surjection
    <2>3. IsFiniteSet(Axes \X B)
        BY <2>1, FS_Product DEF Axes
    <2>4. IsFiniteSet(PlaneSplits)
        <3> HIDE DEF f, B
        <3> QED
            BY <2>2, <2>3, FS_Surjection
    <2> QED
        BY <1>1, <2>4, FS_Subset
<1> DEFINE costs == {cost(split) : split \in Splits(refs)}
           least == Min(costs)
           cheap == {split \in Splits(refs) : cost(split) = least}
           places == {place(split) : split \in cheap}
           first == Min(places)
<1> HIDE DEF cost, place
<1>5. least \in costs /\ \A c \in costs : least <= c
    <2>1. IsFiniteSet(costs)
        <3> DEFINE f == [split \in Splits(refs) |-> cost(split)]
        <3>1. f \in Surjection(Splits(refs), costs)
            BY DEF Surjection
        <3> HIDE DEF f, costs
        <3> QED
            BY <1>4, <3>1, FS_Surjection
    <2>2. costs # {} /\ costs \subseteq Int
        BY <1>2
    <2> HIDE DEF costs
    <2> QED
        BY <2>1, <2>2, ExtremesOf
<1>6. first \in places /\ \A c \in places : first <= c
    <2>1. IsFiniteSet(cheap)
        BY <1>4, FS_Subset
    <2>2. IsFiniteSet(places)
        <3> DEFINE f == [split \in cheap |-> place(split)]
        <3>1. f \in Surjection(cheap, places)
            BY DEF Surjection
        <3> HIDE DEF f, places, cheap
        <3> QED
            BY <2>1, <3>1, FS_Surjection
    <2>3. places # {} /\ places \subseteq Int
        <3>1. \E split \in Splits(refs) : cost(split) = least
            <4> HIDE DEF least
            <4> QED
                BY <1>5
        <3> HIDE DEF least
        <3> QED
            BY <1>3, <3>1
    <2> HIDE DEF places
    <2> QED
        BY <2>2, <2>3, ExtremesOf
<1>7. PICK split \in cheap : place(split) = first
    <2> HIDE DEF first, cheap
    <2> QED
        BY <1>6
<1>8. \A other \in Splits(refs) :
          \/ cost(split) < cost(other)
          \/ cost(split) = cost(other) /\ place(split) <= place(other)
    <2> SUFFICES ASSUME NEW other \in Splits(refs)
                 PROVE  \/ cost(split) < cost(other)
                        \/ cost(split) = cost(other) /\ place(split) <= place(other)
        OBVIOUS
    <2>1. cost(split) = least /\ split \in Splits(refs) /\ least \in Int
        <3> HIDE DEF least
        <3> QED
            BY <1>2, <1>7
    <2>2. least <= cost(other)
        <3> HIDE DEF least
        <3> QED
            BY <1>5
    <2>3. cost(other) = least => place(split) <= place(other)
        <3>1. cost(other) = least => place(other) \in places
            <4> HIDE DEF least
            <4> QED
                OBVIOUS
        <3> HIDE DEF least, first, places
        <3> QED
            BY <1>6, <1>7, <3>1
    <2>4. cost(other) \in Int
        BY <1>2
    <2> HIDE DEF least
    <2> QED
        BY <2>1, <2>2, <2>3, <2>4
<1>9. split \in Splits(refs)
    <2> HIDE DEF least
    <2> QED
        BY <1>7
<1> QED
    BY <1>8, <1>9 DEF BestSplit, cost, place
-----------------------------------------------------------------------------
(* What a builder makes of a node's references.                            *)

\* The leaves of a tree double with each level.
LEMMA LeavesDouble ==
    /\ Leaves[0] = 1
    /\ \A n \in 1..StackSize : Leaves[n] = 2 * Leaves[n - 1]
    /\ \A n \in 0..StackSize : Leaves[n] \in Nat \ {0}
<1> DEFINE m == StackSize
           step == [a \in Nat \X Nat |-> 2 * a[2]]
           Doubles(f) == f = [n \in 0..m |-> IF n = 0 THEN 1 ELSE 2 * f[n - 1]]
           chosen == CHOOSE f : Doubles(f)
<1>1. m \in Nat
    BY TreeAssumption
<1>2. step \in [Nat \X Nat -> Nat]
    OBVIOUS
<1>3. PICK h \in [0..m -> Nat] : \A n \in 0..m : h[n] =
                          IF n = 0 THEN 1 ELSE step[<<n, h[n - 1]>>]
    <2> HIDE DEF m, step
    <2>1. IsSolvable(m, Nat, 1, step)
        BY <1>1, <1>2, Recursion
    <2> QED
        BY <2>1 DEF IsSolvable
<1>4. Doubles(h)
    <2> HIDE DEF m
    <2>1. ASSUME NEW n \in 0..m PROVE h[n] = IF n = 0 THEN 1 ELSE 2 * h[n - 1]
        <3>1. CASE n = 0
            BY <1>3, <3>1
        <3>2. CASE n # 0
            <4>1. n - 1 \in 0..m /\ n \in Nat
                BY <1>1, <3>2
            <4>2. <<n, h[n - 1]>> \in Nat \X Nat
                BY <4>1
            <4>3. step[<<n, h[n - 1]>>] = 2 * h[n - 1]
                BY <4>2
            <4> QED
                BY <1>3, <3>2, <4>3
        <3> QED
            BY <3>1, <3>2
    <2> QED
        BY <2>1
<1>5. Doubles(chosen)
    <2> HIDE DEF Doubles
    <2> QED
        BY <1>4
<1>6. Leaves = chosen
    BY DEF Leaves
<1> HIDE DEF chosen, m
<1>7. \A n \in 0..m : Leaves[n] = IF n = 0 THEN 1 ELSE 2 * Leaves[n - 1]
    BY <1>5, <1>6
<1>8. Leaves[0] = 1 /\ \A n \in 1..m : Leaves[n] = 2 * Leaves[n - 1]
    <2>1. 0 \in 0..m /\ \A n \in 1..m : n \in 0..m /\ n # 0
        BY <1>1
    <2> QED
        BY <1>7, <2>1
<1> DEFINE Good == {n \in Nat : n \in 0..m => Leaves[n] \in Nat \ {0}}
<1>9. 0 \in Good
    BY <1>8
<1>10. ASSUME NEW n \in Nat, n \in Good PROVE n + 1 \in Good
    <2> SUFFICES ASSUME n + 1 \in 0..m PROVE Leaves[n + 1] \in Nat \ {0}
        OBVIOUS
    <2>1. n \in 0..m /\ n + 1 \in 1..m /\ n + 1 - 1 = n
        BY <1>1
    <2>2. Leaves[n + 1] = 2 * Leaves[n]
        BY <1>8, <2>1
    <2>3. Leaves[n] \in Nat \ {0}
        BY <1>10, <2>1
    <2> QED
        BY <2>2, <2>3
<1>11. Nat \subseteq Good
    <2> HIDE DEF Good
    <2> QED
        BY <1>9, <1>10, Induction
<1>12. \A n \in 0..m : Leaves[n] \in Nat \ {0}
    BY <1>1, <1>11
<1> QED
    BY <1>8, <1>12 DEF m

\* A finite set as a sequence.
LEMMA SetListed ==
    ASSUME NEW S, IsFiniteSet(S)
    PROVE  /\ Cardinality(S) \in Nat /\ Len(SetToSeq(S)) = Cardinality(S)
           /\ SetToSeq(S) \in Seq(S) /\ ToSet(SetToSeq(S)) = S
<1> DEFINE n == Cardinality(S)
           s == SetToSeq(S)
<1>1. n \in Nat /\ ExistsBijection(1..n, S)
    BY FS_CardinalityType
<1>2. \E f \in [1..n -> S] : IsInjective(f)
    BY <1>1 DEF ExistsBijection, Bijection, Injection
<1>3. s \in [1..n -> S] /\ IsInjective(s)
    BY <1>2 DEF SetToSeq
<1> HIDE DEF s
<1>4. s \in Injection(1..n, S)
    BY <1>3 DEF Injection
<1>5. IsFiniteSet(1..n) /\ Cardinality(1..n) = n
    <2> HIDE DEF n
    <2>1. n \in Int /\ 1 \in Int
        BY <1>1
    <2>2. IsFiniteSet(1..n) /\ Cardinality(1..n) = IF 1 > n THEN 0 ELSE n - 1 + 1
        BY <2>1, FS_Interval
    <2> QED
        BY <1>1, <2>2
<1>6. s \in Surjection(1..n, S)
    <2>1. Cardinality(1..n) = Cardinality(S)
        BY <1>5
    <2> QED
        BY <1>4, <2>1, FS_Injection
<1>7. ToSet(s) = S
    BY <1>3, <1>6 DEF ToSet, Surjection
<1>8. s \in Seq(S) /\ Len(s) = n
    <2> HIDE DEF n
    <2> QED
        BY <1>1, <1>3
<1> QED
    BY <1>1, <1>7, <1>8 DEF s

\* Sets that part a finite set leave, besides one of them, an element for each other one.
LEMMA PartsAreFew ==
    ASSUME NEW D, IsFiniteSet(D), NEW p \in SUBSET (SUBSET D), {} \notin p, IsFiniteSet(p),
           \A s, t \in p : s = t \/ s \cap t = {}, NEW s \in p
    PROVE  Cardinality(s) + Cardinality(p) - 1 <= Cardinality(D)
<1> DEFINE others == p \ {s}
           rest == D \ s
           f == [t \in others |-> CHOOSE x \in t : TRUE]
<1>1. ASSUME NEW t \in others PROVE f[t] \in t /\ f[t] \in rest
    <2>1. t # {} /\ t \cap s = {} /\ t \subseteq D
        <3>1. t \in p /\ t # s /\ t # {}
            OBVIOUS
        <3>2. t \cap s = {}
            <4>1. t = s \/ t \cap s = {}
                BY <3>1
            <4> QED
                BY <3>1, <4>1
        <3>3. t \in SUBSET D
            BY <3>1
        <3> QED
            BY <3>1, <3>2, <3>3
    <2>2. f[t] \in t
        BY <2>1
    <2> QED
        BY <2>1, <2>2
<1>2. f \in Injection(others, rest)
    <2>1. f \in [others -> rest]
        BY <1>1
    <2>2. \A t, u \in others : f[t] = f[u] => t = u
        BY <1>1
    <2> QED
        BY <2>1, <2>2 DEF Injection, IsInjective
<1>3. IsFiniteSet(s) /\ IsFiniteSet(rest)
    <2>1. s \in SUBSET D /\ rest \in SUBSET D
        OBVIOUS
    <2> HIDE DEF rest
    <2> QED
        BY <2>1, FS_Subset
<1>4. Cardinality(others) <= Cardinality(rest)
    <2> HIDE DEF f, others, rest
    <2> QED
        BY <1>2, <1>3, FS_Injection
<1>5. Cardinality(others) = Cardinality(p) - 1
    BY FS_RemoveElement
<1>6. Cardinality(D) = Cardinality(s) + Cardinality(rest)
    <2>1. s \cup rest = D /\ s \cap rest = {}
        OBVIOUS
    <2>2. Cardinality(s) \in Nat /\ Cardinality(rest) \in Nat
        BY <1>3, FS_CardinalityType
    <2> HIDE DEF rest
    <2>3. Cardinality(s \cup rest) = Cardinality(s) + Cardinality(rest)
                                      - Cardinality(s \cap rest)
        BY <1>3, FS_Union
    <2>4. Cardinality(D) = Cardinality(s) + Cardinality(rest) - 0
        BY <2>1, <2>3, FS_EmptySet
    <2> QED
        BY <2>2, <2>4
<1>7. Cardinality(p) \in Nat /\ Cardinality(s) \in Nat /\ Cardinality(rest) \in Nat
    BY <1>3, FS_CardinalityType
<1> HIDE DEF rest, others
<1> QED
    BY <1>4, <1>5, <1>6, <1>7
-----------------------------------------------------------------------------
(* The depth of a node, and its room on the stack.                         *)

Wides(policy) == policy = "NexusBvh8"
OthersBinary(policy) == policy \notin {"MedianBvh", "SpatialSplitBvh", "NexusBvh8"}

\* A node is not too deep for its stack. (Of the eight-way trees it is asked that there
\* is room for all of their triangles.)
Fits(policy, boxes, refs, depth) ==
    /\ depth \in Nat
    /\ policy = "MedianBvh" =>
          /\ depth <= StackSize - 1
          /\ Cardinality(DOMAIN refs) <= MaxTrianglesPerLeaf * Leaves[StackSize - 1 - depth]
    /\ policy = "SpatialSplitBvh" => depth <= MaxBvhDepth
    /\ Wides(policy) => Len(boxes) <= WideStackSize
    /\ OthersBinary(policy) =>
          /\ depth <= MaxBvhDepth
          /\ depth = 0 \/ Cardinality(DOMAIN refs) <= Leaves[MaxBvhDepth - depth]

\* The last place on the stack a node may be at.
Slot(policy, boxes, refs, depth) ==
    IF Wides(policy) THEN Len(boxes) + 1 - Cardinality(DOMAIN refs) ELSE depth + 1

\* The triangles no builder loses.
KeptOf(policy, boxes) ==
    {i \in DOMAIN boxes : policy = "SpatialSplitBvh" => Solid(boxes[i])}

\* The parts lose no triangle, and there is room for all of them.
Divides(policy, boxes, refs, depth, parts) ==
    /\ parts = [side \in 1..Len(parts) |-> parts[side]]
    /\ Len(parts) \in Nat \ {0} /\ (~ Wides(policy) => Len(parts) = 2)
    /\ \A side \in 1..Len(parts) :
          /\ IsRefs(boxes, parts[side]) /\ Fits(policy, boxes, parts[side], depth + 1)
          /\ Slot(policy, boxes, refs, depth) + Len(parts) - 1
                <= Slot(policy, boxes, parts[side], depth + 1)
    /\ Covers(parts, refs, KeptOf(policy, boxes))

LEMMA FitsInStack ==
    ASSUME NEW boxes \in Seq(AllBoxes), NEW refs, IsRefs(boxes, refs), NEW policy, NEW depth,
           Fits(policy, boxes, refs, depth)
    PROVE  /\ Slot(policy, boxes, refs, depth) \in Int
           /\ Wides(policy) => Slot(policy, boxes, refs, depth) <= WideStackSize
           /\ ~ Wides(policy) => Slot(policy, boxes, refs, depth) <= StackSize
<1> DEFINE n == Cardinality(DOMAIN refs)
           m == Len(boxes)
<1>1. n \in Nat \ {0} /\ m \in Nat
    BY RefsAreFinite
<1>2. StackSize \in Nat /\ WideStackSize \in Nat
      /\ MaxBvhDepth \in Nat /\ MaxBvhDepth <= StackSize - 1
    BY TreeAssumption
<1>3. depth \in Nat
    BY DEF Fits
<1>4. CASE Wides(policy)
    <2>1. m <= WideStackSize
        BY <1>4 DEF Fits
    <2>2. Slot(policy, boxes, refs, depth) = m + 1 - n
        BY <1>4 DEF Slot
    <2> HIDE DEF m, n
    <2> QED
        BY <1>1, <1>2, <1>4, <2>1, <2>2
<1>5. CASE ~ Wides(policy)
    <2>1. Slot(policy, boxes, refs, depth) = depth + 1
        BY <1>5 DEF Slot
    <2>2. depth <= StackSize - 1 \/ depth <= MaxBvhDepth
        BY <1>5 DEF Fits, OthersBinary, Wides
    <2>3. depth + 1 <= StackSize /\ depth + 1 \in Int
        BY <1>2, <1>3, <2>2
    <2> QED
        BY <1>5, <2>1, <2>3
<1> QED
    BY <1>4, <1>5

\* Two parts of a binary tree's node.
LEMMA TwoDivide ==
    ASSUME NEW policy, NEW boxes, NEW refs, NEW depth \in Nat, NEW parts, ~ Wides(policy),
           parts = <<parts[1], parts[2]>>,
           \A side \in 1..2 :
               IsRefs(boxes, parts[side]) /\ Fits(policy, boxes, parts[side], depth + 1),
           Covers(parts, refs, KeptOf(policy, boxes))
    PROVE  Divides(policy, boxes, refs, depth, parts)
<1>1. Len(parts) = 2 /\ parts = [side \in 1..2 |-> parts[side]]
    <2> DEFINE p == parts[1]
               q == parts[2]
    <2>1. parts = <<p, q>>
        OBVIOUS
    <2> HIDE DEF p, q
    <2> QED
        BY <2>1
<1>2. \A side \in 1..2 : Slot(policy, boxes, refs, depth) + 2 - 1
                            <= Slot(policy, boxes, parts[side], depth + 1)
    BY DEF Slot
<1> QED
    BY <1>1, <1>2 DEF Divides

\* What covers all covers what is kept.
LEMMA CoversKept ==
    ASSUME NEW policy, NEW boxes, NEW refs, NEW parts, Covers(parts, refs, DOMAIN refs)
    PROVE  Covers(parts, refs, KeptOf(policy, boxes))
    BY DEF Covers

LEMMA MedianDivides ==
    ASSUME NEW boxes \in Seq(AllBoxes), NEW refs, IsRefs(boxes, refs), NEW depth, NEW centroid,
           Fits("MedianBvh", boxes, refs, depth), ~ IsLeaf("MedianBvh", refs, depth),
           NEW parts \in Parts("MedianBvh", refs, depth, centroid)
    PROVE  Divides("MedianBvh", boxes, refs, depth, parts)
<1> DEFINE n == Cardinality(DOMAIN refs)
           k == StackSize - 1 - depth
           m == MaxTrianglesPerLeaf
<1>1. n \in Nat /\ n > m /\ m \in Nat \ {0} /\ StackSize \in Nat
    BY RefsAreFinite, TreeAssumption DEF IsLeaf
<1>2. depth \in Nat /\ depth <= StackSize - 1 /\ n <= m * Leaves[k]
    BY DEF Fits
<1>3. k \in 1..StackSize
    <2>1. CASE k = 0
        <3>1. n <= m * 1
            BY <1>2, <2>1, LeavesDouble
        <3> HIDE DEF n, m
        <3>2. m * 1 = m
            BY <1>1
        <3> QED
            BY <1>1, <3>1, <3>2
    <2> QED
        BY <1>1, <1>2, <2>1
<1>4. n <= 2 * (m * Leaves[k - 1]) /\ m * Leaves[k - 1] \in Nat
    <2> DEFINE leaves == Leaves[k - 1]
    <2>1. Leaves[k] = 2 * leaves /\ leaves \in Nat
        <3>1. k - 1 \in 0..StackSize
            <4> HIDE DEF k
            <4> QED
                BY <1>1, <1>3
        <3> HIDE DEF k
        <3> QED
            BY <1>3, <3>1, LeavesDouble
    <2> HIDE DEF leaves, k, n, m
    <2>2. n <= m * (2 * leaves)
        BY <1>2, <2>1
    <2>3. m * (2 * leaves) = 2 * (m * leaves) /\ m * leaves \in Nat
        BY <1>1, <2>1
    <2> QED
        BY <2>2, <2>3 DEF leaves
<1>5. PICK key : parts \in Halves(refs, key)
    BY DEF Parts, MedianParts
<1>6. n >= 2
    <2> HIDE DEF n, m
    <2> QED
        BY <1>1
<1>7. /\ parts = <<parts[1], parts[2]>> /\ Covers(parts, refs, DOMAIN refs)
      /\ \A side \in 1..2 : /\ IsRefs(boxes, parts[side])
                            /\ 2 * Cardinality(DOMAIN parts[side]) <= n + 1
    BY <1>5, <1>6, HalvesCover
<1>8. ASSUME NEW side \in 1..2 PROVE Fits("MedianBvh", boxes, parts[side], depth + 1)
    <2> DEFINE c == Cardinality(DOMAIN parts[side])
               most == m * Leaves[k - 1]
    <2>1. c \in Nat /\ 2 * c <= n + 1
        BY <1>7, RefsAreFinite
    <2>2. c <= most
        <3> HIDE DEF c, most, n
        <3>1. n <= 2 * most /\ most \in Nat
            BY <1>4 DEF most
        <3> QED
            BY <1>1, <2>1, <3>1
    <2>3. StackSize - 1 - (depth + 1) = k - 1 /\ depth + 1 <= StackSize - 1 /\ depth + 1 \in Nat
        BY <1>1, <1>2, <1>3
    <2> QED
        BY <2>2, <2>3 DEF Fits, Wides, OthersBinary
<1> QED
    BY <1>2, <1>7, <1>8, CoversKept, TwoDivide DEF Wides

LEMMA SpatialDivides ==
    ASSUME NEW boxes \in Seq(AllBoxes), NEW refs, IsRefs(boxes, refs), NEW depth, NEW centroid,
           Fits("SpatialSplitBvh", boxes, refs, depth),
           ~ IsLeaf("SpatialSplitBvh", refs, depth),
           NEW parts \in Parts("SpatialSplitBvh", refs, depth, centroid)
    PROVE  Divides("SpatialSplitBvh", boxes, refs, depth, parts)
<1> DEFINE n == Cardinality(DOMAIN refs)
           policy == "SpatialSplitBvh"
<1>1. n \in Nat /\ n > MaxTrianglesPerLeaf /\ depth # MaxBvhDepth
    BY RefsAreFinite, TreeAssumption DEF IsLeaf
<1>2. n >= 2
    <2>1. MaxTrianglesPerLeaf \in Nat \ {0}
        BY TreeAssumption
    <2> HIDE DEF n
    <2> QED
        BY <1>1, <2>1
<1>3. depth \in Nat /\ depth + 1 \in Nat /\ depth + 1 <= MaxBvhDepth
    <2>1. depth \in Nat /\ depth <= MaxBvhDepth /\ MaxBvhDepth \in Nat
        BY TreeAssumption DEF Fits
    <2> QED
        BY <1>1, <2>1
<1>4. \A part : Fits(policy, boxes, part, depth + 1)
    BY <1>3 DEF Fits, Wides, OthersBinary
<1>5. ~ Wides(policy)
    BY DEF Wides
<1>6. CASE Splits(refs) # {} /\ SplitCost(refs, BestSplit(refs)) < Weight(refs)
    <2> DEFINE split == BestSplit(refs)
    <2>1. parts = SplitParts(refs, split)
        BY <1>6 DEF Parts, SpatialParts
    <2>2. split \in Splits(refs)
        BY <1>6, BestSplitIsOne
    <2> HIDE DEF split
    <2>3. split \in PlaneSplits
        BY <2>2 DEF Splits, PlaneSplits
    <2>4. DOMAIN parts[1] # {} /\ DOMAIN parts[2] # {}
        BY <2>1, <2>2 DEF Splits
    <2>5. /\ parts = <<parts[1], parts[2]>> /\ \A side \in 1..2 : IsRefs(boxes, parts[side])
          /\ Covers(parts, refs, {i \in DOMAIN boxes : Solid(boxes[i])})
        BY <2>1, <2>3, <2>4, SplitCovers
    <2>6. KeptOf(policy, boxes) = {i \in DOMAIN boxes : Solid(boxes[i])}
        BY DEF KeptOf
    <2> QED
        BY <1>3, <1>4, <1>5, <2>5, <2>6, TwoDivide
<1>7. CASE ~ (Splits(refs) # {} /\ SplitCost(refs, BestSplit(refs)) < Weight(refs))
    <2>1. PICK key : parts \in Halves(refs, key)
        BY <1>7 DEF Parts, SpatialParts
    <2>2. /\ parts = <<parts[1], parts[2]>> /\ Covers(parts, refs, DOMAIN refs)
          /\ \A side \in 1..2 : IsRefs(boxes, parts[side])
        BY <1>2, <2>1, HalvesCover
    <2> QED
        BY <1>3, <1>4, <1>5, <2>2, CoversKept, TwoDivide
<1> QED
    BY <1>6, <1>7

\* The sides of a division into some sets of triangles cover what they do.
LEMMA OthersDivide ==
    ASSUME NEW boxes \in Seq(AllBoxes), NEW refs, IsRefs(boxes, refs), NEW depth, NEW centroid,
           NEW policy, OthersBinary(policy),
           Fits(policy, boxes, refs, depth), ~ IsLeaf(policy, refs, depth),
           NEW parts \in Parts(policy, refs, depth, centroid)
    PROVE  Divides(policy, boxes, refs, depth, parts)
<1> DEFINE D == DOMAIN refs
           n == Cardinality(D)
           k == MaxBvhDepth - depth - 1
<1>1. n \in Nat \ {0} /\ IsFiniteSet(D)
    BY RefsAreFinite
<1>2. n # 1 /\ parts \in AnyParts(refs, depth)
    BY DEF IsLeaf, Parts, OthersBinary
<1>3. depth \in Nat /\ depth <= MaxBvhDepth /\ (depth = 0 \/ n <= Leaves[MaxBvhDepth - depth])
    BY DEF Fits
<1>4. MaxBvhDepth \in 1..StackSize - 1 /\ StackSize \in Nat
    BY TreeAssumption
<1>5. k \in 0..StackSize /\ depth + 1 \in Nat /\ depth + 1 <= MaxBvhDepth
      /\ MaxBvhDepth - (depth + 1) = k
    <2>1. CASE depth = MaxBvhDepth
        <3>1. depth # 0 /\ MaxBvhDepth - depth = 0
            BY <1>4, <2>1
        <3>2. n <= 1
            BY <1>3, <3>1, LeavesDouble
        <3> HIDE DEF n
        <3> QED
            BY <1>1, <1>2, <3>2
    <2> QED
        BY <1>3, <1>4, <2>1
<1> HIDE DEF k
<1>6. PICK s \in SUBSET D : /\ s # {} /\ s # D /\ parts = <<Only(refs, s), Only(refs, D \ s)>>
                            /\ Max({Cardinality(s), Cardinality(D \ s)}) <= Leaves[k]
    BY <1>2 DEF AnyParts, k
<1>7. Leaves[k] \in Nat
    BY <1>5, LeavesDouble
<1>8. s \in SUBSET D /\ D \ s \in SUBSET D /\ s # {} /\ D \ s # {}
    BY <1>6
<1>9. Cardinality(s) <= Leaves[k] /\ Cardinality(D \ s) <= Leaves[k]
    <2> DEFINE p == Cardinality(s)
               q == Cardinality(D \ s)
    <2>1. IsFiniteSet(s) /\ IsFiniteSet(D \ s)
        <3> HIDE DEF D
        <3> QED
            BY <1>1, <1>8, FS_Subset
    <2>2. p \in Nat /\ q \in Nat
        BY <2>1, FS_CardinalityType
    <2>3. Max({p, q}) <= Leaves[k]
        BY <1>6
    <2> HIDE DEF p, q
    <2>4. Max({p, q}) = IF p <= q THEN q ELSE p
        <3>1. p \in Int /\ q \in Int
            BY <2>2
        <3>2. /\ Min({p, q}) = IF p <= q THEN p ELSE q
              /\ Max({p, q}) = IF p <= q THEN q ELSE p
            BY <3>1, PairExtremes
        <3> QED
            BY <3>2
    <2>5. p <= Leaves[k] /\ q <= Leaves[k]
        BY <1>7, <2>2, <2>3, <2>4
    <2> QED
        BY <2>5 DEF p, q
<1> DEFINE first == Only(refs, s)
           second == Only(refs, D \ s)
<1>10. /\ IsRefs(boxes, first) /\ DOMAIN first = s /\ \A i \in s : first[i] = refs[i]
       /\ IsRefs(boxes, second) /\ DOMAIN second = D \ s /\ \A i \in D \ s : second[i] = refs[i]
    BY <1>8, OnlyRefs
<1> HIDE DEF first, second
<1>11. parts = <<first, second>>
    BY <1>6 DEF first, second
<1>12. parts[1] = first /\ parts[2] = second /\ DOMAIN parts = 1..2
    BY <1>11
<1>13. \A side \in 1..2 : side = 1 \/ side = 2
    OBVIOUS
<1>14. Covers(parts, refs, D)
    <2> SUFFICES ASSUME NEW i \in D, NEW x \in [Axes -> Int], Encloses(refs[i], x)
                 PROVE  \E side \in 1..2 :
                            i \in DOMAIN parts[side] /\ Encloses(parts[side][i], x)
        BY <1>12 DEF Covers
    <2>1. CASE i \in s
        BY <1>10, <1>12, <2>1
    <2>2. CASE i \notin s
        BY <1>10, <1>12, <2>2
    <2> QED
        BY <2>1, <2>2
<1>15. ~ Wides(policy) /\ policy # "MedianBvh" /\ policy # "SpatialSplitBvh"
    BY DEF Wides, OthersBinary
<1>16. Fits(policy, boxes, first, depth + 1) /\ Fits(policy, boxes, second, depth + 1)
    BY <1>5, <1>9, <1>10, <1>15 DEF Fits
<1>17. \A side \in 1..2 : IsRefs(boxes, parts[side])
                              /\ Fits(policy, boxes, parts[side], depth + 1)
    BY <1>10, <1>12, <1>13, <1>16
<1>18. Covers(parts, refs, KeptOf(policy, boxes))
    BY <1>14, CoversKept
<1> QED
    BY <1>3, <1>11, <1>12, <1>15, <1>17, <1>18, TwoDivide

LEMMA WideDivides ==
    ASSUME NEW boxes \in Seq(AllBoxes), NEW refs, IsRefs(boxes, refs), NEW depth, NEW centroid,
           Fits("NexusBvh8", boxes, refs, depth),
           NEW parts \in Parts("NexusBvh8", refs, depth, centroid)
    PROVE  Divides("NexusBvh8", boxes, refs, depth, parts)
<1> DEFINE D == DOMAIN refs
           n == Cardinality(D)
           policy == "NexusBvh8"
<1>1. n \in Nat \ {0} /\ IsFiniteSet(D) /\ D # {}
    BY RefsAreFinite DEF IsRefs
<1>2. PICK p : /\ p \in UNION {kSubset(k, (SUBSET D) \ {{}}) : k \in 2..Min({8, n})}
               /\ UNION p = D /\ \A s, t \in p : s = t \/ s \cap t = {}
               /\ parts = SetToSeq({Only(refs, s) : s \in p})
    BY DEF Parts, AnyWideParts
<1>3. p \in SUBSET (SUBSET D) /\ {} \notin p
    BY <1>2 DEF kSubset
<1>4. IsFiniteSet(p) /\ p # {}
    <2>1. IsFiniteSet(SUBSET D)
        <3> HIDE DEF D
        <3> QED
            BY <1>1, FS_SUBSET
    <2> HIDE DEF D
    <2>2. IsFiniteSet(p)
        BY <1>3, <2>1, FS_Subset
    <2> QED
        BY <1>1, <1>2, <2>2
<1> DEFINE Q == {Only(refs, s) : s \in p}
<1>5. IsFiniteSet(Q) /\ Cardinality(Q) <= Cardinality(p)
    <2> DEFINE f == [s \in p |-> Only(refs, s)]
    <2>1. f \in Surjection(p, Q)
        BY DEF Surjection
    <2> HIDE DEF f, Q
    <2> QED
        BY <1>4, <2>1, FS_Surjection
<1>6. /\ Cardinality(Q) \in Nat /\ Len(parts) = Cardinality(Q)
      /\ parts \in Seq(Q) /\ ToSet(parts) = Q
    <2>1. parts = SetToSeq(Q)
        BY <1>2
    <2> HIDE DEF Q
    <2> QED
        BY <1>5, <2>1, SetListed
<1>7. \A s \in p : /\ IsRefs(boxes, Only(refs, s)) /\ DOMAIN Only(refs, s) = s
                   /\ \A i \in s : Only(refs, s)[i] = refs[i]
    <2> SUFFICES ASSUME NEW s \in p
                 PROVE  /\ IsRefs(boxes, Only(refs, s)) /\ DOMAIN Only(refs, s) = s
                        /\ \A i \in s : Only(refs, s)[i] = refs[i]
        OBVIOUS
    <2>1. s \in SUBSET D /\ s # {}
        BY <1>3
    <2> QED
        BY <2>1, OnlyRefs
<1>8. /\ DOMAIN parts = 1..Len(parts) /\ Len(parts) \in Nat
      /\ parts = [side \in 1..Len(parts) |-> parts[side]]
    <2> HIDE DEF Q
    <2> QED
        BY <1>6
<1>9. \A side \in 1..Len(parts) : \E s \in p : parts[side] = Only(refs, s)
    <2>1. \A side \in 1..Len(parts) : parts[side] \in Q
        <3> HIDE DEF Q
        <3> QED
            BY <1>6
    <2> QED
        BY <2>1
<1>10. \A s \in p : \E side \in 1..Len(parts) : parts[side] = Only(refs, s)
    <2>1. \A part \in Q : \E side \in 1..Len(parts) : parts[side] = part
        <3> HIDE DEF Q
        <3> QED
            BY <1>6, <1>8 DEF ToSet
    <2> QED
        BY <2>1
<1>11. Len(parts) # 0
    BY <1>4, <1>8, <1>10
<1>12. ASSUME NEW side \in 1..Len(parts)
       PROVE  /\ IsRefs(boxes, parts[side]) /\ Fits(policy, boxes, parts[side], depth + 1)
              /\ Slot(policy, boxes, refs, depth) + Len(parts) - 1
                    <= Slot(policy, boxes, parts[side], depth + 1)
    <2>1. PICK s \in p : parts[side] = Only(refs, s)
        BY <1>9
    <2>2. IsRefs(boxes, parts[side]) /\ DOMAIN parts[side] = s
        BY <1>7, <2>1
    <2>3. Fits(policy, boxes, parts[side], depth + 1)
        <3>1. depth \in Nat /\ Len(boxes) <= WideStackSize
            BY DEF Fits, Wides
        <3>2. depth + 1 \in Nat
            BY <3>1
        <3> QED
            BY <3>1, <3>2 DEF Fits, Wides, OthersBinary
    <2> DEFINE c == Cardinality(s)
               q == Cardinality(p)
               l == Len(parts)
               m == Len(boxes)
    <2>4. c + q - 1 <= n
        <3> HIDE DEF D
        <3> QED
            BY <1>1, <1>2, <1>3, <1>4, PartsAreFew
    <2>5. c \in Nat /\ q \in Nat /\ l \in Nat /\ m \in Nat /\ l <= q
        <3>1. IsFiniteSet(s)
            <4>1. s \in SUBSET D
                BY <1>3
            <4> HIDE DEF D
            <4> QED
                BY <1>1, <4>1, FS_Subset
        <3>2. m \in Nat
            OBVIOUS
        <3> HIDE DEF Q
        <3> QED
            BY <1>4, <1>5, <1>6, <3>1, <3>2, FS_CardinalityType
    <2>6. /\ Slot(policy, boxes, refs, depth) = m + 1 - n
          /\ Slot(policy, boxes, parts[side], depth + 1) = m + 1 - c
        BY <2>2 DEF Slot, Wides
    <2>7. m + 1 - n + l - 1 <= m + 1 - c
        <3> HIDE DEF n, c, q, l, m
        <3> QED
            BY <1>1, <2>4, <2>5
    <2> QED
        BY <2>2, <2>3, <2>6, <2>7
<1>13. Covers(parts, refs, D)
    <2> SUFFICES ASSUME NEW i \in D, NEW x \in [Axes -> Int], Encloses(refs[i], x)
                 PROVE  \E side \in 1..Len(parts) :
                            i \in DOMAIN parts[side] /\ Encloses(parts[side][i], x)
        BY <1>8 DEF Covers
    <2>1. PICK s \in p : i \in s
        BY <1>2
    <2>2. PICK side \in 1..Len(parts) : parts[side] = Only(refs, s)
        BY <1>10
    <2> QED
        BY <1>7, <2>1, <2>2
<1>14. Covers(parts, refs, KeptOf(policy, boxes))
    BY <1>13, CoversKept
<1> QED
    BY <1>8, <1>11, <1>12, <1>14 DEF Divides, Wides

\* Whatever the builder, the parts of a node lose no triangle, and there is room for
\* them on the stack.
LEMMA PartsDivide ==
    ASSUME NEW boxes \in Seq(AllBoxes), NEW refs, IsRefs(boxes, refs), NEW depth, NEW centroid,
           NEW policy, Fits(policy, boxes, refs, depth), ~ IsLeaf(policy, refs, depth),
           NEW parts \in Parts(policy, refs, depth, centroid)
    PROVE  Divides(policy, boxes, refs, depth, parts)
<1>1. CASE policy = "MedianBvh"
    BY <1>1, MedianDivides
<1>2. CASE policy = "SpatialSplitBvh"
    BY <1>2, SpatialDivides
<1>3. CASE policy = "NexusBvh8"
    BY <1>3, WideDivides
<1>4. CASE OthersBinary(policy)
    BY <1>4, OthersDivide
<1> QED
    BY <1>1, <1>2, <1>3, <1>4 DEF OthersBinary
-----------------------------------------------------------------------------
(* What is put on the stack.                                               *)

\* The children of an eight-way node that a ray enters are put on the stack, each once
\* and all of them if there is room.
LEMMA WidePushedEntered ==
    ASSUME NEW tree, NEW children \in Seq(Nat), NEW way, NEW closest, NEW room \in Int,
           \A side \in DOMAIN children : Near(way, tree[children[side]].box) \in Int,
           Len(children) <= room
    PROVE  /\ WidePushed(tree, children, way, closest, room) \in Seq(ToSet(children))
           /\ Len(WidePushed(tree, children, way, closest, room)) <= Len(children)
           /\ \A c \in ToSet(children) : Enters(way, tree[c].box, closest) =>
                  c \in ToSet(WidePushed(tree, children, way, closest, room))
<1> DEFINE entered == {c \in ToSet(children) : Enters(way, tree[c].box, closest)}
           near(c) == Near(way, tree[c].box)
           precedes(d, c) == near(d) > near(c) \/ (near(d) = near(c) /\ d > c)
           below(c) == {d \in entered : precedes(d, c)}
           n == Cardinality(entered)
           rank(c) == Cardinality(below(c))
           pushed == [k \in 1..Min({n, room}) |-> CHOOSE c \in entered : rank(c) = k - 1]
<1>1. DOMAIN children = 1..Len(children) /\ Len(children) \in Nat
    OBVIOUS
<1>2. \A c \in ToSet(children) : c \in Nat /\ near(c) \in Int
    BY DEF ToSet
<1> HIDE DEF near
<1>3. IsFiniteSet(ToSet(children)) /\ Cardinality(ToSet(children)) <= Len(children)
    <2>1. IsFiniteSet(1..Len(children)) /\ Cardinality(1..Len(children)) = Len(children)
        <3> DEFINE l == Len(children)
        <3>1. l \in Nat
            BY <1>1
        <3> HIDE DEF l
        <3>2. IsFiniteSet(1..l) /\ Cardinality(1..l) = IF 1 > l THEN 0 ELSE l - 1 + 1
            BY <3>1, FS_Interval
        <3>3. (IF 1 > l THEN 0 ELSE l - 1 + 1) = l
            BY <3>1
        <3> QED
            BY <3>2, <3>3 DEF l
    <2>2. children \in Surjection(1..Len(children), ToSet(children))
        BY <1>1 DEF Surjection, ToSet
    <2> QED
        BY <2>1, <2>2, FS_Surjection
<1>4. IsFiniteSet(entered) /\ n \in Nat /\ n <= Len(children)
    <2>1. entered \in SUBSET ToSet(children)
        OBVIOUS
    <2> HIDE DEF entered
    <2>2. IsFiniteSet(entered) /\ Cardinality(entered) <= Cardinality(ToSet(children))
        BY <1>3, <2>1, FS_Subset
    <2>3. Cardinality(ToSet(children)) \in Nat /\ Cardinality(entered) \in Nat
        BY <1>3, <2>2, FS_CardinalityType
    <2> QED
        BY <1>1, <1>3, <2>2, <2>3
<1>5. \A c \in entered : c \in Nat /\ near(c) \in Int
    BY <1>2
<1> HIDE DEF entered
<1>6. \A c \in entered : IsFiniteSet(below(c)) /\ rank(c) \in Nat
    <2> SUFFICES ASSUME NEW c \in entered PROVE IsFiniteSet(below(c)) /\ rank(c) \in Nat
        OBVIOUS
    <2>1. below(c) \in SUBSET entered
        OBVIOUS
    <2> HIDE DEF below
    <2> QED
        BY <1>4, <2>1, FS_Subset, FS_CardinalityType
<1>7. ASSUME NEW c \in entered, NEW d \in entered, precedes(c, d) PROVE rank(c) < rank(d)
    <2>1. below(c) \cup {c} \subseteq below(d)
        <3>1. \A e \in entered : precedes(e, c) => precedes(e, d)
            BY <1>5, <1>7
        <3> HIDE DEF precedes
        <3> QED
            BY <1>7, <3>1
    <2>2. c \notin below(c)
        BY <1>5
    <2> HIDE DEF below
    <2>3. Cardinality(below(c) \cup {c}) = Cardinality(below(c)) + 1
        BY <1>6, <2>2, FS_AddElement
    <2>4. Cardinality(below(c) \cup {c}) <= Cardinality(below(d))
        BY <1>6, <2>1, FS_Subset
    <2>5. rank(c) + 1 <= rank(d)
        BY <2>3, <2>4
    <2> HIDE DEF rank
    <2> QED
        BY <1>6, <2>5
<1>8. \A c, d \in entered : rank(c) = rank(d) => c = d
    <2> SUFFICES ASSUME NEW c \in entered, NEW d \in entered, c # d PROVE rank(c) # rank(d)
        OBVIOUS
    <2>1. precedes(c, d) \/ precedes(d, c)
        BY <1>5
    <2>2. rank(c) < rank(d) \/ rank(d) < rank(c)
        <3> HIDE DEF rank, precedes
        <3> QED
            BY <1>7, <2>1
    <2> DEFINE p == rank(c)
               q == rank(d)
    <2>3. p \in Nat /\ q \in Nat /\ (p < q \/ q < p)
        <3> HIDE DEF rank
        <3> QED
            BY <1>6, <2>2
    <2> HIDE DEF p, q
    <2>4. p # q
        BY <2>3
    <2> QED
        BY <2>4 DEF p, q
<1>9. \A c \in entered : rank(c) \in 0..n - 1
    <2> SUFFICES ASSUME NEW c \in entered PROVE rank(c) \in 0..n - 1
        OBVIOUS
    <2>1. below(c) \in SUBSET (entered \ {c})
        BY <1>5
    <2>2. IsFiniteSet(entered \ {c}) /\ Cardinality(entered \ {c}) = n - 1
        BY <1>4, FS_RemoveElement
    <2> HIDE DEF below
    <2>3. rank(c) <= n - 1
        BY <2>1, <2>2, FS_Subset
    <2> HIDE DEF rank, n
    <2> QED
        BY <1>4, <1>6, <2>3
<1>10. \A k \in 0..n - 1 : \E c \in entered : rank(c) = k
    <2> DEFINE f == [c \in entered |-> rank(c)]
    <2>1. f \in Injection(entered, 0..n - 1)
        <3> HIDE DEF rank, n
        <3> QED
            BY <1>8, <1>9 DEF Injection, IsInjective
    <2>2. IsFiniteSet(0..n - 1) /\ Cardinality(0..n - 1) = n
        <3> HIDE DEF n
        <3>1. n - 1 \in Int /\ 0 \in Int
            BY <1>4
        <3>2. IsFiniteSet(0..n - 1) /\ Cardinality(0..n - 1) =
                                   IF 0 > n - 1 THEN 0 ELSE n - 1 - 0 + 1
            BY <3>1, FS_Interval
        <3> QED
            BY <1>4, <3>2
    <2>3. f \in Surjection(entered, 0..n - 1)
        <3> HIDE DEF f
        <3> QED
            BY <2>1, <2>2, FS_Injection
    <2> HIDE DEF rank, n
    <2> QED
        BY <2>3 DEF Surjection
<1>11. Min({n, room}) = n
    <2> HIDE DEF n
    <2>1. n \in Int /\ n <= room
        BY <1>1, <1>4
    <2>2. /\ Min({n, room}) = IF n <= room THEN n ELSE room
          /\ Max({n, room}) = IF n <= room THEN room ELSE n
        BY <2>1, PairExtremes
    <2> QED
        BY <2>1, <2>2
<1>12. pushed = [k \in 1..n |-> CHOOSE c \in entered : rank(c) = k - 1]
    BY <1>11
<1>13. \A k \in 1..n : pushed[k] \in entered /\ rank(pushed[k]) = k - 1
    <2> HIDE DEF rank, n
    <2>1. \A k \in 1..n : k - 1 \in 0..n - 1
        BY <1>4
    <2> QED
        BY <1>10, <1>12, <2>1
<1>14. \A c \in entered : rank(c) + 1 \in 1..n /\ pushed[rank(c) + 1] = c
    <2> SUFFICES ASSUME NEW c \in entered PROVE rank(c) + 1 \in 1..n /\ pushed[rank(c) + 1] = c
        OBVIOUS
    <2> HIDE DEF rank, n, pushed
    <2>1. rank(c) \in Int /\ rank(c) + 1 \in 1..n /\ rank(c) + 1 - 1 = rank(c)
        BY <1>4, <1>9
    <2>2. pushed[rank(c) + 1] \in entered /\ rank(pushed[rank(c) + 1]) = rank(c)
        <3> DEFINE r == rank(c)
                   k == r + 1
        <3>1. k \in 1..n /\ k - 1 = r
            <4>1. r \in Int /\ r + 1 \in 1..n
                BY <2>1
            <4> HIDE DEF r
            <4> QED
                BY <4>1
        <3> HIDE DEF k
        <3>2. pushed[k] \in entered /\ rank(pushed[k]) = k - 1
            BY <1>13, <3>1
        <3> QED
            BY <3>1, <3>2 DEF k
    <2> QED
        BY <1>8, <2>1, <2>2
<1>15. WidePushed(tree, children, way, closest, room) = pushed
    BY DEF WidePushed, entered, near
<1> HIDE DEF rank, n
<1>16. pushed \in Seq(entered) /\ Len(pushed) = n /\ DOMAIN pushed = 1..n
    <2>1. pushed \in [1..n -> entered]
        BY <1>12, <1>13
    <2> HIDE DEF pushed
    <2> QED
        BY <1>4, <2>1
<1> HIDE DEF pushed
<1>17. \A c \in entered : c \in ToSet(pushed)
    BY <1>14, <1>16 DEF ToSet
<1>18. entered \subseteq ToSet(children)
    BY DEF entered
<1>19. pushed \in Seq(ToSet(children))
    BY <1>16, <1>18
<1> QED
    BY <1>4, <1>15, <1>16, <1>17, <1>19 DEF entered
-----------------------------------------------------------------------------
(* The tree, while it is built.                                            *)

LEMMA FrontAndLast ==
    ASSUME NEW S, NEW s \in Seq(S), s # <<>>
    PROVE  /\ Front(s) \in Seq(S) /\ Len(Front(s)) = Len(s) - 1
           /\ \A i \in 1..Len(s) - 1 : Front(s)[i] = s[i]
           /\ Last(s) = s[Len(s)] /\ Last(s) \in S
           /\ ToSet(s) = ToSet(Front(s)) \cup {Last(s)}
<1> DEFINE n == Len(s)
           f == SubSeq(s, 1, n - 1)
<1>1. n \in Nat \ {0} /\ DOMAIN s = 1..n /\ \A i \in 1..n : s[i] \in S
    OBVIOUS
<1>2. Front(s) = f /\ Last(s) = s[n]
    BY DEF Front, Last
<1>3. f \in Seq(S) /\ Len(f) = n - 1 /\ \A i \in 1..n - 1 : f[i] = s[i]
    <2> HIDE DEF n
    <2>1. n - 1 \in Int /\ 1 \in Int /\ \A i \in 1..n - 1 : s[i] \in S
        BY <1>1
    <2>2. /\ f \in Seq(S) /\ Len(f) = IF 1 <= n - 1 THEN n - 1 - 1 + 1 ELSE 0
          /\ \A i \in 1..n - 1 - 1 + 1 : f[i] = s[1 + i - 1]
        BY <2>1, SubSeqProperties DEF f
    <2>3. (IF 1 <= n - 1 THEN n - 1 - 1 + 1 ELSE 0) = n - 1
        BY <1>1
    <2>4. \A i \in 1..n - 1 : i \in 1..n - 1 - 1 + 1 /\ 1 + i - 1 = i
        BY <1>1
    <2> QED
        BY <2>2, <2>3, <2>4
<1> HIDE DEF f, n
<1>4. n \in 1..n /\ \A i \in 1..n : i = n \/ i \in 1..n - 1
    BY <1>1
<1>5. \A i \in 1..n - 1 : i \in 1..n
    BY <1>1
<1>6. DOMAIN f = 1..n - 1
    BY <1>3
<1>7. ASSUME NEW x PROVE x \in ToSet(s) <=> x \in ToSet(f) \cup {s[n]}
    BY <1>1, <1>3, <1>4, <1>5, <1>6 DEF ToSet
<1> QED
    BY <1>1, <1>2, <1>3, <1>4, <1>7 DEF n

LEMMA ReverseKeeps ==
    ASSUME NEW S, NEW s \in Seq(S)
    PROVE  Reverse(s) \in Seq(S) /\ ToSet(Reverse(s)) = ToSet(s)
<1> DEFINE n == Len(s)
           r == Reverse(s)
<1>1. n \in Nat /\ DOMAIN s = 1..n /\ \A i \in 1..n : s[i] \in S
    OBVIOUS
<1>2. r = [i \in 1..n |-> s[(n - i) + 1]]
    BY DEF Reverse
<1> HIDE DEF r, n
<1>3. \A i \in 1..n : (n - i) + 1 \in 1..n /\ (n - ((n - i) + 1)) + 1 = i
    BY <1>1
<1>4. \A i \in 1..n : r[i] = s[(n - i) + 1] /\ r[(n - i) + 1] = s[i]
    BY <1>2, <1>3
<1>5. r \in Seq(S)
    <2>1. r \in [1..n -> S]
        BY <1>1, <1>2, <1>3
    <2> QED
        BY <1>1, <2>1
<1>6. DOMAIN r = 1..n
    BY <1>2
<1>7. ASSUME NEW x PROVE x \in ToSet(r) <=> x \in ToSet(s)
    BY <1>1, <1>3, <1>4, <1>6 DEF ToSet
<1> QED
    BY <1>5, <1>7 DEF r

Nodes == [box : AllBoxes, children : Seq(Nat), triangles : Seq(Nat)]
RootCall(h) == [refs |-> h.boxes, depth |-> 0, parent |-> 0, side |-> 0]

\* The tree is built from the references, depths and parts of G. A node is what has
\* become of them, ...
IsNode(h, node, g) ==
    /\ IsRefs(h.boxes, g.refs) /\ Fits(h.acceleration, h.boxes, g.refs, g.depth)
    /\ node.box = Bounds(g.refs)
    /\ node.children = <<>> => ToSet(node.triangles) = DOMAIN g.refs
    /\ node.children # <<>> =>
          /\ Divides(h.acceleration, h.boxes, g.refs, g.depth, g.parts)
          /\ Len(node.children) = Len(g.parts)

\* ... a child is a node of its own, ...
IsChild(tree, G, k, side) ==
    LET c == tree[k].children[side]
    IN  /\ c \in 1..Len(tree)
        /\ G[c].refs = G[k].parts[side] /\ G[c].depth = G[k].depth + 1

\* ... or still to come, ...
IsCalled(calls, k, side) == \E call \in ToSet(calls) : call.parent = k /\ call.side = side

\* ... and a call is for such a child.
IsCall(h, tree, G, call) ==
    /\ IsRefs(h.boxes, call.refs) /\ Fits(h.acceleration, h.boxes, call.refs, call.depth)
    /\ call.parent \in 1..Len(tree) /\ call.side \in 1..Len(tree[call.parent].children)
    /\ call.refs = G[call.parent].parts[call.side] /\ call.depth = G[call.parent].depth + 1

IsTree(h, tree, calls, G) ==
    /\ tree \in Seq(Nodes) /\ calls \in Seq(ToSet(calls))
    /\ \A k \in 1..Len(tree) : IsNode(h, tree[k], G[k])
    /\ \A k \in 1..Len(tree) : \A side \in 1..Len(tree[k].children) :
          IsChild(tree, G, k, side) \/ IsCalled(calls, k, side)
    /\ IF tree = <<>>
       THEN calls = <<RootCall(h)>>
       ELSE /\ G[1].refs = h.boxes /\ G[1].depth = 0
            /\ \A call \in ToSet(calls) : IsCall(h, tree, G, call)

\* The node of a call's parent points to the next node.
Linked(tree, call) ==
    IF call.parent = 0 THEN tree
    ELSE [tree EXCEPT ![call.parent].children[call.side] = Len(tree) + 1]

LEMMA LinkedNodes ==
    ASSUME NEW tree \in Seq(Nodes), NEW call,
           call.parent \in 1..Len(tree), call.side \in 1..Len(tree[call.parent].children)
    PROVE  /\ Linked(tree, call) \in Seq(Nodes) /\ Len(Linked(tree, call)) = Len(tree)
           /\ \A k \in 1..Len(tree) :
                 /\ Linked(tree, call)[k].box = tree[k].box
                 /\ Linked(tree, call)[k].triangles = tree[k].triangles
                 /\ Len(Linked(tree, call)[k].children) = Len(tree[k].children)
                 /\ Linked(tree, call)[k].children = <<>> <=> tree[k].children = <<>>
                 /\ \A side \in 1..Len(tree[k].children) :
                       Linked(tree, call)[k].children[side] =
                          IF k = call.parent /\ side = call.side THEN Len(tree) + 1
                          ELSE tree[k].children[side]
<1> DEFINE p == call.parent
           s == call.side
           n == Len(tree)
           old == tree[p]
           kids == [old.children EXCEPT ![s] = n + 1]
           node == [old EXCEPT !.children = kids]
           linked == [tree EXCEPT ![p] = node]
<1>1. n \in Nat /\ tree \in [1..n -> Nodes] /\ p \in 1..n /\ p # 0
    OBVIOUS
<1>2. Linked(tree, call) = linked
    <2> HIDE DEF p, s, n
    <2>1. [tree EXCEPT ![p].children[s] = n + 1] = linked
        OBVIOUS
    <2> QED
        BY <1>1, <2>1 DEF Linked, p, s, n
<1>3. old \in Nodes
    BY <1>1
<1>4. old.children \in Seq(Nat) /\ s \in 1..Len(old.children)
    <2>1. old.children \in Seq(Nat)
        BY <1>3 DEF Nodes
    <2> QED
        BY <2>1
<1> DEFINE c == old.children
           l == Len(c)
<1> HIDE DEF old
<1>5. kids \in Seq(Nat) /\ Len(kids) = l
      /\ \A side \in 1..l : kids[side] = IF side = s THEN n + 1 ELSE c[side]
    <2>1. n + 1 \in Nat
        BY <1>1
    <2> HIDE DEF n, s
    <2>2. c \in [1..l -> Nat] /\ l \in Nat
        BY <1>4
    <2>3. kids = [side \in 1..l |-> IF side = s THEN n + 1 ELSE c[side]]
        BY <2>2
    <2> HIDE DEF l, c, kids
    <2>4. kids \in [1..l -> Nat]
        BY <2>1, <2>2, <2>3
    <2> QED
        BY <2>2, <2>3, <2>4
<1>6. /\ node.box = old.box /\ node.triangles = old.triangles /\ node.children = kids
      /\ node \in Nodes
    <2> HIDE DEF kids
    <2> QED
        BY <1>3, <1>5 DEF Nodes
<1>7. kids = <<>> <=> c = <<>>
    <2> HIDE DEF kids, c
    <2> QED
        BY <1>4, <1>5 DEF c
<1> HIDE DEF kids, node
<1>8. linked \in Seq(Nodes) /\ Len(linked) = n
      /\ \A k \in 1..n : linked[k] = IF k = p THEN node ELSE tree[k]
    <2> HIDE DEF n, p
    <2>1. linked = [k \in 1..n |-> IF k = p THEN node ELSE tree[k]]
        BY <1>1
    <2> HIDE DEF linked
    <2>2. linked \in [1..n -> Nodes]
        BY <1>1, <1>6, <2>1
    <2> QED
        BY <1>1, <2>1, <2>2
<1> HIDE DEF linked
<1>9. ASSUME NEW k \in 1..n
      PROVE  /\ linked[k].box = tree[k].box
             /\ linked[k].triangles = tree[k].triangles
             /\ Len(linked[k].children) = Len(tree[k].children)
             /\ linked[k].children = <<>> <=> tree[k].children = <<>>
             /\ \A side \in 1..Len(tree[k].children) :
                   linked[k].children[side] =
                      IF k = p /\ side = s THEN n + 1 ELSE tree[k].children[side]
    <2>1. CASE k = p
        <3>1. linked[k] = node /\ tree[k] = old
            BY <1>8, <2>1 DEF old
        <3> HIDE DEF p, n, s
        <3> QED
            BY <1>5, <1>6, <1>7, <2>1, <3>1
    <2>2. CASE k # p
        BY <1>8, <2>2
    <2> QED
        BY <2>1, <2>2
<1> QED
    BY <1>2, <1>8, <1>9

\* The calls for a node's children.
AreCalls(added, parent, node, g) ==
    /\ added \in Seq(ToSet(added))
    /\ \A call \in ToSet(added) :
          /\ call.parent = parent /\ call.side \in 1..Len(node.children)
          /\ call.refs = g.parts[call.side] /\ call.depth = g.depth + 1
    /\ \A side \in 1..Len(node.children) : \E call \in ToSet(added) : call.side = side

HasTree(h, tree, calls) == \E G : IsTree(h, tree, calls, G)

\* A call of buildNode makes a tree of a tree.
LEMMA TreeGrows ==
    ASSUME NEW h, h.boxes \in Seq(AllBoxes), NEW tree, NEW calls, NEW G,
           IsTree(h, tree, calls, G),
           calls # <<>>, NEW node \in Nodes, NEW g, IsNode(h, node, g),
           g.refs = Last(calls).refs, g.depth = Last(calls).depth,
           NEW added, AreCalls(added, Len(tree) + 1, node, g)
    PROVE  HasTree(h, Append(Linked(tree, Last(calls)), node), Front(calls) \o added)
<1> DEFINE n == Len(tree)
           last == Last(calls)
           rest == Front(calls)
           linked == Linked(tree, last)
           T == Append(linked, node)
           H == [k \in 1..n + 1 |-> IF k = n + 1 THEN g ELSE G[k]]
           now == rest \o added
<1>1. tree \in Seq(Nodes) /\ n \in Nat /\ calls \in Seq(ToSet(calls))
    BY DEF IsTree
<1>2. /\ rest \in Seq(ToSet(calls)) /\ last \in ToSet(calls)
      /\ ToSet(calls) = ToSet(rest) \cup {last}
    <2> DEFINE S == ToSet(calls)
    <2>1. calls \in Seq(S)
        BY <1>1
    <2> HIDE DEF S
    <2> QED
        BY <2>1, FrontAndLast DEF S
<1>3. /\ H[n + 1] = g /\ \A k \in 1..n : H[k] = G[k]
      /\ \A k \in 1..n + 1 : k = n + 1 \/ k \in 1..n
      /\ \A k \in 1..n : k \in 1..n + 1 /\ k # n + 1
      /\ n + 1 \in 1..n + 1
    <2> HIDE DEF n
    <2>1. /\ \A k \in 1..n + 1 : k = n + 1 \/ k \in 1..n
          /\ \A k \in 1..n : k \in 1..n + 1 /\ k # n + 1
          /\ n + 1 \in 1..n + 1
        BY <1>1
    <2> QED
        BY <2>1
<1>4. CASE tree = <<>>
    <2>1. n = 0 /\ calls = <<RootCall(h)>> /\ 1..n = {}
        BY <1>4 DEF IsTree
    <2>2. last = RootCall(h) /\ rest = <<>>
        <3>1. Len(calls) = 1 /\ calls[1] = RootCall(h)
            BY <2>1
        <3>2. last = RootCall(h)
            BY <3>1 DEF Last
        <3>3. Len(rest) = 1 - 1 /\ rest \in Seq(ToSet(calls))
            <4> DEFINE S == ToSet(calls)
            <4>1. calls \in Seq(S)
                BY <1>1
            <4> HIDE DEF S
            <4> QED
                BY <3>1, <4>1, FrontAndLast DEF S
        <3> HIDE DEF rest
        <3> QED
            BY <3>2, <3>3
    <2>3. linked = <<>>
        BY <1>4, <2>2 DEF Linked, RootCall
    <2>4. T = <<node>> /\ T \in Seq(Nodes) /\ Len(T) = 1 /\ T[1] = node /\ T # <<>>
        BY <2>3
    <2>5. now = added /\ now \in Seq(ToSet(now))
        <3>1. added \in Seq(ToSet(added))
            BY DEF AreCalls
        <3> DEFINE S == ToSet(added)
        <3> HIDE DEF S
        <3>2. <<>> \o added = added
            BY <3>1 DEF S
        <3> QED
            BY <2>2, <3>1, <3>2
    <2>6. n + 1 = 1 /\ H[1] = g /\ 1..1 = {1}
        BY <1>3, <2>1
    <2> HIDE DEF T, now, H, n
    <2>7. \A k \in 1..Len(T) : IsNode(h, T[k], H[k])
        BY <2>4, <2>6
    <2>8. \A side \in 1..Len(node.children) : IsCalled(now, 1, side)
        BY <2>5, <2>6 DEF AreCalls, IsCalled, n
    <2>9. \A k \in 1..Len(T) : \A side \in 1..Len(T[k].children) :
              IsChild(T, H, k, side) \/ IsCalled(now, k, side)
        BY <2>4, <2>6, <2>8
    <2>10. H[1].refs = h.boxes /\ H[1].depth = 0
        BY <2>2, <2>6 DEF RootCall
    <2>11. ASSUME NEW call \in ToSet(now) PROVE IsCall(h, T, H, call)
        <3>1. /\ call.parent = 1 /\ call.side \in 1..Len(node.children)
              /\ call.refs = g.parts[call.side] /\ call.depth = g.depth + 1
            BY <2>5, <2>6, <2>11 DEF AreCalls, n
        <3>2. node.children # <<>>
            BY <3>1
        <3>3. Divides(h.acceleration, h.boxes, g.refs, g.depth, g.parts)
              /\ call.side \in 1..Len(g.parts)
            BY <3>1, <3>2 DEF IsNode
        <3>4. IsRefs(h.boxes, call.refs) /\ Fits(h.acceleration, h.boxes, call.refs, call.depth)
            BY <3>1, <3>3 DEF Divides
        <3> QED
            BY <2>4, <2>6, <3>1, <3>4 DEF IsCall
    <2>12. IsTree(h, T, now, H)
        BY <2>4, <2>5, <2>7, <2>9, <2>10, <2>11 DEF IsTree
    <2> QED
        BY <2>12 DEF HasTree, T, now
<1>5. CASE tree # <<>>
    <2>1. \A call \in ToSet(calls) : IsCall(h, tree, G, call)
        BY <1>5 DEF IsTree
    <2>2. G[1].refs = h.boxes /\ G[1].depth = 0 /\ 1 \in 1..n
        <3>1. n # 0
            BY <1>1, <1>5
        <3>2. 1 \in 1..n
            <4> HIDE DEF n
            <4> QED
                BY <1>1, <3>1
        <3> QED
            BY <1>5, <3>2 DEF IsTree
    <2>3. IsCall(h, tree, G, last)
        BY <1>2, <2>1
    <2>4. /\ linked \in Seq(Nodes) /\ Len(linked) = n
          /\ \A k \in 1..n :
                /\ linked[k].box = tree[k].box
                /\ linked[k].triangles = tree[k].triangles
                /\ Len(linked[k].children) = Len(tree[k].children)
                /\ linked[k].children = <<>> <=> tree[k].children = <<>>
                /\ \A side \in 1..Len(tree[k].children) :
                      linked[k].children[side] =
                         IF k = last.parent /\ side = last.side THEN n + 1
                         ELSE tree[k].children[side]
        <3>1. last.parent \in 1..Len(tree) /\ last.side \in 1..Len(tree[last.parent].children)
            BY <2>3 DEF IsCall
        <3> HIDE DEF last
        <3> QED
            BY <1>1, <3>1, LinkedNodes
    <2> HIDE DEF linked
    <2>5. /\ T \in Seq(Nodes) /\ Len(T) = n + 1 /\ T # <<>> /\ T[n + 1] = node
          /\ \A k \in 1..n : T[k] = linked[k]
        BY <2>4
    <2>6. now \in Seq(ToSet(now)) /\ ToSet(now) = ToSet(rest) \cup ToSet(added)
        <3> DEFINE S == ToSet(calls) \cup ToSet(added)
        <3>1. rest \in Seq(S) /\ added \in Seq(S)
            <4>1. added \in Seq(ToSet(added))
                BY DEF AreCalls
            <4> DEFINE A == ToSet(added)
                       C == ToSet(calls)
            <4>2. rest \in Seq(C) /\ added \in Seq(A)
                BY <1>2, <4>1
            <4> HIDE DEF A, C, rest
            <4> QED
                BY <4>2 DEF A, C
        <3> HIDE DEF S, rest
        <3>2. now \in Seq(S)
            BY <3>1
        <3>3. ToSet(now) = ToSet(rest) \cup ToSet(added)
            BY <3>1, OfEither
        <3>4. now \in Seq(ToSet(now))
            <4> HIDE DEF now
            <4>1. Len(now) \in Nat /\ now = [i \in 1..Len(now) |-> now[i]]
                BY <3>2
            <4>2. \A i \in 1..Len(now) : now[i] \in ToSet(now)
                BY <3>2 DEF ToSet
            <4> DEFINE m == Len(now)
                       W == ToSet(now)
            <4>3. m \in Nat /\ now = [i \in 1..m |-> now[i]] /\ \A i \in 1..m : now[i] \in W
                BY <4>1, <4>2
            <4> HIDE DEF m, W
            <4>4. now \in Seq(W)
                BY <4>3, FormsSequence
            <4> QED
                BY <4>4 DEF W
        <3> QED
            BY <3>3, <3>4
    <2> HIDE DEF T, now, H, rest, last
    <2>7. ASSUME NEW k \in 1..n + 1 PROVE IsNode(h, T[k], H[k])
        <3>1. CASE k = n + 1
            BY <1>3, <2>5, <3>1
        <3>2. CASE k # n + 1
            <4>1. k \in 1..n /\ H[k] = G[k] /\ T[k] = linked[k]
                BY <1>3, <2>5, <3>2
            <4>2. IsNode(h, tree[k], G[k])
                BY <4>1 DEF IsTree
            <4>3. /\ linked[k].box = tree[k].box /\ linked[k].triangles = tree[k].triangles
                  /\ Len(linked[k].children) = Len(tree[k].children)
                  /\ linked[k].children = <<>> <=> tree[k].children = <<>>
                BY <2>4, <4>1
            <4>4. IsNode(h, linked[k], G[k])
                BY <4>2, <4>3 DEF IsNode
            <4> QED
                BY <4>1, <4>4
        <3> QED
            BY <3>1, <3>2
    <2>8. ASSUME NEW k \in 1..n + 1, NEW side \in 1..Len(T[k].children)
          PROVE  IsChild(T, H, k, side) \/ IsCalled(now, k, side)
        <3>1. CASE k = n + 1
            <4>1. side \in 1..Len(node.children)
                BY <2>5, <2>8, <3>1
            <4>2. PICK call \in ToSet(added) : call.side = side
                BY <4>1 DEF AreCalls
            <4>3. call.parent = n + 1 /\ call \in ToSet(now)
                BY <2>6 DEF AreCalls
            <4> QED
                BY <3>1, <4>2, <4>3 DEF IsCalled
        <3>2. CASE k # n + 1
            <4>1. k \in 1..n /\ H[k] = G[k] /\ T[k] = linked[k]
                BY <1>3, <2>5, <3>2
            <4>2. side \in 1..Len(tree[k].children)
                BY <2>4, <2>8, <4>1
            <4>3. T[k].children[side] = IF k = last.parent /\ side = last.side THEN n + 1
                                        ELSE tree[k].children[side]
                BY <2>4, <4>1, <4>2
            <4>4. CASE k = last.parent /\ side = last.side
                <5>1. last.refs = G[k].parts[side] /\ last.depth = G[k].depth + 1
                    BY <2>3, <4>4 DEF IsCall
                <5>2. H[n + 1].refs = H[k].parts[side] /\ H[n + 1].depth = H[k].depth + 1
                    BY <1>3, <4>1, <5>1 DEF last
                <5> QED
                    BY <1>3, <2>5, <4>3, <4>4, <5>2 DEF IsChild
            <4>5. CASE ~ (k = last.parent /\ side = last.side)
                <5>1. IsChild(tree, G, k, side) \/ IsCalled(calls, k, side)
                    BY <4>1, <4>2 DEF IsTree
                <5>2. CASE IsChild(tree, G, k, side)
                    <6> DEFINE c == tree[k].children[side]
                    <6>1. /\ c \in 1..n /\ G[c].refs = G[k].parts[side]
                          /\ G[c].depth = G[k].depth + 1
                        BY <5>2 DEF IsChild
                    <6>2. T[k].children[side] = c
                        BY <4>3, <4>5
                    <6> HIDE DEF c
                    <6>3. c \in 1..n + 1 /\ H[c] = G[c]
                        BY <1>3, <6>1
                    <6> QED
                        BY <2>5, <4>1, <6>1, <6>2, <6>3 DEF IsChild
                <5>3. CASE IsCalled(calls, k, side)
                    <6>1. PICK call \in ToSet(calls) : call.parent = k /\ call.side = side
                        BY <5>3 DEF IsCalled
                    <6>2. call \in ToSet(rest)
                        BY <1>2, <4>5, <6>1
                    <6> QED
                        BY <2>6, <6>1, <6>2 DEF IsCalled
                <5> QED
                    BY <5>1, <5>2, <5>3
            <4> QED
                BY <4>4, <4>5
        <3> QED
            BY <3>1, <3>2
    <2>9. H[1].refs = h.boxes /\ H[1].depth = 0
        BY <1>3, <2>2
    <2>10. ASSUME NEW call \in ToSet(now) PROVE IsCall(h, T, H, call)
        <3>1. CASE call \in ToSet(rest)
            <4>1. IsCall(h, tree, G, call)
                BY <1>2, <2>1, <3>1
            <4> DEFINE p == call.parent
            <4>2. /\ p \in 1..n /\ call.side \in 1..Len(tree[p].children)
                  /\ call.refs = G[p].parts[call.side] /\ call.depth = G[p].depth + 1
                  /\ IsRefs(h.boxes, call.refs)
                  /\ Fits(h.acceleration, h.boxes, call.refs, call.depth)
                BY <4>1 DEF IsCall
            <4> HIDE DEF p
            <4>3. p \in 1..Len(T) /\ H[p] = G[p] /\ Len(T[p].children) = Len(tree[p].children)
                BY <1>3, <2>4, <2>5, <4>2
            <4> QED
                BY <4>2, <4>3 DEF IsCall, p
        <3>2. CASE call \in ToSet(added)
            <4>1. /\ call.parent = n + 1 /\ call.side \in 1..Len(node.children)
                  /\ call.refs = g.parts[call.side] /\ call.depth = g.depth + 1
                BY <3>2 DEF AreCalls
            <4>2. node.children # <<>>
                BY <4>1
            <4>3. Divides(h.acceleration, h.boxes, g.refs, g.depth, g.parts)
                  /\ call.side \in 1..Len(g.parts)
                BY <4>1, <4>2 DEF IsNode
            <4>4. IsRefs(h.boxes, call.refs)
                  /\ Fits(h.acceleration, h.boxes, call.refs, call.depth)
                BY <4>1, <4>3 DEF Divides
            <4> QED
                BY <1>3, <2>5, <4>1, <4>4 DEF IsCall
        <3> QED
            BY <2>6, <2>10, <3>1, <3>2
    <2>11. IsTree(h, T, now, H)
        <3>1. /\ \A k \in 1..Len(T) : IsNode(h, T[k], H[k])
              /\ \A k \in 1..Len(T) : \A side \in 1..Len(T[k].children) :
                    IsChild(T, H, k, side) \/ IsCalled(now, k, side)
            BY <2>5, <2>7, <2>8
        <3> QED
            BY <2>5, <2>6, <2>9, <2>10, <3>1 DEF IsTree
    <2> QED
        BY <2>11 DEF HasTree, T, now, rest, last, linked
<1> QED
    BY <1>4, <1>5

\* There is room for the trees of the builders whose depth nothing limits: for the halves
\* of all triangles, and for all the triangles of an eight-way tree.
StacksSuffice ==
    \A h \in HostScenes :
        /\ h.acceleration = "MedianBvh" =>
              Len(h.boxes) <= MaxTrianglesPerLeaf * Leaves[StackSize - 1]
        /\ Wides(h.acceleration) => Len(h.boxes) <= WideStackSize

LEMMA RootFits ==
    ASSUME StacksSuffice, NEW h \in HostScenes
    PROVE  /\ h.boxes \in Seq(AllBoxes) /\ h.boxes # <<>> /\ DOMAIN h.boxes = 1..Len(h.boxes)
           /\ IsRefs(h.boxes, h.boxes) /\ Fits(h.acceleration, h.boxes, h.boxes, 0)
           /\ Slot(h.acceleration, h.boxes, h.boxes, 0) = 1
<1> DEFINE boxes == h.boxes
           n == Len(boxes)
<1>1. boxes \in Seq(AllBoxes) /\ boxes # <<>>
    BY HostAssumption
<1> HIDE DEF boxes
<1>2. n \in Nat \ {0} /\ DOMAIN boxes = 1..n /\ \A i \in 1..n : boxes[i] \in AllBoxes
    BY <1>1
<1>3. IsRefs(boxes, boxes)
    <2> HIDE DEF n
    <2>1. 1 \in 1..n
        BY <1>2
    <2> QED
        BY <1>2, <2>1 DEF IsRefs
<1>4. Cardinality(DOMAIN boxes) = n
    <2> HIDE DEF n
    <2>1. n \in Int /\ 1 \in Int
        BY <1>2
    <2>2. Cardinality(1..n) = IF 1 > n THEN 0 ELSE n - 1 + 1
        BY <2>1, FS_Interval
    <2>3. (IF 1 > n THEN 0 ELSE n - 1 + 1) = n
        BY <1>2
    <2> QED
        BY <1>2, <2>2, <2>3
<1>5. Fits(h.acceleration, boxes, boxes, 0)
    <2>1. /\ h.acceleration = "MedianBvh" => n <= MaxTrianglesPerLeaf * Leaves[StackSize - 1]
          /\ Wides(h.acceleration) => n <= WideStackSize
        BY DEF StacksSuffice, boxes
    <2>2. MaxBvhDepth \in Nat /\ StackSize \in Nat
          /\ MaxBvhDepth >= 1 /\ MaxBvhDepth <= StackSize - 1
        BY TreeAssumption
    <2>3. 0 <= StackSize - 1 /\ 0 <= MaxBvhDepth /\ StackSize - 1 - 0 = StackSize - 1
        BY <2>2
    <2> HIDE DEF n
    <2> QED
        BY <1>4, <2>1, <2>3 DEF Fits, n
<1>6. Slot(h.acceleration, boxes, boxes, 0) = 1
    <2>1. n + 1 - n = 1
        <3> HIDE DEF n
        <3> QED
            BY <1>2
    <2> QED
        BY <1>4, <2>1 DEF Slot
<1> QED
    BY <1>1, <1>2, <1>3, <1>5, <1>6 DEF boxes

\* The references of the call that is next.
LEMMA NextCall ==
    ASSUME StacksSuffice, NEW h \in HostScenes, NEW tree, NEW calls, NEW G,
           IsTree(h, tree, calls, G), calls # <<>>
    PROVE  /\ IsRefs(h.boxes, Last(calls).refs)
           /\ Fits(h.acceleration, h.boxes, Last(calls).refs, Last(calls).depth)
<1>1. CASE tree = <<>>
    <2>1. calls = <<RootCall(h)>>
        BY <1>1 DEF IsTree
    <2>2. Last(calls) = RootCall(h)
        <3>1. Len(calls) = 1 /\ calls[1] = RootCall(h)
            BY <2>1
        <3> QED
            BY <3>1 DEF Last
    <2> QED
        BY <2>2, RootFits DEF RootCall
<1>2. CASE tree # <<>>
    <2> DEFINE S == ToSet(calls)
    <2>1. calls \in Seq(S) /\ \A call \in S : IsCall(h, tree, G, call)
        BY <1>2 DEF IsTree
    <2> HIDE DEF S
    <2>2. Last(calls) \in S
        BY <2>1, FrontAndLast
    <2> QED
        BY <2>1, <2>2 DEF IsCall
<1> QED
    BY <1>1, <1>2

LEMMA BuildNodeGrows ==
    ASSUME StacksSuffice, host \in HostScenes, HasTree(host, nodes, work), BuildNode
    PROVE  HasTree(host, nodes, work)'
<1> DEFINE h == host
           call == Last(work)
           n == Len(nodes)
           box == Bounds(call.refs)
           boxes == h.boxes
           policy == h.acceleration
<1>1. PICK G : IsTree(h, nodes, work, G)
    BY DEF HasTree
<1>2. work # <<>> /\ host' = host
    BY DEF BuildNode
<1>3. boxes \in Seq(AllBoxes) /\ DOMAIN boxes = 1..Len(boxes)
    BY RootFits
<1>4. IsRefs(boxes, call.refs) /\ Fits(policy, boxes, call.refs, call.depth)
    BY <1>1, <1>2, NextCall
<1>5. box \in AllBoxes
    BY <1>3, <1>4, BoundsContain
<1>6. IsFiniteSet(DOMAIN call.refs) /\ DOMAIN call.refs \subseteq Nat
    <2>1. DOMAIN call.refs \subseteq DOMAIN boxes
        BY <1>4 DEF IsRefs
    <2> QED
        BY <1>3, <1>4, <2>1, RefsAreFinite
<1>7. CASE /\ IsLeaf(policy, call.refs, call.depth)
           /\ nodes' = Append(Linked(nodes, call),
                              [box |-> box, children |-> <<>>,
                               triangles |-> SetToSeq(DOMAIN call.refs)])
           /\ work' = Front(work)
    <2> DEFINE node == [box |-> box, children |-> <<>>,
                         triangles |-> SetToSeq(DOMAIN call.refs)]
               g == [refs |-> call.refs, depth |-> call.depth, parts |-> <<>>]
    <2>1. /\ SetToSeq(DOMAIN call.refs) \in Seq(Nat)
          /\ ToSet(SetToSeq(DOMAIN call.refs)) = DOMAIN call.refs
        <3> DEFINE D == DOMAIN call.refs
        <3> HIDE DEF D
        <3> DEFINE s == SetToSeq(D)
        <3>1. s \in Seq(D) /\ ToSet(s) = D /\ D \subseteq Nat
            BY <1>6, SetListed DEF D
        <3> HIDE DEF s
        <3>2. s \in Seq(Nat)
            <4> DEFINE m == Len(s)
            <4>1. m \in Nat /\ s = [i \in 1..m |-> s[i]] /\ \A i \in 1..m : s[i] \in D
                BY <3>1
            <4> HIDE DEF m
            <4>2. \A i \in 1..m : s[i] \in Nat
                BY <3>1, <4>1
            <4> QED
                BY <4>1, <4>2, FormsSequence
        <3> QED
            BY <3>1, <3>2 DEF D, s
    <2>2. /\ node.box = box /\ node.children = <<>> /\ ToSet(node.triangles) = DOMAIN call.refs
          /\ g.refs = call.refs /\ g.depth = call.depth /\ Len(node.children) = 0
        BY <2>1
    <2>3. node \in Nodes
        <3> DEFINE triangles == SetToSeq(DOMAIN call.refs)
        <3>1. triangles \in Seq(Nat) /\ <<>> \in Seq(Nat)
            BY <2>1
        <3> HIDE DEF triangles, box
        <3> QED
            BY <1>5, <3>1 DEF Nodes, triangles
    <2> HIDE DEF node, g
    <2>4. IsNode(h, node, g)
        BY <1>4, <2>2 DEF IsNode
    <2>5. AreCalls(<<>>, n + 1, node, g)
        <3>1. ToSet(<<>>) = {} /\ <<>> \in Seq({})
            BY DEF ToSet
        <3>2. 1..Len(node.children) = {}
            BY <2>2
        <3> QED
            BY <3>1, <3>2 DEF AreCalls
    <2>6. HasTree(h, Append(Linked(nodes, call), node), Front(work) \o <<>>)
        BY <1>1, <1>2, <1>3, <2>2, <2>3, <2>4, <2>5, TreeGrows
    <2>7. Front(work) \o <<>> = Front(work)
        <3> DEFINE S == ToSet(work)
        <3>1. work \in Seq(S)
            BY <1>1 DEF IsTree
        <3> HIDE DEF S
        <3>2. Front(work) \in Seq(S)
            BY <1>2, <3>1, FrontAndLast
        <3> QED
            BY <3>2
    <2> QED
        BY <1>2, <1>7, <2>6, <2>7 DEF node
<1>8. ASSUME ~ IsLeaf(policy, call.refs, call.depth),
             NEW parts \in Parts(policy, call.refs, call.depth, h.centroids),
             nodes' = Append(Linked(nodes, call),
                             [box |-> box, triangles |-> <<>>,
                              children |-> [side \in DOMAIN parts |-> 0]]),
             work' = Front(work)
                \o Reverse([side \in DOMAIN parts |->
                              [refs |-> parts[side], depth |-> call.depth + 1,
                               parent |-> n + 1, side |-> side]])
      PROVE  HasTree(host, nodes, work)'
    <2> DEFINE node == [box |-> box, triangles |-> <<>>,
                         children |-> [side \in DOMAIN parts |-> 0]]
               g == [refs |-> call.refs, depth |-> call.depth, parts |-> parts]
               child(side) == [refs |-> parts[side], depth |-> call.depth + 1,
                               parent |-> n + 1, side |-> side]
               calls == [side \in DOMAIN parts |-> child(side)]
               added == Reverse(calls)
               m == Len(parts)
    <2>1. Divides(policy, boxes, call.refs, call.depth, parts)
        BY <1>3, <1>4, <1>8, PartsDivide
    <2>2. m \in Nat \ {0} /\ DOMAIN parts = 1..m
        BY <2>1 DEF Divides
    <2>3. [side \in DOMAIN parts |-> 0] \in Seq(Nat) /\ Len([side \in DOMAIN parts |-> 0]) = m
          /\ [side \in DOMAIN parts |-> 0] # <<>>
        <3> HIDE DEF m
        <3>1. [side \in DOMAIN parts |-> 0] = [side \in 1..m |-> 0]
            BY <2>2
        <3>2. [side \in 1..m |-> 0] \in Seq(Nat) /\ Len([side \in 1..m |-> 0]) = m
            BY <2>2
        <3>3. [side \in 1..m |-> 0] # <<>>
            <4>1. 1 \in 1..m
                BY <2>2
            <4> QED
                BY <2>2, <3>2
        <3> QED
            BY <3>1, <3>2, <3>3
    <2>4. /\ node.box = box /\ Len(node.children) = m /\ node.children # <<>>
          /\ g.refs = call.refs /\ g.depth = call.depth /\ g.parts = parts
        <3> DEFINE children == [side \in DOMAIN parts |-> 0]
        <3> HIDE DEF children, m, box
        <3> QED
            BY <2>3 DEF children
    <2>5. node \in Nodes
        <3> DEFINE children == [side \in DOMAIN parts |-> 0]
        <3>1. children \in Seq(Nat) /\ <<>> \in Seq(Nat)
            BY <2>3
        <3> HIDE DEF children, box
        <3> QED
            BY <1>5, <3>1 DEF Nodes, children
    <2>6. calls \in Seq(ToSet(calls)) /\ DOMAIN calls = 1..m
        <3> DEFINE S == ToSet(calls)
        <3>1. \A side \in 1..m : calls[side] \in S
            BY <2>2 DEF ToSet
        <3>2. calls = [side \in 1..m |-> calls[side]]
            BY <2>2
        <3> HIDE DEF S, calls, m
        <3>3. calls \in Seq(S)
            BY <2>2, <3>1, <3>2, FormsSequence
        <3> QED
            BY <3>2, <3>3 DEF S
    <2>7. added \in Seq(ToSet(added)) /\ ToSet(added) = ToSet(calls)
        <3> DEFINE S == ToSet(calls)
        <3>1. calls \in Seq(S)
            BY <2>6
        <3> HIDE DEF S, calls
        <3>2. Reverse(calls) \in Seq(S) /\ ToSet(Reverse(calls)) = S
            BY <3>1, ReverseKeeps DEF S
        <3> QED
            BY <3>2 DEF S
    <2>8. \A c \in ToSet(calls) : \E side \in 1..m : c = child(side)
        BY <2>2 DEF ToSet
    <2>9. \A side \in 1..m : child(side) \in ToSet(calls)
        BY <2>2 DEF ToSet
    <2>10. AreCalls(added, n + 1, node, g)
        <3>1. \A c \in ToSet(added) :
                 /\ c.parent = n + 1 /\ c.side \in 1..m
                 /\ c.refs = parts[c.side] /\ c.depth = call.depth + 1
            <4> HIDE DEF added, calls, m, n
            <4> QED
                BY <2>7, <2>8
        <3>2. \A side \in 1..m : \E c \in ToSet(added) : c.side = side
            <4> SUFFICES ASSUME NEW side \in 1..m PROVE \E c \in ToSet(added) : c.side = side
                OBVIOUS
            <4>1. child(side).side = side
                OBVIOUS
            <4> HIDE DEF added, calls, child
            <4> QED
                BY <2>7, <2>9, <4>1
        <3> HIDE DEF added, node, g, m
        <3> QED
            BY <2>4, <2>7, <3>1, <3>2 DEF AreCalls
    <2> HIDE DEF node, g, added, m
    <2>11. IsNode(h, node, g)
        BY <1>4, <2>1, <2>4 DEF IsNode, m
    <2>12. HasTree(h, Append(Linked(nodes, call), node), Front(work) \o added)
        BY <1>1, <1>2, <1>3, <2>4, <2>5, <2>10, <2>11, TreeGrows
    <2> QED
        BY <1>2, <1>8, <2>12 DEF node, added
<1>9. \/ /\ IsLeaf(policy, call.refs, call.depth)
         /\ nodes' = Append(Linked(nodes, call),
                            [box |-> box, children |-> <<>>,
                             triangles |-> SetToSeq(DOMAIN call.refs)])
         /\ work' = Front(work)
      \/ /\ ~ IsLeaf(policy, call.refs, call.depth)
         /\ \E parts \in Parts(policy, call.refs, call.depth, h.centroids) :
               /\ nodes' = Append(Linked(nodes, call),
                                  [box |-> box, triangles |-> <<>>,
                                   children |-> [side \in DOMAIN parts |-> 0]])
               /\ work' = Front(work)
                    \o Reverse([side \in DOMAIN parts |->
                                  [refs |-> parts[side], depth |-> call.depth + 1,
                                   parent |-> n + 1, side |-> side]])
    BY DEF BuildNode, Linked
<1> HIDE DEF h, call, n, box, boxes, policy
<1> QED
    BY <1>7, <1>8, <1>9
-----------------------------------------------------------------------------
(* A ray in a finished tree.                                               *)

\* The stack holds nodes, each at a place that leaves room for its children.
StackFits(h, tree, G, stack) ==
    /\ stack \in Seq(Nat)
    /\ \A j \in 1..Len(stack) :
          /\ stack[j] \in 1..Len(tree)
          /\ j <= Slot(h.acceleration, h.boxes, G[stack[j]].refs, G[stack[j]].depth)

\* A node on the stack has the part of a triangle that a point lies in.
Awaits(G, stack, i, x) ==
    \E j \in 1..Len(stack) :
        i \in DOMAIN G[stack[j]].refs /\ Encloses(G[stack[j]].refs[i], x)

LEMMA PointIsInteger ==
    ASSUME NEW way, IsWay(way), NEW t \in Int
    PROVE  PointAt(way, t) \in [Axes -> Int]
<1>1. \A a \in Axes : way.origin[a] \in Int /\ way.direction[a] \in {-1, 1}
    BY DEF IsWay
<1>2. \A a \in Axes : way.origin[a] + t * way.direction[a] \in Int
    BY <1>1
<1> QED
    BY <1>2 DEF PointAt

LEMMA TopAndRest ==
    ASSUME NEW stack \in Seq(Nat), stack # <<>>
    PROVE  /\ Len(stack) \in Nat \ {0} /\ Front(stack) \in Seq(Nat)
           /\ Len(Front(stack)) = Len(stack) - 1 /\ Last(stack) = stack[Len(stack)]
           /\ \A j \in 1..Len(stack) - 1 : Front(stack)[j] = stack[j]
<1>1. Len(stack) \in Nat \ {0}
    OBVIOUS
<1> QED
    BY <1>1, FrontAndLast

LEMMA RestAndPushed ==
    ASSUME NEW rest \in Seq(Nat), NEW pushed \in Seq(Nat)
    PROVE  /\ rest \o pushed \in Seq(Nat)
           /\ Len(rest) \in Nat /\ Len(pushed) \in Nat
           /\ Len(rest \o pushed) = Len(rest) + Len(pushed)
           /\ \A j \in 1..Len(rest) : (rest \o pushed)[j] = rest[j]
           /\ \A j \in 1..Len(pushed) : (rest \o pushed)[Len(rest) + j] = pushed[j]
    OBVIOUS

LEMMA NodeOfTree ==
    ASSUME NEW h, h.boxes \in Seq(AllBoxes), NEW tree, NEW G, IsTree(h, tree, <<>>, G),
           NEW k \in 1..Len(tree)
    PROVE  /\ IsNode(h, tree[k], G[k]) /\ tree[k] \in Nodes /\ Len(tree) \in Nat
           /\ \A side \in 1..Len(tree[k].children) : IsChild(tree, G, k, side)
<1>1. tree \in Seq(Nodes)
    BY DEF IsTree
<1>2. \A side : ~ IsCalled(<<>>, k, side)
    BY DEF IsCalled, ToSet
<1> QED
    BY <1>1, <1>2 DEF IsTree

\* A stack is as short as the place of its top is low.
LEMMA FittingIsShort ==
    ASSUME NEW h, h.boxes \in Seq(AllBoxes), NEW tree, NEW G, IsTree(h, tree, <<>>, G),
           NEW stack, StackFits(h, tree, G, stack)
    PROVE  /\ Len(stack) \in Nat
           /\ Wides(h.acceleration) => Len(stack) <= WideStackSize
           /\ ~ Wides(h.acceleration) => Len(stack) <= StackSize
<1> DEFINE n == Len(stack)
<1>1. n \in Nat
    BY DEF StackFits
<1>2. StackSize \in Nat /\ WideStackSize \in Nat
    BY TreeAssumption
<1> HIDE DEF n
<1>3. CASE n = 0
    BY <1>2, <1>3 DEF n
<1>4. CASE n # 0
    <2> DEFINE k == stack[n]
               slot == Slot(h.acceleration, h.boxes, G[k].refs, G[k].depth)
    <2>1. n \in 1..n
        BY <1>1, <1>4
    <2>2. k \in 1..Len(tree) /\ n <= slot
        BY <2>1 DEF StackFits, n
    <2> HIDE DEF k
    <2>3. IsRefs(h.boxes, G[k].refs) /\ Fits(h.acceleration, h.boxes, G[k].refs, G[k].depth)
        BY <2>2, NodeOfTree DEF IsNode
    <2>4. /\ slot \in Int
          /\ Wides(h.acceleration) => slot <= WideStackSize
          /\ ~ Wides(h.acceleration) => slot <= StackSize
        BY <2>3, FitsInStack
    <2> HIDE DEF slot
    <2> QED
        BY <1>1, <1>2, <2>2, <2>4 DEF n
<1> QED
    BY <1>3, <1>4

\* Children of the top in its place: there is room for all of them.
LEMMA PushFits ==
    ASSUME NEW h, h.boxes \in Seq(AllBoxes), NEW tree, NEW G, IsTree(h, tree, <<>>, G),
           NEW stack, StackFits(h, tree, G, stack), stack # <<>>,
           tree[Last(stack)].children # <<>>
    PROVE  /\ Wides(h.acceleration) =>
                 Len(tree[Last(stack)].children) <= WideStackSize - Len(Front(stack))
           /\ \A pushed \in Seq(ToSet(tree[Last(stack)].children)) :
                 Len(pushed) <= Len(tree[Last(stack)].children) =>
                    StackFits(h, tree, G, Front(stack) \o pushed)
<1> DEFINE top == Last(stack)
           rest == Front(stack)
           n == Len(stack)
           children == tree[top].children
           m == Len(children)
           slot(k) == Slot(h.acceleration, h.boxes, G[k].refs, G[k].depth)
<1>1. /\ stack \in Seq(Nat) /\ n \in Nat \ {0} /\ rest \in Seq(Nat) /\ Len(rest) = n - 1
      /\ \A j \in 1..n - 1 : rest[j] = stack[j]
      /\ top = stack[n]
    <2>1. stack \in Seq(Nat)
        BY DEF StackFits
    <2> QED
        BY <2>1, TopAndRest
<1>2. /\ \A j \in 1..n : stack[j] \in 1..Len(tree) /\ j <= slot(stack[j])
      /\ n \in 1..n /\ \A j \in 1..n - 1 : j \in 1..n
    BY <1>1 DEF StackFits
<1>3. top \in 1..Len(tree) /\ n <= slot(top)
    BY <1>1, <1>2
<1> HIDE DEF top, n, rest
<1>4. IsNode(h, tree[top], G[top]) /\ \A side \in 1..m : IsChild(tree, G, top, side)
    BY <1>3, NodeOfTree
<1>5. Divides(h.acceleration, h.boxes, G[top].refs, G[top].depth, G[top].parts)
      /\ m = Len(G[top].parts) /\ m \in Nat \ {0}
    BY <1>4 DEF IsNode, Divides, top
<1>6. ASSUME NEW side \in 1..m
      PROVE  /\ children[side] \in 1..Len(tree) /\ slot(top) + m - 1 <= slot(children[side])
             /\ slot(children[side]) \in Int
             /\ Wides(h.acceleration) => slot(children[side]) <= WideStackSize
    <2> DEFINE c == children[side]
    <2>1. c \in 1..Len(tree) /\ G[c].refs = G[top].parts[side] /\ G[c].depth = G[top].depth + 1
        BY <1>4 DEF IsChild
    <2>2. /\ IsRefs(h.boxes, G[top].parts[side])
          /\ Fits(h.acceleration, h.boxes, G[top].parts[side], G[top].depth + 1)
          /\ slot(top) + m - 1
                <= Slot(h.acceleration, h.boxes, G[top].parts[side], G[top].depth + 1)
        BY <1>5 DEF Divides
    <2> HIDE DEF c, m
    <2>3. slot(c) \in Int /\ (Wides(h.acceleration) => slot(c) <= WideStackSize)
        BY <2>1, <2>2, FitsInStack
    <2> QED
        BY <2>1, <2>2, <2>3 DEF c
<1>7. slot(top) \in Int
    <2>1. IsRefs(h.boxes, G[top].refs)
          /\ Fits(h.acceleration, h.boxes, G[top].refs, G[top].depth)
        BY <1>4 DEF IsNode
    <2> QED
        BY <2>1, FitsInStack
<1>8. children \in Seq(Nat)
    BY <1>3, NodeOfTree DEF Nodes
<1>9. DOMAIN children = 1..m
    BY <1>8
<1> HIDE DEF children, m, slot
<1>10. Wides(h.acceleration) => m <= WideStackSize - (n - 1)
    <2>1. 1 \in 1..m
        BY <1>5
    <2>2. WideStackSize \in Nat
        BY TreeAssumption
    <2> DEFINE p == slot(top)
               q == slot(children[1])
    <2>3. /\ p \in Int /\ q \in Int /\ n <= p /\ p + m - 1 <= q
          /\ Wides(h.acceleration) => q <= WideStackSize
        BY <1>3, <1>6, <1>7, <2>1
    <2> HIDE DEF p, q
    <2> QED
        BY <1>1, <1>5, <2>2, <2>3
<1>11. ASSUME NEW pushed \in Seq(ToSet(children)), Len(pushed) <= m
       PROVE  StackFits(h, tree, G, rest \o pushed)
    <2> DEFINE l == Len(pushed)
               now == rest \o pushed
    <2>1. l \in Nat /\ l <= m /\ \A j \in 1..l : \E side \in 1..m : pushed[j] = children[side]
        <3>1. \A j \in 1..l : pushed[j] \in ToSet(children)
            BY <1>11
        <3> QED
            BY <1>9, <1>11, <3>1 DEF ToSet
    <2>2. pushed \in Seq(Nat)
        <3>1. \A c \in ToSet(children) : c \in Nat
            BY <1>8 DEF ToSet
        <3> DEFINE S == ToSet(children)
        <3>2. pushed \in Seq(S) /\ \A c \in S : c \in Nat
            BY <1>11, <3>1
        <3> HIDE DEF S
        <3> QED
            BY <3>2
    <2>3. /\ now \in Seq(Nat) /\ Len(now) = n - 1 + l
          /\ \A j \in 1..n - 1 : now[j] = rest[j]
          /\ \A j \in 1..l : now[n - 1 + j] = pushed[j]
        <3> DEFINE k == Len(rest)
        <3>1. /\ now \in Seq(Nat) /\ k \in Nat /\ Len(now) = k + l
              /\ \A j \in 1..k : now[j] = rest[j]
              /\ \A j \in 1..l : now[k + j] = pushed[j]
            BY <1>1, <2>2, RestAndPushed
        <3>2. k = n - 1
            BY <1>1
        <3> HIDE DEF k, now, l
        <3> QED
            BY <3>1, <3>2
    <2> HIDE DEF now
    <2>4. ASSUME NEW j \in 1..n - 1 + l
          PROVE  now[j] \in 1..Len(tree) /\ j <= slot(now[j])
        <3>1. CASE j \in 1..n - 1
            BY <1>1, <1>2, <2>3, <3>1
        <3>2. CASE j \notin 1..n - 1
            <4>1. j - (n - 1) \in 1..l /\ n - 1 + (j - (n - 1)) = j
                <5> HIDE DEF l
                <5> QED
                    BY <1>1, <2>1, <3>2
            <4>2. PICK side \in 1..m : pushed[j - (n - 1)] = children[side]
                BY <2>1, <4>1
            <4>3. now[j] = children[side]
                BY <2>3, <4>1, <4>2
            <4> DEFINE p == slot(top)
                       q == slot(children[side])
            <4>4. /\ p \in Int /\ q \in Int /\ n <= p /\ p + m - 1 <= q
                  /\ children[side] \in 1..Len(tree)
                BY <1>3, <1>6, <1>7
            <4> HIDE DEF p, q, l
            <4>5. j <= q
                BY <1>1, <1>5, <2>1, <4>1, <4>4
            <4> QED
                BY <4>3, <4>4, <4>5 DEF q
        <3> QED
            BY <3>1, <3>2
    <2> QED
        BY <2>3, <2>4 DEF StackFits, now, slot
<1> QED
    BY <1>1, <1>10, <1>11 DEF children, m, rest, n, top

\* Without its top, a stack holds what it held below.
LEMMA PopFits ==
    ASSUME NEW h, NEW tree, NEW G, NEW stack, StackFits(h, tree, G, stack), stack # <<>>
    PROVE  /\ StackFits(h, tree, G, Front(stack)) /\ Last(stack) \in 1..Len(tree)
           /\ \A i, x : Awaits(G, stack, i, x) =>
                 \/ Awaits(G, Front(stack), i, x)
                 \/ i \in DOMAIN G[Last(stack)].refs /\ Encloses(G[Last(stack)].refs[i], x)
<1> DEFINE n == Len(stack)
           rest == Front(stack)
<1>1. /\ n \in Nat \ {0} /\ rest \in Seq(Nat) /\ Len(rest) = n - 1
      /\ \A j \in 1..n - 1 : rest[j] = stack[j]
      /\ Last(stack) = stack[n]
    <2>1. stack \in Seq(Nat)
        BY DEF StackFits
    <2> QED
        BY <2>1, TopAndRest
<1>2. \A j \in 1..n - 1 : j \in 1..n
    BY <1>1
<1>3. n \in 1..n /\ \A j \in 1..n : j = n \/ j \in 1..n - 1
    BY <1>1
<1> HIDE DEF rest
<1>4. StackFits(h, tree, G, rest) /\ Last(stack) \in 1..Len(tree)
    BY <1>1, <1>2, <1>3 DEF StackFits
<1>5. ASSUME NEW i, NEW x, Awaits(G, stack, i, x)
      PROVE  \/ Awaits(G, rest, i, x)
             \/ i \in DOMAIN G[Last(stack)].refs /\ Encloses(G[Last(stack)].refs[i], x)
    BY <1>1, <1>3, <1>5 DEF Awaits
<1> QED
    BY <1>4, <1>5 DEF rest

\* A point of the ray before its closest hit is waited for after a node has made place
\* for those of its children the ray enters.
LEMMA PushAwaits ==
    ASSUME NEW h, h.boxes \in Seq(AllBoxes), NEW tree, NEW G, IsTree(h, tree, <<>>, G),
           NEW stack, StackFits(h, tree, G, stack), stack # <<>>,
           tree[Last(stack)].children # <<>>,
           NEW way, IsWay(way), NEW closest \in Int,
           NEW pushed \in Seq(ToSet(tree[Last(stack)].children)),
           \A c \in ToSet(tree[Last(stack)].children) :
               Enters(way, tree[c].box, closest) => c \in ToSet(pushed),
           NEW i \in KeptOf(h.acceleration, h.boxes), NEW t \in Int, t >= 1, t < closest,
           Awaits(G, stack, i, PointAt(way, t))
    PROVE  Awaits(G, Front(stack) \o pushed, i, PointAt(way, t))
<1> DEFINE top == Last(stack)
           rest == Front(stack)
           children == tree[top].children
           S == ToSet(children)
           now == rest \o pushed
           x == PointAt(way, t)
<1>1. x \in [Axes -> Int]
    BY PointIsInteger
<1>2. top \in 1..Len(tree) /\ rest \in Seq(Nat)
    BY PopFits DEF StackFits
<1> HIDE DEF top, rest, x
<1>3. children \in Seq(Nat) /\ children # <<>>
    BY <1>2, NodeOfTree DEF Nodes, top
<1>4. pushed \in Seq(Nat)
    <2>1. pushed \in Seq(S)
        BY DEF top
    <2>2. \A c \in S : c \in Nat
        BY <1>3 DEF ToSet
    <2> HIDE DEF S
    <2> QED
        BY <2>1, <2>2
<1>5. /\ Len(rest) \in Nat /\ Len(pushed) \in Nat /\ Len(now) = Len(rest) + Len(pushed)
      /\ \A j \in 1..Len(rest) : now[j] = rest[j]
      /\ \A j \in 1..Len(pushed) : now[Len(rest) + j] = pushed[j]
    BY <1>2, <1>4
<1> HIDE DEF now
<1>6. CASE Awaits(G, rest, i, x)
    <2>1. \A j \in 1..Len(rest) : j \in 1..Len(now)
        BY <1>5
    <2> QED
        BY <1>5, <1>6, <2>1 DEF Awaits, now, rest, x
<1>7. CASE i \in DOMAIN G[top].refs /\ Encloses(G[top].refs[i], x)
    <2>1. /\ IsNode(h, tree[top], G[top])
          /\ \A side \in 1..Len(children) : IsChild(tree, G, top, side)
        BY <1>2, NodeOfTree
    <2>2. /\ Divides(h.acceleration, h.boxes, G[top].refs, G[top].depth, G[top].parts)
          /\ Len(children) = Len(G[top].parts)
        BY <1>3, <2>1 DEF IsNode
    <2>3. DOMAIN G[top].parts = 1..Len(children)
        BY <2>2 DEF Divides
    <2>4. Covers(G[top].parts, G[top].refs, KeptOf(h.acceleration, h.boxes))
        BY <2>2 DEF Divides
    <2>5. PICK side \in 1..Len(children) :
              i \in DOMAIN G[top].parts[side] /\ Encloses(G[top].parts[side][i], x)
        BY <1>1, <1>7, <2>3, <2>4 DEF Covers
    <2> DEFINE c == children[side]
    <2>6. c \in 1..Len(tree) /\ G[c].refs = G[top].parts[side]
        BY <2>1, <2>5 DEF IsChild
    <2>7. c \in S
        BY <1>3, <2>5 DEF ToSet
    <2> HIDE DEF c, S, children
    <2>8. IsNode(h, tree[c], G[c]) /\ tree[c].box \in AllBoxes
        BY <2>6, NodeOfTree DEF Nodes
    <2>9. IsRefs(h.boxes, G[c].refs) /\ tree[c].box = Bounds(G[c].refs)
        BY <2>8 DEF IsNode
    <2>10. Encloses(tree[c].box, x)
        BY <1>1, <2>5, <2>6, <2>9, BoundsContain
    <2>11. t \in Stretch(way, tree[c].box)
        BY <2>8, <2>10, StretchHasPoints DEF x
    <2>12. Enters(way, tree[c].box, closest)
        BY <2>8, <2>11, EntersBefore
    <2>13. c \in ToSet(pushed)
        BY <2>7, <2>12 DEF S, children, top
    <2>14. PICK j \in 1..Len(pushed) : pushed[j] = c
        BY <1>4, <2>13 DEF ToSet
    <2>15. now[Len(rest) + j] = c /\ Len(rest) + j \in 1..Len(now)
        BY <1>5, <2>14
    <2> QED
        BY <2>5, <2>6, <2>15 DEF Awaits, now, rest, x
<1> QED
    BY <1>6, <1>7, PopFits DEF rest, top, x

\* Of two children, those a ray enters are put on the stack.
LEMMA PushedEntered ==
    ASSUME NEW tree, NEW children \in Seq(Nat), Len(children) = 2, NEW way, NEW closest
    PROVE  /\ Pushed(tree, children, way, closest) \in Seq(ToSet(children))
           /\ Len(Pushed(tree, children, way, closest)) <= Len(children)
           /\ \A c \in ToSet(children) : Enters(way, tree[c].box, closest) =>
                  c \in ToSet(Pushed(tree, children, way, closest))
<1> DEFINE S == ToSet(children)
           left == children[1]
           right == children[2]
           hit(c) == Enters(way, tree[c].box, closest)
           pushed == Pushed(tree, children, way, closest)
<1>1. S = {left, right}
    BY DEF ToSet
<1>2. \/ hit(left) /\ hit(right) /\ pushed = <<right, left>>
      \/ hit(left) /\ hit(right) /\ pushed = <<left, right>>
      \/ hit(left) /\ ~ hit(right) /\ pushed = <<left>>
      \/ ~ hit(left) /\ hit(right) /\ pushed = <<right>>
      \/ ~ hit(left) /\ ~ hit(right) /\ pushed = <<>>
    BY DEF Pushed
<1>3. \A a, b : /\ Len(<<a, b>>) = 2 /\ <<a, b>> \in Seq({a, b}) /\ ToSet(<<a, b>>) = {a, b}
                /\ Len(<<a>>) = 1 /\ <<a>> \in Seq({a}) /\ ToSet(<<a>>) = {a}
    BY DEF ToSet
<1> HIDE DEF S, left, right, hit, pushed
<1>4. /\ pushed \in Seq(S) /\ Len(pushed) <= 2
      /\ \A c \in S : hit(c) => c \in ToSet(pushed)
    <2>1. CASE hit(left) /\ hit(right) /\ pushed = <<right, left>>
        BY <1>1, <1>3, <2>1
    <2>2. CASE hit(left) /\ hit(right) /\ pushed = <<left, right>>
        BY <1>1, <1>3, <2>2
    <2>3. CASE hit(left) /\ ~ hit(right) /\ pushed = <<left>>
        BY <1>1, <1>3, <2>3
    <2>4. CASE ~ hit(left) /\ hit(right) /\ pushed = <<right>>
        BY <1>1, <1>3, <2>4
    <2>5. CASE ~ hit(left) /\ ~ hit(right) /\ pushed = <<>>
        BY <1>1, <2>5
    <2> QED
        BY <1>2, <2>1, <2>2, <2>3, <2>4, <2>5
<1> QED
    BY <1>4 DEF S, hit, pushed
-----------------------------------------------------------------------------
(* The ray that is traced.                                                 *)

IsRay(boxes, r) ==
    /\ r \in [kind : {"closest", "shadow"}, origin : [Axes -> Int],
              direction : [Axes -> {-1, 1}],
              start : Nat, closest : Int, occluded : BOOLEAN, stack : Seq(Nat),
              overflow : BOOLEAN, met : [DOMAIN boxes -> Int]]
    /\ ~ r.overflow

\* Whatever part of a ray before its closest hit lies in a triangle's box that has not
\* been tested, lies in a node that is on the stack.
NothingMissed(h, G, r) ==
    \A i \in DOMAIN h.boxes :
        IF r.met[i] = Untested
        THEN i \in KeptOf(h.acceleration, h.boxes) =>
                \A t \in Stretch(r, h.boxes[i]) :
                    t < r.closest => Awaits(G, r.stack, i, PointAt(r, t))
        ELSE r.met[i] = 0 \/ r.closest <= r.met[i]

IsTraced(h, tree, G, r) ==
    /\ IsRay(h.boxes, r) /\ StackFits(h, tree, G, r.stack)
    /\ r.occluded \/ NothingMissed(h, G, r)

TracesIInv ==
    /\ host \in HostScenes
    /\ stage # "tree" => work = <<>>
    /\ ray # NoRay => stage = "rendering"
    /\ \E G : IsTree(host, nodes, work, G) /\ (ray # NoRay => IsTraced(host, nodes, G, ray))

\* The call for the root is next.
LEMMA TracesBegin == ASSUME StacksSuffice, Init PROVE TracesIInv
<1> DEFINE calls == <<RootCall(host)>>
<1>1. host \in HostScenes /\ stage = "tree" /\ nodes = <<>> /\ work = calls /\ ray = NoRay
    BY DEF Init, RootCall
<1>2. calls \in Seq(ToSet(calls))
    <2>1. \A c : <<c>> \in Seq({c}) /\ ToSet(<<c>>) = {c}
        BY DEF ToSet
    <2> QED
        BY <2>1
<1>3. \A G : IsTree(host, <<>>, calls, G)
    <2>1. <<>> \in Seq(Nodes) /\ 1..Len(<<>>) = {}
        OBVIOUS
    <2> HIDE DEF calls
    <2> QED
        BY <1>2, <2>1 DEF IsTree, calls
<1> QED
    BY <1>1, <1>3 DEF TracesIInv

\* A ray begins with the root, whose references are the boxes themselves.
LEMMA RayBegins ==
    ASSUME StacksSuffice, TracesIInv, BeginRay
    PROVE  TracesIInv'
<1>1. /\ host \in HostScenes /\ stage = "rendering" /\ work = <<>>
      /\ host' = host /\ stage' = stage /\ nodes' = nodes /\ work' = work
    BY DEF TracesIInv, BeginRay, treeVars
<1>2. PICK G : IsTree(host, nodes, work, G)
    BY DEF TracesIInv
<1>3. PICK way \in Rays, start \in Starts, kind \in {"closest", "shadow"} :
          ray' = [kind |-> kind, origin |-> way.origin, direction |-> way.direction,
                  start |-> start, closest |-> start, occluded |-> FALSE, stack |-> <<1>>,
                  overflow |-> FALSE, met |-> [i \in DOMAIN host.boxes |-> Untested]]
    BY DEF BeginRay
<1> DEFINE boxes == host.boxes
           r == ray'
<1>4. way.origin \in [Axes -> Int] /\ way.direction \in [Axes -> {-1, 1}] /\ start \in Nat
    BY RaysAssumption
<1>5. /\ r.origin = way.origin /\ r.direction = way.direction /\ r.closest = start
      /\ r.stack = <<1>> /\ r.met = [i \in DOMAIN boxes |-> Untested]
    BY <1>3
<1>6. IsRay(boxes, r)
    <2>1. [i \in DOMAIN boxes |-> Untested] \in [DOMAIN boxes -> Int] /\ <<1>> \in Seq(Nat)
        BY DEF Untested
    <2> HIDE DEF boxes
    <2> QED
        BY <1>3, <1>4, <2>1 DEF IsRay, boxes
<1>7. nodes \in Seq(Nodes) /\ nodes # <<>> /\ G[1].refs = boxes /\ G[1].depth = 0
    BY <1>1, <1>2 DEF IsTree
<1>8. StackFits(host, nodes, G, r.stack)
    <2>1. 1 \in 1..Len(nodes)
        <3> DEFINE n == Len(nodes)
        <3>1. n \in Nat /\ n # 0
            BY <1>7
        <3> HIDE DEF n
        <3> QED
            BY <3>1 DEF n
    <2>2. Slot(host.acceleration, boxes, boxes, 0) = 1
        BY <1>1, RootFits
    <2>3. Len(<<1>>) = 1 /\ <<1>>[1] = 1 /\ 1..1 = {1} /\ <<1>> \in Seq(Nat)
        OBVIOUS
    <2> HIDE DEF r, boxes
    <2> QED
        BY <1>5, <1>7, <2>1, <2>2, <2>3 DEF StackFits, boxes
<1>9. NothingMissed(host, G, r)
    <2> SUFFICES ASSUME NEW i \in DOMAIN boxes, NEW t \in Stretch(r, boxes[i])
                 PROVE  Awaits(G, r.stack, i, PointAt(r, t))
        BY <1>5 DEF NothingMissed, Untested
    <2>1. boxes \in Seq(AllBoxes)
        BY <1>1, RootFits
    <2>2. boxes[i] \in AllBoxes
        BY <2>1
    <2>3. IsWay(r)
        BY <1>4, <1>5 DEF IsWay
    <2> HIDE DEF r, boxes
    <2>4. Encloses(boxes[i], PointAt(r, t))
        BY <2>2, <2>3, StretchHasPoints
    <2>5. Len(<<1>>) = 1 /\ <<1>>[1] = 1 /\ 1 \in 1..1
        OBVIOUS
    <2> QED
        BY <1>5, <1>7, <2>4, <2>5 DEF Awaits
<1>10. IsTraced(host, nodes, G, r)
    BY <1>6, <1>8, <1>9 DEF IsTraced
<1> QED
    BY <1>1, <1>2, <1>10 DEF TracesIInv

\* What a step of a ray has to work with.
LEMMA TracingRay ==
    ASSUME StacksSuffice, TracesIInv, Tracing
    PROVE  /\ host.boxes \in Seq(AllBoxes) /\ IsWay(ray) /\ work = <<>>
           /\ \E G : /\ IsTree(host, nodes, <<>>, G) /\ IsRay(host.boxes, ray)
                     /\ StackFits(host, nodes, G, ray.stack)
                     /\ ray.occluded \/ NothingMissed(host, G, ray)
<1>1. ray # NoRay /\ stage = "rendering" /\ work = <<>> /\ host \in HostScenes
    BY DEF Tracing, TracesIInv
<1>2. PICK G : IsTree(host, nodes, work, G) /\ IsTraced(host, nodes, G, ray)
    BY <1>1 DEF TracesIInv
<1>3. IsWay(ray)
    BY <1>2 DEF IsTraced, IsRay, IsWay
<1> QED
    BY <1>1, <1>2, <1>3, RootFits DEF IsTraced

\* The way of a ray stays the same.
LEMMA SameWay ==
    ASSUME NEW r, NEW q, r.origin = q.origin, r.direction = q.direction
    PROVE  /\ \A box : Stretch(r, box) = Stretch(q, box)
           /\ \A t : PointAt(r, t) = PointAt(q, t)
    BY DEF Stretch, Near, Far, Slabs, PointAt

\* A node the ray misses has no part of it before the closest hit.
LEMMA MissedIsPopped ==
    ASSUME StacksSuffice, TracesIInv, PopMissed
    PROVE  TracesIInv'
<1>1. /\ host' = host /\ stage' = stage /\ nodes' = nodes /\ work' = work
      /\ Tracing /\ ~ Wide /\ ~ Enters(ray, Top.box, ray.closest)
      /\ ray' = [ray EXCEPT !.stack = Front(ray.stack)]
    BY DEF PopMissed, Visits, treeVars
<1>2. PICK G : /\ IsTree(host, nodes, <<>>, G) /\ IsRay(host.boxes, ray)
               /\ StackFits(host, nodes, G, ray.stack)
               /\ ray.occluded \/ NothingMissed(host, G, ray)
    BY <1>1, TracingRay
<1>3. host.boxes \in Seq(AllBoxes) /\ IsWay(ray) /\ work = <<>>
    BY <1>1, TracingRay
<1> DEFINE stack == ray.stack
           rest == Front(stack)
           top == Last(stack)
           r == ray'
<1>4. stack # <<>> /\ Top = nodes[top]
    BY <1>1 DEF Tracing, Top
<1>5. /\ StackFits(host, nodes, G, rest) /\ top \in 1..Len(nodes)
      /\ \A i, x : Awaits(G, stack, i, x) =>
            \/ Awaits(G, rest, i, x)
            \/ i \in DOMAIN G[top].refs /\ Encloses(G[top].refs[i], x)
    BY <1>2, <1>4, PopFits
<1>6. rest \in Seq(Nat)
    BY <1>5 DEF StackFits
<1> HIDE DEF rest, stack, top
<1>7. /\ IsRay(host.boxes, r) /\ r.origin = ray.origin /\ r.direction = ray.direction
      /\ r.closest = ray.closest /\ r.stack = rest
      /\ r.met = ray.met /\ r.occluded = ray.occluded
    BY <1>1, <1>2, <1>6 DEF IsRay, rest, stack
<1>8. IsNode(host, nodes[top], G[top]) /\ nodes[top].box \in AllBoxes
    BY <1>2, <1>3, <1>5, NodeOfTree DEF Nodes
<1>9. ASSUME NothingMissed(host, G, ray) PROVE NothingMissed(host, G, r)
    <2> SUFFICES ASSUME NEW i \in DOMAIN host.boxes, ray.met[i] = Untested,
                        i \in KeptOf(host.acceleration, host.boxes),
                        NEW t \in Stretch(r, host.boxes[i]), t < ray.closest
                 PROVE  Awaits(G, rest, i, PointAt(r, t))
        BY <1>7, <1>9 DEF NothingMissed
    <2>1. t \in Stretch(ray, host.boxes[i]) /\ PointAt(r, t) = PointAt(ray, t)
        BY <1>7, SameWay
    <2>2. Awaits(G, stack, i, PointAt(ray, t))
        BY <1>9, <2>1 DEF NothingMissed, stack
    <2>3. ~ Encloses(nodes[top].box, PointAt(ray, t))
        <3> SUFFICES ASSUME Encloses(nodes[top].box, PointAt(ray, t)) PROVE FALSE
            OBVIOUS
        <3>1. host.boxes[i] \in AllBoxes
            BY <1>3
        <3>2. t \in Int /\ t >= 1
            BY <1>3, <2>1, <3>1, StretchHasPoints
        <3>3. t \in Stretch(ray, nodes[top].box)
            BY <1>3, <1>8, <3>2, StretchHasPoints
        <3>4. ray.closest \in Int
            BY <1>2 DEF IsRay
        <3>5. Enters(ray, nodes[top].box, ray.closest)
            BY <1>3, <1>8, <3>3, <3>4, EntersBefore
        <3> QED
            BY <1>1, <1>4, <3>5
    <2>4. ~ (i \in DOMAIN G[top].refs /\ Encloses(G[top].refs[i], PointAt(ray, t)))
        <3>1. IsRefs(host.boxes, G[top].refs) /\ nodes[top].box = Bounds(G[top].refs)
            BY <1>8 DEF IsNode
        <3>2. PointAt(ray, t) \in [Axes -> Int]
            <4>1. host.boxes[i] \in AllBoxes
                BY <1>3
            <4>2. t \in Int
                BY <1>3, <2>1, <4>1, StretchHasPoints
            <4> QED
                BY <1>3, <4>2, PointIsInteger
        <3> QED
            BY <1>3, <2>3, <3>1, <3>2, BoundsContain
    <2> QED
        BY <1>5, <2>1, <2>2, <2>4
<1>10. IsTraced(host, nodes, G, r)
    BY <1>2, <1>5, <1>7, <1>9 DEF IsTraced
<1> QED
    BY <1>1, <1>2, <1>3, <1>10 DEF TracesIInv, Tracing

\* A node makes place for those of its children the ray enters.
LEMMA ChildrenArePushed ==
    ASSUME StacksSuffice, TracesIInv, Tracing, Top.children # <<>>,
           NEW pushed \in Seq(ToSet(Top.children)), Len(pushed) <= Len(Top.children),
           \A c \in ToSet(Top.children) :
               Enters(ray, nodes[c].box, ray.closest) => c \in ToSet(pushed),
           NEW r,
           r = [ray EXCEPT !.stack = Front(ray.stack) \o pushed, !.overflow = FALSE]
    PROVE  /\ ~ Wide => Len(Front(ray.stack) \o pushed) <= StackSize
           /\ Len(Front(ray.stack) \o pushed) \in Nat
           /\ \E G : IsTree(host, nodes, work, G) /\ IsTraced(host, nodes, G, r)
<1>1. PICK G : /\ IsTree(host, nodes, <<>>, G) /\ IsRay(host.boxes, ray)
               /\ StackFits(host, nodes, G, ray.stack)
               /\ ray.occluded \/ NothingMissed(host, G, ray)
    BY TracingRay
<1>2. host.boxes \in Seq(AllBoxes) /\ IsWay(ray) /\ work = <<>>
    BY TracingRay
<1> DEFINE stack == ray.stack
           now == Front(stack) \o pushed
<1>3. stack # <<>> /\ Top = nodes[Last(stack)]
    BY DEF Tracing, Top
<1>4. StackFits(host, nodes, G, now)
    BY <1>1, <1>2, <1>3, PushFits
<1>5. Len(now) \in Nat /\ (~ Wide => Len(now) <= StackSize) /\ now \in Seq(Nat)
    <2> HIDE DEF now
    <2> QED
        BY <1>1, <1>2, <1>4, FittingIsShort DEF Wide, Wides, StackFits
<1>6. ray.closest \in Int
    BY <1>1 DEF IsRay
<1>7. ASSUME NEW i \in KeptOf(host.acceleration, host.boxes),
             NEW t \in Int, t >= 1, t < ray.closest, Awaits(G, stack, i, PointAt(ray, t))
      PROVE  Awaits(G, now, i, PointAt(ray, t))
    BY <1>1, <1>2, <1>3, <1>6, <1>7, PushAwaits
<1> HIDE DEF now
<1>8. /\ IsRay(host.boxes, r) /\ r.origin = ray.origin /\ r.direction = ray.direction
      /\ r.closest = ray.closest /\ r.stack = now
      /\ r.met = ray.met /\ r.occluded = ray.occluded
    BY <1>1, <1>5 DEF IsRay, now
<1>9. ASSUME NothingMissed(host, G, ray) PROVE NothingMissed(host, G, r)
    <2> SUFFICES ASSUME NEW i \in DOMAIN host.boxes, ray.met[i] = Untested,
                        i \in KeptOf(host.acceleration, host.boxes),
                        NEW t \in Stretch(r, host.boxes[i]), t < ray.closest
                 PROVE  Awaits(G, now, i, PointAt(r, t))
        BY <1>8, <1>9 DEF NothingMissed
    <2>1. t \in Stretch(ray, host.boxes[i]) /\ PointAt(r, t) = PointAt(ray, t)
        BY <1>8, SameWay
    <2>2. Awaits(G, stack, i, PointAt(ray, t))
        BY <1>9, <2>1 DEF NothingMissed
    <2>3. host.boxes[i] \in AllBoxes
        BY <1>2
    <2>4. t \in Int /\ t >= 1
        BY <1>2, <2>1, <2>3, StretchHasPoints
    <2> QED
        BY <1>7, <2>1, <2>2, <2>4
<1>10. IsTraced(host, nodes, G, r)
    BY <1>1, <1>4, <1>8, <1>9 DEF IsTraced
<1> QED
    BY <1>1, <1>2, <1>5, <1>10 DEF now

\* The top is a node of the tree.
LEMMA TopOfTree ==
    ASSUME StacksSuffice, TracesIInv, Tracing
    PROVE  /\ Top \in Nodes
           /\ Top.children # <<>> /\ ~ Wide => Len(Top.children) = 2
           /\ \A c \in ToSet(Top.children) : Near(ray, nodes[c].box) \in Int
           /\ Top.children # <<>> /\ Wide =>
                 Len(Top.children) <= WideStackSize - Len(Front(ray.stack))
           /\ Len(Front(ray.stack)) \in Nat
<1>1. PICK G : IsTree(host, nodes, <<>>, G) /\ StackFits(host, nodes, G, ray.stack)
    BY TracingRay
<1>2. host.boxes \in Seq(AllBoxes) /\ IsWay(ray)
    BY TracingRay
<1> DEFINE top == Last(ray.stack)
<1>3. ray.stack # <<>> /\ Top = nodes[top]
    BY DEF Tracing, Top
<1>4. top \in 1..Len(nodes)
    BY <1>1, <1>3, PopFits
<1>5. Wide /\ nodes[top].children # <<>> =>
          Len(nodes[top].children) <= WideStackSize - Len(Front(ray.stack))
    BY <1>1, <1>2, <1>3, PushFits DEF Wide, Wides
<1>6. Len(Front(ray.stack)) \in Nat
    BY <1>1, <1>3, PopFits DEF StackFits
<1> HIDE DEF top
<1>7. /\ IsNode(host, nodes[top], G[top]) /\ nodes[top] \in Nodes
      /\ \A side \in 1..Len(nodes[top].children) : IsChild(nodes, G, top, side)
    BY <1>1, <1>2, <1>4, NodeOfTree
<1>8. nodes[top].children # <<>> /\ ~ Wide => Len(nodes[top].children) = 2
    BY <1>7 DEF IsNode, Divides, Wide, Wides
<1>9. ASSUME NEW c \in ToSet(nodes[top].children) PROVE Near(ray, nodes[c].box) \in Int
    <2>1. nodes[top].children \in Seq(Nat)
        BY <1>7 DEF Nodes
    <2>2. PICK side \in 1..Len(nodes[top].children) : nodes[top].children[side] = c
        BY <1>9, <2>1 DEF ToSet
    <2>3. c \in 1..Len(nodes)
        BY <1>7, <2>2 DEF IsChild
    <2>4. nodes[c].box \in AllBoxes
        BY <1>1, <1>2, <2>3, NodeOfTree DEF Nodes
    <2> QED
        BY <1>2, <2>4, StretchHasPoints
<1> QED
    BY <1>3, <1>5, <1>6, <1>7, <1>8, <1>9 DEF top

LEMMA ChildrenPushed ==
    ASSUME StacksSuffice, TracesIInv, PushChildren
    PROVE  TracesIInv'
<1> DEFINE pushed == Pushed(nodes, Top.children, ray, ray.closest)
           stack == Front(ray.stack) \o pushed
           r == [ray EXCEPT !.stack = stack, !.overflow = FALSE]
<1>1. /\ host' = host /\ stage' = stage /\ nodes' = nodes /\ work' = work
      /\ Tracing /\ ~ Wide /\ Top.children # <<>>
      /\ ray' = [ray EXCEPT !.stack = stack, !.overflow = Len(stack) > StackSize]
    BY DEF PushChildren, treeVars
<1>2. Top.children \in Seq(Nat) /\ Len(Top.children) = 2
    BY <1>1, TopOfTree DEF Nodes
<1>3. /\ pushed \in Seq(ToSet(Top.children)) /\ Len(pushed) <= Len(Top.children)
      /\ \A c \in ToSet(Top.children) :
            Enters(ray, nodes[c].box, ray.closest) => c \in ToSet(pushed)
    BY <1>2, PushedEntered
<1> HIDE DEF pushed
<1>4. /\ Len(stack) <= StackSize /\ Len(stack) \in Nat
      /\ \E G : IsTree(host, nodes, work, G) /\ IsTraced(host, nodes, G, r)
    BY <1>1, <1>3, ChildrenArePushed
<1>5. ray' = r
    <2> HIDE DEF stack
    <2>1. (Len(stack) > StackSize) = FALSE
        BY <1>4, TreeAssumption
    <2> QED
        BY <1>1, <2>1
<1> QED
    BY <1>1, <1>4, <1>5 DEF TracesIInv, Tracing

LEMMA WideChildrenPushed ==
    ASSUME StacksSuffice, TracesIInv, PushWideChildren
    PROVE  TracesIInv'
<1> DEFINE rest == Front(ray.stack)
           pushed == WidePushed(nodes, Top.children, ray, ray.closest,
                               WideStackSize - Len(rest))
           r == [ray EXCEPT !.stack = rest \o pushed, !.overflow = FALSE]
<1>1. /\ host' = host /\ stage' = stage /\ nodes' = nodes /\ work' = work
      /\ Tracing /\ Wide /\ Top.children # <<>>
      /\ ray' = [ray EXCEPT !.stack = rest \o pushed]
    BY DEF PushWideChildren, treeVars
<1>2. Top.children \in Seq(Nat)
    BY <1>1, TopOfTree DEF Nodes
<1>3. \A side \in DOMAIN Top.children : Near(ray, nodes[Top.children[side]].box) \in Int
    BY <1>1, TopOfTree DEF ToSet
<1>4. Len(Top.children) <= WideStackSize - Len(rest) /\ WideStackSize - Len(rest) \in Int
    <2>1. Len(Top.children) <= WideStackSize - Len(rest) /\ Len(rest) \in Nat
        BY <1>1, TopOfTree
    <2> HIDE DEF rest
    <2> QED
        BY <2>1, TreeAssumption
<1>5. /\ pushed \in Seq(ToSet(Top.children)) /\ Len(pushed) <= Len(Top.children)
      /\ \A c \in ToSet(Top.children) :
            Enters(ray, nodes[c].box, ray.closest) => c \in ToSet(pushed)
    <2> DEFINE room == WideStackSize - Len(rest)
    <2>1. Len(Top.children) <= room /\ room \in Int
        BY <1>4
    <2> HIDE DEF room
    <2> QED
        BY <1>2, <1>3, <2>1, WidePushedEntered DEF room
<1> HIDE DEF pushed
<1>6. \E G : IsTree(host, nodes, work, G) /\ IsTraced(host, nodes, G, r)
    BY <1>1, <1>5, ChildrenArePushed
<1>7. ray' = r
    <2>1. PICK G : IsRay(host.boxes, ray)
        BY <1>1, TracingRay
    <2> HIDE DEF rest
    <2> QED
        BY <1>1, <2>1 DEF IsRay, rest
<1> QED
    BY <1>1, <1>6, <1>7 DEF TracesIInv, Tracing

\* The triangles of a leaf are tested, and answer no nearer than the closest hit then is.
LEMMA LeafIsTested ==
    ASSUME StacksSuffice, TracesIInv, TestLeaf
    PROVE  TracesIInv'
<1> DEFINE leaf == ToSet(Top.triangles)
           nearer(answer) == {t \in Range(answer) \ {0} : t < ray.closest}
           met(answer) == [i \in DOMAIN ray.met |->
                              IF i \in DOMAIN answer THEN answer[i] ELSE ray.met[i]]
           stack == ray.stack
           rest == Front(stack)
           top == Last(stack)
           r == ray'
<1>1. /\ host' = host /\ stage' = stage /\ nodes' = nodes /\ work' = work
      /\ Tracing /\ Top.children = <<>>
    BY DEF TestLeaf, treeVars
<1>2. PICK answer \in Answers(leaf) :
          ray' = IF ray.kind = "shadow" /\ nearer(answer) # {}
                 THEN [ray EXCEPT !.met = met(answer), !.occluded = TRUE, !.stack = <<>>]
                 ELSE [ray EXCEPT !.met = met(answer), !.stack = rest,
                                  !.closest = Min(nearer(answer) \cup {ray.closest})]
    BY DEF TestLeaf
<1>3. PICK G : /\ IsTree(host, nodes, <<>>, G) /\ IsRay(host.boxes, ray)
               /\ StackFits(host, nodes, G, ray.stack)
               /\ ray.occluded \/ NothingMissed(host, G, ray)
    BY <1>1, TracingRay
<1>4. host.boxes \in Seq(AllBoxes) /\ IsWay(ray) /\ work = <<>>
    BY <1>1, TracingRay
<1>5. stack # <<>> /\ Top = nodes[top]
    BY <1>1 DEF Tracing, Top
<1>6. /\ StackFits(host, nodes, G, rest) /\ top \in 1..Len(nodes)
      /\ \A i, x : Awaits(G, stack, i, x) =>
            \/ Awaits(G, rest, i, x)
            \/ i \in DOMAIN G[top].refs /\ Encloses(G[top].refs[i], x)
    BY <1>3, <1>5, PopFits
<1>7. rest \in Seq(Nat)
    BY <1>6 DEF StackFits
<1> HIDE DEF rest, top
<1>8. /\ leaf = DOMAIN G[top].refs /\ IsFiniteSet(leaf) /\ leaf \subseteq DOMAIN host.boxes
    <2>1. IsNode(host, nodes[top], G[top])
        BY <1>3, <1>4, <1>6, NodeOfTree
    <2>2. leaf = DOMAIN G[top].refs /\ IsRefs(host.boxes, G[top].refs)
        BY <1>1, <1>5, <2>1 DEF IsNode
    <2> HIDE DEF leaf
    <2> QED
        BY <1>4, <2>2, RefsAreFinite DEF IsRefs
<1> HIDE DEF leaf
<1>9. Infinity \in Nat /\ answer \in [leaf -> 0..Infinity - 1]
    BY TreeAssumption DEF Answers
<1>10. DOMAIN answer = leaf /\ \A i \in leaf : answer[i] \in Nat /\ answer[i] # Untested
    BY <1>9 DEF Untested
<1>11. ray.closest \in Int /\ ray.met \in [DOMAIN host.boxes -> Int]
    BY <1>3 DEF IsRay
<1>12. met(answer) \in [DOMAIN host.boxes -> Int]
       /\ \A i \in DOMAIN host.boxes :
             met(answer)[i] = IF i \in leaf THEN answer[i] ELSE ray.met[i]
    BY <1>10, <1>11
<1> DEFINE found == met(answer)
           closest == Min(nearer(answer) \cup {ray.closest})
<1>13. /\ closest \in Int /\ closest <= ray.closest
       /\ \A i \in leaf : answer[i] = 0 \/ closest <= answer[i]
    <2> DEFINE S == nearer(answer) \cup {ray.closest}
    <2>1. Range(answer) = {answer[i] : i \in leaf}
        BY <1>10 DEF Range
    <2>2. IsFiniteSet(Range(answer))
        <3> DEFINE T == Range(answer)
        <3>1. answer \in Surjection(leaf, T)
            BY <1>9, <2>1 DEF Surjection
        <3> HIDE DEF T
        <3> QED
            BY <1>8, <3>1, FS_Surjection DEF T
    <2>3. IsFiniteSet(S) /\ S # {} /\ S \subseteq Int
        <3>1. nearer(answer) \in SUBSET Range(answer)
            OBVIOUS
        <3> DEFINE N == nearer(answer)
        <3>2. IsFiniteSet(N)
            BY <2>2, <3>1, FS_Subset
        <3>3. N \subseteq Int
            BY <1>10, <2>1
        <3> HIDE DEF N
        <3>4. IsFiniteSet(N \cup {ray.closest})
            BY <3>2, FS_AddElement
        <3> QED
            BY <1>11, <3>3, <3>4 DEF N
    <2>4. /\ \A x \in S : closest <= x /\ x \in Int
          /\ closest \in S
        <3> HIDE DEF S
        <3>1. Min(S) \in S /\ \A x \in S : Min(S) <= x
            BY <2>3, ExtremesOf
        <3> QED
            BY <2>3, <3>1 DEF S
    <2>5. ray.closest \in S
        OBVIOUS
    <2>6. closest \in Int /\ closest <= ray.closest
        <3> HIDE DEF S, closest
        <3> QED
            BY <2>4, <2>5
    <2>7. ASSUME NEW i \in leaf, answer[i] # 0 PROVE closest <= answer[i]
        <3>1. answer[i] \in Int /\ answer[i] \in Range(answer)
            BY <1>10, <2>1
        <3>2. CASE answer[i] < ray.closest
            <4>1. answer[i] \in S
                BY <2>7, <3>1, <3>2
            <4> HIDE DEF S, closest
            <4> QED
                BY <2>4, <4>1
        <3>3. CASE ~ (answer[i] < ray.closest)
            <4> HIDE DEF closest
            <4> QED
                BY <1>11, <2>6, <3>1, <3>3
        <3> QED
            BY <3>2, <3>3
    <2> QED
        BY <2>6, <2>7
<1>14. CASE ray.kind = "shadow" /\ nearer(answer) # {}
    <2>1. r = [ray EXCEPT !.met = found, !.occluded = TRUE, !.stack = <<>>]
        BY <1>2, <1>14
    <2> HIDE DEF found, nearer
    <2>2. IsRay(host.boxes, r) /\ r.occluded = TRUE /\ r.stack = <<>>
        <3>1. found \in [DOMAIN host.boxes -> Int] /\ <<>> \in Seq(Nat)
            BY <1>12 DEF found
        <3> QED
            BY <1>3, <2>1, <3>1 DEF IsRay
    <2>3. StackFits(host, nodes, G, <<>>)
        BY DEF StackFits
    <2>4. IsTraced(host, nodes, G, r)
        BY <2>2, <2>3 DEF IsTraced
    <2> QED
        BY <1>1, <1>3, <1>4, <2>4 DEF TracesIInv, Tracing
<1>15. CASE ~ (ray.kind = "shadow" /\ nearer(answer) # {})
    <2>1. r = [ray EXCEPT !.met = found, !.stack = rest, !.closest = closest]
        BY <1>2, <1>15
    <2> HIDE DEF found, closest, nearer
    <2>2. /\ IsRay(host.boxes, r) /\ r.origin = ray.origin /\ r.direction = ray.direction
          /\ r.closest = closest /\ r.stack = rest /\ r.met = found /\ r.occluded = ray.occluded
        BY <1>3, <1>7, <1>12, <1>13, <2>1 DEF IsRay, found
    <2>3. ASSUME NothingMissed(host, G, ray) PROVE NothingMissed(host, G, r)
        <3>1. ASSUME NEW i \in DOMAIN host.boxes, found[i] = Untested,
                     i \in KeptOf(host.acceleration, host.boxes),
                     NEW t \in Stretch(r, host.boxes[i]), t < closest
              PROVE  Awaits(G, rest, i, PointAt(r, t))
            <4>1. i \notin leaf /\ ray.met[i] = Untested
                BY <1>10, <1>12, <3>1 DEF found
            <4>2. t \in Stretch(ray, host.boxes[i]) /\ PointAt(r, t) = PointAt(ray, t)
                BY <2>2, SameWay
            <4>3. host.boxes[i] \in AllBoxes
                BY <1>4
            <4>4. t \in Int
                BY <1>4, <4>2, <4>3, StretchHasPoints
            <4>5. t < ray.closest
                BY <1>11, <1>13, <3>1, <4>4
            <4>6. Awaits(G, stack, i, PointAt(ray, t))
                BY <2>3, <3>1, <4>1, <4>2, <4>5 DEF NothingMissed
            <4> QED
                BY <1>6, <1>8, <4>1, <4>2, <4>6
        <3>2. ASSUME NEW i \in DOMAIN host.boxes, found[i] # Untested
              PROVE  found[i] = 0 \/ closest <= found[i]
            <4>1. CASE i \in leaf
                BY <1>12, <1>13, <4>1 DEF found
            <4>2. CASE i \notin leaf
                <5>1. found[i] = ray.met[i] /\ found[i] \in Int
                    BY <1>11, <1>12, <4>2 DEF found
                <5>2. ray.met[i] = 0 \/ ray.closest <= ray.met[i]
                    BY <2>3, <3>2, <5>1 DEF NothingMissed
                <5> QED
                    BY <1>11, <1>13, <5>1, <5>2
            <4> QED
                BY <4>1, <4>2
        <3> QED
            BY <2>2, <3>1, <3>2 DEF NothingMissed
    <2>4. IsTraced(host, nodes, G, r)
        BY <1>3, <1>6, <2>2, <2>3 DEF IsTraced
    <2> QED
        BY <1>1, <1>3, <1>4, <2>4 DEF TracesIInv, Tracing
<1> QED
    BY <1>14, <1>15

\* Every step keeps the tree and the ray in it.
LEMMA TracesStep == ASSUME StacksSuffice PROVE TracesIInv /\ [Next]_vars => TracesIInv'
<1> SUFFICES ASSUME TracesIInv, [Next]_vars PROVE TracesIInv'
    OBVIOUS
<1>1. CASE BuildNode
    <2>1. /\ work # <<>> /\ host' = host /\ stage' = stage /\ ray' = ray
          /\ host \in HostScenes
        BY <1>1 DEF BuildNode, TracesIInv
    <2>2. ray = NoRay /\ stage = "tree"
        BY <2>1 DEF TracesIInv
    <2>3. HasTree(host, nodes, work)
        BY DEF TracesIInv, HasTree
    <2>4. HasTree(host, nodes, work)'
        BY <1>1, <2>1, <2>3, BuildNodeGrows
    <2> QED
        BY <2>1, <2>2, <2>4 DEF TracesIInv, HasTree
<1>2. CASE BeginLights
    BY <1>2 DEF BeginLights, TracesIInv, treeVars
<1>3. CASE PairLights
    BY <1>3 DEF PairLights, TracesIInv, treeVars
<1>4. CASE FinishLights
    BY <1>4 DEF FinishLights, TracesIInv, treeVars
<1>5. CASE \E i \in Photons : ExchangeHead(i) \/ StoreNext(i)
    BY <1>5 DEF ExchangeHead, StoreNext, TracesIInv, treeVars
<1>6. CASE GridBuilt
    BY <1>6 DEF GridBuilt, TracesIInv, treeVars
<1>7. CASE BeginRay
    BY <1>7, RayBegins
<1>8. CASE PopMissed
    BY <1>8, MissedIsPopped
<1>9. CASE PushChildren
    BY <1>9, ChildrenPushed
<1>10. CASE PushWideChildren
    BY <1>10, WideChildrenPushed
<1>11. CASE TestLeaf
    BY <1>11, LeafIsTested
<1>12. CASE EndRay
    BY <1>12 DEF EndRay, TracesIInv, treeVars
<1>13. CASE \E hit \in Hits : GatherAt(hit)
    BY <1>13 DEF GatherAt, TracesIInv, treeVars
<1>14. CASE UNCHANGED vars
    BY <1>14 DEF vars, TracesIInv, treeVars
<1> QED
    BY <1>1, <1>2, <1>3, <1>4, <1>5, <1>6, <1>7, <1>8, <1>9, <1>10, <1>11, <1>12, <1>13, <1>14
    DEF Next

\* With an empty stack, nothing nearer is left.
LEMMA TracesFollow == ASSUME StacksSuffice PROVE TracesIInv => TracesExact
<1> SUFFICES ASSUME TracesIInv, ray # NoRay
             PROVE  /\ ~ ray.overflow
                    /\ ray.stack = <<>> /\ ~ ray.occluded =>
                          \A i \in DOMAIN host.boxes :
                              IF ray.met[i] = Untested
                              THEN Kept(i) =>
                                      \A t \in Stretch(ray, host.boxes[i]) : ray.closest <= t
                              ELSE ray.met[i] = 0 \/ ray.closest <= ray.met[i]
    BY DEF TracesExact
<1>1. PICK G : IsTree(host, nodes, work, G) /\ IsTraced(host, nodes, G, ray)
    BY DEF TracesIInv
<1>2. ~ ray.overflow
    BY <1>1 DEF IsTraced, IsRay
<1>3. ASSUME ray.stack = <<>>, ~ ray.occluded, NEW i \in DOMAIN host.boxes
      PROVE  IF ray.met[i] = Untested
             THEN Kept(i) => \A t \in Stretch(ray, host.boxes[i]) : ray.closest <= t
             ELSE ray.met[i] = 0 \/ ray.closest <= ray.met[i]
    <2>1. NothingMissed(host, G, ray)
        BY <1>1, <1>3 DEF IsTraced
    <2>2. CASE ray.met[i] # Untested
        BY <2>1, <2>2 DEF NothingMissed
    <2>3. CASE ray.met[i] = Untested
        <3> SUFFICES ASSUME Kept(i), NEW t \in Stretch(ray, host.boxes[i])
                     PROVE ray.closest <= t
            BY <2>3
        <3>1. i \in KeptOf(host.acceleration, host.boxes)
            BY DEF Kept, KeptOf, Solid
        <3>2. ~ Awaits(G, ray.stack, i, PointAt(ray, t))
            BY <1>3 DEF Awaits
        <3>3. ~ (t < ray.closest)
            BY <2>1, <2>3, <3>1, <3>2 DEF NothingMissed
        <3>4. host.boxes[i] \in AllBoxes
            <4>1. host.boxes \in Seq(AllBoxes)
                BY RootFits DEF TracesIInv
            <4> QED
                BY <4>1
        <3>5. IsWay(ray) /\ ray.closest \in Int
            BY <1>1 DEF IsTraced, IsRay, IsWay
        <3>6. t \in Int
            BY <3>4, <3>5, StretchHasPoints
        <3> QED
            BY <3>3, <3>5, <3>6
    <2> QED
        BY <2>2, <2>3
<1> QED
    BY <1>2, <1>3

\* Whatever the triangles, the policy and the cuts its builder makes, a ray ends with the
\* closest of its hits, a shadow ray finds a hit before the light if there is one, no
\* stack overflows and no child is left out: for every scene, ray and size of a leaf, if
\* the stack suffices for the trees whose depth nothing limits (device_traversal.cuh,
\* bvh.cpp, bvh_sbvh.cpp). What a flat triangle may be left out of is said by Kept.
THEOREM TracesAreExact == ASSUME StacksSuffice PROVE Spec => []TracesExact
<1>1. Init => TracesIInv
    BY TracesBegin
<1>2. TracesIInv /\ [Next]_vars => TracesIInv'
    BY TracesStep
<1>3. TracesIInv => TracesExact
    BY TracesFollow
<1> QED
    BY <1>1, <1>2, <1>3, PTL DEF Spec
=============================================================================
