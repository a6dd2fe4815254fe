------------------------------ MODULE PhotonMap ------------------------------
(***************************************************************************)
(* What a photon's trace, its insertion in the grid and a gather compute   *)
(* (src/renderer/photon_mapping.cu). Positions are integers in a unit that *)
(* divides the sides of the cells and the search radius.                   *)
(***************************************************************************)
EXTENDS Integers, Sequences, FiniteSets, SequencesExt

CONSTANTS
    Resolution,                 \* cells along each axis
    GridMinimum, GridMaximum,   \* the corners of the grid
    SearchRadius,
    MaxNearest,                 \* maxNearestPhotons
    CausticMaxDepth

ASSUME GridAssumption ==
    /\ {Resolution, SearchRadius, MaxNearest, CausticMaxDepth} \subseteq Nat \ {0}
    /\ \A a \in 1..3 : /\ {GridMinimum[a], GridMaximum[a]} \subseteq Int
                       /\ GridMinimum[a] < GridMaximum[a]

NoPhoton == 0       \* 0xffffffff; photons are numbered from one
Clamp(n, low, high) == Max({low, Min({n, high})})
GridExtent(a) == GridMaximum[a] - GridMinimum[a]

\* tracePhotons: a photon is stored at the first diffuse surface on its way, if it
\* gets there within the depth and over a mirror or through glass.
Stored(way) ==
    \E k \in 1..Min({Len(way), CausticMaxDepth}) :
        /\ way[k] = "Diffuse"
        /\ \A j \in 1..k - 1 : way[j] # "Diffuse"
        /\ \E j \in 1..k - 1 : way[j] \in {"Metal", "Dielectric"}

Inside(point) == \A a \in 1..3 : GridMinimum[a] <= point[a] /\ point[a] <= GridMaximum[a]

CellOf(point) ==
    [a \in 1..3 |->
        Clamp(((point[a] - GridMinimum[a]) * Resolution) \div GridExtent(a), 0, Resolution - 1)]
-----------------------------------------------------------------------------
(* Gathering.                                                              *)

\* A fault: the quotient is rounded down.
CellRadius_RoundedDown == Max({1, (SearchRadius * Resolution) \div GridExtent(1)})

\* How many cells to each side are searched: the quotient is rounded up, and is that
\* of the first axis on all three.
CellRadius == Max({1, -((-(SearchRadius * Resolution)) \div GridExtent(1))})

\* What a loop over indices comes to, one after the other.
InOrder(indices) ==
    LET nth(n) == CHOOSE k \in indices : Cardinality({j \in indices : j < k}) = n - 1
    IN  [n \in 1..Cardinality(indices) |-> nth(n)]

\* The cells that have photons and are searched, in the order of the loops.
CellIndex(c) == (c[3] * Resolution + c[2]) * Resolution + c[1]
Around(heads, point) ==
    {c \in DOMAIN heads : /\ heads[c] # NoPhoton
                          /\ \A a \in 1..3 : c[a] - CellOf(point)[a] \in -CellRadius..CellRadius}
Searched(heads, point) ==
    LET indices == InOrder({CellIndex(c) : c \in Around(heads, point)})
    IN  [k \in DOMAIN indices |->
            CHOOSE c \in Around(heads, point) : CellIndex(c) = indices[k]]

\* The photons of a cell's list.
Chain(heads, next, cell) ==
    LET list[n \in 1..Len(next)] ==
            IF n = 1 THEN <<heads[cell]>>
            ELSE IF next[Last(list[n - 1])] = NoPhoton THEN list[n - 1]
                 ELSE Append(list[n - 1], next[Last(list[n - 1])])
    IN  list[Len(next)]

Square(n) == n * n
DistanceSquared(p, q) == Square(p[1] - q[1]) + Square(p[2] - q[2]) + Square(p[3] - q[3])

\* One photon of the walk: it takes a free place, or that of the farthest so far.
Keep(kept, photon) ==
    LET entries == Append(kept.entries, photon)
        replaced == [kept.entries EXCEPT ![kept.farthest] = photon]
        first == CHOOSE i \in DOMAIN replaced :
                    /\ \A j \in DOMAIN replaced : replaced[j].distance <= replaced[i].distance
                    /\ \A j \in 1..i - 1 : replaced[j].distance < replaced[i].distance
    IN  CASE Len(kept.entries) < MaxNearest /\ photon.distance > kept.distance ->
                [entries |-> entries, farthest |-> Len(entries), distance |-> photon.distance]
          [] Len(kept.entries) < MaxNearest /\ photon.distance <= kept.distance ->
                [kept EXCEPT !.entries = entries]
          [] Len(kept.entries) = MaxNearest /\ photon.distance < kept.distance ->
                [entries |-> replaced, farthest |-> first, distance |-> replaced[first].distance]
          [] OTHER -> kept

Counts(photon, hit) ==
    /\ DistanceSquared(photon.position, hit.position) <= SearchRadius * SearchRadius
    /\ photon.side = hit.side

\* gatherCaustics: the photons whose flux is added up.
Gathered(items, heads, next, hit) ==
    LET cells == Searched(heads, hit.position)
        walk == FlattenSeq([c \in DOMAIN cells |-> Chain(heads, next, cells[c])])
        photon(i) == [index |-> i,
                      distance |-> DistanceSquared(items[i].position, hit.position)]
        kept[n \in 0..Len(walk)] ==
            IF n = 0 THEN [entries |-> <<>>, farthest |-> 1, distance |-> 0]
            ELSE IF Counts(items[walk[n]], hit) THEN Keep(kept[n - 1], photon(walk[n]))
                 ELSE kept[n - 1]
    IN  {p.index : p \in ToSet(kept[Len(walk)].entries)}
=============================================================================
