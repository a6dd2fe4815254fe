---------------------------- MODULE MCDeviceScene ----------------------------
(* Instances of DeviceScene: OBJ scenes under each policy, and a room of    *)
(* instanced meshes with lights and caustics.                               *)
EXTENDS DeviceScene

Box(lo, hi) == [lo |-> lo, hi |-> hi]

\* Triangles of many sizes; the sixth lies in the middle plane of the first axis.
Boxes ==
    << Box(<<0, 0, 0>>, <<8, 1, 1>>), Box(<<1, 1, 0>>, <<3, 3, 2>>),
       Box(<<4, 2, 3>>, <<6, 6, 5>>), Box(<<2, 2, 2>>, <<4, 4, 6>>),
       Box(<<5, 5, 5>>, <<7, 8, 8>>), Box(<<4, 0, 0>>, <<4, 4, 4>>) >>
Centroids == << <<3, 0, 1>>, <<2, 2, 1>>, <<5, 4, 4>>, <<3, 3, 4>>, <<6, 6, 7>>, <<4, 1, 1>> >>

\* The same box three times: no plane parts its triangles.
Stack == [i \in 1..3 |-> Box(<<1, 1, 1>>, <<4, 3, 3>>)]

\* Boxes that overlap, of which every split cuts some: only the depth ends the tree.
Stairs == [i \in 1..5 |-> Box(<<i - 1, 0, i - 1>>, <<i + 3, 3, i + 3>>)]

Obj(acceleration, boxes, centroids) ==
    [acceleration |-> acceleration, boxes |-> boxes, centroids |-> centroids,
     meshes |-> <<>>, instances |-> <<>>, overridden |-> {}, statics |-> <<>>,
     weights |-> <<>>, photons |-> <<>>]

\* One mesh, instanced in two materials of their own.
RtWeek ==
    [Obj("TlasBlasBvh2", SubSeq(Boxes, 2, 3), <<>>) EXCEPT
        !.meshes = << <<FALSE, FALSE>> >>, !.instances = <<1, 1>>, !.overridden = {1, 2}]

\* The second mesh is instanced twice, around the first.
Room(boxes, weights, photons) ==
    [acceleration |-> "TlasBlasBvh2", boxes |-> boxes, centroids |-> <<>>,
     meshes |-> << <<TRUE, FALSE, TRUE>>, <<FALSE, TRUE>> >>, instances |-> <<2, 1, 2>>,
     overridden |-> {}, statics |-> <<FALSE, TRUE, TRUE>>, weights |-> weights, photons |-> photons]

Caustic == <<"Dielectric", "Metal", "Diffuse">>
Photon(position, side, way) == [position |-> position, side |-> side, way |-> way]

\* Around the point At: below it at the edge of the search, twice at one place,
\* across a corner, on the other side, and one that came straight from the light.
At == <<4000, 2400, 4000>>
PhotonsAround ==
    << Photon(<<4000, 2016, 4000>>, 1, Caustic), Photon(<<4100, 2300, 3990>>, 1, Caustic),
       Photon(<<4100, 2300, 3990>>, 1, Caustic), Photon(<<4383, 2400, 4000>>, 1, Caustic),
       Photon(<<4000, 2399, 4000>>, -1, Caustic), Photon(<<4000, 2400, 4010>>, 1, <<"Diffuse">>) >>
FewPhotons == SubSeq(PhotonsAround, 1, 1)

MCHostScenes ==
    {Obj(policy, Boxes, Centroids) : policy \in {"MedianBvh", "SpatialSplitBvh"}}
    \cup {Obj("SpatialSplitBvh", Stack, Centroids),
          Obj("SpatialSplitBvh", Stairs, Centroids),
          Obj("NexusBvh2", SubSeq(Boxes, 1, 4), Centroids),
          Obj("NexusBvh8", SubSeq(Boxes, 2, 5), Centroids),
          RtWeek,
          Room(SubSeq(Boxes, 3, 5), <<1, 5, 2, 1, 7, 2>>, PhotonsAround),
          Room(SubSeq(Boxes, 3, 3), <<1, 1, 1, 1, 1, 1>>, FewPhotons)}

Way(origin, direction) == [origin |-> origin, direction |-> direction]
MCRays ==
    { Way(<<0, 0, 0>>, <<1, 1, 1>>), Way(<<8, 8, 8>>, <<-1, -1, -1>>),
      Way(<<8, 0, 0>>, <<-1, 1, 1>>), Way(<<3, 3, 3>>, <<1, 1, 1>>),
      Way(<<5, -1, 4>>, <<-1, 1, -1>>) }
MCStarts == {4, Infinity}
MCHits == {[position |-> At, side |-> 1], [position |-> <<4000, 2016, 4000>>, side |-> 1]}
MCGridMinimum == <<0, 0, 0>>
MCGridMaximum == <<8000, 6400, 8000>>
=============================================================================
