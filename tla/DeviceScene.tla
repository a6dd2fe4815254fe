----------------------------- MODULE DeviceScene -----------------------------
(***************************************************************************)
(* What a worker or a local render prepares on its device before it traces *)
(* paths, and what the paths ask of it: uploadScene (src/scene/scene.cu)   *)
(* builds the tree and the table lights are drawn from, buildPhotonMap     *)
(* (src/renderer/render_driver.cu) the photon grid, whose kernel inserts   *)
(* all photons at once; then rays are traced and photons gathered.         *)
(*                                                                         *)
(* A host scene is what src/scene/scene_host.cpp assembles. The primitives *)
(* of its tree are triangles, or instances of meshes: the tree of an       *)
(* instance's own triangles is traversed as this one is, and answers with  *)
(* its nearest hit.                                                        *)
(***************************************************************************)
EXTENDS TriangleTree, PhotonMap

CONSTANTS
    HostScenes,
    Rays,           \* their origins and directions
    Starts,         \* what spheres and static triangles leave as the closest distance
    Hits            \* where photons are gathered

\* A triangle of a mesh is whether it emits, the weight of a light its area times its
\* luminance in some unit. A scene that has nothing to put into a tree gets none. Only
\* assembleRtWeekScene gives instances a material of their own: the meshes emit nothing.
ASSUME HostAssumption ==
    \A h \in HostScenes :
        /\ h.boxes \in Seq(AllBoxes) \ {<<>>}
        /\ \A m \in DOMAIN h.meshes : h.meshes[m] \in Seq(BOOLEAN)
        /\ h.instances \in Seq(DOMAIN h.meshes)
        /\ h.overridden \subseteq DOMAIN h.instances
        /\ \A i \in h.overridden : TRUE \notin ToSet(h.meshes[h.instances[i]])
        /\ h.statics \in Seq(BOOLEAN)
        /\ h.weights \in Seq(Nat)
        /\ h.photons \in Seq([position : [1..3 -> Int], side : {-1, 1}, way : Seq(STRING)])

ASSUME RaysAssumption ==
    /\ \A way \in Rays : way.origin \in [Axes -> Int] /\ way.direction \in [Axes -> {-1, 1}]
    /\ Starts \subseteq Nat

ASSUME HitsAssumption ==
    \A hit \in Hits : hit.position \in [1..3 -> Int] /\ hit.side \in {-1, 1}

VARIABLES
    host,           \* the host scene
    stage,          \* how far the preparation has come
    nodes,          \* the nodes of the tree
    work,           \* the calls of buildNode still to come, the next one last
    lights,         \* scaled, small, large and alias of uploadTriangleLights
    heads, next,    \* the lists of the photon grid
    thread,         \* where the thread of each photon is in buildPhotonGrid
    ray,            \* the ray that is traced, or NoRay
    gathered        \* the last gather

treeVars == <<nodes, work>>
gridVars == <<heads, next, thread>>
vars == <<host, stage, treeVars, lights, gridVars, ray, gathered>>

NoRay == [kind |-> "none"]
NoGather == [hit |-> [side |-> 0], photons |-> {}]
NoLight == -1               \* invalidLightIndex
Idle == -1                  \* a thread before its exchange, ...
Done == -2                  \* ... and behind its store; between them, the head it got
Untested == -1
Photons == DOMAIN host.photons

Init ==
    /\ host \in HostScenes
    /\ stage = "tree"
    /\ nodes = <<>>
    /\ work = <<[refs |-> host.boxes, depth |-> 0, parent |-> 0, side |-> 0]>>
    /\ lights = [scaled |-> <<>>, small |-> <<>>, large |-> <<>>, alias |-> <<>>]
    /\ heads = [c \in {CellOf(host.photons[i].position) : i \in Photons} |-> NoPhoton]
    /\ next = [i \in Photons |-> NoPhoton]
    /\ thread = [i \in Photons |-> Idle]
    /\ ray = NoRay
    /\ gathered = NoGather
-----------------------------------------------------------------------------
(* The lights: the emissive triangles of each instance, in their order,    *)
(* then those of the static triangles. A triangle is here whether it emits.*)

\* What a loop over numbers adds up to.
Total(numbers) ==
    LET sum[n \in 0..Len(numbers)] == IF n = 0 THEN 0 ELSE sum[n - 1] + numbers[n]
    IN  sum[Len(numbers)]

Emitting(triangles) == InOrder({t \in DOMAIN triangles : triangles[t]})
Mesh(i) == host.meshes[host.instances[i]]

\* addMeshTriangleLights
MeshLights ==
    FlattenSeq([i \in DOMAIN host.instances |->
                   [k \in DOMAIN Emitting(Mesh(i)) |-> <<i, Emitting(Mesh(i))[k]>>]])

\* A triangle's index among the lights of its mesh, from zero.
LightIndex(triangles, t) ==
    IF triangles[t] THEN Cardinality({u \in 1..t - 1 : triangles[u]}) ELSE NoLight

\* addStaticTriangleLights
StaticLights == [k \in DOMAIN Emitting(host.statics) |-> <<0, Emitting(host.statics)[k]>>]
StaticLightIndex(t) ==
    IF host.statics[t] THEN Len(MeshLights) + LightIndex(host.statics, t) ELSE NoLight

HostLights == MeshLights \o StaticLights

\* A fault: the offset counts meshes that are instanced once only.
LightOffset_PerMesh(i) ==
    Total([m \in 1..host.instances[i] - 1 |-> Len(Emitting(host.meshes[m]))])

\* uploadMeshInstances: the lights of the instances before.
LightOffset(i) == Total([j \in 1..i - 1 |-> Len(Emitting(Mesh(j)))])

\* traceRay: the light a hit on an instance's triangle names; none if the instance has a
\* material of its own.
HitLight(i, t) ==
    IF i \in host.overridden \/ LightIndex(Mesh(i), t) = NoLight
    THEN NoLight
    ELSE LightOffset(i) + LightIndex(Mesh(i), t)
-----------------------------------------------------------------------------
(* Preparation.                                                            *)

\* One call of buildNode: a leaf, or a node and calls for its children.
BuildNode ==
    /\ work # <<>>
    /\ LET call == Last(work)
           box == Bounds(call.refs)
           linked == IF call.parent = 0 THEN nodes
                     ELSE [nodes EXCEPT ![call.parent].children[call.side] = Len(nodes) + 1]
           child(refs, side) == [refs |-> refs, depth |-> call.depth + 1,
                                 parent |-> Len(nodes) + 1, side |-> side]
       IN  \/ /\ IsLeaf(host.acceleration, call.refs, call.depth)
              /\ nodes' = Append(linked, [box |-> box, children |-> <<>>,
                                          triangles |-> SetToSeq(DOMAIN call.refs)])
              /\ work' = Front(work)
           \/ /\ ~ IsLeaf(host.acceleration, call.refs, call.depth)
              /\ \E parts \in Parts(host.acceleration, call.refs, call.depth, host.centroids) :
                    /\ nodes' = Append(linked, [box |-> box, triangles |-> <<>>,
                                                children |-> [side \in DOMAIN parts |-> 0]])
                    /\ work' = Front(work)
                         \o Reverse([side \in DOMAIN parts |-> child(parts[side], side)])
    /\ UNCHANGED <<host, stage, lights, gridVars, ray, gathered>>

\* uploadTriangleLights up to its loop. A light's share is its weight times the number
\* of lights; the total weight stands for a share of one.
TotalWeight == Total(host.weights)

BeginLights ==
    /\ stage = "tree" /\ work = <<>>
    /\ LET scaled == [i \in DOMAIN host.weights |-> host.weights[i] * Len(host.weights)]
       IN  lights' = [scaled |-> scaled,
                      small |-> InOrder({i \in DOMAIN scaled : scaled[i] < TotalWeight}),
                      large |-> InOrder({i \in DOMAIN scaled : scaled[i] >= TotalWeight}),
                      alias |-> [i \in DOMAIN scaled |-> [probability |-> 0, alias |-> 1]]]
    /\ stage' = "lights"
    /\ UNCHANGED <<host, treeVars, gridVars, ray, gathered>>

\* One turn of the loop: the last small light is filled up by the last large one.
PairLights ==
    /\ stage = "lights" /\ lights.small # <<>> /\ lights.large # <<>>
    /\ LET low == Last(lights.small)
           high == Last(lights.large)
           rest == lights.scaled[high] + lights.scaled[low] - TotalWeight
       IN  lights' =
             [scaled |-> [lights.scaled EXCEPT ![high] = rest],
              small |-> IF rest < TotalWeight THEN Append(Front(lights.small), high)
                        ELSE Front(lights.small),
              large |-> IF rest < TotalWeight THEN Front(lights.large)
                        ELSE Append(Front(lights.large), high),
              alias |-> [lights.alias EXCEPT
                            ![low] = [probability |-> lights.scaled[low], alias |-> high]]]
    /\ UNCHANGED <<host, stage, treeVars, gridVars, ray, gathered>>

\* The lights left over keep their whole share.
FinishLights ==
    /\ stage = "lights" /\ (lights.small = <<>> \/ lights.large = <<>>)
    /\ lights' = [lights EXCEPT
                    !.alias = [i \in DOMAIN @ |->
                                  IF i \in ToSet(lights.small \o lights.large)
                                  THEN [probability |-> TotalWeight, alias |-> i] ELSE @[i]]]
    /\ stage' = "photons"
    /\ UNCHANGED <<host, treeVars, gridVars, ray, gathered>>

\* buildPhotonGrid. A thread puts its photon first in its cell's list, ...
Inserts(i) == Stored(host.photons[i].way) /\ Inside(host.photons[i].position)

ExchangeHead(i) ==
    /\ stage = "photons" /\ thread[i] = Idle /\ Inserts(i)
    /\ LET cell == CellOf(host.photons[i].position)
       IN  /\ heads' = [heads EXCEPT ![cell] = i]
           /\ thread' = [thread EXCEPT ![i] = heads[cell]]
    /\ UNCHANGED <<host, stage, treeVars, lights, next, ray, gathered>>

\* ... and then has it point to what was first before.
StoreNext(i) ==
    /\ stage = "photons" /\ thread[i] >= NoPhoton
    /\ next' = [next EXCEPT ![i] = thread[i]]
    /\ thread' = [thread EXCEPT ![i] = Done]
    /\ UNCHANGED <<host, stage, treeVars, lights, heads, ray, gathered>>

\* cudaDeviceSynchronize
GridBuilt ==
    /\ stage = "photons"
    /\ \A i \in Photons : thread[i] = Done \/ ~ Inserts(i)
    /\ stage' = "rendering"
    /\ UNCHANGED <<host, treeVars, lights, gridVars, ray, gathered>>
-----------------------------------------------------------------------------
(* Tracing.                                                                *)

\* A path's ray looks for the closest hit, a shadow ray for any before a light.
BeginRay ==
    /\ stage = "rendering" /\ ray = NoRay
    /\ \E way \in Rays, start \in Starts, kind \in {"closest", "shadow"} :
          /\ kind = "shadow" => host.acceleration = "TlasBlasBvh2" /\ start < Infinity
          /\ ray' = [kind |-> kind, origin |-> way.origin, direction |-> way.direction,
                     start |-> start, closest |-> start, occluded |-> FALSE, stack |-> <<1>>,
                     overflow |-> FALSE, met |-> [i \in DOMAIN host.boxes |-> Untested]]
    /\ UNCHANGED <<host, stage, treeVars, lights, gridVars, gathered>>

Tracing == ray # NoRay /\ ray.stack # <<>> /\ ~ ray.overflow
Top == nodes[Last(ray.stack)]
Wide == host.acceleration = "NexusBvh8"

\* The box on top is tested again, except in an eight-way tree.
Visits == Wide \/ Enters(ray, Top.box, ray.closest)

PopMissed ==
    /\ Tracing /\ ~ Visits
    /\ ray' = [ray EXCEPT !.stack = Front(@)]
    /\ UNCHANGED <<host, stage, treeVars, lights, gridVars, gathered>>

\* Writing beyond the array is undefined.
PushChildren ==
    /\ Tracing /\ Visits /\ ~ Wide /\ Top.children # <<>>
    /\ LET stack == Front(ray.stack) \o Pushed(nodes, Top.children, ray, ray.closest)
       IN  ray' = [ray EXCEPT !.stack = stack, !.overflow = Len(stack) > StackSize]
    /\ UNCHANGED <<host, stage, treeVars, lights, gridVars, gathered>>

\* Here the children that have no room are left out.
PushWideChildren ==
    /\ Tracing /\ Wide /\ Top.children # <<>>
    /\ LET rest == Front(ray.stack)
           pushed == WidePushed(nodes, Top.children, ray, ray.closest, WideStackSize - Len(rest))
       IN  ray' = [ray EXCEPT !.stack = rest \o pushed]
    /\ UNCHANGED <<host, stage, treeVars, lights, gridVars, gathered>>

\* What the triangles of a leaf answer: 0, or the distance of a point in their box,
\* and the same again if they were tested before.
Answers(leaf) ==
    {answer \in [leaf -> 0..Infinity - 1] :
        \A i \in leaf :
            IF ray.met[i] # Untested THEN answer[i] = ray.met[i]
            ELSE answer[i] \in {0} \cup Stretch(ray, host.boxes[i])}

TestLeaf ==
    /\ Tracing /\ Visits /\ Top.children = <<>>
    /\ \E answer \in Answers(ToSet(Top.triangles)) :
          LET nearer == {t \in Range(answer) \ {0} : t < ray.closest}
              met == [i \in DOMAIN ray.met |->
                         IF i \in DOMAIN answer THEN answer[i] ELSE ray.met[i]]
          IN  ray' = IF ray.kind = "shadow" /\ nearer # {}
                     THEN [ray EXCEPT !.met = met, !.occluded = TRUE, !.stack = <<>>]
                     ELSE [ray EXCEPT !.met = met, !.stack = Front(@),
                                      !.closest = Min(nearer \cup {@})]
    /\ UNCHANGED <<host, stage, treeVars, lights, gridVars, gathered>>

EndRay ==
    /\ ray # NoRay /\ (ray.stack = <<>> \/ ray.overflow)
    /\ ray' = NoRay
    /\ UNCHANGED <<host, stage, treeVars, lights, gridVars, gathered>>

\* gatherCaustics at a diffuse hit.
GatherAt(hit) ==
    /\ stage = "rendering" /\ Photons # {}
    /\ gathered' = [hit |-> hit, photons |-> Gathered(host.photons, heads, next, hit)]
    /\ UNCHANGED <<host, stage, treeVars, lights, gridVars, ray>>
-----------------------------------------------------------------------------
Next ==
    \/ BuildNode \/ BeginLights \/ PairLights \/ FinishLights
    \/ \E i \in Photons : ExchangeHead(i) \/ StoreNext(i)
    \/ GridBuilt
    \/ BeginRay \/ PopMissed \/ PushChildren \/ PushWideChildren \/ TestLeaf \/ EndRay
    \/ \E hit \in Hits : GatherAt(hit)

Spec == Init /\ [][Next]_vars
-----------------------------------------------------------------------------
(* Properties.                                                             *)

\* A triangle the tree must not lose. The spatial builder drops a reference that is
\* flat along the axis of a split and lies in its plane: bvh_sbvh.cpp:171-175 puts it
\* on neither side.
Kept(i) ==
    host.acceleration = "SpatialSplitBvh" => \A a \in Axes : Extent(host.boxes[i], a) > 0

\* However the builder has cut the triangles up, and in whichever order the nodes are
\* tested, a ray ends with the closest of its hits, and a shadow ray finds a hit before
\* the light if there is one: no triangle that is left out could have met the ray nearer.
\* No stack overflows on the way, however deep this repository's own builder goes (that
\* the Nexus library keeps its trees as shallow is assumed), and no child is left out for
\* lack of room.
TracesExact ==
    ray # NoRay =>
        /\ ~ ray.overflow
        /\ ray.stack = <<>> /\ ~ ray.occluded =>
              \A i \in DOMAIN host.boxes :
                  IF ray.met[i] = Untested
                  THEN Kept(i) => \A t \in Stretch(ray, host.boxes[i]) : ray.closest <= t
                  ELSE ray.met[i] = 0 \/ ray.closest <= ray.met[i]

\* A hit on an emissive triangle names the light that is this triangle, of this
\* instance, and the table draws every light in proportion to its weight, whatever the
\* order of the pairings: the two densities that multiple importance sampling weighs
\* against each other are those of one light (device_path_shading.cuh:245-252).
LightsExact ==
    stage \in {"photons", "rendering"} =>
        /\ \A i \in DOMAIN host.instances : \A t \in ToSet(Emitting(Mesh(i))) :
              HostLights[HitLight(i, t) + 1] = <<i, t>>
        /\ \A t \in ToSet(Emitting(host.statics)) :
              HostLights[StaticLightIndex(t) + 1] = <<0, t>>
        /\ \A i \in DOMAIN host.weights :
              LET drawn(j) == (IF j = i THEN lights.alias[j].probability ELSE 0)
                              + (IF lights.alias[j].alias = i
                                 THEN TotalWeight - lights.alias[j].probability ELSE 0)
              IN  Total([j \in DOMAIN host.weights |-> drawn(j)])
                     = Len(host.weights) * host.weights[i]

\* In whichever order the threads have inserted the photons, a gather finds the nearest
\* of those that are stored, within its radius and on its side: as many as it has room
\* for, and none it leaves out is nearer than one it takes.
GatherIsNearest ==
    LET hit == gathered.hit
        distance(i) == DistanceSquared(host.photons[i].position, hit.position)
        eligible == {i \in Photons : /\ Inserts(i)
                                     /\ host.photons[i].side = hit.side
                                     /\ distance(i) <= SearchRadius * SearchRadius}
    IN  gathered # NoGather =>
            /\ gathered.photons \subseteq eligible
            /\ Cardinality(gathered.photons) = Min({MaxNearest, Cardinality(eligible)})
            /\ \A i \in gathered.photons, j \in eligible \ gathered.photons :
                  distance(i) <= distance(j)
=============================================================================
