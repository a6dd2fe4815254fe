-------------------------- MODULE CapturedWavefront --------------------------
(***************************************************************************)
(* createWavefrontGraph and launchCapturedTile                             *)
(* (src/renderer/render_driver.cu): the default execution mode replays,    *)
(* for every tile, a graph of kernels that run one after the other. The    *)
(* graph is fixed when it is captured: it always has the same blocks and   *)
(* the same number of bounces, whatever the tile and however many paths    *)
(* are left. Inside a kernel the warps interleave.                         *)
(***************************************************************************)
EXTENDS WavefrontQueues

ASSUME BlocksAssumption == MaxBlocks = BlocksFor(Capacity)

VARIABLES
    node,               \* the node of the graph that runs, or "none"
    bounce,             \* the bounce the node was captured for
    results             \* deviceIntersectionResults: the path each hit is of

graphVars == <<node, bounce, results>>
vars == <<ledgerVars, queueVars, place, laneVars, graphVars>>

\* The queues are swapped from bounce to bounce while the graph is captured.
CurrentRays == IF bounce % 2 = 0 THEN "ray" ELSE "nextRay"
NextRays == IF bounce % 2 = 0 THEN "nextRay" ELSE "ray"

\* A thread has an item of the queue, or returns at once.
Items(w, q) == {i \in Slots : i < count[q] /\ i - BlockStart(w) \in Threads(w)}
OwnPixels(w) == {k \in Threads(w) : BlockStart(w) + k < TilePixels[tile]}

Init ==
    /\ QueueInit
    /\ place = [w \in Warps |-> "finished"]
    /\ node = "none"
    /\ bounce = 0
    /\ results = [i \in Slots |-> NoPath]

Go(w, to) == place' = [place EXCEPT ![w] = to]
Start(kernel) == node' = kernel /\ place' = [w \in Warps |-> "running"]
-----------------------------------------------------------------------------
(* Faults.                                                                 *)

\* The queue that a bounce fills is not cleared.
Cleared_Never(q) == count

\* A kernel starts before the warps of the one before it have finished.
Finished_Some == \E w \in Warps : place[w] = "finished"
-----------------------------------------------------------------------------
(* The stream.                                                             *)

\* The host updates the tile on the device and replays the graph.
LaunchCapturedTile ==
    /\ node = "none"
    /\ sampleIndex < NumSamples /\ tile < LastTile
    /\ tile' = tile + 1
    /\ node' = "clearRays"
    /\ UNCHANGED <<sampleIndex, framebuffer, queueVars, place, laneVars, bounce, results>>

Finished == \A w \in Warps : place[w] = "finished"

\* cudaMemsetAsync of a counter
Cleared(q) == [count EXCEPT ![q] = 0]

ClearRays ==
    /\ node = "clearRays"
    /\ count' = Cleared("ray")
    /\ Start("generatePrimaryRays")
    /\ waiting' = [w \in Warps |-> OwnPixels(w)]
    /\ UNCHANGED <<ledgerVars, path, items, carried, reserved, leaderless, bounce, results>>

EndGenerate ==
    /\ node = "generatePrimaryRays"
    /\ \A w \in Warps : waiting[w] = {}
    /\ bounce' = 0
    /\ node' = "clearNextRays"
    /\ UNCHANGED <<ledgerVars, queueVars, place, laneVars, results>>

ClearNextRays ==
    /\ node = "clearNextRays"
    /\ count' = Cleared(NextRays)
    /\ Start("intersectScene")
    /\ UNCHANGED <<ledgerVars, path, items, laneVars, bounce, results>>

EndIntersect ==
    /\ node = "intersectScene"
    /\ Finished
    /\ Start("shadePaths")
    /\ UNCHANGED <<ledgerVars, queueVars, laneVars, bounce, results>>

\* The loop that captures the bounces.
MoreBounces(b) == b < MaxDepth

EndShade ==
    /\ node = "shadePaths"
    /\ Finished
    /\ bounce' = bounce + 1
    /\ node' = IF MoreBounces(bounce') THEN "clearNextRays" ELSE "advanceSampleIndex"
    /\ UNCHANGED <<ledgerVars, queueVars, place, laneVars, results>>

\* The counter advances behind the last tile, whose advanceSample is set.
AdvanceSampleIndex ==
    /\ node = "advanceSampleIndex"
    /\ IF tile = LastTile
       THEN tile' = 0 /\ sampleIndex' = sampleIndex + 1
       ELSE UNCHANGED <<tile, sampleIndex>>
    /\ node' = "none"
    /\ UNCHANGED <<framebuffer, queueVars, place, laneVars, bounce, results>>

Stream ==
    \/ LaunchCapturedTile
    \/ ClearRays
    \/ EndGenerate
    \/ ClearNextRays
    \/ EndIntersect
    \/ EndShade
    \/ AdvanceSampleIndex
-----------------------------------------------------------------------------
(* The kernels.                                                            *)

\* A thread starts its path and takes the next slot of the queue for it.
GeneratePath(w, k) ==
    LET p == BlockStart(w) + k IN
    /\ node = "generatePrimaryRays" /\ place[w] = "running"
    /\ k \in waiting[w]
    /\ path' = [path EXCEPT ![p] = CameraPath(p)]
    /\ carried' = [carried EXCEPT ![w][k] = p]
    /\ reserved' = [reserved EXCEPT ![w] = [base |-> count["ray"], group |-> {k}]]
    /\ count' = [count EXCEPT !["ray"] = @ + 1]
    /\ Go(w, "storing")
    /\ UNCHANGED <<ledgerVars, items, waiting, leaderless, graphVars>>

StorePath(w) ==
    /\ node = "generatePrimaryRays" /\ place[w] = "storing"
    /\ Store(w, "ray")
    /\ Go(w, "running")
    /\ UNCHANGED graphVars

IntersectScene(w) ==
    /\ node = "intersectScene" /\ place[w] = "running"
    /\ results' = [i \in Slots |->
         IF i \in Items(w, CurrentRays) THEN items[CurrentRays][i] ELSE results[i]]
    /\ Go(w, "finished")
    /\ UNCHANGED <<ledgerVars, queueVars, laneVars, node, bounce>>

ShadePaths(w) ==
    /\ node = "shadePaths" /\ place[w] = "running"
    /\ Shade(w, CurrentRays, BlockStart(w), count[CurrentRays])
    /\ Go(w, "reserving")
    /\ UNCHANGED graphVars

ReserveOutput(w) ==
    /\ node = "shadePaths" /\ place[w] = "reserving"
    /\ Reserve(w, NextRays)
    /\ Go(w, "storing")
    /\ UNCHANGED graphVars

StoreOutput(w) ==
    /\ node = "shadePaths" /\ place[w] = "storing"
    /\ Store(w, NextRays)
    /\ Go(w, IF waiting'[w] = {} THEN "finished" ELSE "reserving")
    /\ UNCHANGED graphVars

WarpStep(w) ==
    \/ \E k \in Threads(w) : GeneratePath(w, k)
    \/ StorePath(w)
    \/ IntersectScene(w)
    \/ ShadePaths(w)
    \/ ReserveOutput(w)
    \/ StoreOutput(w)

Next == Stream \/ \E w \in Warps : WarpStep(w)

\* The stream goes on to the next node, and the device schedules every block of
\* a kernel sooner or later.
Fairness == WF_vars(Stream) /\ \A w \in Warps : WF_vars(WarpStep(w))

Spec == Init /\ [][Next]_vars /\ Fairness
-----------------------------------------------------------------------------
(* Properties.                                                             *)

\* Before each bounce of the graph its queue lists every path that is still active
\* once, at the depth of the bounce, and none that has ended, also when the graph
\* goes on with an empty queue; after the last no path is active. A thread of
\* shadePaths finds at its index the intersection of its own ray, not one an
\* earlier bounce or tile has left there. No counter is ever past the capacity.
QueueExact ==
    /\ \A q \in Queues : count[q] <= Capacity
    /\ node = "clearNextRays" =>
        /\ ListsActivePaths(CurrentRays)
        /\ \A p \in ActivePaths : path[p].depth = bounce
    /\ node = "shadePaths" =>
        \A i \in Slots : i < count[CurrentRays] => results[i] = items[CurrentRays][i]
    /\ node \in {"none", "advanceSampleIndex"} => ActivePaths = {}

\* However __activemask() splits the warps of shadePaths, and however the groups of
\* several warps interleave, the queues stay exact for as long as no lane appends
\* in a group without lane zero (appendWarpCompacted).
ExactWhileLed == leaderless \/ QueueExact

\* And for as long every step is one of the pixel ledger: tile by tile and sample by
\* sample every pixel gets the radiance of one path, exactly once, and the sample
\* counter advances after the last tile. The persistent kernel promises the same.
LedgerWhileLed == [][leaderless' \/ LedgerNext]_ledgerVars
=============================================================================
