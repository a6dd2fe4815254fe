------------------------ MODULE MCDistributedRender --------------------------
(* Two tasks of one tile and three worker processes. In the safety run c3 is  *)
(* c2 restarted under the same ID, and both may fail; in the liveness run c3  *)
(* renders another job and c2 may fail.                                       *)
EXTENDS DistributedRender, TLC

MCTileOf == <<"A", "A">>
MCSampleStart == <<0, 1>>
MCSampleCount == <<1, 1>>
MCIds == {"gpu-0", "gpu-1", "gpu-2"}

MCClients == {"c1", "c2", "c3"}
RestartedId == [c \in MCClients |-> IF c = "c1" THEN "gpu-0" ELSE "gpu-1"]
OwnIds ==
    [c \in MCClients |-> CASE c = "c1" -> "gpu-0" [] c = "c2" -> "gpu-1" [] c = "c3" -> "gpu-2"]
OneReliable == {"c1"}
TwoCompatible == {"c1", "c2"}
=============================================================================
