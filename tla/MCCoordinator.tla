--------------------------- MODULE MCCoordinator ----------------------------
(* Three tasks over two tiles: tile A rendered in two batches, tile B in one. *)
EXTENDS Coordinator, TLC

MCTileOf == <<"A", "A", "B">>
MCSampleStart == <<0, 2, 0>>
MCSampleCount == <<2, 1, 3>>
MCWorkers == {"w1", "w2"}
=============================================================================
