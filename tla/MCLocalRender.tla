---------------------------- MODULE MCLocalRender ----------------------------
(* Two slots, a checkpoint behind every sample, and two restarts.             *)
EXTENDS LocalRender, TLC

MCWriters == {0, 1}
=============================================================================
