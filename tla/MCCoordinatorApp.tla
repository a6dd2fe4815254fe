------------------------- MODULE MCCoordinatorApp ----------------------------
(* Two tasks, two sessions, two processes and four snapshots in all.         *)
EXTENDS CoordinatorApp, TLC

MCWriters == {"writer", "main"}
MCZeroedMemory == {FALSE}
=============================================================================
