------------------------- MODULE MCCheckpointWriter --------------------------
(* One writer thread; the fields of the new object start as zeroed memory, or *)
(* as whatever was on the stack.                                              *)
EXTENDS CheckpointWriter, TLC

MCWriters == {"writer"}
MCZeroedMemory == {FALSE}
MCAnyMemory == BOOLEAN
=============================================================================
