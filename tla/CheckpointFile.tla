--------------------------- MODULE CheckpointFile ----------------------------
(***************************************************************************)
(* writeDistributedCheckpoint (src/distributed/checkpoint.cpp) as the      *)
(* steps another thread or a crash can come between: the temporary file is *)
(* truncated, filled and closed, and renamed over the checkpoint. Each of  *)
(* them can fail, which leaves the temporary file behind.                  *)
(*                                                                         *)
(* A file's content is abstracted to the sequence number of the snapshot   *)
(* in it. Writers are threads; `step` says how far each has come.          *)
(* writeCheckpoint (src/renderer/render_checkpoint.cpp) takes the same     *)
(* steps, with the number of samples for the sequence.                     *)
(***************************************************************************)
EXTENDS Naturals

CONSTANTS
    Absent,             \* the content of a file that does not exist
    Partial,            \* the content of a file some bytes of which are missing
    MaxSequence,        \* bound on the sequence numbers of snapshots
    Writers             \* the threads that write checkpoints

ASSUME FileAssumption ==
    /\ MaxSequence \in Nat
    /\ Absent \notin Nat \cup {Partial}
    /\ Partial \notin Nat

Sequences == 1..MaxSequence

VARIABLES
    file,               \* what a reader of the checkpoint finds
    temporary,          \* what is in the temporary file
    step,               \* how far each writer has come
    wrote               \* what each writer's last call returned

fileVars == <<file, temporary, step, wrote>>

Steps == {"none", "open", "fill", "rename"}

FileInit ==
    /\ file = Absent
    /\ temporary = Absent
    /\ step = [w \in Writers |-> "none"]
    /\ wrote = [w \in Writers |-> TRUE]

\* The call begins; validShape holds of every snapshot of a coordinator.
BeginWrite(w) ==
    /\ step[w] = "none"
    /\ step' = [step EXCEPT ![w] = "open"]
    /\ UNCHANGED <<file, temporary, wrote>>

\* Fault: the checkpoint itself is opened and filled, with no temporary file.
OpenTemporary_InPlace(w) ==
    /\ step[w] = "open"
    /\ step' = [step EXCEPT ![w] = "fill"]
    /\ file' = Partial
    /\ UNCHANGED <<temporary, wrote>>

OpenTemporary(w) ==
    /\ step[w] = "open"
    /\ step' = [step EXCEPT ![w] = "fill"]
    /\ temporary' = Partial
    /\ UNCHANGED <<file, wrote>>

\* Header and payload are written, flushed and closed.
FillTemporary(w, sequence) ==
    /\ step[w] = "fill"
    /\ step' = [step EXCEPT ![w] = "rename"]
    /\ temporary' = sequence
    /\ UNCHANGED <<file, wrote>>

\* std::rename moves whatever is in the temporary file by then.
RenameTemporary(w) ==
    /\ step[w] = "rename"
    /\ temporary # Absent
    /\ step' = [step EXCEPT ![w] = "none"]
    /\ wrote' = [wrote EXCEPT ![w] = TRUE]
    /\ file' = temporary
    /\ temporary' = Absent

\* Fault: a failed write goes on to the rename.
FailWrite_Renames(w) ==
    /\ step[w] # "none"
    /\ step' = [step EXCEPT ![w] = "none"]
    /\ wrote' = [wrote EXCEPT ![w] = FALSE]
    /\ file' = IF step[w] = "fill" THEN temporary ELSE file
    /\ UNCHANGED temporary

\* Opening, writing or renaming fails: the call returns false.
FailWrite(w) ==
    /\ step[w] # "none"
    /\ step' = [step EXCEPT ![w] = "none"]
    /\ wrote' = [wrote EXCEPT ![w] = FALSE]
    /\ UNCHANGED <<file, temporary>>

FileTypeOK ==
    /\ file \in Sequences \cup {Absent}
    /\ temporary \in Sequences \cup {Absent, Partial}
    /\ step \in [Writers -> Steps]
    /\ wrote \in [Writers -> BOOLEAN]
=============================================================================
