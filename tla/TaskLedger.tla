----------------------------- MODULE TaskLedger -----------------------------
(***************************************************************************)
(* What the distributed coordinator promises, with no leases, no queue and *)
(* no workers: every task of the job is merged into the framebuffer at     *)
(* most once, and a restart goes back to the last checkpoint, which is     *)
(* itself such a ledger (ARCHITECTURE.md, "commits results by TaskId       *)
(* exactly once").                                                         *)
(***************************************************************************)
EXTENDS Naturals

CONSTANT Tasks          \* the tasks of the job

VARIABLES
    merged,             \* [Tasks -> 0..1]: how often a task is in the framebuffer
    saved               \* the ledger the last checkpoint holds

ledgerVars == <<merged, saved>>

Ledgers == [Tasks -> 0..1]

EmptyLedger == [t \in Tasks |-> 0]

LedgerInit ==
    /\ merged = EmptyLedger
    /\ saved = EmptyLedger

\* The first valid result of a task is added to the framebuffer.
Merge(t) ==
    /\ merged[t] = 0
    /\ merged' = [merged EXCEPT ![t] = 1]
    /\ UNCHANGED saved

\* The ledger is checkpointed.
Save ==
    /\ saved' = merged
    /\ UNCHANGED merged

\* The process restarts: from the checkpoint, or from nothing.
Rollback ==
    /\ merged' \in {saved, EmptyLedger}
    /\ UNCHANGED saved

LedgerNext ==
    \/ \E t \in Tasks : Merge(t)
    \/ Save
    \/ Rollback

LedgerSpec == LedgerInit /\ [][LedgerNext]_ledgerVars
=============================================================================
