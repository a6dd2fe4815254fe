-------------------------- MODULE CheckpointWriter ---------------------------
(***************************************************************************)
(* DistributedCheckpointWriter (src/distributed/checkpoint_writer.cpp): a  *)
(* thread that writes the newest snapshot its owner has handed over. Each  *)
(* critical section of mutex_ is one step; what the two threads do outside *)
(* the mutex - notifications, the file operations, the join - are steps of *)
(* their own. One thread, the coordinator's main one, makes all the calls. *)
(*                                                                         *)
(* The header declares thread_ before writing_, stopping_ and failed_, so  *)
(* the constructor starts the thread before it has initialised them: until *)
(* it ends, run() reads in stopping_ whatever the memory held.             *)
(***************************************************************************)
EXTENDS CheckpointFile

CONSTANT
    StaleStopping       \* the values the memory of stopping_ may hold before
                        \* it is initialised: {FALSE} if it is always zeroed

ASSUME StaleAssumption == StaleStopping \subseteq BOOLEAN /\ FALSE \in StaleStopping

ASSUME WriterThread == "writer" \in Writers

NoSnapshot == 0

VARIABLES
    pending,            \* pending_: a sequence number or NoSnapshot
    writing,            \* writing_
    stopping,           \* stopping_
    failed,             \* failed_
    joinable,           \* thread_.joinable()
    thread,             \* where the writer's thread is in run()
    taken,              \* the snapshot run() holds outside the mutex
    owner,              \* where the owner is in its calls
    answer,             \* what its last call returned
    newest              \* the newest snapshot enqueue has accepted

flags == <<pending, writing, stopping, failed>>
writerVars == <<flags, joinable, thread, taken, owner, answer, newest, fileVars>>

ThreadPlaces == {"testing", "asleep", "writing", "reporting", "notifying",
                 "leaving", "exited"}
OwnerPlaces == {"constructing", "ready", "enqueued", "flushing", "flushAsleep",
                "stopping", "joining"}

WriterInit ==
    /\ pending = NoSnapshot
    /\ writing = FALSE
    /\ stopping \in StaleStopping
    /\ failed = FALSE
    /\ joinable = TRUE
    /\ thread = "testing"
    /\ taken = NoSnapshot
    /\ owner = "constructing"
    /\ answer = TRUE
    /\ newest = NoSnapshot
-----------------------------------------------------------------------------
(* Faults.                                                                 *)

\* The snapshot is dropped after the write, as it is after a failed one.
Report_DropsPending ==
    /\ thread = "reporting"
    /\ writing' = FALSE
    /\ pending' = NoSnapshot
    /\ failed' = (failed \/ ~wrote["writer"])
    /\ stopping' = (stopping \/ ~wrote["writer"])
    /\ thread' = "notifying"
    /\ UNCHANGED <<joinable, taken, owner, answer, newest, fileVars>>

\* flush waits until nothing is pending, whatever is being written.
Idle_IgnoresWrite == pending = NoSnapshot \/ failed

\* run() leaves as soon as it is told to stop.
Leaves_AtOnce == stopping

\* enqueue does not notify, as if the thread polled.
Notify_Nothing == UNCHANGED thread

\* run() does not notify the owner.
NotifyIdle_Nothing == UNCHANGED owner
-----------------------------------------------------------------------------
(* The owner's calls.                                                      *)

\* The constructor's member initialisers, after the one that starts the thread.
FinishConstruction ==
    /\ owner = "constructing"
    /\ owner' = "ready"
    /\ writing' = FALSE
    /\ stopping' = FALSE
    /\ failed' = FALSE
    /\ UNCHANGED <<pending, joinable, thread, taken, answer, newest, fileVars>>

\* workAvailable_.notify_one()
NotifyWorker == thread' = IF thread = "asleep" THEN "testing" ELSE thread

\* idle_.notify_all()
NotifyIdle == owner' = IF owner = "flushAsleep" THEN "flushing" ELSE owner

\* enqueue: a snapshot that has not been taken yet is replaced.
Enqueue(sequence) ==
    /\ owner = "ready"
    /\ IF failed \/ stopping
       THEN /\ answer' = FALSE
            /\ UNCHANGED <<pending, owner, newest>>
       ELSE /\ pending' = sequence
            /\ newest' = sequence
            /\ owner' = "enqueued"
            /\ UNCHANGED answer
    /\ UNCHANGED <<writing, stopping, failed, joinable, thread, taken, fileVars>>

EnqueueNotifies ==
    /\ owner = "enqueued"
    /\ NotifyWorker
    /\ owner' = "ready"
    /\ answer' = TRUE
    /\ UNCHANGED <<flags, joinable, taken, newest, fileVars>>

Flush ==
    /\ owner = "ready"
    /\ owner' = "flushing"
    /\ UNCHANGED <<flags, joinable, thread, taken, answer, newest, fileVars>>

\* What flush waits for.
Idle == (pending = NoSnapshot /\ ~writing) \/ failed

FlushTests ==
    /\ owner = "flushing"
    /\ owner' = IF Idle THEN "ready" ELSE "flushAsleep"
    /\ answer' = IF Idle THEN ~failed ELSE answer
    /\ UNCHANGED <<flags, joinable, thread, taken, newest, fileVars>>

\* shutdown, which the destructor calls too, does nothing a second time.
Shutdown ==
    /\ owner = "ready"
    /\ IF joinable
       THEN stopping' = TRUE /\ owner' = "stopping"
       ELSE UNCHANGED <<stopping, owner>>
    /\ UNCHANGED <<pending, writing, failed, joinable, thread, taken, answer, newest,
                   fileVars>>

ShutdownNotifies ==
    /\ owner = "stopping"
    /\ NotifyWorker
    /\ owner' = "joining"
    /\ UNCHANGED <<flags, joinable, taken, answer, newest, fileVars>>

Join ==
    /\ owner = "joining"
    /\ thread = "exited"
    /\ joinable' = FALSE
    /\ owner' = "ready"
    /\ UNCHANGED <<flags, thread, taken, answer, newest, fileVars>>
-----------------------------------------------------------------------------
(* The writer's thread.                                                    *)

\* With the mutex held: whether the loop ends. A pending snapshot goes first.
Leaves == stopping /\ pending = NoSnapshot

\* workAvailable_.wait and what follows it under the mutex.
TakePending ==
    /\ thread = "testing"
    /\ ~Leaves /\ pending # NoSnapshot
    /\ taken' = pending
    /\ pending' = NoSnapshot
    /\ writing' = TRUE
    /\ BeginWrite("writer")
    /\ thread' = "writing"
    /\ UNCHANGED <<stopping, failed, joinable, owner, answer, newest>>

FallAsleep ==
    /\ thread = "testing"
    /\ ~Leaves /\ pending = NoSnapshot
    /\ thread' = "asleep"
    /\ UNCHANGED <<flags, joinable, taken, owner, answer, newest, fileVars>>

Leave ==
    /\ thread = "testing"
    /\ Leaves
    /\ thread' = "leaving"
    /\ UNCHANGED <<flags, joinable, taken, owner, answer, newest, fileVars>>

\* writeDistributedCheckpoint, outside the mutex.
WriteSnapshot ==
    /\ thread = "writing"
    /\ \/ OpenTemporary("writer")
       \/ FillTemporary("writer", taken)
       \/ RenameTemporary("writer")
       \/ FailWrite("writer")
    /\ thread' = IF step'["writer"] = "none" THEN "reporting" ELSE "writing"
    /\ UNCHANGED <<flags, joinable, taken, owner, answer, newest>>

\* A failure is final: the pending snapshot is dropped and the thread leaves.
Report ==
    /\ thread = "reporting"
    /\ writing' = FALSE
    /\ IF wrote["writer"]
       THEN UNCHANGED <<pending, stopping, failed>>
       ELSE pending' = NoSnapshot /\ stopping' = TRUE /\ failed' = TRUE
    /\ thread' = "notifying"
    /\ UNCHANGED <<joinable, taken, owner, answer, newest, fileVars>>

ReportNotifies ==
    /\ thread = "notifying"
    /\ NotifyIdle
    /\ thread' = IF wrote["writer"] THEN "testing" ELSE "leaving"
    /\ UNCHANGED <<flags, joinable, taken, answer, newest, fileVars>>

Exit ==
    /\ thread = "leaving"
    /\ NotifyIdle
    /\ thread' = "exited"
    /\ UNCHANGED <<flags, joinable, taken, answer, newest, fileVars>>

\* Condition variables may wake a waiter for no reason.
SpuriousWakeup ==
    /\ \/ thread = "asleep" /\ thread' = "testing" /\ UNCHANGED owner
       \/ owner = "flushAsleep" /\ owner' = "flushing" /\ UNCHANGED thread
    /\ UNCHANGED <<flags, joinable, taken, answer, newest, fileVars>>

\* What the owner does of itself, inside a call it has made.
OwnerStep ==
    \/ FinishConstruction
    \/ EnqueueNotifies
    \/ FlushTests
    \/ ShutdownNotifies
    \/ Join

ThreadStep ==
    \/ TakePending
    \/ FallAsleep
    \/ Leave
    \/ WriteSnapshot
    \/ Report
    \/ ReportNotifies
    \/ Exit
-----------------------------------------------------------------------------
(* The writer by itself, under an owner that makes any call at any time.   *)

OwnerCalls ==
    \/ newest < MaxSequence /\ Enqueue(newest + 1)
    \/ Flush
    \/ Shutdown

Init == FileInit /\ WriterInit

Next ==
    \/ OwnerCalls
    \/ OwnerStep
    \/ ThreadStep
    \/ SpuriousWakeup

\* The scheduler runs both threads; nothing makes the owner call.
Fairness == WF_writerVars(OwnerStep) /\ WF_writerVars(ThreadStep)

Spec == Init /\ [][Next]_writerVars /\ Fairness
-----------------------------------------------------------------------------
(* Properties.                                                             *)

\* Every variable has its type.
TypeOK ==
    /\ FileTypeOK
    /\ pending \in Sequences \cup {NoSnapshot}
    /\ taken \in Sequences \cup {NoSnapshot}
    /\ newest \in Sequences \cup {NoSnapshot}
    /\ {writing, stopping, failed, joinable, answer} \subseteq BOOLEAN
    /\ thread \in ThreadPlaces
    /\ owner \in OwnerPlaces

\* Until a write fails, the newest snapshot enqueue accepted is waiting, being
\* written or in the file, however the threads interleave: replacing a pending
\* snapshot and taking one never lose the newest (checkpoint_writer.hpp, "Only
\* the newest snapshot waiting in the queue is retained").
NewestRetained ==
    newest # NoSnapshot /\ ~failed =>
        \/ pending = newest
        \/ pending = NoSnapshot /\ writing /\ taken = newest
        \/ pending = NoSnapshot /\ file = newest

\* When shutdown has returned, the newest accepted snapshot is in the file
\* unless a write failed; the writer's test calls anything else a lost snapshot.
ShutdownDrains ==
    ~joinable /\ ~failed /\ newest # NoSnapshot => file = newest

\* Whatever the memory of the new object held, the one way to lose a snapshot is
\* that the thread read a stale stopping_ and left before it took any: a writer
\* that has ever taken one is drained by shutdown.
DrainsOnceRunning == ShutdownDrains \/ (TRUE \in StaleStopping /\ taken = NoSnapshot)

\* flush answers true only when the newest accepted snapshot is in the file.
FlushMeansWritten ==
    [][owner = "flushing" /\ owner' = "ready" /\ answer' /\ newest # NoSnapshot
         => file = newest]_writerVars

\* Wherever a crash or a failed write leaves it, the checkpoint is a whole
\* snapshot, and it only ever gives way to a later one.
FileAdvances ==
    [][file' # file => file' \in Sequences /\ (file = Absent \/ file' > file)]_writerVars

\* No notification is lost and nobody waits for ever: every call of the owner
\* returns, whether the writes succeed or not.
EveryCallReturns == owner # "ready" ~> owner = "ready"

\* An accepted snapshot, or a newer one, gets into the file with no further call
\* of the owner, unless a write fails.
AcceptedIsWritten ==
    \A s \in Sequences : newest = s ~> failed \/ file \in s..MaxSequence
=============================================================================
