-------------------------- MODULE CoordinatorApp -----------------------------
(***************************************************************************)
(* runDistributedCoordinator (src/distributed/coordinator_app.cpp): the    *)
(* main thread's loop around the checkpoint writer, the listener and the   *)
(* detached session threads, and the restarts of the process, with or      *)
(* without --resume, from whatever checkpoint the last one left.           *)
(*                                                                         *)
(* The coordinator itself is abstracted to the number of merged tasks:     *)
(* sessions raise it, snapshots copy it (Coordinator models the rest).     *)
(* Snapshots are numbered in the order in which any process takes them, so *)
(* that the file tells which one it holds.                                 *)
(***************************************************************************)
EXTENDS CheckpointWriter, Sequences

CONSTANTS
    NumTasks,           \* coordinator.taskCount()
    MaxSessions,        \* bound on the connected workers
    MaxStarts           \* bound on the processes

ASSUME AppAssumption ==
    /\ NumTasks \in Nat \ {0}
    /\ MaxSessions \in Nat
    /\ MaxStarts \in Nat
    /\ Writers = {"writer", "main"}

VARIABLES
    main,               \* where the main thread is
    due,                \* now >= nextCheckpoint
    finalImageWritten,
    activeSessions,
    completed,          \* coordinator.completedTaskCount()
    snapshots,          \* snapshots[i]: the merged tasks in the i-th snapshot
    resumed,            \* the process was started with --resume
    inherited,          \* how many snapshots earlier processes had taken
    exitCode,
    starts              \* how many processes there have been

mainVars == <<main, due, finalImageWritten, exitCode>>
processVars == <<resumed, inherited, starts>>
sessionVars == <<activeSessions, completed>>
appVars == <<writerVars, mainVars, processVars, sessionVars, snapshots>>

\* The places of the main thread follow its loop; "destroyed": the locals of
\* runDistributedCoordinator are gone and the process is not; "off": there is none.
AppInit ==
    /\ FileInit
    /\ WriterInit
    /\ main = "off"
    /\ due = TRUE
    /\ finalImageWritten = FALSE
    /\ activeSessions = 0
    /\ completed = 0
    /\ snapshots = <<>>
    /\ resumed = FALSE
    /\ inherited = 0
    /\ exitCode = 0
    /\ starts = 0
-----------------------------------------------------------------------------
(* Faults.                                                                 *)

\* The final snapshot is written with the writer's thread still at work.
FinishJob_WithoutWriter ==
    /\ main = "checkDone" /\ owner = "ready"
    /\ ~finalImageWritten /\ completed = NumTasks
    /\ main' = "shut"
    /\ UNCHANGED <<writerVars, due, finalImageWritten, exitCode, processVars, sessionVars,
                   snapshots>>

\* The checkpoint is read and not handed to restore.
RestoredCount_Zero == 0

\* The loop returns as soon as the final image is written.
MayReturn_AtOnce == TRUE
-----------------------------------------------------------------------------
(* The process.                                                            *)

\* The members of a new DistributedCheckpointWriter.
NewWriter ==
    /\ pending' = NoSnapshot
    /\ writing' = FALSE
    /\ stopping' \in StaleStopping
    /\ failed' = FALSE
    /\ joinable' = TRUE
    /\ thread' = "testing"
    /\ taken' = NoSnapshot
    /\ owner' = "constructing"
    /\ answer' = TRUE
    /\ newest' = NoSnapshot
    /\ step' = [w \in Writers |-> "none"]
    /\ wrote' = [w \in Writers |-> TRUE]

\* Room for the final snapshot after one more periodic one.
SnapshotsLeft == Len(snapshots) + 1 < MaxSequence

\* What readDistributedCheckpoint and restore find in the file.
RestoredCount == snapshots[file]

\* A process that cannot read its checkpoint or listen ends with nothing done.
StartProcess ==
    /\ main = "off"
    /\ starts < MaxStarts /\ SnapshotsLeft
    /\ starts' = starts + 1
    /\ resumed' \in BOOLEAN
    /\ resumed' => file # Absent
    /\ main' = "loop"
    /\ NewWriter
    /\ due' = TRUE
    /\ finalImageWritten' = FALSE
    /\ exitCode' = 0
    /\ activeSessions' = 0
    /\ completed' = IF resumed' THEN RestoredCount ELSE 0
    /\ inherited' = Len(snapshots)
    /\ UNCHANGED <<file, temporary, snapshots>>

\* The process is killed, wherever its threads are.
Crash ==
    /\ main # "off"
    /\ main' = "off"
    /\ exitCode' = 1
    /\ UNCHANGED <<writerVars, due, finalImageWritten, processVars, sessionVars, snapshots>>

ExitProcess ==
    /\ main = "destroyed"
    /\ main' = "off"
    /\ UNCHANGED <<writerVars, due, finalImageWritten, exitCode, processVars, sessionVars,
                   snapshots>>
-----------------------------------------------------------------------------
(* The main thread. It goes on when its call of the writer has returned.   *)

At(place) == main = place /\ owner = "ready"

GoTo(place) ==
    /\ main' = place
    /\ UNCHANGED <<due, finalImageWritten, exitCode, processVars, sessionVars>>

Return(code) ==
    /\ main' = "returning"
    /\ exitCode' = code
    /\ UNCHANGED <<due, finalImageWritten, processVars, sessionVars>>

\* checkpointWriter.failed(), at the top of the loop.
WriterFailed == failed

StopForFailedWriter ==
    /\ At("loop")
    /\ WriterFailed
    /\ Return(1)
    /\ UNCHANGED <<writerVars, snapshots>>

WriterWorks ==
    /\ At("loop")
    /\ ~WriterFailed
    /\ GoTo("checkDue")
    /\ UNCHANGED <<writerVars, snapshots>>

\* queueDistributedSnapshot; the writer may have failed since it was asked, and
\* then refuses.
QueueSnapshot ==
    /\ At("checkDue")
    /\ ~finalImageWritten /\ due
    /\ SnapshotsLeft
    /\ snapshots' = Append(snapshots, completed)
    /\ Enqueue(Len(snapshots) + 1)
    /\ due' = FALSE
    /\ main' = "queued"
    /\ UNCHANGED <<finalImageWritten, exitCode, processVars, sessionVars>>

NothingDue ==
    /\ At("checkDue")
    /\ finalImageWritten \/ ~due \/ ~SnapshotsLeft
    /\ GoTo("checkDone")
    /\ UNCHANGED <<writerVars, snapshots>>

SnapshotQueued ==
    /\ At("queued")
    /\ IF answer THEN GoTo("checkDone") ELSE Return(1)
    /\ UNCHANGED <<writerVars, snapshots>>

NotDone ==
    /\ At("checkDone")
    /\ finalImageWritten \/ completed # NumTasks
    /\ GoTo("waiting")
    /\ UNCHANGED <<writerVars, snapshots>>

\* The job is complete: the writer is flushed ...
FinishJob ==
    /\ At("checkDone")
    /\ ~finalImageWritten /\ completed = NumTasks
    /\ Flush
    /\ GoTo("flushed")
    /\ UNCHANGED snapshots

\* ... and shut down ...
Flushed ==
    /\ At("flushed")
    /\ IF answer
       THEN Shutdown /\ GoTo("shut")
       ELSE Return(1) /\ UNCHANGED writerVars
    /\ UNCHANGED snapshots

\* ... and the main thread writes the final snapshot itself ...
BeginFinalWrite ==
    /\ At("shut")
    /\ snapshots' = Append(snapshots, completed)
    /\ BeginWrite("main")
    /\ GoTo("writingFinal")
    /\ UNCHANGED <<flags, joinable, thread, taken, owner, answer, newest>>

\* ... and then the image.
WriteFinal ==
    /\ At("writingFinal")
    /\ \/ OpenTemporary("main") /\ GoTo("writingFinal")
       \/ FillTemporary("main", Len(snapshots)) /\ GoTo("writingFinal")
       \/ /\ RenameTemporary("main")
          /\ main' = "waiting"
          /\ finalImageWritten' = TRUE
          /\ UNCHANGED <<due, exitCode, processVars, sessionVars>>
       \/ FailWrite("main") /\ Return(1)
    /\ UNCHANGED <<flags, joinable, thread, taken, owner, answer, newest, snapshots>>

\* What the loop waits for after the final image.
MayReturn == activeSessions = 0

ReturnOrSleep ==
    /\ At("waiting")
    /\ finalImageWritten
    /\ IF MayReturn THEN Return(0) ELSE GoTo("loop")
    /\ UNCHANGED <<writerVars, snapshots>>

\* accept times out after 250 ms, or fails, which ends the coordinator, or brings
\* a worker, for which a session thread is started and detached.
Accept ==
    /\ At("waiting")
    /\ ~finalImageWritten
    /\ \/ GoTo("loop")
       \/ Return(1)
       \/ /\ activeSessions < MaxSessions
          /\ activeSessions' = activeSessions + 1
          /\ main' = "loop"
          /\ UNCHANGED <<due, finalImageWritten, exitCode, processVars, completed>>
    /\ UNCHANGED <<writerVars, snapshots>>

\* ~DistributedCheckpointWriter, the first destructor to run.
DestroyWriter ==
    /\ At("returning")
    /\ Shutdown
    /\ GoTo("destroying")
    /\ UNCHANGED snapshots

\* The others: activeSessions, the listener, the coordinator.
DestroyLocals ==
    /\ At("destroying")
    /\ GoTo("destroyed")
    /\ UNCHANGED <<writerVars, snapshots>>

MainStep ==
    \/ StopForFailedWriter
    \/ WriterWorks
    \/ QueueSnapshot
    \/ NothingDue
    \/ SnapshotQueued
    \/ NotDone
    \/ FinishJob
    \/ Flushed
    \/ BeginFinalWrite
    \/ WriteFinal
    \/ ReturnOrSleep
    \/ Accept
    \/ DestroyWriter
    \/ DestroyLocals
    \/ ExitProcess
-----------------------------------------------------------------------------
(* The other threads and the clock.                                        *)

IntervalElapses ==
    /\ main # "off" /\ ~due
    /\ due' = TRUE
    /\ UNCHANGED <<writerVars, main, finalImageWritten, exitCode, processVars, sessionVars,
                   snapshots>>

SessionMerges ==
    /\ main # "off"
    /\ activeSessions > 0 /\ completed < NumTasks
    /\ completed' = completed + 1
    /\ UNCHANGED <<writerVars, mainVars, processVars, activeSessions, snapshots>>

\* The worker leaves or its connection fails; fetch_sub is the thread's last use
\* of the coordinator's locals.
SessionEnds ==
    /\ main # "off"
    /\ activeSessions > 0
    /\ activeSessions' = activeSessions - 1
    /\ UNCHANGED <<writerVars, mainVars, processVars, completed, snapshots>>

\* The steps of the writer's threads, while there is a process.
InProcess(A) == main # "off" /\ A /\ UNCHANGED <<mainVars, processVars, sessionVars, snapshots>>

AppNext ==
    \/ StartProcess
    \/ Crash
    \/ MainStep
    \/ InProcess(OwnerStep)
    \/ InProcess(ThreadStep)
    \/ InProcess(SpuriousWakeup)
    \/ IntervalElapses
    \/ SessionMerges
    \/ SessionEnds

\* The process's own threads run. Nothing makes a session end: it reads from its
\* worker with no timeout, and a host that vanishes leaves it there.
AppFairness ==
    /\ WF_appVars(MainStep)
    /\ WF_appVars(InProcess(OwnerStep))
    /\ WF_appVars(InProcess(ThreadStep))

AppSpec == AppInit /\ [][AppNext]_appVars /\ AppFairness
-----------------------------------------------------------------------------
(* Properties.                                                             *)

\* From the moment the final image is written the checkpoint is that of the
\* complete job: no periodic snapshot that was still queued or being written by
\* the writer's thread replaces the final one.
FinalCheckpointComplete ==
    finalImageWritten => file \in DOMAIN snapshots /\ snapshots[file] = NumTasks

\* When the locals of runDistributedCoordinator go, the writer's thread is gone,
\* and after a success so are the sessions, and the final image is written.
CleanReturn ==
    main = "destroyed" =>
        /\ thread = "exited"
        /\ exitCode = 0 => activeSessions = 0 /\ finalImageWritten

\* A process never replaces a checkpoint it resumed from or wrote itself by one
\* with fewer merged tasks; only one started without --resume on top of an old
\* checkpoint does.
CheckpointKeepsProgress ==
    [][file' # file /\ file # Absent /\ (resumed \/ file > inherited)
         => snapshots'[file'] >= snapshots[file]]_appVars

\* Once the job is complete or a checkpoint could not be written, the process
\* ends, or has written the final image and waits for a session that stays for
\* ever: the writer, the flush and the join never hold it.
ProcessEnds ==
    [](main # "off" /\ (completed = NumTasks \/ failed)
         => <>(main = "off" \/ [](finalImageWritten /\ activeSessions > 0)))

\* The session threads hold references to locals of runDistributedCoordinator,
\* which must not go before them (coordinator_app.cpp:187-190, "wait until
\* detached session threads have released their references").
LocalsOutliveSessions == main = "destroyed" => activeSessions = 0
=============================================================================
