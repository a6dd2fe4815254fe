------------------------ MODULE CoordinatorAppProofs ------------------------
(***************************************************************************)
(* Proofs about CheckpointWriter, for every bound on the sequence numbers  *)
(* and every set of threads that share the file operations' module, and    *)
(* about CoordinatorApp, for every number of tasks, sessions and processes *)
(* and whatever the memory of a new writer holds.                          *)
(*                                                                         *)
(* The writer by itself. Two facts carry everything. Where the newest      *)
(* snapshot is: `pending` is the newest or nothing, and if it is nothing   *)
(* the newest is the one taken last. And the order in which snapshots      *)
(* reach the file: what is in the file is no newer than what is taken, and *)
(* that is older than what is pending. The others say which places of the  *)
(* two threads go together with which flags.                               *)
(*                                                                         *)
(* The process. Two arguments run through its life. Which call of the      *)
(* writer the main thread is in says whether the writer's thread can still *)
(* write: from the join on it cannot. And snapshots get into the file in   *)
(* the order in which they were taken, after those of earlier processes,   *)
(* while the merged tasks they count never become fewer within one process.*)
(***************************************************************************)
EXTENDS CoordinatorApp, SequenceTheorems, TLAPS

-----------------------------------------------------------------------------
(* The writer: its inductive invariant.                                    *)

\* writing_ is set exactly from the step that takes a snapshot to the report,
\* and the file operations are under way exactly while the thread writes.
BusyWhileWriting ==
    /\ writing <=> thread \in {"writing", "reporting"}
    /\ step["writer"] # "none" <=> thread = "writing"

\* Until the constructor ends there is nothing to write.
NothingYet ==
    owner = "constructing" =>
        /\ pending = NoSnapshot /\ newest = NoSnapshot /\ joinable
        /\ thread \in {"testing", "asleep", "leaving", "exited"}
        /\ ~failed

\* Until a write fails the newest snapshot is pending or was taken last.
NewestIsPendingOrTaken ==
    ~failed => newest = IF pending # NoSnapshot THEN pending ELSE taken

\* Snapshots reach the file in the order in which enqueue accepted them.
InOrder ==
    /\ taken <= newest
    /\ pending # NoSnapshot => taken < pending
    /\ file # Absent => file <= taken
    /\ thread = "writing" => taken # NoSnapshot /\ file # taken
    /\ step["writer"] = "rename" => temporary = taken
    /\ ~writing /\ ~failed => file = taken \/ taken = NoSnapshot
    /\ thread = "reporting" /\ wrote["writer"] => file = taken

\* A failed write is reported before the thread goes on, and is final.
FailureIsFinal ==
    /\ failed => stopping /\ pending = NoSnapshot
    /\ thread = "notifying" /\ ~wrote["writer"] => failed

\* A thread that started with cleared fields, or has ever taken a snapshot, leaves
\* only once it is told to, with nothing left to write.
Running == TRUE \notin StaleStopping \/ taken # NoSnapshot

LeavesEmpty ==
    /\ ~joinable => thread = "exited"
    /\ TRUE \notin StaleStopping /\ owner = "constructing" => ~stopping
    /\ Running /\ thread \in {"leaving", "exited"} => stopping /\ pending = NoSnapshot

IInv ==
    /\ TypeOK
    /\ BusyWhileWriting
    /\ NothingYet
    /\ NewestIsPendingOrTaken
    /\ InOrder
    /\ FailureIsFinal
    /\ LeavesEmpty
-----------------------------------------------------------------------------
(* The inductive invariant.                                                *)

LEMMA InitGivesIInv == Init => IInv
<1> USE WriterThread, FileAssumption, StaleAssumption
<1> SUFFICES ASSUME Init PROVE IInv
  OBVIOUS
<1> USE DEF Init, FileInit, WriterInit, NoSnapshot
<1>1. TypeOK
  BY DEF TypeOK, FileTypeOK, Steps, ThreadPlaces, OwnerPlaces
<1>2. BusyWhileWriting /\ NothingYet /\ NewestIsPendingOrTaken
  BY DEF BusyWhileWriting, NothingYet, NewestIsPendingOrTaken
<1>3. InOrder
  BY DEF InOrder
<1>4. FailureIsFinal /\ LeavesEmpty
  BY DEF FailureIsFinal, LeavesEmpty, Running
<1> QED
  BY <1>1, <1>2, <1>3, <1>4 DEF IInv

LEMMA FinishConstructionKeepsIInv ==
  ASSUME IInv, FinishConstruction
  PROVE  IInv'
<1> USE WriterThread, FileAssumption, StaleAssumption
      DEF FinishConstruction, NoSnapshot, flags, fileVars, Sequences
<1>0. TypeOK
  BY DEF IInv
<1>1. TypeOK'
  BY <1>0 DEF TypeOK, FileTypeOK, OwnerPlaces
<1>2. BusyWhileWriting'
  BY DEF IInv, BusyWhileWriting, NothingYet
<1>3. NothingYet'
  BY DEF NothingYet
<1>4. NewestIsPendingOrTaken'
  BY DEF IInv, NothingYet, NewestIsPendingOrTaken
<1>5. InOrder'
  BY DEF IInv, NothingYet, NewestIsPendingOrTaken, InOrder
<1>6. FailureIsFinal'
  BY DEF IInv, NothingYet, FailureIsFinal
<1>7. LeavesEmpty'
  BY DEF IInv, LeavesEmpty, Running, NothingYet, NewestIsPendingOrTaken
<1> QED
  BY <1>1, <1>2, <1>3, <1>4, <1>5, <1>6, <1>7 DEF IInv

LEMMA EnqueueKeepsIInv ==
  ASSUME IInv, newest < MaxSequence /\ Enqueue(newest + 1)
  PROVE  IInv'
<1> USE WriterThread, FileAssumption, StaleAssumption
      DEF Enqueue, NoSnapshot, flags, fileVars, Sequences
<1>0. TypeOK
  BY DEF IInv
<1>1. TypeOK'
  <2>1. newest + 1 \in 1..MaxSequence
    BY <1>0 DEF TypeOK
  <2>2. /\ pending' \in Sequences \cup {NoSnapshot}
        /\ newest' \in Sequences \cup {NoSnapshot}
    BY <1>0, <2>1 DEF TypeOK
  <2>3. {writing', stopping', failed', joinable', answer'} \subseteq BOOLEAN
    BY <1>0 DEF TypeOK
  <2> QED
    BY <1>0, <2>2, <2>3 DEF TypeOK, FileTypeOK, OwnerPlaces
<1>2. BusyWhileWriting'
  BY DEF IInv, BusyWhileWriting
<1>3. NothingYet'
  BY DEF NothingYet
<1>4. NewestIsPendingOrTaken'
  BY <1>0 DEF IInv, TypeOK, NewestIsPendingOrTaken
<1>5. InOrder'
  BY <1>0 DEF IInv, TypeOK, InOrder
<1>6. FailureIsFinal'
  BY DEF IInv, FailureIsFinal
<1>7. LeavesEmpty'
  BY DEF IInv, LeavesEmpty, Running
<1> QED
  BY <1>1, <1>2, <1>3, <1>4, <1>5, <1>6, <1>7 DEF IInv

LEMMA EnqueueNotifiesKeepsIInv ==
  ASSUME IInv, EnqueueNotifies
  PROVE  IInv'
<1> USE WriterThread, FileAssumption, StaleAssumption
      DEF EnqueueNotifies, NotifyWorker, NoSnapshot, flags, fileVars, Sequences
<1>0. TypeOK
  BY DEF IInv
<1>1. TypeOK'
  BY <1>0 DEF TypeOK, FileTypeOK, ThreadPlaces, OwnerPlaces
<1>2. BusyWhileWriting'
  BY DEF IInv, BusyWhileWriting
<1>3. NothingYet'
  BY DEF NothingYet
<1>4. NewestIsPendingOrTaken'
  BY DEF IInv, NewestIsPendingOrTaken
<1>5. InOrder'
  BY DEF IInv, InOrder
<1>6. FailureIsFinal'
  BY DEF IInv, FailureIsFinal
<1>7. LeavesEmpty'
  BY DEF IInv, LeavesEmpty, Running
<1> QED
  BY <1>1, <1>2, <1>3, <1>4, <1>5, <1>6, <1>7 DEF IInv

LEMMA FlushKeepsIInv ==
  ASSUME IInv, Flush \/ FlushTests
  PROVE  IInv'
<1> USE WriterThread, FileAssumption, StaleAssumption
      DEF Flush, FlushTests, NoSnapshot, flags, fileVars, Sequences
<1>0. TypeOK
  BY DEF IInv
<1>1. TypeOK'
  BY <1>0 DEF TypeOK, FileTypeOK, OwnerPlaces
<1>2. BusyWhileWriting'
  BY DEF IInv, BusyWhileWriting
<1>3. NothingYet'
  BY DEF NothingYet
<1>4. NewestIsPendingOrTaken'
  BY DEF IInv, NewestIsPendingOrTaken
<1>5. InOrder'
  BY DEF IInv, InOrder
<1>6. FailureIsFinal'
  BY DEF IInv, FailureIsFinal
<1>7. LeavesEmpty'
  BY DEF IInv, LeavesEmpty, Running
<1> QED
  BY <1>1, <1>2, <1>3, <1>4, <1>5, <1>6, <1>7 DEF IInv

LEMMA ShutdownKeepsIInv ==
  ASSUME IInv, Shutdown \/ ShutdownNotifies \/ Join
  PROVE  IInv'
<1> USE WriterThread, FileAssumption, StaleAssumption
      DEF Shutdown, ShutdownNotifies, Join, NotifyWorker, NoSnapshot, flags, fileVars, Sequences
<1>0. TypeOK
  BY DEF IInv
<1>1. TypeOK'
  BY <1>0 DEF TypeOK, FileTypeOK, ThreadPlaces, OwnerPlaces
<1>2. BusyWhileWriting'
  BY DEF IInv, BusyWhileWriting
<1>3. NothingYet'
  BY DEF NothingYet
<1>4. NewestIsPendingOrTaken'
  BY DEF IInv, NewestIsPendingOrTaken
<1>5. InOrder'
  BY DEF IInv, InOrder
<1>6. FailureIsFinal'
  BY DEF IInv, FailureIsFinal
<1>7. LeavesEmpty'
  BY DEF IInv, LeavesEmpty, Running
<1> QED
  BY <1>1, <1>2, <1>3, <1>4, <1>5, <1>6, <1>7 DEF IInv

LEMMA TakePendingKeepsIInv ==
  ASSUME IInv, TakePending
  PROVE  IInv'
<1> USE WriterThread, FileAssumption, StaleAssumption
      DEF TakePending, BeginWrite, Leaves, NoSnapshot, flags, fileVars, Sequences
<1>0. TypeOK
  BY DEF IInv
<1>1. TypeOK'
  BY <1>0 DEF TypeOK, FileTypeOK, Steps, ThreadPlaces
<1>2. BusyWhileWriting'
  BY <1>0 DEF TypeOK, BusyWhileWriting, FileTypeOK
<1>3. NothingYet'
  BY DEF IInv, NothingYet
<1>4. NewestIsPendingOrTaken'
  BY DEF IInv, NewestIsPendingOrTaken
<1>5. InOrder'
  BY <1>0 DEF IInv, TypeOK, NewestIsPendingOrTaken, InOrder, FailureIsFinal, FileTypeOK
<1>6. FailureIsFinal'
  BY DEF IInv, FailureIsFinal
<1>7. LeavesEmpty'
  BY DEF IInv, LeavesEmpty, Running
<1> QED
  BY <1>1, <1>2, <1>3, <1>4, <1>5, <1>6, <1>7 DEF IInv

LEMMA WaitKeepsIInv ==
  ASSUME IInv, FallAsleep \/ Leave \/ SpuriousWakeup
  PROVE  IInv'
<1> USE WriterThread, FileAssumption, StaleAssumption
      DEF FallAsleep, Leave, SpuriousWakeup, Leaves, NoSnapshot, flags, fileVars, Sequences
<1>0. TypeOK
  BY DEF IInv
<1>1. TypeOK'
  BY <1>0 DEF TypeOK, FileTypeOK, ThreadPlaces, OwnerPlaces
<1>2. BusyWhileWriting'
  BY DEF IInv, BusyWhileWriting
<1>3. NothingYet'
  BY DEF IInv, NothingYet
<1>4. NewestIsPendingOrTaken'
  BY DEF IInv, NewestIsPendingOrTaken
<1>5. InOrder'
  BY DEF IInv, InOrder
<1>6. FailureIsFinal'
  BY DEF IInv, FailureIsFinal
<1>7. LeavesEmpty'
  BY <1>0 DEF IInv, TypeOK, LeavesEmpty, Running
<1> QED
  BY <1>1, <1>2, <1>3, <1>4, <1>5, <1>6, <1>7 DEF IInv

LEMMA WriteSnapshotKeepsIInv ==
  ASSUME IInv, WriteSnapshot
  PROVE  IInv'
<1> USE WriterThread, FileAssumption, StaleAssumption
      DEF WriteSnapshot, OpenTemporary, FillTemporary, RenameTemporary, FailWrite, NoSnapshot, flags, fileVars, Sequences
<1>0. TypeOK
  BY DEF IInv
<1>1. TypeOK'
  <2>1. /\ taken \in 1..MaxSequence
        /\ step["writer"] = "rename" => temporary = taken
    BY <1>0 DEF IInv, InOrder, TypeOK
  <2>2. step' \in [Writers -> Steps] /\ wrote' \in [Writers -> BOOLEAN]
    BY <1>0 DEF TypeOK, FileTypeOK, Steps
  <2>3. /\ file' \in Sequences \cup {Absent}
        /\ temporary' \in Sequences \cup {Absent, Partial}
    BY <1>0, <2>1 DEF TypeOK, FileTypeOK
  <2>4. thread' \in ThreadPlaces
    BY DEF ThreadPlaces
  <2> QED
    BY <1>0, <2>2, <2>3, <2>4 DEF TypeOK, FileTypeOK
<1>2. BusyWhileWriting'
  BY DEF IInv, BusyWhileWriting
<1>3. NothingYet'
  BY DEF IInv, NothingYet
<1>4. NewestIsPendingOrTaken'
  BY DEF IInv, NewestIsPendingOrTaken
<1>5. InOrder'
  BY <1>0 DEF IInv, TypeOK, InOrder, FileTypeOK
<1>6. FailureIsFinal'
  BY DEF IInv, FailureIsFinal
<1>7. LeavesEmpty'
  BY DEF IInv, LeavesEmpty, Running
<1> QED
  BY <1>1, <1>2, <1>3, <1>4, <1>5, <1>6, <1>7 DEF IInv

LEMMA ReportKeepsIInv ==
  ASSUME IInv, Report
  PROVE  IInv'
<1> USE WriterThread, FileAssumption, StaleAssumption
      DEF Report, NoSnapshot, flags, fileVars, Sequences
<1>0. TypeOK
  BY DEF IInv
<1>1. TypeOK'
  BY <1>0 DEF TypeOK, FileTypeOK, ThreadPlaces
<1>2. BusyWhileWriting'
  BY DEF IInv, BusyWhileWriting
<1>3. NothingYet'
  BY DEF IInv, NothingYet
<1>4. NewestIsPendingOrTaken'
  BY DEF IInv, NewestIsPendingOrTaken
<1>5. InOrder'
  BY DEF IInv, InOrder
<1>6. FailureIsFinal'
  BY DEF IInv, FailureIsFinal
<1>7. LeavesEmpty'
  BY DEF IInv, NothingYet, LeavesEmpty, Running
<1> QED
  BY <1>1, <1>2, <1>3, <1>4, <1>5, <1>6, <1>7 DEF IInv

LEMMA NotifyKeepsIInv ==
  ASSUME IInv, ReportNotifies \/ Exit
  PROVE  IInv'
<1> USE WriterThread, FileAssumption, StaleAssumption
      DEF ReportNotifies, Exit, NotifyIdle, NoSnapshot, flags, fileVars, Sequences
<1>0. TypeOK
  BY DEF IInv
<1>1. TypeOK'
  BY <1>0 DEF TypeOK, FileTypeOK, ThreadPlaces, OwnerPlaces
<1>2. BusyWhileWriting'
  BY DEF IInv, BusyWhileWriting
<1>3. NothingYet'
  BY DEF IInv, NothingYet
<1>4. NewestIsPendingOrTaken'
  BY DEF IInv, NewestIsPendingOrTaken
<1>5. InOrder'
  BY DEF IInv, InOrder
<1>6. FailureIsFinal'
  BY DEF IInv, FailureIsFinal
<1>7. LeavesEmpty'
  BY DEF IInv, NothingYet, FailureIsFinal, LeavesEmpty, Running
<1> QED
  BY <1>1, <1>2, <1>3, <1>4, <1>5, <1>6, <1>7 DEF IInv

LEMMA NextKeepsIInv == IInv /\ [Next]_writerVars => IInv'
<1> SUFFICES ASSUME IInv, [Next]_writerVars
             PROVE  IInv'
  OBVIOUS
<1>1. CASE OwnerCalls
  BY <1>1, EnqueueKeepsIInv, FlushKeepsIInv, ShutdownKeepsIInv DEF OwnerCalls
<1>2. CASE OwnerStep
  BY <1>2, FinishConstructionKeepsIInv, EnqueueNotifiesKeepsIInv, FlushKeepsIInv,
     ShutdownKeepsIInv DEF OwnerStep
<1>3. CASE ThreadStep
  BY <1>3, TakePendingKeepsIInv, WaitKeepsIInv, WriteSnapshotKeepsIInv,
     ReportKeepsIInv, NotifyKeepsIInv DEF ThreadStep
<1>4. CASE SpuriousWakeup
  BY <1>4, WaitKeepsIInv
<1>5. CASE UNCHANGED writerVars
  BY <1>5 DEF writerVars, flags, fileVars, IInv, TypeOK, FileTypeOK, BusyWhileWriting,
     NothingYet, NewestIsPendingOrTaken, InOrder, FailureIsFinal, LeavesEmpty, Running
<1> QED
  BY <1>1, <1>2, <1>3, <1>4, <1>5 DEF Next

\* The inductive invariant holds of every state of the writer.
THEOREM InductiveInvariant == Spec => []IInv
<1> QED
  BY InitGivesIInv, NextKeepsIInv, PTL DEF Spec

-----------------------------------------------------------------------------
(* What follows from it.                                                   *)

\* Every variable keeps its type.
THEOREM WriterTypeCorrect == Spec => []TypeOK
<1>1. IInv => TypeOK
  BY DEF IInv
<1> QED
  BY <1>1, InductiveInvariant, PTL

LEMMA IInvGivesNewestRetained == IInv => NewestRetained
<1> SUFFICES ASSUME IInv, newest # NoSnapshot, ~failed
             PROVE  \/ pending = newest
                    \/ pending = NoSnapshot /\ writing /\ taken = newest
                    \/ pending = NoSnapshot /\ file = newest
  BY DEF NewestRetained
<1>1. CASE pending # NoSnapshot
  BY <1>1 DEF IInv, NewestIsPendingOrTaken
<1>2. CASE pending = NoSnapshot
  <2>1. taken = newest
    BY <1>2 DEF IInv, NewestIsPendingOrTaken
  <2> QED
    BY <1>2, <2>1 DEF IInv, InOrder
<1> QED
  BY <1>1, <1>2

\* Until a write fails, enqueue and run() never lose the newest snapshot between
\* them, whatever the memory of the new object held.
THEOREM NewestNeverLost == Spec => []NewestRetained
<1> QED
  BY IInvGivesNewestRetained, InductiveInvariant, PTL

\* Whatever the memory of the new object held, shutdown returns with the newest
\* snapshot in the file or after a failed write, unless the thread read a stale
\* stopping_ and left before it had taken anything.
THEOREM ShutdownLosesNothing == Spec => []DrainsOnceRunning
<1>1. IInv => DrainsOnceRunning
  <2> SUFFICES ASSUME IInv, Running, ~joinable, ~failed, newest # NoSnapshot
               PROVE  file = newest
    BY DEF DrainsOnceRunning, ShutdownDrains, Running
  <2>1. thread = "exited" /\ pending = NoSnapshot
    BY DEF IInv, LeavesEmpty
  <2>2. ~writing
    BY <2>1 DEF IInv, BusyWhileWriting
  <2> QED
    BY <2>1, <2>2, IInvGivesNewestRetained DEF NewestRetained, NoSnapshot
<1> QED
  BY <1>1, InductiveInvariant, PTL

\* flush returns true only with the newest accepted snapshot in the file.
THEOREM FlushIsDurable == Spec => FlushMeansWritten
<1>1. IInv /\ [Next]_writerVars =>
        [owner = "flushing" /\ owner' = "ready" /\ answer' /\ newest # NoSnapshot
           => file = newest]_writerVars
  <2> SUFFICES ASSUME IInv, Next, owner = "flushing", owner' = "ready", answer',
                      newest # NoSnapshot
               PROVE  file = newest
    BY DEF writerVars
  <2>1. FlushTests
    BY DEF Next, OwnerCalls, Enqueue, Flush, Shutdown, OwnerStep, FinishConstruction,
       EnqueueNotifies, ShutdownNotifies, Join, ThreadStep, TakePending, FallAsleep,
       Leave, WriteSnapshot, Report, ReportNotifies, Exit, NotifyIdle, SpuriousWakeup
  <2>2. Idle /\ ~failed
    BY <2>1 DEF FlushTests
  <2> QED
    BY <2>2, IInvGivesNewestRetained DEF NewestRetained, Idle, NoSnapshot
<1> QED
  BY <1>1, InductiveInvariant, PTL DEF Spec, FlushMeansWritten

\* The checkpoint is only ever replaced by a whole and later snapshot.
THEOREM FileOnlyAdvances == Spec => FileAdvances
<1>1. IInv /\ [Next]_writerVars =>
        [file' # file => file' \in Sequences /\ (file = Absent \/ file' > file)]_writerVars
  <2> SUFFICES ASSUME IInv, Next, file' # file
               PROVE  file' \in Sequences /\ (file = Absent \/ file' > file)
    BY DEF writerVars
  <2>1. thread = "writing" /\ RenameTemporary("writer")
    BY DEF Next, OwnerCalls, Enqueue, Flush, Shutdown, OwnerStep, FinishConstruction,
       EnqueueNotifies, FlushTests, ShutdownNotifies, Join, ThreadStep, TakePending,
       FallAsleep, Leave, WriteSnapshot, Report, ReportNotifies, Exit, SpuriousWakeup,
       BeginWrite, OpenTemporary, FillTemporary, FailWrite, fileVars
  <2>2. file' = taken /\ taken \in Sequences
    BY <2>1 DEF RenameTemporary, IInv, InOrder, TypeOK
  <2>3. file # Absent => file \in Nat /\ file < taken
    BY <2>1, <2>2, FileAssumption DEF IInv, InOrder, TypeOK, FileTypeOK, Sequences
  <2> QED
    BY <2>2, <2>3
<1> QED
  BY <1>1, InductiveInvariant, PTL DEF Spec, FileAdvances

-----------------------------------------------------------------------------
(* The process: its inductive invariant.                                   *)

MainPlaces == {"off", "loop", "checkDue", "queued", "checkDone", "flushed", "shut", "writingFinal",
               "waiting", "returning", "destroying", "destroyed"}

\* Types, as far as the arguments need them.
AppTypes ==
    /\ main \in MainPlaces
    /\ owner \in OwnerPlaces
    /\ thread \in ThreadPlaces
    /\ step \in [Writers -> Steps]
    /\ wrote \in [Writers -> BOOLEAN]
    /\ snapshots \in Seq(0..NumTasks)
    /\ completed \in 0..NumTasks
    /\ inherited \in 0..Len(snapshots)
    /\ activeSessions \in Nat
    /\ pending \in 0..Len(snapshots)
    /\ taken \in 0..Len(snapshots)
    /\ file \in (1..Len(snapshots)) \cup {Absent}

\* The call of the writer the main thread is in.
CallOfMain ==
    main = "off" \/ CASE owner = "ready" -> TRUE
                      [] owner = "constructing" -> main = "loop"
                      [] owner = "enqueued" -> main = "queued"
                      [] owner \in {"flushing", "flushAsleep"} -> main = "flushed"
                      [] owner \in {"stopping", "joining"} -> main \in {"shut", "destroying"}

\* Once the thread has been joined it is gone, and the final write comes after
\* that, as does the destruction of the locals.
JoinedThreadIsGone ==
    /\ ~joinable => thread = "exited"
    /\ finalImageWritten => ~joinable
    /\ main \in {"shut", "writingFinal", "destroying", "destroyed"} /\ owner = "ready" =>
          ~joinable
    /\ step["writer"] # "none" <=> thread = "writing"
    /\ step["main"] # "none" => main \in {"off", "writingFinal"}

\* A success is returned with the final image written and no session left.
SuccessIsFinal ==
    main \in {"returning", "destroying", "destroyed"} /\ exitCode = 0 =>
        finalImageWritten /\ activeSessions = 0

\* The job is complete from the flush to the final write, whose snapshot says so.
FinalWrite ==
    /\ main \in {"flushed", "shut", "writingFinal"} =>
          completed = NumTasks /\ ~finalImageWritten
    /\ main = "writingFinal" =>
          /\ Len(snapshots) # 0 /\ snapshots[Len(snapshots)] = NumTasks
          /\ Len(snapshots) > taken /\ Len(snapshots) > inherited
    /\ main = "writingFinal" /\ step["main"] = "rename" => temporary = Len(snapshots)
    /\ FinalCheckpointComplete

\* The process's snapshots are numbered after the inherited ones, and reach the
\* file in that order.
InAppOrder ==
    /\ pending # NoSnapshot => inherited < pending
    /\ taken # NoSnapshot => inherited < taken
    /\ pending # NoSnapshot => taken < pending
    /\ file # Absent /\ ~finalImageWritten => file <= inherited \/ file <= taken
    /\ thread = "writing" => taken # NoSnapshot /\ file # taken
    /\ step["writer"] = "rename" => temporary = taken

\* The counts of one process, and of the one it resumed, only grow.
CountsGrow ==
    /\ \A i \in inherited + 1 .. Len(snapshots) :
          /\ snapshots[i] <= completed
          /\ \A j \in i .. Len(snapshots) : snapshots[i] <= snapshots[j]
    /\ resumed /\ file # Absent =>
          /\ snapshots[file] <= completed
          /\ file <= inherited =>
                \A i \in inherited + 1 .. Len(snapshots) : snapshots[file] <= snapshots[i]

AppIInv ==
    /\ AppTypes
    /\ CallOfMain
    /\ JoinedThreadIsGone
    /\ SuccessIsFinal
    /\ FinalWrite
    /\ InAppOrder
    /\ CountsGrow
-----------------------------------------------------------------------------
(* One lemma per kind of step: each keeps every part of the invariant.      *)

\* A new snapshot counts no fewer tasks than those before it.
LEMMA NewSnapshotCountsMost ==
    ASSUME AppIInv, snapshots' = Append(snapshots, completed),
           UNCHANGED <<completed, inherited, resumed, file>>
    PROVE  CountsGrow'
<1> DEFINE n == Len(snapshots)
<1>1. /\ snapshots' = Append(snapshots, completed)
      /\ Len(snapshots') = n + 1 /\ n \in Nat
      /\ \A i \in 1..n : snapshots'[i] = snapshots[i]
      /\ snapshots'[n + 1] = completed
    BY DEF AppIInv, AppTypes
<1>2. /\ UNCHANGED <<completed, inherited, resumed, file>>
      /\ completed \in Nat /\ inherited \in 0..n
      /\ file # Absent => file \in 1..n
    BY DEF AppIInv, AppTypes
<1> HIDE DEF n
<1>3. ASSUME NEW i \in inherited + 1 .. n + 1
      PROVE  /\ snapshots'[i] <= completed
             /\ \A j \in i .. n + 1 : snapshots'[i] <= snapshots'[j]
    <2>1. CASE i = n + 1
        BY <1>1, <1>2, <2>1
    <2>2. CASE i \in inherited + 1 .. n
        <3>1. snapshots[i] <= completed /\ \A j \in i .. n : snapshots[i] <= snapshots[j]
            BY <2>2 DEF AppIInv, CountsGrow, n
        <3>2. i \in 1..n /\ \A j \in i .. n : j \in 1..n
            BY <1>2, <2>2
        <3>3. ASSUME NEW j \in i .. n + 1
              PROVE  snapshots'[i] <= snapshots'[j]
            <4>1. CASE j = n + 1
                BY <1>1, <3>1, <3>2, <4>1
            <4>2. CASE j \in i .. n
                BY <1>1, <3>1, <3>2, <4>2
            <4> QED
                BY <1>1, <1>2, <4>1, <4>2
        <3> QED
            BY <1>1, <3>1, <3>2, <3>3
    <2> QED
        BY <1>1, <1>2, <2>1, <2>2
<1>4. ASSUME resumed, file # Absent
      PROVE  /\ snapshots'[file] <= completed
             /\ file <= inherited =>
                   \A i \in inherited + 1 .. n + 1 : snapshots'[file] <= snapshots'[i]
    <2>1. /\ snapshots[file] <= completed
          /\ file <= inherited =>
                \A i \in inherited + 1 .. n : snapshots[file] <= snapshots[i]
        BY <1>4 DEF AppIInv, CountsGrow, n
    <2>2. snapshots'[file] = snapshots[file]
        BY <1>1, <1>2, <1>4
    <2>3. ASSUME file <= inherited, NEW i \in inherited + 1 .. n + 1
          PROVE  snapshots'[file] <= snapshots'[i]
        <3>1. CASE i = n + 1
            BY <1>1, <2>1, <2>2, <3>1
        <3>2. CASE i \in inherited + 1 .. n
            BY <1>1, <1>2, <2>1, <2>2, <2>3, <3>2
        <3>3. i = n + 1 \/ i \in inherited + 1 .. n
            BY <1>1, <1>2
        <3> QED
            BY <3>1, <3>2, <3>3
    <2> QED
        BY <2>1, <2>2, <2>3
<1> QED
    BY <1>1, <1>2, <1>3, <1>4 DEF CountsGrow, n

\* A new process finds the file as the last one left it.
LEMMA StartProcessKeepsAppIInv ==
    ASSUME AppIInv, StartProcess
    PROVE  AppIInv'
<1> USE WriterThread, FileAssumption, AppAssumption
        DEF StartProcess, NewWriter, RestoredCount, SnapshotsLeft, NoSnapshot, mainVars,
            processVars, sessionVars,
            writerVars, flags, fileVars
<1>0. AppTypes
    BY DEF AppIInv
<1>1. AppTypes'
    BY <1>0 DEF AppIInv, AppTypes, MainPlaces, OwnerPlaces, ThreadPlaces, Steps, InAppOrder,
         FinalWrite, JoinedThreadIsGone, CallOfMain
<1>2. CallOfMain'
    BY <1>0 DEF AppIInv, CallOfMain, JoinedThreadIsGone
<1>3. JoinedThreadIsGone'
    BY <1>0 DEF AppIInv, JoinedThreadIsGone, CallOfMain, AppTypes, FinalWrite
<1>4. SuccessIsFinal'
    BY <1>0 DEF AppIInv, SuccessIsFinal, FinalWrite
<1>5. FinalWrite'
    BY <1>0 DEF AppIInv, FinalWrite, FinalCheckpointComplete, JoinedThreadIsGone, AppTypes,
         InAppOrder, CallOfMain
<1>6. InAppOrder'
    BY <1>0 DEF AppIInv, InAppOrder, JoinedThreadIsGone, AppTypes, FinalWrite
<1>7. CountsGrow'
    BY <1>0 DEF AppIInv, CountsGrow, AppTypes, InAppOrder, JoinedThreadIsGone, FinalWrite
<1> QED
    BY <1>1, <1>2, <1>3, <1>4, <1>5, <1>6, <1>7 DEF AppIInv

\* A process that ends leaves everything where it is.
LEMMA EndKeepsAppIInv ==
    ASSUME AppIInv, Crash \/ ExitProcess
    PROVE  AppIInv'
<1> USE WriterThread, FileAssumption, AppAssumption
        DEF Crash, ExitProcess, NoSnapshot, mainVars, processVars, sessionVars,
            writerVars, flags, fileVars
<1>0. AppTypes
    BY DEF AppIInv
<1>1. AppTypes'
    BY <1>0 DEF AppIInv, AppTypes, MainPlaces, OwnerPlaces, ThreadPlaces, Steps, InAppOrder,
         FinalWrite, JoinedThreadIsGone, CallOfMain
<1>2. CallOfMain'
    BY <1>0 DEF AppIInv, CallOfMain, JoinedThreadIsGone
<1>3. JoinedThreadIsGone'
    BY <1>0 DEF AppIInv, JoinedThreadIsGone, CallOfMain, AppTypes, FinalWrite
<1>4. SuccessIsFinal'
    BY <1>0 DEF AppIInv, SuccessIsFinal, FinalWrite
<1>5. FinalWrite'
    BY <1>0 DEF AppIInv, FinalWrite, FinalCheckpointComplete, JoinedThreadIsGone, AppTypes,
         InAppOrder, CallOfMain
<1>6. InAppOrder'
    BY <1>0 DEF AppIInv, InAppOrder, JoinedThreadIsGone, AppTypes, FinalWrite
<1>7. CountsGrow'
    BY DEF AppIInv, CountsGrow
<1> QED
    BY <1>1, <1>2, <1>3, <1>4, <1>5, <1>6, <1>7 DEF AppIInv

\* The steps of the loop that neither call the writer nor write.
LEMMA LoopKeepsAppIInv ==
    ASSUME AppIInv, \/ StopForFailedWriter \/ WriterWorks \/ NothingDue \/ SnapshotQueued \/ NotDone
         \/ ReturnOrSleep \/ DestroyLocals
    PROVE  AppIInv'
<1> USE WriterThread, FileAssumption, AppAssumption
        DEF StopForFailedWriter, WriterWorks, NothingDue, SnapshotQueued, NotDone, ReturnOrSleep,
            DestroyLocals, At, GoTo, Return, MayReturn, NoSnapshot, mainVars, processVars,
            sessionVars,
            writerVars, flags, fileVars
<1>0. AppTypes
    BY DEF AppIInv
<1>1. AppTypes'
    BY <1>0 DEF AppIInv, AppTypes, MainPlaces, OwnerPlaces, ThreadPlaces, Steps, InAppOrder,
         FinalWrite, JoinedThreadIsGone, CallOfMain
<1>2. CallOfMain'
    BY <1>0 DEF AppIInv, CallOfMain, JoinedThreadIsGone
<1>3. JoinedThreadIsGone'
    BY <1>0 DEF AppIInv, JoinedThreadIsGone, CallOfMain, AppTypes, FinalWrite
<1>4. SuccessIsFinal'
    BY <1>0 DEF AppIInv, SuccessIsFinal, FinalWrite
<1>5. FinalWrite'
    BY <1>0 DEF AppIInv, FinalWrite, FinalCheckpointComplete, JoinedThreadIsGone, AppTypes,
         InAppOrder, CallOfMain
<1>6. InAppOrder'
    BY <1>0 DEF AppIInv, InAppOrder, JoinedThreadIsGone, AppTypes, FinalWrite
<1>7. CountsGrow'
    BY DEF AppIInv, CountsGrow
<1> QED
    BY <1>1, <1>2, <1>3, <1>4, <1>5, <1>6, <1>7 DEF AppIInv

\* A worker is accepted only before the final image.
LEMMA AcceptKeepsAppIInv ==
    ASSUME AppIInv, Accept
    PROVE  AppIInv'
<1> USE WriterThread, FileAssumption, AppAssumption
        DEF Accept, At, GoTo, Return, NoSnapshot, mainVars, processVars, sessionVars,
            writerVars, flags, fileVars
<1>0. AppTypes
    BY DEF AppIInv
<1>1. AppTypes'
    BY <1>0 DEF AppIInv, AppTypes, MainPlaces, OwnerPlaces, ThreadPlaces, Steps, InAppOrder,
         FinalWrite, JoinedThreadIsGone, CallOfMain
<1>2. CallOfMain'
    BY <1>0 DEF AppIInv, CallOfMain, JoinedThreadIsGone
<1>3. JoinedThreadIsGone'
    BY <1>0 DEF AppIInv, JoinedThreadIsGone, CallOfMain, AppTypes, FinalWrite
<1>4. SuccessIsFinal'
    BY <1>0 DEF AppIInv, SuccessIsFinal, FinalWrite
<1>5. FinalWrite'
    BY <1>0 DEF AppIInv, FinalWrite, FinalCheckpointComplete, JoinedThreadIsGone, AppTypes,
         InAppOrder, CallOfMain
<1>6. InAppOrder'
    BY <1>0 DEF AppIInv, InAppOrder, JoinedThreadIsGone, AppTypes, FinalWrite
<1>7. CountsGrow'
    BY <1>0 DEF AppIInv, CountsGrow, AppTypes, InAppOrder, JoinedThreadIsGone, FinalWrite
<1> QED
    BY <1>1, <1>2, <1>3, <1>4, <1>5, <1>6, <1>7 DEF AppIInv

\* A periodic snapshot is the newest and counts no fewer tasks than those before.
LEMMA QueueKeepsAppIInv ==
    ASSUME AppIInv, QueueSnapshot
    PROVE  AppIInv'
<1> USE WriterThread, FileAssumption, AppAssumption
        DEF QueueSnapshot, At, Enqueue, SnapshotsLeft, NoSnapshot, mainVars, processVars,
            sessionVars,
            writerVars, flags, fileVars
<1>0. AppTypes
    BY DEF AppIInv
<1>1. AppTypes'
    BY <1>0 DEF AppIInv, AppTypes, MainPlaces, OwnerPlaces, ThreadPlaces, Steps, InAppOrder,
         FinalWrite, JoinedThreadIsGone, CallOfMain
<1>2. CallOfMain'
    BY <1>0 DEF AppIInv, CallOfMain, JoinedThreadIsGone
<1>3. JoinedThreadIsGone'
    BY <1>0 DEF AppIInv, JoinedThreadIsGone, CallOfMain, AppTypes, FinalWrite
<1>4. SuccessIsFinal'
    BY <1>0 DEF AppIInv, SuccessIsFinal, FinalWrite
<1>5. FinalWrite'
    BY <1>0 DEF AppIInv, FinalWrite, FinalCheckpointComplete, JoinedThreadIsGone, AppTypes,
         InAppOrder, CallOfMain
<1>6. InAppOrder'
    BY <1>0 DEF AppIInv, InAppOrder, JoinedThreadIsGone, AppTypes, FinalWrite
<1>7. CountsGrow'
    BY NewSnapshotCountsMost
<1> QED
    BY <1>1, <1>2, <1>3, <1>4, <1>5, <1>6, <1>7 DEF AppIInv

\* The calls that come before the final write and before the destruction.
LEMMA CallKeepsAppIInv ==
    ASSUME AppIInv, FinishJob \/ Flushed \/ DestroyWriter
    PROVE  AppIInv'
<1> USE WriterThread, FileAssumption, AppAssumption
        DEF FinishJob, Flushed, DestroyWriter, At, GoTo, Return, Flush, Shutdown, NoSnapshot,
            mainVars, processVars, sessionVars,
            writerVars, flags, fileVars
<1>0. AppTypes
    BY DEF AppIInv
<1>1. AppTypes'
    BY <1>0 DEF AppIInv, AppTypes, MainPlaces, OwnerPlaces, ThreadPlaces, Steps, InAppOrder,
         FinalWrite, JoinedThreadIsGone, CallOfMain
<1>2. CallOfMain'
    BY <1>0 DEF AppIInv, CallOfMain, JoinedThreadIsGone
<1>3. JoinedThreadIsGone'
    BY <1>0 DEF AppIInv, JoinedThreadIsGone, CallOfMain, AppTypes, FinalWrite
<1>4. SuccessIsFinal'
    BY <1>0 DEF AppIInv, SuccessIsFinal, FinalWrite
<1>5. FinalWrite'
    BY <1>0 DEF AppIInv, FinalWrite, FinalCheckpointComplete, JoinedThreadIsGone, AppTypes,
         InAppOrder, CallOfMain
<1>6. InAppOrder'
    BY <1>0 DEF AppIInv, InAppOrder, JoinedThreadIsGone, AppTypes, FinalWrite
<1>7. CountsGrow'
    BY DEF AppIInv, CountsGrow
<1> QED
    BY <1>1, <1>2, <1>3, <1>4, <1>5, <1>6, <1>7 DEF AppIInv

\* The final snapshot is the newest.
LEMMA BeginFinalKeepsAppIInv ==
    ASSUME AppIInv, BeginFinalWrite
    PROVE  AppIInv'
<1> USE WriterThread, FileAssumption, AppAssumption
        DEF BeginFinalWrite, At, GoTo, BeginWrite, NoSnapshot, mainVars, processVars,
            sessionVars,
            writerVars, flags, fileVars
<1>0. AppTypes
    BY DEF AppIInv
<1>1. AppTypes'
    BY <1>0 DEF AppIInv, AppTypes, MainPlaces, OwnerPlaces, ThreadPlaces, Steps, InAppOrder,
         FinalWrite, JoinedThreadIsGone, CallOfMain
<1>2. CallOfMain'
    BY <1>0 DEF AppIInv, CallOfMain, JoinedThreadIsGone
<1>3. JoinedThreadIsGone'
    BY <1>0 DEF AppIInv, JoinedThreadIsGone, CallOfMain, AppTypes, FinalWrite
<1>4. SuccessIsFinal'
    BY <1>0 DEF AppIInv, SuccessIsFinal, FinalWrite
<1>5. FinalWrite'
    BY <1>0 DEF AppIInv, FinalWrite, FinalCheckpointComplete, JoinedThreadIsGone, AppTypes,
         InAppOrder, CallOfMain
<1>6. InAppOrder'
    BY <1>0 DEF AppIInv, InAppOrder, JoinedThreadIsGone, AppTypes, FinalWrite
<1>7. CountsGrow'
    BY NewSnapshotCountsMost
<1> QED
    BY <1>1, <1>2, <1>3, <1>4, <1>5, <1>6, <1>7 DEF AppIInv

\* With the thread gone nobody comes between the final write and its rename.
LEMMA FinalKeepsAppIInv ==
    ASSUME AppIInv, WriteFinal
    PROVE  AppIInv'
<1> USE WriterThread, FileAssumption, AppAssumption
        DEF WriteFinal, At, GoTo, Return, OpenTemporary, FillTemporary, RenameTemporary,
            FailWrite, NoSnapshot, mainVars, processVars, sessionVars,
            writerVars, flags, fileVars
<1>0. AppTypes
    BY DEF AppIInv
<1>1. AppTypes'
    <2>1. /\ Len(snapshots) \in 1..Len(snapshots)
          /\ step["main"] = "rename" => temporary = Len(snapshots)
        BY <1>0 DEF AppIInv, FinalWrite, AppTypes
    <2>2. step' \in [Writers -> Steps] /\ wrote' \in [Writers -> BOOLEAN]
        BY <1>0 DEF AppTypes, Steps
    <2>3. file' \in (1..Len(snapshots)) \cup {Absent}
        BY <1>0, <2>1 DEF AppTypes
    <2>4. main' \in MainPlaces
        BY DEF MainPlaces
    <2> QED
        BY <1>0, <2>2, <2>3, <2>4 DEF AppTypes
<1>2. CallOfMain'
    BY <1>0 DEF AppIInv, CallOfMain, JoinedThreadIsGone
<1>3. JoinedThreadIsGone'
    BY <1>0 DEF AppIInv, JoinedThreadIsGone, CallOfMain, AppTypes, FinalWrite
<1>4. SuccessIsFinal'
    BY <1>0 DEF AppIInv, SuccessIsFinal, FinalWrite
<1>5. FinalWrite'
    BY <1>0 DEF AppIInv, FinalWrite, FinalCheckpointComplete, JoinedThreadIsGone, AppTypes,
         InAppOrder, CallOfMain
<1>6. InAppOrder'
    BY <1>0 DEF AppIInv, InAppOrder, JoinedThreadIsGone, AppTypes, FinalWrite
<1>7. CountsGrow'
    BY <1>0 DEF AppIInv, CountsGrow, AppTypes, InAppOrder, JoinedThreadIsGone, FinalWrite
<1> QED
    BY <1>1, <1>2, <1>3, <1>4, <1>5, <1>6, <1>7 DEF AppIInv

\* The main thread inside a call of the writer.
LEMMA OwnerKeepsAppIInv ==
    ASSUME AppIInv, InProcess(OwnerStep)
    PROVE  AppIInv'
<1> USE WriterThread, FileAssumption, AppAssumption
        DEF InProcess, OwnerStep, FinishConstruction, EnqueueNotifies, FlushTests,
            ShutdownNotifies, Join, NotifyWorker, NoSnapshot, mainVars, processVars,
            sessionVars,
            writerVars, flags, fileVars
<1>0. AppTypes
    BY DEF AppIInv
<1>1. AppTypes'
    BY <1>0 DEF AppIInv, AppTypes, MainPlaces, OwnerPlaces, ThreadPlaces, Steps, InAppOrder,
         FinalWrite, JoinedThreadIsGone, CallOfMain
<1>2. CallOfMain'
    BY <1>0 DEF AppIInv, CallOfMain, JoinedThreadIsGone
<1>3. JoinedThreadIsGone'
    <2>1. CASE FinishConstruction
        BY <1>0, <2>1 DEF AppIInv, CallOfMain, JoinedThreadIsGone
    <2>2. CASE EnqueueNotifies
        BY <1>0, <2>2 DEF AppIInv, CallOfMain, JoinedThreadIsGone
    <2>3. CASE FlushTests
        BY <1>0, <2>3 DEF AppIInv, CallOfMain, JoinedThreadIsGone
    <2>4. CASE ShutdownNotifies
        BY <1>0, <2>4 DEF AppIInv, CallOfMain, JoinedThreadIsGone
    <2>5. CASE Join
        BY <1>0, <2>5 DEF AppIInv, CallOfMain, JoinedThreadIsGone
    <2> QED
        BY <2>1, <2>2, <2>3, <2>4, <2>5
<1>4. SuccessIsFinal'
    BY <1>0 DEF AppIInv, SuccessIsFinal, FinalWrite
<1>5. FinalWrite'
    BY <1>0 DEF AppIInv, FinalWrite, FinalCheckpointComplete, JoinedThreadIsGone, AppTypes,
         InAppOrder, CallOfMain
<1>6. InAppOrder'
    BY <1>0 DEF AppIInv, InAppOrder, JoinedThreadIsGone, AppTypes, FinalWrite
<1>7. CountsGrow'
    BY <1>0 DEF AppIInv, CountsGrow, AppTypes, InAppOrder, JoinedThreadIsGone, FinalWrite
<1> QED
    BY <1>1, <1>2, <1>3, <1>4, <1>5, <1>6, <1>7 DEF AppIInv

\* The thread takes the pending snapshot, which is newer than the file.
LEMMA TakeKeepsAppIInv ==
    ASSUME AppIInv, InProcess(TakePending)
    PROVE  AppIInv'
<1> USE WriterThread, FileAssumption, AppAssumption
        DEF InProcess, TakePending, BeginWrite, NoSnapshot, mainVars, processVars, sessionVars,
            writerVars, flags, fileVars
<1>0. AppTypes
    BY DEF AppIInv
<1>1. AppTypes'
    BY <1>0 DEF AppIInv, AppTypes, MainPlaces, OwnerPlaces, ThreadPlaces, Steps, InAppOrder,
         FinalWrite, JoinedThreadIsGone, CallOfMain
<1>2. CallOfMain'
    BY <1>0 DEF AppIInv, CallOfMain, JoinedThreadIsGone
<1>3. JoinedThreadIsGone'
    BY <1>0 DEF AppIInv, JoinedThreadIsGone, CallOfMain, AppTypes, FinalWrite
<1>4. SuccessIsFinal'
    BY <1>0 DEF AppIInv, SuccessIsFinal, FinalWrite
<1>5. FinalWrite'
    <2>1. main \notin {"writingFinal", "off"} /\ ~finalImageWritten
        BY <1>0 DEF AppIInv, JoinedThreadIsGone, CallOfMain, AppTypes, OwnerPlaces
    <2> QED
        BY <2>1 DEF AppIInv, FinalWrite, FinalCheckpointComplete
<1>6. InAppOrder'
    BY <1>0 DEF AppIInv, InAppOrder, JoinedThreadIsGone, AppTypes, FinalWrite
<1>7. CountsGrow'
    BY <1>0 DEF AppIInv, CountsGrow, AppTypes, InAppOrder, JoinedThreadIsGone, FinalWrite
<1> QED
    BY <1>1, <1>2, <1>3, <1>4, <1>5, <1>6, <1>7 DEF AppIInv

\* The thread waits, reports or leaves.
LEMMA WaitKeepsAppIInv ==
    ASSUME AppIInv,
        InProcess(FallAsleep \/ Leave \/ Report \/ ReportNotifies \/ Exit \/ SpuriousWakeup)
    PROVE  AppIInv'
<1> USE WriterThread, FileAssumption, AppAssumption
        DEF InProcess, FallAsleep, Leave, Report, ReportNotifies, Exit, SpuriousWakeup,
            NotifyIdle, NoSnapshot, mainVars, processVars, sessionVars,
            writerVars, flags, fileVars
<1>0. AppTypes
    BY DEF AppIInv
<1>1. AppTypes'
    BY <1>0 DEF AppIInv, AppTypes, MainPlaces, OwnerPlaces, ThreadPlaces, Steps, InAppOrder,
         FinalWrite, JoinedThreadIsGone, CallOfMain
<1>2. CallOfMain'
    BY <1>0 DEF AppIInv, CallOfMain, JoinedThreadIsGone
<1>3. JoinedThreadIsGone'
    BY <1>0 DEF AppIInv, JoinedThreadIsGone, CallOfMain, AppTypes, FinalWrite
<1>4. SuccessIsFinal'
    BY <1>0 DEF AppIInv, SuccessIsFinal, FinalWrite
<1>5. FinalWrite'
    BY <1>0 DEF AppIInv, FinalWrite, FinalCheckpointComplete, JoinedThreadIsGone, AppTypes,
         InAppOrder, CallOfMain
<1>6. InAppOrder'
    BY <1>0 DEF AppIInv, InAppOrder, JoinedThreadIsGone, AppTypes, FinalWrite
<1>7. CountsGrow'
    BY <1>0 DEF AppIInv, CountsGrow, AppTypes, InAppOrder, JoinedThreadIsGone, FinalWrite
<1> QED
    BY <1>1, <1>2, <1>3, <1>4, <1>5, <1>6, <1>7 DEF AppIInv

\* The thread writes what it has taken.
LEMMA WriteKeepsAppIInv ==
    ASSUME AppIInv, InProcess(WriteSnapshot)
    PROVE  AppIInv'
<1> USE WriterThread, FileAssumption, AppAssumption
        DEF InProcess, WriteSnapshot, OpenTemporary, FillTemporary, RenameTemporary, FailWrite,
            NoSnapshot, mainVars, processVars, sessionVars,
            writerVars, flags, fileVars
<1>0. AppTypes
    BY DEF AppIInv
<1>1. AppTypes'
    <2>1. /\ taken \in 1..Len(snapshots)
          /\ step["writer"] = "rename" => temporary = taken
        BY <1>0 DEF AppIInv, InAppOrder, AppTypes
    <2>2. step' \in [Writers -> Steps] /\ wrote' \in [Writers -> BOOLEAN]
        BY <1>0 DEF AppTypes, Steps
    <2>3. file' \in (1..Len(snapshots)) \cup {Absent}
        BY <1>0, <2>1 DEF AppTypes
    <2>4. thread' \in ThreadPlaces
        BY DEF ThreadPlaces
    <2> QED
        BY <1>0, <2>2, <2>3, <2>4 DEF AppTypes
<1>2. CallOfMain'
    BY <1>0 DEF AppIInv, CallOfMain, JoinedThreadIsGone
<1>3. JoinedThreadIsGone'
    BY <1>0 DEF AppIInv, JoinedThreadIsGone, CallOfMain, AppTypes, FinalWrite
<1>4. SuccessIsFinal'
    BY <1>0 DEF AppIInv, SuccessIsFinal, FinalWrite
<1>5. FinalWrite'
    <2>1. main \notin {"writingFinal", "off"} /\ ~finalImageWritten
        BY <1>0 DEF AppIInv, JoinedThreadIsGone, CallOfMain, AppTypes, OwnerPlaces
    <2> QED
        BY <2>1 DEF AppIInv, FinalWrite, FinalCheckpointComplete
<1>6. InAppOrder'
    BY <1>0 DEF AppIInv, InAppOrder, JoinedThreadIsGone, AppTypes, FinalWrite
<1>7. CountsGrow'
    BY <1>0 DEF AppIInv, CountsGrow, AppTypes, InAppOrder, JoinedThreadIsGone, FinalWrite
<1> QED
    BY <1>1, <1>2, <1>3, <1>4, <1>5, <1>6, <1>7 DEF AppIInv

\* The sessions and the clock.
LEMMA SessionKeepsAppIInv ==
    ASSUME AppIInv, IntervalElapses \/ SessionMerges \/ SessionEnds \/ UNCHANGED appVars
    PROVE  AppIInv'
<1> USE WriterThread, FileAssumption, AppAssumption
        DEF IntervalElapses, SessionMerges, SessionEnds, appVars, NoSnapshot, mainVars,
            processVars, sessionVars,
            writerVars, flags, fileVars
<1>0. AppTypes
    BY DEF AppIInv
<1>1. AppTypes'
    BY <1>0 DEF AppIInv, AppTypes, MainPlaces, OwnerPlaces, ThreadPlaces, Steps, InAppOrder,
         FinalWrite, JoinedThreadIsGone, CallOfMain
<1>2. CallOfMain'
    BY <1>0 DEF AppIInv, CallOfMain, JoinedThreadIsGone
<1>3. JoinedThreadIsGone'
    BY <1>0 DEF AppIInv, JoinedThreadIsGone, CallOfMain, AppTypes, FinalWrite
<1>4. SuccessIsFinal'
    BY <1>0 DEF AppIInv, SuccessIsFinal, FinalWrite
<1>5. FinalWrite'
    BY <1>0 DEF AppIInv, FinalWrite, FinalCheckpointComplete, JoinedThreadIsGone, AppTypes,
         InAppOrder, CallOfMain
<1>6. InAppOrder'
    BY <1>0 DEF AppIInv, InAppOrder, JoinedThreadIsGone, AppTypes, FinalWrite
<1>7. CountsGrow'
    <2>1. completed <= completed' /\ UNCHANGED <<snapshots, inherited, resumed, file>>
        BY <1>0 DEF AppTypes
    <2>2. \A i \in 1..Len(snapshots) : snapshots[i] \in Nat
        BY <1>0, ElementOfSeq DEF AppTypes
    <2>3. /\ completed \in Nat /\ completed' \in Nat
          /\ inherited \in Nat /\ Len(snapshots) \in Nat
          /\ file # Absent => file \in 1..Len(snapshots)
        BY <1>0, <1>1 DEF AppTypes
    <2>4. \A i \in 1..Len(snapshots) : snapshots[i] <= completed => snapshots[i] <= completed'
        BY <2>1, <2>2, <2>3
    <2>5. CountsGrow
        BY DEF AppIInv
    <2> HIDE DEF IntervalElapses, SessionMerges, SessionEnds
    <2>6. \A i \in inherited + 1 .. Len(snapshots) : i \in 1..Len(snapshots)
        BY <2>3
    <2> QED
        BY <2>1, <2>3, <2>4, <2>5, <2>6 DEF CountsGrow
<1> QED
    BY <1>1, <1>2, <1>3, <1>4, <1>5, <1>6, <1>7 DEF AppIInv

LEMMA AppInitGivesAppIInv == AppInit => AppIInv
<1> USE WriterThread, FileAssumption, AppAssumption
        DEF AppInit, FileInit, WriterInit, NoSnapshot
<1> SUFFICES ASSUME AppInit PROVE AppIInv
    OBVIOUS
<1>1. AppTypes
    BY DEF AppTypes, MainPlaces, OwnerPlaces, ThreadPlaces, Steps
<1>2. CallOfMain /\ JoinedThreadIsGone /\ SuccessIsFinal
    BY DEF CallOfMain, JoinedThreadIsGone, SuccessIsFinal
<1>3. FinalWrite
    BY DEF FinalWrite, FinalCheckpointComplete
<1>4. InAppOrder /\ CountsGrow
    BY DEF InAppOrder, CountsGrow
<1> QED
    BY <1>1, <1>2, <1>3, <1>4 DEF AppIInv

LEMMA AppNextKeepsAppIInv == AppIInv /\ [AppNext]_appVars => AppIInv'
<1> SUFFICES ASSUME AppIInv, [AppNext]_appVars PROVE AppIInv'
    OBVIOUS
<1>1. CASE MainStep
    BY <1>1, LoopKeepsAppIInv, QueueKeepsAppIInv, CallKeepsAppIInv, BeginFinalKeepsAppIInv,
       FinalKeepsAppIInv, AcceptKeepsAppIInv, EndKeepsAppIInv DEF MainStep
<1>2. CASE InProcess(OwnerStep)
    BY <1>2, OwnerKeepsAppIInv
<1>3. CASE InProcess(ThreadStep) \/ InProcess(SpuriousWakeup)
    <2>1. \/ InProcess(TakePending) \/ InProcess(WriteSnapshot)
          \/ InProcess(FallAsleep \/ Leave \/ Report \/ ReportNotifies \/ Exit \/ SpuriousWakeup)
        BY <1>3 DEF InProcess, ThreadStep
    <2> QED
        BY <2>1, TakeKeepsAppIInv, WriteKeepsAppIInv, WaitKeepsAppIInv
<1>4. CASE StartProcess \/ Crash
    BY <1>4, StartProcessKeepsAppIInv, EndKeepsAppIInv
<1>5. CASE IntervalElapses \/ SessionMerges \/ SessionEnds \/ UNCHANGED appVars
    BY <1>5, SessionKeepsAppIInv
<1> QED
    BY <1>1, <1>2, <1>3, <1>4, <1>5 DEF AppNext
-----------------------------------------------------------------------------
(* The theorems.                                                           *)

\* The invariant holds through every restart.
THEOREM AppInvariant == AppSpec => []AppIInv
<1> QED
    BY AppInitGivesAppIInv, AppNextKeepsAppIInv, PTL DEF AppSpec

\* With the final image goes the checkpoint of the complete job, and no snapshot
\* that was still under way replaces it.
THEOREM FinalCheckpointStays == AppSpec => []FinalCheckpointComplete
<1>1. AppIInv => FinalCheckpointComplete
    BY DEF AppIInv, FinalWrite
<1> QED
    BY <1>1, AppInvariant, PTL

\* The writer's thread never outlives the locals of runDistributedCoordinator, and
\* after a success no session does.
THEOREM ReturnIsClean == AppSpec => []CleanReturn
<1>1. AppIInv => CleanReturn
    <2> SUFFICES ASSUME AppIInv, main = "destroyed"
                 PROVE  /\ thread = "exited"
                        /\ exitCode = 0 => activeSessions = 0 /\ finalImageWritten
        BY DEF CleanReturn
    <2>1. owner = "ready"
        BY DEF AppIInv, CallOfMain, AppTypes, OwnerPlaces
    <2> QED
        BY <2>1 DEF AppIInv, JoinedThreadIsGone, SuccessIsFinal
<1> QED
    BY <1>1, AppInvariant, PTL

\* Only a rename changes the checkpoint, and what it brings is the snapshot the
\* writer's thread has taken or the final one.
LEMMA WhatReplacesFile ==
    ASSUME AppIInv, [AppNext]_appVars, file' # file
    PROVE  /\ snapshots' = snapshots
           /\ \/ thread = "writing" /\ ~finalImageWritten /\ file' = taken
              \/ main = "writingFinal" /\ file' = Len(snapshots)
<1> USE DEF mainVars, processVars, sessionVars, writerVars, flags, fileVars
<1>1. CASE MainStep
    <2>1. CASE WriteFinal
        BY <2>1 DEF WriteFinal, At, OpenTemporary, FillTemporary, RenameTemporary, FailWrite,
           AppIInv, FinalWrite
    <2>2. CASE \/ StopForFailedWriter \/ WriterWorks \/ QueueSnapshot \/ NothingDue
              \/ SnapshotQueued \/ NotDone
        BY <2>2 DEF StopForFailedWriter, WriterWorks, QueueSnapshot, NothingDue, SnapshotQueued,
             NotDone, Enqueue
    <2>3. CASE FinishJob \/ Flushed \/ BeginFinalWrite \/ ReturnOrSleep \/ Accept
        BY <2>3 DEF FinishJob, Flushed, BeginFinalWrite, ReturnOrSleep, Accept, Flush, Shutdown,
           BeginWrite
    <2>4. CASE DestroyWriter \/ DestroyLocals \/ ExitProcess
        BY <2>4 DEF DestroyWriter, DestroyLocals, ExitProcess, Shutdown
    <2> QED
        BY <1>1, <2>1, <2>2, <2>3, <2>4 DEF MainStep
<1>2. CASE InProcess(OwnerStep)
    BY <1>2 DEF InProcess, OwnerStep, FinishConstruction, EnqueueNotifies, FlushTests,
       ShutdownNotifies, Join
<1>3. CASE InProcess(ThreadStep)
    <2>1. CASE InProcess(WriteSnapshot)
        BY <2>1 DEF InProcess, WriteSnapshot, OpenTemporary, FillTemporary, RenameTemporary,
             FailWrite,
           AppIInv, InAppOrder, JoinedThreadIsGone
    <2>2. CASE TakePending \/ FallAsleep \/ Leave \/ Report \/ ReportNotifies \/ Exit
        BY <2>2 DEF TakePending, FallAsleep, Leave, Report, ReportNotifies, Exit, BeginWrite
    <2> QED
        BY <1>3, <2>1, <2>2 DEF InProcess, ThreadStep
<1>4. CASE \/ StartProcess \/ Crash \/ InProcess(SpuriousWakeup)
           \/ IntervalElapses \/ SessionMerges \/ SessionEnds \/ UNCHANGED appVars
    BY <1>4 DEF StartProcess, Crash, InProcess, SpuriousWakeup, IntervalElapses, SessionMerges,
       SessionEnds, appVars
<1> QED
    BY <1>1, <1>2, <1>3, <1>4 DEF AppNext

LEMMA StepKeepsProgress ==
    ASSUME AppIInv, [AppNext]_appVars, file' # file, file # Absent,
           resumed \/ file > inherited
    PROVE  snapshots'[file'] >= snapshots[file]
<1>1. /\ AppTypes /\ file \in 1..Len(snapshots) /\ inherited \in 0..Len(snapshots)
      /\ \A i \in 1..Len(snapshots) : snapshots[i] \in 0..NumTasks
    <2>1. snapshots \in Seq(0..NumTasks)
        BY DEF AppIInv, AppTypes
    <2>2. \A i \in 1..Len(snapshots) : snapshots[i] \in 0..NumTasks
        BY <2>1, ElementOfSeq
    <2> QED
        BY <2>2 DEF AppIInv, AppTypes
<1>2. CASE thread = "writing" /\ ~finalImageWritten /\ file' = taken
    <2>1. taken \in inherited + 1 .. Len(snapshots) /\ (file <= inherited \/ file <= taken)
        BY <1>1, <1>2 DEF AppIInv, AppTypes, InAppOrder, NoSnapshot
    <2>2. CASE file > inherited
        <3>1. file \in inherited + 1 .. Len(snapshots) /\ taken \in file .. Len(snapshots)
            BY <1>1, <2>1, <2>2
        <3>2. snapshots[file] <= snapshots[taken]
            BY <3>1 DEF AppIInv, CountsGrow
        <3> QED
            BY <1>1, <1>2, <2>1, <3>2, WhatReplacesFile
    <2>3. CASE resumed /\ file <= inherited
        <3>1. snapshots[file] <= snapshots[taken]
            BY <2>1, <2>3 DEF AppIInv, CountsGrow
        <3> QED
            BY <1>1, <1>2, <2>1, <3>1, WhatReplacesFile
    <2> QED
        BY <1>1, <2>2, <2>3
<1>3. CASE main = "writingFinal" /\ file' = Len(snapshots)
    <2>1. snapshots[Len(snapshots)] = NumTasks
        BY <1>3 DEF AppIInv, FinalWrite
    <2> QED
        BY <1>1, <1>3, <2>1, AppAssumption, WhatReplacesFile
<1> QED
    BY <1>2, <1>3, WhatReplacesFile

\* A process does not lose merged tasks it resumed from or has saved itself.
THEOREM ProgressIsKept == AppSpec => CheckpointKeepsProgress
<1> DEFINE Keeps ==
      file' # file /\ file # Absent /\ (resumed \/ file > inherited)
         => snapshots'[file'] >= snapshots[file]
<1>1. AppIInv /\ [AppNext]_appVars => [Keeps]_appVars
    BY StepKeepsProgress
<1>2. AppSpec => [][Keeps]_appVars
    BY <1>1, AppInvariant, PTL DEF AppSpec
<1> QED
    BY <1>2 DEF CheckpointKeepsProgress
=============================================================================
