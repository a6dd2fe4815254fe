----------------------------- MODULE Coordinator ----------------------------
(***************************************************************************)
(* DistributedCoordinator (include/distributed/coordinator.hpp): the table *)
(* of render tasks, the queue of pending ones, the leases workers hold and *)
(* the framebuffer results are merged into. Every public operation takes   *)
(* mutex_ for its whole body, so each is one action here; what happens     *)
(* between two operations of a caller is left to the modules that compose  *)
(* this one. The object's life in coordinator_app.cpp (constructed,        *)
(* restored or not, serving, gone) is `phase`.                             *)
(*                                                                         *)
(* Data: accumulatedRadiance_ is abstracted to how often each task's       *)
(* radiance has been added to it, and the pixels of one tile, which every  *)
(* operation treats alike, share one sample count.                         *)
(***************************************************************************)
EXTENDS Naturals, SequencesExt

CONSTANTS
    NumTasks,           \* tasks_.size(); task i here is tasks_[i - 1]
    Tiles,              \* the tiles of the image
    TileOf,             \* task.tile
    SampleStart,        \* task.id.sampleStart
    SampleCount,        \* task.id.sampleCount
    SamplesPerPixel,    \* job_.samplesPerPixel
    MaxSampleCount,     \* numeric_limits<uint32_t>::max()
    Workers,            \* the worker IDs in use
    NoWorker,           \* a cleared workerId
    NoCheckpoint,       \* the checkpoint file does not exist
    LeaseDuration,      \* leaseDurationMs
    ClockLag,           \* how old a caller's nowMs may be when it gets mutex_
    MaxTime             \* bound on the clock

Tasks == 1..NumTasks

\* The sample indices a task renders of every pixel of its tile.
SampleRange(t) == SampleStart[t] .. (SampleStart[t] + SampleCount[t] - 1)

ASSUME SizesAssumption ==
    /\ NumTasks \in Nat
    /\ LeaseDuration \in Nat
    /\ ClockLag \in Nat
    /\ MaxTime \in Nat
    /\ MaxSampleCount \in Nat
    /\ SamplesPerPixel \in 0..MaxSampleCount
    /\ NoWorker \notin Workers

\* What createRenderTasks makes of a job: every task renders a stretch of the
\* samples of its tile, and no two tasks render the same sample of a tile.
ASSUME PlanAssumption ==
    /\ TileOf \in [Tasks -> Tiles]
    /\ SampleStart \in [Tasks -> Nat]
    /\ SampleCount \in [Tasks -> Nat]
    /\ \A t \in Tasks : SampleStart[t] + SampleCount[t] <= SamplesPerPixel
    /\ \A t, u \in Tasks :
          t # u /\ TileOf[t] = TileOf[u] => SampleRange(t) \cap SampleRange(u) = {}

\* What a checkpoint file holds for this job.
Checkpoints ==
    [completedTasks : SUBSET Tasks,
     radiance : [Tasks -> Nat],
     sampleCounts : [Tiles -> Nat]]

ASSUME NoCheckpointAssumption == NoCheckpoint \notin Checkpoints

VARIABLES
    phase,              \* "constructed", "serving" or "exited"
    state,              \* tasks_[i].state
    leasedTo,           \* tasks_[i].workerId
    expiresAt,          \* tasks_[i].expiresAtMs
    pendingTasks,       \* pendingTasks_
    completedTaskCount, \* completedTaskCount_
    radiance,           \* accumulatedRadiance_: how often each task is in it
    sampleCounts,       \* sampleCounts_, per tile
    checkpoint,         \* the last snapshot that reached the disk
    now                 \* the clock, in units of milliseconds

recordVars == <<state, leasedTo, expiresAt>>
bufferVars == <<radiance, sampleCounts>>
memoryVars == <<recordVars, pendingTasks, completedTaskCount, bufferVars>>
vars == <<phase, memoryVars, checkpoint, now>>

TaskStates == {"pending", "leased", "completed"}
Statuses == {"Accepted", "Duplicate", "Rejected"}

\* A decoded result: for this job or not, its task ID one of the job's or not,
\* its tile, sample count and radiance size as the task wants them or not.
NoTask == 0
Results == [jobMatches : BOOLEAN, task : Tasks \cup {NoTask}, wellFormed : BOOLEAN]

TasksIn(s) == {t \in Tasks : state[t] = s}
LeasedBy(w) == {t \in TasksIn("leased") : leasedTo[t] = w}

\* The indices of S in the order a loop over tasks_ meets them.
IndexOrder(S) ==
    {q \in [1..Cardinality(S) -> S] :
        /\ Range(q) = S
        /\ \A i, j \in DOMAIN q : i < j => q[i] < q[j]}

\* The times a caller that has just got the mutex may have read.
ClockReadings == {t \in 0..now : now <= t + ClockLag}
-----------------------------------------------------------------------------
(* Faults. Each is an operation below with one plausible mistake in it; the *)
(* manifest pairs it with the property that must notice.                    *)

\* The overflow test is off by one.
HasRoom_Strict(t) == sampleCounts[TileOf[t]] + SampleCount[t] < MaxSampleCount

\* commitResult does not test for a completed record.
CommitStatus_NoDuplicate(r) ==
    IF \/ ~r.jobMatches
       \/ r.task = NoTask
       \/ ~r.wellFormed
       \/ sampleCounts[TileOf[r.task]] + SampleCount[r.task] > MaxSampleCount
    THEN "Rejected" ELSE "Accepted"

\* A result is taken only from a worker that still has the lease.
CommitStatus_NeedsLease(r) ==
    IF ~r.jobMatches \/ r.task = NoTask THEN "Rejected"
    ELSE IF state[r.task] = "completed" THEN "Duplicate"
    ELSE IF state[r.task] # "leased" \/ ~r.wellFormed
              \/ sampleCounts[TileOf[r.task]] + SampleCount[r.task] > MaxSampleCount
         THEN "Rejected"
    ELSE "Accepted"

\* A requeued task whose late result arrives stays in the queue.
AcceptResult_StaysQueued(t) ==
    /\ radiance' = [radiance EXCEPT ![t] = @ + 1]
    /\ sampleCounts' = [sampleCounts EXCEPT ![TileOf[t]] = @ + SampleCount[t]]
    /\ state' = [state EXCEPT ![t] = "completed"]
    /\ leasedTo' = [leasedTo EXCEPT ![t] = NoWorker]
    /\ expiresAt' = [expiresAt EXCEPT ![t] = 0]
    /\ completedTaskCount' = completedTaskCount + 1
    /\ UNCHANGED pendingTasks

\* Requeued tasks go to the front of the queue.
Requeue_ToFront(S) ==
    /\ state' = [t \in Tasks |-> IF t \in S THEN "pending" ELSE state[t]]
    /\ leasedTo' = [t \in Tasks |-> IF t \in S THEN NoWorker ELSE leasedTo[t]]
    /\ expiresAt' = [t \in Tasks |-> IF t \in S THEN 0 ELSE expiresAt[t]]
    /\ \E q \in IndexOrder(S) : pendingTasks' = q \o pendingTasks
    /\ UNCHANGED <<phase, completedTaskCount, bufferVars, checkpoint, now>>

\* The bitmap of a snapshot marks every task that is not pending.
SnapshotOf_LeasedToo ==
    [completedTasks |-> Tasks \ TasksIn("pending"),
     radiance |-> radiance,
     sampleCounts |-> sampleCounts]

\* A result is merged but its record is left as it was when it had been requeued.
AcceptResult_LateIgnored(t) ==
    /\ radiance' = [radiance EXCEPT ![t] = @ + 1]
    /\ sampleCounts' = [sampleCounts EXCEPT ![TileOf[t]] = @ + SampleCount[t]]
    /\ IF state[t] = "pending"
       THEN UNCHANGED <<recordVars, pendingTasks, completedTaskCount>>
       ELSE /\ state' = [state EXCEPT ![t] = "completed"]
            /\ leasedTo' = [leasedTo EXCEPT ![t] = NoWorker]
            /\ expiresAt' = [expiresAt EXCEPT ![t] = 0]
            /\ completedTaskCount' = completedTaskCount + 1
            /\ UNCHANGED pendingTasks
-----------------------------------------------------------------------------
(* Operations.                                                             *)

\* rebuildPendingQueue: with `done` completed, everything else is pending.
RebuildPendingQueue(done) ==
    /\ state' = [t \in Tasks |-> IF t \in done THEN "completed" ELSE "pending"]
    /\ leasedTo' = [t \in Tasks |-> IF t \in done THEN leasedTo[t] ELSE NoWorker]
    /\ expiresAt' = [t \in Tasks |-> IF t \in done THEN expiresAt[t] ELSE 0]
    /\ pendingTasks' \in IndexOrder(Tasks \ done)
    /\ completedTaskCount' = Cardinality(done)

\* The front task goes to worker w until nowMs + leaseDurationMs.
LeaseNext(w, nowMs) ==
    /\ pendingTasks # <<>>
    /\ LET t == Head(pendingTasks) IN
          /\ pendingTasks' = Tail(pendingTasks)
          /\ state' = [state EXCEPT ![t] = "leased"]
          /\ leasedTo' = [leasedTo EXCEPT ![t] = w]
          /\ expiresAt' = [expiresAt EXCEPT ![t] = nowMs + LeaseDuration]
    /\ UNCHANGED <<phase, completedTaskCount, bufferVars, checkpoint, now>>

\* Room for the task's samples in every pixel of its tile.
HasRoom(t) == sampleCounts[TileOf[t]] + SampleCount[t] <= MaxSampleCount

\* What commitResult answers: the completed test comes before the shape's.
CommitStatus(r) ==
    IF ~r.jobMatches \/ r.task = NoTask THEN "Rejected"
    ELSE IF state[r.task] = "completed" THEN "Duplicate"
    ELSE IF ~r.wellFormed \/ ~HasRoom(r.task) THEN "Rejected"
    ELSE "Accepted"

\* The result is merged whoever sent it and whoever holds the lease.
AcceptResult(t) ==
    /\ radiance' = [radiance EXCEPT ![t] = @ + 1]
    /\ sampleCounts' = [sampleCounts EXCEPT ![TileOf[t]] = @ + SampleCount[t]]
    /\ pendingTasks' = IF state[t] = "pending" THEN RemoveFirst(pendingTasks, t)
                                               ELSE pendingTasks
    /\ state' = [state EXCEPT ![t] = "completed"]
    /\ leasedTo' = [leasedTo EXCEPT ![t] = NoWorker]
    /\ expiresAt' = [expiresAt EXCEPT ![t] = 0]
    /\ completedTaskCount' = completedTaskCount + 1

CommitResult(r) ==
    /\ IF CommitStatus(r) = "Accepted" THEN AcceptResult(r.task)
                                       ELSE UNCHANGED memoryVars
    /\ UNCHANGED <<phase, checkpoint, now>>

RenewWorkerLeases(w, nowMs) ==
    /\ expiresAt' = [t \in Tasks |-> IF t \in LeasedBy(w) THEN nowMs + LeaseDuration
                                                          ELSE expiresAt[t]]
    /\ UNCHANGED <<phase, state, leasedTo, pendingTasks, completedTaskCount,
                   bufferVars, checkpoint, now>>

\* The leases of S end: its tasks go to the back of the queue in index order.
Requeue(S) ==
    /\ state' = [t \in Tasks |-> IF t \in S THEN "pending" ELSE state[t]]
    /\ leasedTo' = [t \in Tasks |-> IF t \in S THEN NoWorker ELSE leasedTo[t]]
    /\ expiresAt' = [t \in Tasks |-> IF t \in S THEN 0 ELSE expiresAt[t]]
    /\ \E q \in IndexOrder(S) : pendingTasks' = pendingTasks \o q
    /\ UNCHANGED <<phase, completedTaskCount, bufferVars, checkpoint, now>>

Expired(nowMs) == {t \in TasksIn("leased") : expiresAt[t] <= nowMs}

ReleaseWorkerLeases(w) == Requeue(LeasedBy(w))

RequeueExpired(nowMs) == Requeue(Expired(nowMs))

\* snapshot: one consistent copy, since results are merged under the mutex too.
SnapshotOf ==
    [completedTasks |-> TasksIn("completed"),
     radiance |-> radiance,
     sampleCounts |-> sampleCounts]

complete == completedTaskCount = NumTasks
-----------------------------------------------------------------------------
(* The object's life.                                                      *)

EmptyRadiance == [t \in Tasks |-> 0]
EmptyCounts == [tile \in Tiles |-> 0]

Init ==
    /\ phase = "constructed"
    /\ state = [t \in Tasks |-> "pending"]
    /\ leasedTo = [t \in Tasks |-> NoWorker]
    /\ expiresAt = [t \in Tasks |-> 0]
    /\ pendingTasks = [t \in Tasks |-> t]
    /\ completedTaskCount = 0
    /\ radiance = EmptyRadiance
    /\ sampleCounts = EmptyCounts
    /\ checkpoint = NoCheckpoint
    /\ now = 0

\* A new process constructs a new coordinator for the same job.
Construct ==
    /\ phase = "exited"
    /\ phase' = "constructed"
    /\ state' = [t \in Tasks |-> "pending"]
    /\ leasedTo' = [t \in Tasks |-> NoWorker]
    /\ expiresAt' = [t \in Tasks |-> 0]
    /\ pendingTasks' = [t \in Tasks |-> t]
    /\ completedTaskCount' = 0
    /\ radiance' = EmptyRadiance
    /\ sampleCounts' = EmptyCounts
    /\ UNCHANGED <<checkpoint, now>>

\* Without --resume the coordinator starts to serve as constructed.
Start ==
    /\ phase = "constructed"
    /\ phase' = "serving"
    /\ UNCHANGED <<memoryVars, checkpoint, now>>

\* Fault: restore leaves the sample counts as constructed.
Restore_NoCounts ==
    /\ phase = "constructed"
    /\ checkpoint # NoCheckpoint
    /\ phase' = "serving"
    /\ radiance' = checkpoint.radiance
    /\ RebuildPendingQueue(checkpoint.completedTasks)
    /\ UNCHANGED <<sampleCounts, checkpoint, now>>

\* restore: the buffers and the bitmap are taken over, leases are not.
Restore ==
    /\ phase = "constructed"
    /\ checkpoint # NoCheckpoint
    /\ phase' = "serving"
    /\ radiance' = checkpoint.radiance
    /\ sampleCounts' = checkpoint.sampleCounts
    /\ RebuildPendingQueue(checkpoint.completedTasks)
    /\ UNCHANGED <<checkpoint, now>>

\* restore fails and the process ends: for another job or of another size
\* nothing is touched; an invalid bitmap is found after the buffers are copied.
RestoreRejected ==
    /\ phase = "constructed"
    /\ checkpoint # NoCheckpoint
    /\ phase' = "exited"
    /\ \/ UNCHANGED bufferVars
       \/ /\ radiance' = checkpoint.radiance
          /\ sampleCounts' = checkpoint.sampleCounts
    /\ UNCHANGED <<recordVars, pendingTasks, completedTaskCount, checkpoint, now>>

\* The process ends, whatever it was doing.
Crash ==
    /\ phase # "exited"
    /\ phase' = "exited"
    /\ UNCHANGED <<memoryVars, checkpoint, now>>

\* A snapshot reaches the disk.
SaveSnapshot ==
    /\ phase = "serving"
    /\ checkpoint' = SnapshotOf
    /\ UNCHANGED <<phase, memoryVars, now>>

Tick ==
    /\ now < MaxTime
    /\ now' = now + 1
    /\ UNCHANGED <<phase, memoryVars, checkpoint>>

\* What the sessions may call, in any order and with any worker's ID.
Serve ==
    /\ phase = "serving"
    /\ \/ \E w \in Workers, nowMs \in ClockReadings : LeaseNext(w, nowMs)
       \/ \E r \in Results : CommitResult(r)
       \/ \E w \in Workers, nowMs \in ClockReadings : RenewWorkerLeases(w, nowMs)
       \/ \E w \in Workers : ReleaseWorkerLeases(w)
       \/ \E nowMs \in ClockReadings : RequeueExpired(nowMs)

Next ==
    \/ Construct
    \/ Start
    \/ Restore
    \/ RestoreRejected
    \/ Crash
    \/ SaveSnapshot
    \/ Tick
    \/ Serve

Spec == Init /\ [][Next]_vars
-----------------------------------------------------------------------------
(* Properties.                                                             *)

\* Every variable has its type; the queue and the counts stay within the job.
TypeOK ==
    /\ phase \in {"constructed", "serving", "exited"}
    /\ state \in [Tasks -> TaskStates]
    /\ leasedTo \in [Tasks -> Workers \cup {NoWorker}]
    /\ expiresAt \in [Tasks -> Nat]
    /\ pendingTasks \in Seq(Tasks)
    /\ completedTaskCount \in 0..NumTasks
    /\ radiance \in [Tasks -> Nat]
    /\ sampleCounts \in [Tiles -> 0..MaxSampleCount]
    /\ checkpoint \in Checkpoints \cup {NoCheckpoint}
    /\ now \in Nat

Running == phase # "exited"

\* A task is in the framebuffer once if it is completed and not at all if it is
\* not, whatever leases expired, results were retried and processes restarted
\* (ARCHITECTURE.md: "retrying a timed-out task cannot double-count").
ExactlyOnce ==
    Running => \A t \in Tasks : radiance[t] = IF state[t] = "completed" THEN 1 ELSE 0

\* The samples of a tile that a set of completed tasks has rendered.
SamplesOfTile(tile, done) == UNION {SampleRange(t) : t \in {u \in done : TileOf[u] = tile}}

\* sampleCounts_, by which the final image is divided, counts the distinct
\* sample indices whose radiance the framebuffer holds.
SampleCountsExact ==
    Running => \A tile \in Tiles :
        sampleCounts[tile] = Cardinality(SamplesOfTile(tile, TasksIn("completed")))

\* The queue holds the pending tasks and nothing else, each of them once.
PendingQueueExact ==
    /\ Range(pendingTasks) = TasksIn("pending")
    /\ \A i, j \in DOMAIN pendingTasks : i # j => pendingTasks[i] # pendingTasks[j]

\* complete() compares a counter with the table's size.
CompletedCountExact == completedTaskCount = Cardinality(TasksIn("completed"))

\* Exactly the leased records name a worker.
LeasesHaveHolders == \A t \in Tasks : state[t] = "leased" <=> leasedTo[t] \in Workers

\* The queue, the counter and the worker IDs, which are kept beside the records
\* and updated by every operation on its own, agree with them: no task is lost
\* between a lease and its return, none is handed out twice, and the job ends
\* when the last task is merged and not before.
BookkeepingExact ==
    Running => PendingQueueExact /\ CompletedCountExact /\ LeasesHaveHolders

\* A well-formed result of an unfinished task is never refused for lack of room
\* in the 32-bit sample counts, so no task is unfinishable.
NoSpuriousReject == Running => \A t \in Tasks : state[t] # "completed" => HasRoom(t)

\* The checkpoint on disk is a ledger of its own: radiance, sample counts and
\* bitmap describe the same set of merged tasks.
CheckpointConsistent ==
    checkpoint # NoCheckpoint =>
        /\ \A t \in Tasks :
              checkpoint.radiance[t] = IF t \in checkpoint.completedTasks THEN 1 ELSE 0
        /\ \A tile \in Tiles :
              checkpoint.sampleCounts[tile] =
                  Cardinality(SamplesOfTile(tile, checkpoint.completedTasks))

\* Nothing is completed or leased before the coordinator starts to serve.
FreshTable == phase = "constructed" => TasksIn("pending") = Tasks

\* The inductive invariant: what holds of the memory of a running process, what
\* a checkpoint that restore may read promises, and the table restore finds.
IInv ==
    /\ TypeOK
    /\ ExactlyOnce
    /\ SampleCountsExact
    /\ BookkeepingExact
    /\ CheckpointConsistent
    /\ FreshTable

\* A lease is not taken from a worker that keeps it: a task goes from leased to
\* pending only when its lease has run out or its worker loses all its leases.
LeaseHonoured ==
    [][phase = "serving" =>
        \A t \in Tasks :
            state[t] = "leased" /\ state'[t] = "pending" =>
                expiresAt[t] <= now \/ leasedTo[t] \notin {leasedTo'[u] : u \in Tasks}]_vars

\* No starvation in the queue: a task that waits never falls behind; requeued
\* tasks go to the back.
QueuePosition(q, t) == CHOOSE i \in DOMAIN q : q[i] = t

NeverOvertaken ==
    [][phase = "serving" =>
        \A t \in Range(pendingTasks) \cap Range(pendingTasks)' :
            QueuePosition(pendingTasks', t) <= QueuePosition(pendingTasks, t)]_vars

\* The coordinator implements the ledger: the refinement mapping forgets leases
\* and queue and keeps what is merged and what is saved.
Ledger == INSTANCE TaskLedger WITH
    merged <- radiance,
    saved <- IF checkpoint = NoCheckpoint THEN EmptyRadiance ELSE checkpoint.radiance

ImplementsLedger == Ledger!LedgerSpec
=============================================================================
