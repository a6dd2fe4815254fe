------------------------- MODULE DistributedRender ---------------------------
(***************************************************************************)
(* The coordinator's session threads (CoordinatorWorkerSession, worker.cpp)*)
(* and the worker processes they talk to (DistributedWorkerClient, and the *)
(* loop of runDistributedWorker in worker_app.cu), around Coordinator.     *)
(*                                                                         *)
(* One client is one worker process with one connection and one session.   *)
(* A session takes the coordinator's mutex once per operation, so between  *)
(* the expiry scan, the operation a message asks for and the lease of the  *)
(* next task every other session may run: each is a step here. A worker    *)
(* renders on one thread and sends heartbeats from another over the same   *)
(* connection. A connection carries one request at a time; losing it is    *)
(* noticed by either end, at any time or, if the host is gone, never.      *)
(*                                                                         *)
(* Asset transfer, which only reads the catalogue, is not part of this     *)
(* model, nor are the error replies that no client of this program earns.  *)
(***************************************************************************)
EXTENDS Coordinator

CONSTANTS
    Clients,            \* worker processes
    IdOf,               \* --worker-id of each
    Compatible,         \* the clients whose job fingerprint is accepted
    Reliable            \* those that neither crash nor hang

ASSUME ClientsAssumption ==
    /\ IdOf \in [Clients -> Workers]
    /\ Compatible \subseteq Clients
    /\ Reliable \subseteq Clients

\* A session may wait for the mutex as long as it likes after it has read the clock.
ASSUME LagAssumption == MaxTime <= ClockLag

VARIABLES
    client,             \* where the worker's main thread is
    heartbeat,          \* its heartbeat thread: "quiet" or "awaiting" a reply
    task,               \* the task it was assigned last
    request,            \* what it has sent and the session has not answered
    reply,              \* the answer it has not read
    session,            \* where the session's thread is
    registered,         \* registered_
    readAt,             \* the nowMs of the message being handled
    status              \* what commitResult said of the result being handled

clientVars == <<client, heartbeat, task>>
sessionVars == <<session, registered, readAt, status>>
renderVars == <<vars, clientVars, sessionVars, request, reply>>

Gone == {"done", "failed"}
Nothing == "nothing"

\* A reply has the task of an assignment or of an acknowledgment: NoTask if that
\* brings no next one.
NoReply == [kind |-> Nothing]

RenderInit ==
    /\ Init
    /\ client = [c \in Clients |-> "down"]
    /\ heartbeat = [c \in Clients |-> "quiet"]
    /\ task = [c \in Clients |-> NoTask]
    /\ request = [c \in Clients |-> Nothing]
    /\ reply = [c \in Clients |-> NoReply]
    /\ session = [c \in Clients |-> "none"]
    /\ registered = [c \in Clients |-> FALSE]
    /\ readAt = [c \in Clients |-> 0]
    /\ status = [c \in Clients |-> Nothing]
-----------------------------------------------------------------------------
(* Faults.                                                                 *)

\* A lost connection ends the session and leaves its leases to run out.
Disconnect_KeepsLeases(c) ==
    /\ session[c] = "disconnecting"
    /\ session' = [session EXCEPT ![c] = "closed"]
    /\ registered' = [registered EXCEPT ![c] = FALSE]
    /\ UNCHANGED <<vars, clientVars, request, reply, readAt, status>>

\* "No task now" is taken for "no task any more".
JobComplete_NothingPending == pendingTasks = <<>>

\* NoTask is sent as it was constructed.
JobComplete_NeverSaid == FALSE

\* The result is sent while the heartbeat thread may still be waiting.
HeartbeatJoined_NotAwaited(c) == TRUE

\* The scan for expired leases also takes those that are about to run out.
ExpireLeases_Early(c) ==
    /\ session[c] = "expiring"
    /\ RequeueExpired(readAt[c] + 1)
    /\ session' = [session EXCEPT ![c] = "handling"]
    /\ UNCHANGED <<clientVars, request, reply, registered, readAt, status>>

\* The scan for expired leases is left out.
ExpireLeases_Never(c) ==
    /\ session[c] = "expiring"
    /\ session' = [session EXCEPT ![c] = "handling"]
    /\ UNCHANGED <<vars, clientVars, request, reply, registered, readAt, status>>
-----------------------------------------------------------------------------
(* The session's thread.                                                   *)

\* The connection is accepted and the client says hello. The IDs of running
\* workers are unique, as the help of --worker-id asks, but a worker that was
\* restarted has the ID of one whose session may still be open.
Connect(c) ==
    /\ phase = "serving"
    /\ client[c] = "down"
    /\ \A d \in Clients \ {c} : IdOf[d] = IdOf[c] => client[d] \in Gone \cup {"down"}
    /\ client' = [client EXCEPT ![c] = "registering"]
    /\ request' = [request EXCEPT ![c] = "hello"]
    /\ session' = [session EXCEPT ![c] = "receiving"]
    /\ UNCHANGED <<vars, heartbeat, task, reply, registered, readAt, status>>

\* run: a message is received and the clock is read.
Receive(c) ==
    /\ session[c] = "receiving"
    /\ request[c] # Nothing
    /\ session' = [session EXCEPT ![c] = "expiring"]
    /\ readAt' = [readAt EXCEPT ![c] = now]
    /\ UNCHANGED <<vars, clientVars, request, reply, registered, status>>

\* handleMessage begins with requeueExpired, whatever the message is.
ExpireLeases(c) ==
    /\ session[c] = "expiring"
    /\ RequeueExpired(readAt[c])
    /\ session' = [session EXCEPT ![c] = "handling"]
    /\ UNCHANGED <<clientVars, request, reply, registered, readAt, status>>

\* The answer is sent. To a client that is gone the send may fail.
Answer(c, r, keepAlive) ==
    /\ request' = [request EXCEPT ![c] = Nothing]
    /\ readAt' = [readAt EXCEPT ![c] = 0]
    /\ status' = [status EXCEPT ![c] = Nothing]
    /\ reply' = [reply EXCEPT ![c] = IF client[c] \in Gone THEN NoReply ELSE r]
    /\ \/ session' = [session EXCEPT ![c] = IF keepAlive THEN "receiving" ELSE "disconnecting"]
       \/ /\ client[c] \in Gone
          /\ session' = [session EXCEPT ![c] = "disconnecting"]
    /\ UNCHANGED clientVars

Proceed(c, place) ==
    /\ session' = [session EXCEPT ![c] = place]
    /\ UNCHANGED <<clientVars, request, reply, registered, readAt>>

Handling(c, message) == session[c] = "handling" /\ request[c] = message

HandleHello(c) ==
    /\ Handling(c, "hello")
    /\ registered' = [registered EXCEPT ![c] = c \in Compatible]
    /\ Answer(c, [kind |-> IF c \in Compatible THEN "accepted" ELSE "refused"],
              c \in Compatible)
    /\ UNCHANGED vars

\* nextAssignment: the front task is leased to the session's worker.
LeaseFront(c) == LeaseNext(IdOf[c], readAt[c]) /\ UNCHANGED registered

HandleTaskRequest(c) ==
    /\ Handling(c, "taskRequest")
    /\ \/ /\ LeaseFront(c)
          /\ Answer(c, [kind |-> "assignment", task |-> Head(pendingTasks)], TRUE)
       \/ /\ pendingTasks = <<>>
          /\ Proceed(c, "asking")
          /\ UNCHANGED <<vars, status>>

\* What complete() tells a worker there is no task for.
JobComplete == complete

AnswerNoTask(c) ==
    /\ session[c] = "asking"
    /\ Answer(c, [kind |-> "noTask", jobComplete |-> JobComplete], TRUE)
    /\ UNCHANGED <<vars, registered>>

\* The result the client has sent: it is of its task and in good order.
ResultOf(c) == [jobMatches |-> TRUE, task |-> task[c], wellFormed |-> TRUE]

Ack(c, s, next) == [kind |-> "ack", of |-> task[c], status |-> s, task |-> next]

HandleTaskResult(c) ==
    /\ Handling(c, "taskResult")
    /\ CommitResult(ResultOf(c))
    /\ IF CommitStatus(ResultOf(c)) = "Rejected"
       THEN /\ Answer(c, Ack(c, "Rejected", NoTask), TRUE)
            /\ UNCHANGED registered
       ELSE /\ Proceed(c, "checking")
            /\ status' = [status EXCEPT ![c] = CommitStatus(ResultOf(c))]

\* Unless the job is complete by now, the acknowledgment may carry a next task.
CheckComplete(c) ==
    /\ session[c] = "checking"
    /\ IF complete
       THEN Answer(c, Ack(c, status[c], NoTask), TRUE) /\ UNCHANGED registered
       ELSE Proceed(c, "leasing") /\ UNCHANGED status
    /\ UNCHANGED vars

AckWithNextTask(c) ==
    /\ session[c] = "leasing"
    /\ \/ /\ LeaseFront(c)
          /\ Answer(c, Ack(c, status[c], Head(pendingTasks)), TRUE)
       \/ /\ pendingTasks = <<>>
          /\ Answer(c, Ack(c, status[c], NoTask), TRUE)
          /\ UNCHANGED <<vars, registered>>

HandleHeartbeat(c) ==
    /\ Handling(c, "heartbeat")
    /\ RenewWorkerLeases(IdOf[c], readAt[c])
    /\ Answer(c, [kind |-> "heartbeatAck"], TRUE)
    /\ UNCHANGED registered

\* receive fails: the peer closed, or the connection broke and the host noticed.
ReceiveFails(c) ==
    /\ session[c] = "receiving"
    /\ request[c] = Nothing
    /\ client[c] \in Gone
    /\ session' = [session EXCEPT ![c] = "disconnecting"]
    /\ UNCHANGED <<vars, clientVars, request, reply, registered, readAt, status>>

\* disconnect: the leases of the worker's ID are released, whoever holds them.
Disconnect(c) ==
    /\ session[c] = "disconnecting"
    /\ IF registered[c] THEN ReleaseWorkerLeases(IdOf[c]) ELSE UNCHANGED vars
    /\ session' = [session EXCEPT ![c] = "closed"]
    /\ registered' = [registered EXCEPT ![c] = FALSE]
    /\ UNCHANGED <<clientVars, request, reply, readAt, status>>
-----------------------------------------------------------------------------
(* The worker process.                                                     *)

\* A step of the main thread, which leaves the session and the coordinator alone.
Client(c, from, to) ==
    /\ client[c] = from
    /\ client' = [client EXCEPT ![c] = to]
    /\ UNCHANGED <<vars, sessionVars>>

Send(c, message) ==
    /\ request' = [request EXCEPT ![c] = message]
    /\ UNCHANGED reply

\* The answer read from the connection, of the kind its sender expects.
Read(c, kind) ==
    /\ reply[c].kind = kind
    /\ reply' = [reply EXCEPT ![c] = NoReply]
    /\ UNCHANGED request

\* The scene is loaded, then the loop asks for a first task.
Registered(c) ==
    /\ Read(c, "accepted")
    /\ Client(c, "registering", "sleeping")
    /\ UNCHANGED <<heartbeat, task>>

Refused(c) ==
    /\ Read(c, "refused")
    /\ Client(c, "registering", "failed")
    /\ UNCHANGED <<heartbeat, task>>

RequestTask(c) ==
    /\ Client(c, "sleeping", "requesting")
    /\ Send(c, "taskRequest")
    /\ UNCHANGED <<heartbeat, task>>

Assigned(c) ==
    /\ Read(c, "assignment")
    /\ Client(c, "requesting", "rendering")
    /\ task' = [task EXCEPT ![c] = reply[c].task]
    /\ UNCHANGED heartbeat

NoneAssigned(c) ==
    /\ Read(c, "noTask")
    /\ Client(c, "requesting", IF reply[c].jobComplete THEN "done" ELSE "sleeping")
    /\ UNCHANGED <<heartbeat, task>>

\* render returns; the heartbeat thread is told to stop.
Rendered(c) ==
    /\ Client(c, "rendering", "joining")
    /\ UNCHANGED <<heartbeat, task, request, reply>>

\* heartbeatThread.join() returns when the thread is not inside a heartbeat.
HeartbeatJoined(c) == heartbeat[c] # "awaiting"

SubmitResult(c) ==
    /\ Client(c, "joining", "submitting")
    /\ HeartbeatJoined(c)
    /\ Send(c, "taskResult")
    /\ UNCHANGED <<heartbeat, task>>

\* A rejected result ends the worker; an acknowledged one brings the next task,
\* or none, and the worker asks again. Until it has been assigned another the task
\* it has submitted stays in `assignment`.
NextPlace(ack) ==
    IF ack.status = "Rejected" THEN "failed"
    ELSE IF ack.task = NoTask THEN "sleeping" ELSE "rendering"

Acknowledged(c) ==
    /\ Read(c, "ack")
    /\ Client(c, "submitting", NextPlace(reply[c]))
    /\ task' = [task EXCEPT ![c] = IF reply[c].task = NoTask THEN @ ELSE reply[c].task]
    /\ UNCHANGED heartbeat

\* The heartbeat thread, while the main thread renders.
SendHeartbeat(c) ==
    /\ client[c] = "rendering"
    /\ heartbeat[c] = "quiet"
    /\ heartbeat' = [heartbeat EXCEPT ![c] = "awaiting"]
    /\ Send(c, "heartbeat")
    /\ UNCHANGED <<vars, sessionVars, client, task>>

HeartbeatAcknowledged(c) ==
    /\ heartbeat[c] = "awaiting"
    /\ client[c] \notin Gone
    /\ Read(c, "heartbeatAck")
    /\ heartbeat' = [heartbeat EXCEPT ![c] = "quiet"]
    /\ UNCHANGED <<vars, sessionVars, client, task>>

\* The process ends, rendering or its connection fails: what it has sent and
\* nobody has received may or may not arrive. A process that hangs just stops.
Fail(c) ==
    /\ c \notin Reliable
    /\ client[c] \notin Gone \cup {"down"}
    /\ client' = [client EXCEPT ![c] = "failed"]
    /\ heartbeat' = [heartbeat EXCEPT ![c] = "quiet"]
    /\ reply' = [reply EXCEPT ![c] = NoReply]
    /\ \/ UNCHANGED request
       \/ session[c] = "receiving" /\ request' = [request EXCEPT ![c] = Nothing]
    /\ task' = [task EXCEPT ![c] = IF request'[c] = "taskResult" THEN @ ELSE NoTask]
    /\ UNCHANGED <<vars, sessionVars>>
-----------------------------------------------------------------------------
SessionStep(c) ==
    \/ Receive(c)
    \/ ExpireLeases(c)
    \/ HandleHello(c)
    \/ HandleTaskRequest(c)
    \/ AnswerNoTask(c)
    \/ HandleTaskResult(c)
    \/ CheckComplete(c)
    \/ AckWithNextTask(c)
    \/ HandleHeartbeat(c)
    \/ Disconnect(c)

MainThreadStep(c) ==
    \/ Connect(c)
    \/ Registered(c)
    \/ Refused(c)
    \/ RequestTask(c)
    \/ Assigned(c)
    \/ NoneAssigned(c)
    \/ Rendered(c)
    \/ SubmitResult(c)
    \/ Acknowledged(c)

ClientStep(c) == MainThreadStep(c) \/ HeartbeatAcknowledged(c)

othersVars == <<clientVars, sessionVars, request, reply>>

RenderNext ==
    \/ Start /\ UNCHANGED othersVars
    \/ Tick /\ UNCHANGED othersVars
    \/ \E c \in Clients :
          \/ SessionStep(c)
          \/ ReceiveFails(c)
          \/ ClientStep(c)
          \/ SendHeartbeat(c)
          \/ Fail(c)

\* The coordinator's threads run. Of the workers only the reliable ones must go
\* on: their main loop and the heartbeat in flight. No fairness of ReceiveFails:
\* a host may vanish without the other end ever hearing of it.
Fairness ==
    /\ WF_renderVars(Start /\ UNCHANGED othersVars)
    /\ \A c \in Clients : WF_renderVars(SessionStep(c))
    /\ \A c \in Reliable : WF_renderVars(MainThreadStep(c)) /\ WF_renderVars(HeartbeatAcknowledged(c))

RenderSpec == RenderInit /\ [][RenderNext]_renderVars /\ Fairness
-----------------------------------------------------------------------------
(* Properties.                                                             *)

\* No lease outlives its worker's sessions: a task is leased to an ID only while
\* a session is registered with it, so a lost worker's tasks come back at the
\* disconnect and need not wait for the lease to run out.
LeasesAreServed ==
    \A t \in TasksIn("leased") : \E c \in Clients : registered[c] /\ IdOf[c] = leasedTo[t]

\* The replies a client may find: its two threads share the connection, and each
\* takes the next message for the answer to its own.
Awaited(c) ==
    IF heartbeat[c] = "awaiting" THEN {"heartbeatAck"}
    ELSE CASE client[c] = "registering" -> {"accepted", "refused"}
           [] client[c] = "requesting" -> {"assignment", "noTask"}
           [] client[c] = "submitting" -> {"ack"}
           [] OTHER -> {}

RepliesMatchRequests ==
    \A c \in Clients :
        /\ reply[c] # NoReply => reply[c].kind \in Awaited(c)
        /\ client[c] = "submitting" => heartbeat[c] = "quiet"

\* No work of a worker is wasted by refusing it: the result of an assigned task,
\* however late and whoever holds its lease by then, is never rejected (which
\* would end the worker), and once it is acknowledged the task is completed.
AcknowledgedIsMerged ==
    \A c \in Clients :
        reply[c].kind = "ack" => reply[c].status # "Rejected" /\ state[reply[c].of] = "completed"

\* A worker leaves with success only when every task has been merged.
DoneMeansComplete ==
    \A c \in Clients : client[c] = "done" => TasksIn("completed") = Tasks

\* A worker whose ID no other process uses keeps the task it renders until the
\* lease runs out, whatever the other sessions do meanwhile.
KeepsItsTask ==
    [][\A c \in Clients :
        /\ client[c] = "rendering"
        /\ \A d \in Clients \ {c} : IdOf[d] # IdOf[c]
        /\ state[task[c]] = "leased" /\ leasedTo[task[c]] = IdOf[c]
        /\ state'[task[c]] = "pending"
        => expiresAt[task[c]] <= now]_renderVars

\* The inductive invariant behind these: what a client, its two threads and its
\* session can be up to at the same time. A request is on its way to the session,
\* or being handled in one of the places it leads to...
Asks(c, message, places) ==
    /\ request[c] = message
    /\ reply[c] = NoReply
    /\ session[c] \in {"receiving", "expiring", "handling"} \cup places

\* ... or answered, and the session waits for the next; or there is none.
Hears(c, kinds) ==
    /\ request[c] = Nothing
    /\ reply[c].kind \in kinds
    /\ session[c] = "receiving"

Rests(c) ==
    /\ request[c] = Nothing
    /\ reply[c] = NoReply
    /\ session[c] = "receiving"

\* The places a client goes through before it is registered, and after.
Arriving(c) ==
    /\ heartbeat[c] = "quiet"
    /\ \/ /\ client[c] = "down" /\ ~registered[c]
          /\ request[c] = Nothing /\ reply[c] = NoReply /\ session[c] = "none"
       \/ /\ client[c] = "registering" /\ ~registered[c]
          /\ \/ Asks(c, "hello", {})
             \/ /\ request[c] = Nothing /\ reply[c].kind = "refused"
                /\ session[c] \in {"disconnecting", "closed"}
       \/ client[c] = "registering" /\ registered[c] /\ Hears(c, {"accepted"})

Working(c) ==
    /\ registered[c]
    /\ \/ /\ heartbeat[c] = "quiet"
          /\ \/ client[c] \in {"sleeping", "rendering", "joining"} /\ Rests(c)
             \/ /\ client[c] = "requesting"
                /\ Asks(c, "taskRequest", {"asking"}) \/ Hears(c, {"assignment", "noTask"})
             \/ /\ client[c] = "submitting"
                /\ Asks(c, "taskResult", {"checking", "leasing"}) \/ Hears(c, {"ack"})
       \/ /\ heartbeat[c] = "awaiting"
          /\ client[c] \in {"rendering", "joining"}
          /\ Asks(c, "heartbeat", {}) \/ Hears(c, {"heartbeatAck"})

\* A client that is gone leaves its session in the middle of anything.
Left(c) ==
    /\ client[c] \in Gone
    /\ heartbeat[c] = "quiet" /\ reply[c] = NoReply /\ session[c] # "none"
    /\ session[c] = "asking" => request[c] = "taskRequest"
    /\ session[c] \in {"checking", "leasing"} => request[c] = "taskResult"
    /\ \/ session[c] \in {"disconnecting", "closed"}
       \/ request[c] = Nothing
       \/ registered[c] <=> request[c] # "hello"

Conversation(c) == Arriving(c) \/ Working(c) \/ Left(c)

AllMerged == TasksIn("completed") = Tasks

\* What the messages and the session's locals say of the coordinator.
Truthful(c) ==
    /\ client[c] \in {"rendering", "joining", "submitting"} \/ request[c] = "taskResult" =>
          task[c] \in Tasks
    /\ session[c] \in {"checking", "leasing"} =>
          status[c] \in {"Accepted", "Duplicate"} /\ task[c] \in TasksIn("completed")
    /\ reply[c].kind = "ack" =>
          reply[c].status # "Rejected" /\ reply[c].of \in TasksIn("completed")
    /\ reply[c].kind = "noTask" /\ reply[c].jobComplete => AllMerged
    /\ client[c] = "done" => AllMerged

Places ==
    {"down", "registering", "sleeping", "requesting", "rendering", "joining", "submitting"}
        \cup Gone
SessionPlaces ==
    {"none", "receiving", "expiring", "handling", "asking", "checking", "leasing",
     "disconnecting", "closed"}
Messages == {Nothing, "hello", "taskRequest", "taskResult", "heartbeat"}

Replies ==
    [kind : {Nothing, "accepted", "refused", "heartbeatAck"}]
        \cup [kind : {"assignment"}, task : Tasks]
        \cup [kind : {"noTask"}, jobComplete : BOOLEAN]
        \cup [kind : {"ack"}, of : Tasks, status : Statuses, task : Tasks \cup {NoTask}]

RenderTypeOK ==
    /\ client \in [Clients -> Places]
    /\ heartbeat \in [Clients -> {"quiet", "awaiting"}]
    /\ task \in [Clients -> Tasks \cup {NoTask}]
    /\ request \in [Clients -> Messages]
    /\ reply \in [Clients -> Replies]
    /\ session \in [Clients -> SessionPlaces]
    /\ registered \in [Clients -> BOOLEAN]
    /\ readAt \in [Clients -> Nat]
    /\ status \in [Clients -> Statuses \cup {Nothing}]

\* Nobody connects to a coordinator that does not serve, and none is restarted here.
ServesItsSessions ==
    /\ phase \in {"constructed", "serving"}
    /\ \A c \in Clients : session[c] # "none" => phase = "serving"
    /\ \A c \in Clients : readAt[c] <= now
    /\ now <= MaxTime

RenderIInv ==
    /\ IInv
    /\ RenderTypeOK
    /\ ServesItsSessions
    /\ LeasesAreServed
    /\ \A c \in Clients : Conversation(c) /\ Truthful(c)

\* The sessions use the coordinator only through its operations, with clock
\* readings no older than ClockLag, so what is proved of Coordinator holds here.
UsesCoordinator == Spec

\* If one worker neither crashes nor hangs the job is completed, whatever tasks
\* the others take with them, even if every lease runs out before its result.
JobCompletes == <>complete

\* Then every worker that goes on asking is told so and leaves.
WorkersLeave == \A c \in Reliable : client[c] # "down" ~> client[c] \in Gone
=============================================================================
