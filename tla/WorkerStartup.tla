---------------------------- MODULE WorkerStartup ----------------------------
(***************************************************************************)
(* A worker from its start to its first results: runDistributedWorker      *)
(* (src/distributed/worker_app.cu), DistributedWorkerClient and            *)
(* CoordinatorWorkerSession (worker.cpp) and the start of                  *)
(* runDistributedCoordinator (coordinator_app.cpp). The worker says hello, *)
(* takes over the configuration it is sent, fetches the assets its cache   *)
(* lacks, compares fingerprints, loads its scene and asks for tasks.       *)
(*                                                                         *)
(* A connection holds the message under way; that its bytes are read as    *)
(* the same message is WireExact. Files on the coordinator's disk may be   *)
(* edited at any time, the coordinator started again, connections lost,    *)
(* and a worker killed, which leaves any part of the file it was writing.  *)
(* Leases are Coordinator's subject: here a worker may be given any task   *)
(* of the table, or none.                                                  *)
(***************************************************************************)
EXTENDS AssetCatalog, TaskTable

CONSTANTS
    Workers,            \* numbers, also their IDs
    CacheOf,            \* the asset cache directory of each worker
    StartJobs,          \* what the processes are started with, see JobShape
    WireJobs,           \* those of them for which WireExact looks at the frames
    Edits               \* what the bytes of a file may be changed to

\* A job: the coordinator's settings and disk, those of the workers' hosts, and the
\* bounds on the edits, on the restarts of the coordinator, and on the connections
\* lost and workers killed.
JobShape == {"settings", "disk", "own", "local", "maxEdits", "maxRestarts", "maxFaults"}

ASSUME StartupAssumption ==
    /\ Workers \subseteq 1..Base - 1
    /\ \A j \in StartJobs :
         /\ DOMAIN j = JobShape /\ \A d \in Dimensions : j.settings[d] \in 0..Word - 1
         /\ IsDisk(j.disk)
    /\ Edits \subseteq Seq(0..Base - 1)
    /\ Word <= Base^4

VARIABLES
    job,                \* the job, chosen at the start
    disk,               \* the coordinator's disk
    coordinator,        \* runDistributedCoordinator: its place, fingerprint, catalog
    session,            \* CoordinatorWorkerSession::workerId_, empty if not registered
    connection,         \* of each worker: the message under way, and to whom
    worker,             \* runDistributedWorker of each worker
    cache,              \* the bytes of each cached file, by fingerprint and path
    edits, restarts, faults

vars == <<job, disk, coordinator, session, connection, worker, cache, edits, restarts, faults>>

Nothing == [type |-> "none"]
Under(m, to) == [to |-> to, m |-> m]
Quiet == Under(Nothing, "nobody")
Closed == Under(Nothing, "closed")

Down == [place |-> "down", settings |-> job.own, fingerprint |-> 0, accepted |-> Nothing,
         next |-> 1, offset |-> 0, synchronized |-> FALSE, loaded |-> <<>>, driver |-> 0,
         task |-> Nothing]

Starting == [place |-> "starting", fingerprint |-> 0, catalog |-> NoCatalog]

Init ==
    /\ job \in StartJobs
    /\ disk = job.disk
    /\ coordinator = Starting
    /\ session = [w \in Workers |-> <<>>]
    /\ connection = [w \in Workers |-> Closed]
    /\ worker = [w \in Workers |-> Down]
    /\ cache = [c \in {CacheOf[w] : w \in Workers} |-> <<>>]
    /\ edits = 0 /\ restarts = 0 /\ faults = 0

\* computeRenderFingerprint: the hash is taken for an injection of the bytes of the
\* primary file and of those settings that differ between jobs. Names of files and
\* the switches of the transfer are not part of it.
Fingerprint(settings, files) ==
    1 + FingerprintedBytes(settings, files)
      + Base^4 * (settings.width + Base^2 * settings.preset)

Dimensional == [d \in Dimensions |-> job.settings[d]]
Tasks == RenderTasks(Dimensional)
TableEnds ==
    \/ \E d \in Dimensions : job.settings[d] = 0
    \/ /\ LoopEnds(job.settings.height, job.settings.tileHeight)
       /\ LoopEnds(job.settings.width, job.settings.tileWidth)
       /\ LoopEnds(job.settings.samplesPerPixel, job.settings.samplesPerTask)
-----------------------------------------------------------------------------
(* The coordinator.                                                        *)

\* The fingerprint, then the tasks; a loop that wraps round fills the memory.
Fingerprinted ==
    /\ coordinator.place = "starting"
    /\ coordinator' = [coordinator EXCEPT
                        !.fingerprint = Fingerprint(job.settings, disk),
                        !.place = CASE ~ TableEnds -> "endless"
                                    [] TableEnds /\ Tasks = {} -> "failed"
                                    [] OTHER -> "cataloguing"]
    /\ UNCHANGED <<job, disk, session, connection, worker, cache, edits, restarts, faults>>

Listen ==
    LET catalog == BuildAssetCatalog(job.settings, disk) IN
    /\ coordinator.place = "cataloguing"
    /\ coordinator' =
        IF ~ job.settings.pushAssets THEN [coordinator EXCEPT !.place = "listening"]
        ELSE [coordinator EXCEPT !.place = IF catalog.ok THEN "listening" ELSE "failed",
                                 !.catalog = catalog]
    /\ UNCHANGED <<job, disk, session, connection, worker, cache, edits, restarts, faults>>

\* Its connections end with the process.
RestartCoordinator ==
    /\ restarts < job.maxRestarts
    /\ restarts' = restarts + 1
    /\ coordinator' = Starting
    /\ session' = [w \in Workers |-> <<>>]
    /\ connection' = [w \in Workers |-> Closed]
    /\ UNCHANGED <<job, disk, worker, cache, edits, faults>>

EditSource ==
    /\ edits < job.maxEdits
    /\ edits' = edits + 1
    /\ \E path \in DOMAIN disk, bytes \in Edits : disk' = [disk EXCEPT ![path].bytes = bytes]
    /\ UNCHANGED <<job, coordinator, session, connection, worker, cache, restarts, faults>>

ErrorResponse == [type |-> "Error", message |-> <<1>>]
Refusal == [type |-> "WorkerHelloAccepted", accepted |-> FALSE, message |-> <<1>>,
            jobFingerprint |-> 0, primaryAssetPath |-> <<>>, assets |-> <<>>,
            hasConfiguration |-> FALSE]

\* The answer to hello.
Welcomed(hello) ==
    \/ hello.jobFingerprint = coordinator.fingerprint
    \/ hello.jobFingerprint = 0 /\ job.settings.pushAssets
    \/ job.settings.pushConfigurationToWorkers

Welcome ==
    With([type |-> "WorkerHelloAccepted", accepted |-> TRUE, message |-> <<>>,
          jobFingerprint |-> coordinator.fingerprint,
          primaryAssetPath |-> coordinator.catalog.primary,
          assets |-> [i \in DOMAIN coordinator.catalog.files |->
                         [f \in {"relativePath", "byteSize", "checksum"} |->
                             coordinator.catalog.files[i][f]]],
          hasConfiguration |-> job.settings.pushConfigurationToWorkers],
         IF job.settings.pushConfigurationToWorkers THEN WorkerConfiguration(job.settings)
         ELSE <<>>)

Assignment(task) ==
    With([jobFingerprint |-> coordinator.fingerprint, tileOrdinal |-> task.tileOrdinal,
          sampleStart |-> task.sampleStart, sampleCount |-> task.sampleCount,
          leaseExpiresAtMs |-> 0], task.tile)

AssetAnswers(request) ==
    LET Chunks(file) ==
            {With([type |-> "AssetChunk", relativePath |-> file.relativePath,
                   offset |-> request.offset, totalSize |-> file.byteSize,
                   checksum |-> file.checksum], chunk) :
                chunk \in ReadChunk(disk, file, request.offset, ChunkBytes)}
    IN  UNION {Chunks(coordinator.catalog.files[i]) :
                  i \in FindAsset(coordinator.catalog, request.relativePath)}

\* What Coordinator's commitResult says, and a next task.
Acknowledgments(result) ==
    LET ack(status) == [type |-> "ResultAck", ackOrdinal |-> result.tileOrdinal,
                        ackStart |-> result.sampleStart, ackCount |-> result.sampleCount,
                        status |-> status, hasNextTask |-> FALSE]
    IN  {ack(status) : status \in 0..2} \cup
        {With([ack(0) EXCEPT !.hasNextTask = TRUE], Assignment(task)) : task \in Tasks}

\* handleMessage of a session under the given ID; every ErrorResponse ends it.
Answers(id, m) ==
    CASE id = <<>> /\ m.type = "WorkerHello" -> {IF Welcomed(m) THEN Welcome ELSE Refusal}
      [] id # <<>> /\ m.type = "RequestTask" /\ m.workerId = id ->
            {With([type |-> "TaskAssignment"], Assignment(task)) : task \in Tasks} \cup
            {[type |-> "NoTask", retryAfterMs |-> 0, jobComplete |-> complete] :
                complete \in BOOLEAN}
      [] id # <<>> /\ m.type = "TaskResult" ->
            IF m.jobFingerprint = coordinator.fingerprint THEN Acknowledgments(m)
            ELSE {ErrorResponse}
      [] id # <<>> /\ m.type = "AssetRequest" /\ m.workerId = id ->
            IF job.settings.pushAssets /\ AssetAnswers(m) # {} THEN AssetAnswers(m)
            ELSE {ErrorResponse}
      [] id # <<>> /\ m.type = "Heartbeat" /\ m.workerId = id ->
            {[type |-> "HeartbeatAck", renewedLeaseCount |-> 1]}
      [] OTHER -> {ErrorResponse}

HandleMessage(w) ==
    LET m == connection[w].m IN
    /\ connection[w].to = "session"
    /\ \E answer \in Answers(session[w], m) :
         IF ~ Encodes(answer)
         THEN /\ connection' = [connection EXCEPT ![w] = Closed]
              /\ session' = [session EXCEPT ![w] = <<>>]
         ELSE /\ connection' = [connection EXCEPT ![w] = Under(answer, "worker")]
              /\ session' = [session EXCEPT ![w] =
                                IF answer \in {ErrorResponse, Refusal} THEN <<>>
                                ELSE IF m.type = "WorkerHello" THEN m.workerId ELSE @]
    /\ UNCHANGED <<job, disk, coordinator, worker, cache, edits, restarts, faults>>
-----------------------------------------------------------------------------
(* The worker.                                                             *)

\* The files a worker opens: those of its host, or what it has transferred. The
\* edits leave alone which files a file names.
Cached(w) ==
    LET files == cache[CacheOf[w]]
        source(path) == Folder(PrimaryAsset(job.settings)) \o path
        stored == {path \in {key[2] : key \in DOMAIN files} :
                      <<worker[w].accepted.jobFingerprint, path>> \in DOMAIN files}
    IN  [path \in stored |->
            [job.disk[source(path)] EXCEPT
                !.bytes = files[<<worker[w].accepted.jobFingerprint, path>>]]]

View(w) == IF worker[w].synchronized THEN Cached(w) ELSE job.local

Send(w, m, place) ==
    /\ connection' = [connection EXCEPT ![w] = Under(m, "session")]
    /\ worker' = [worker EXCEPT ![w].place = place]

\* A return of runDistributedWorker closes the connection, which ends the session.
\* The worker is started again unless it has been told that the job is complete.
Leave(w, place) ==
    /\ worker' = [worker EXCEPT ![w] = [Down EXCEPT !.place = place]]
    /\ connection' = [connection EXCEPT ![w] = Closed]
    /\ session' = [session EXCEPT ![w] = <<>>]

others == <<job, disk, coordinator, edits, restarts>>

\* computeRenderFingerprint unless the assets are still to come; connectTo and hello.
StartWorker(w) ==
    LET fingerprint == IF job.own.pushAssets THEN 0 ELSE Fingerprint(job.own, job.local) IN
    /\ worker[w].place = "down" /\ coordinator.place = "listening"
    /\ worker' = [worker EXCEPT ![w] = [Down EXCEPT !.place = "registering",
                                                   !.fingerprint = fingerprint]]
    /\ connection' = [connection EXCEPT ![w] =
            Under([type |-> "WorkerHello", jobFingerprint |-> fingerprint, workerId |-> <<w>>],
                  "session")]
    /\ UNCHANGED <<others, session, cache, faults>>

\* The worker stands where it waits for an answer and has it.
Answered(w, place) == worker[w].place = place /\ connection[w].to = "worker"
Answer(w) == connection[w].m
Consumed(w) == connection' = [connection EXCEPT ![w] = Quiet]

Accepted(m) == m.type = "WorkerHelloAccepted" /\ m.accepted

Register(w) ==
    LET m == Answer(w)
        settings == IF m.hasConfiguration THEN Configured(job.own, m) ELSE job.own
    IN
    /\ Answered(w, "registering") /\ Accepted(m)
    /\ worker' = [worker EXCEPT
                    ![w].accepted = m, ![w].settings = settings,
                    ![w].place = IF settings.pushAssets THEN "syncing"
                                 ELSE IF m.hasConfiguration THEN "comparing" ELSE "loading"]
    /\ Consumed(w)
    /\ UNCHANGED <<others, session, cache, faults>>

Asset(w) == worker[w].accepted.assets[worker[w].next]
Key(w) == <<worker[w].accepted.jobFingerprint, Asset(w).relativePath>>
Stored(w) == cache[CacheOf[w]][Key(w)]
Store(w, bytes) ==
    cache' = [cache EXCEPT ![CacheOf[w]] =
                [key \in DOMAIN @ \cup {Key(w)} |-> IF key = Key(w) THEN bytes ELSE @[key]]]

\* Faults: what has the size is taken for the file; a file that does not match is
\* written over instead of anew.
Matches_SizeOnly(w) ==
    /\ Key(w) \in DOMAIN cache[CacheOf[w]]
    /\ Len(Stored(w)) = Asset(w).byteSize

\* hashCachedFile and what both its calls compare.
Matches(w) ==
    /\ Key(w) \in DOMAIN cache[CacheOf[w]]
    /\ Len(Stored(w)) = Asset(w).byteSize
    /\ Checksum(Stored(w)) = Asset(w).checksum

\* synchronizeAssets has nothing to transfer.
SyncNothing(w) ==
    /\ worker[w].place = "syncing" /\ worker[w].accepted.assets = <<>>
    /\ worker' = [worker EXCEPT ![w].place = "comparing"]
    /\ UNCHANGED <<others, session, connection, cache, faults>>

\* That safeAssetPath refuses no path of a catalog is part of CatalogueComplete.
Syncing(w) ==
    /\ worker[w].place = "syncing"
    /\ worker[w].next <= Len(worker[w].accepted.assets)

SkipAsset(w) ==
    /\ Syncing(w) /\ Matches(w)
    /\ worker' = [worker EXCEPT ![w].next = @ + 1]
    /\ UNCHANGED <<others, session, connection, cache, faults>>

ReplaceAsset(w) ==
    /\ Syncing(w) /\ ~ Matches(w)
    /\ worker' = [worker EXCEPT ![w].place = "replacing"]
    /\ UNCHANGED <<others, session, connection, cache, faults>>

TruncateAsset_KeepsTail(w) ==
    /\ worker[w].place = "replacing"
    /\ Store(w, IF Key(w) \in DOMAIN cache[CacheOf[w]] THEN Stored(w) ELSE <<>>)
    /\ worker' = [worker EXCEPT ![w].place = "fetching", ![w].offset = 0]
    /\ UNCHANGED <<others, session, connection, faults>>

TruncateAsset(w) ==
    /\ worker[w].place = "replacing"
    /\ Store(w, <<>>)
    /\ worker' = [worker EXCEPT ![w].place = "fetching", ![w].offset = 0]
    /\ UNCHANGED <<others, session, connection, faults>>

RequestChunk(w) ==
    /\ worker[w].place = "fetching" /\ connection[w].to = "nobody"
    /\ Send(w, [type |-> "AssetRequest", workerId |-> <<w>>,
                relativePath |-> Asset(w).relativePath, offset |-> worker[w].offset], "awaitingChunk")
    /\ UNCHANGED <<others, session, cache, faults>>

ValidChunk(w, m) ==
    /\ m.type = "AssetChunk"
    /\ m.relativePath = Asset(w).relativePath /\ m.offset = worker[w].offset
    /\ m.totalSize = Asset(w).byteSize /\ m.checksum = Asset(w).checksum
    /\ Len(m.bytes) <= ChunkBytes
    /\ m.finalChunk \/ m.bytes # <<>>

\* What is written behind the end of a file that was truncated leaves zeros.
Patched(file, offset, bytes) ==
    LET at(i) == IF i \in offset + 1..offset + Len(bytes) THEN bytes[i - offset]
                 ELSE IF i <= Len(file) THEN file[i] ELSE 0
        length == IF Len(file) < offset + Len(bytes) THEN offset + Len(bytes) ELSE Len(file)
    IN  [i \in 1..length |-> at(i)]

StoreChunk(w) ==
    LET m == Answer(w)
        offset == worker[w].offset + Len(m.bytes)
    IN
    /\ Answered(w, "awaitingChunk") /\ ValidChunk(w, m)
    /\ Store(w, Patched(Stored(w), worker[w].offset, m.bytes))
    /\ worker' = [worker EXCEPT
                    ![w].offset = offset,
                    ![w].place = IF m.finalChunk \/ offset >= Asset(w).byteSize
                                 THEN "verifying" ELSE "fetching"]
    /\ Consumed(w)
    /\ UNCHANGED <<others, session, faults>>

VerifyAsset(w) ==
    /\ worker[w].place = "verifying"
    /\ IF Matches(w)
       THEN /\ worker' = [worker EXCEPT ![w].place = "syncing", ![w].next = @ + 1]
            /\ UNCHANGED <<session, connection>>
       ELSE Leave(w, "down")
    /\ UNCHANGED <<others, cache, faults>>

\* The scene is the one in the cache from here on.
UseCache(w) ==
    /\ worker[w].place = "syncing" /\ worker[w].accepted.assets # <<>>
    /\ worker[w].next > Len(worker[w].accepted.assets)
    /\ worker' = [worker EXCEPT
                    ![w].place = "comparing", ![w].synchronized = TRUE,
                    ![w].settings.objectFilename = worker[w].accepted.primaryAssetPath,
                    ![w].settings.gltfFilename = worker[w].accepted.primaryAssetPath]
    /\ UNCHANGED <<others, session, connection, cache, faults>>

CompareFingerprint(w) ==
    LET fingerprint == Fingerprint(worker[w].settings, View(w)) IN
    /\ worker[w].place = "comparing"
    /\ IF fingerprint = worker[w].accepted.jobFingerprint
       THEN /\ worker' = [worker EXCEPT ![w].place = "loading", ![w].fingerprint = fingerprint]
            /\ UNCHANGED <<session, connection>>
       ELSE Leave(w, "down")
    /\ UNCHANGED <<others, cache, faults>>

\* createSceneFromConfig
LoadScene(w) ==
    LET primary == PrimaryAsset(worker[w].settings)
        opened == LoaderOpens(View(w), primary) \cap DOMAIN View(w)
    IN
    /\ worker[w].place = "loading"
    /\ IF LoaderNeeds(View(w), primary) \subseteq DOMAIN View(w)
       THEN /\ worker' = [worker EXCEPT ![w].place = "preparing",
                            ![w].loaded = [path \in opened |-> View(w)[path].bytes]]
            /\ UNCHANGED <<session, connection>>
       ELSE Leave(w, "down")
    /\ UNCHANGED <<others, cache, faults>>

\* RenderDriver takes the fingerprint once more, from what the files hold by now.
PrepareDriver(w) ==
    /\ worker[w].place = "preparing"
    /\ worker' = [worker EXCEPT ![w].place = "asking",
                                ![w].driver = Fingerprint(worker[w].settings, View(w))]
    /\ UNCHANGED <<others, session, connection, cache, faults>>

RequestTask(w) ==
    /\ worker[w].place = "asking" /\ connection[w].to = "nobody"
    /\ Send(w, [type |-> "RequestTask", workerId |-> <<w>>], "awaitingTask")
    /\ UNCHANGED <<others, session, cache, faults>>

Begin(w, assignment) ==
    worker' = [worker EXCEPT ![w].place = "rendering", ![w].task = assignment]

TakeTask(w) ==
    LET m == Answer(w) IN
    /\ Answered(w, "awaitingTask")
    /\ \/ m.type = "TaskAssignment" /\ Begin(w, m) /\ Consumed(w) /\ UNCHANGED session
       \/ /\ m.type = "NoTask"
          /\ IF m.jobComplete THEN Leave(w, "finished")
             ELSE /\ worker' = [worker EXCEPT ![w].place = "asking"]
                  /\ Consumed(w) /\ UNCHANGED session
    /\ UNCHANGED <<others, cache, faults>>

\* The heartbeat thread asks, and is joined before the result is sent.
SendHeartbeat(w) ==
    /\ worker[w].place = "rendering" /\ connection[w].to = "nobody"
    /\ Send(w, [type |-> "Heartbeat", workerId |-> <<w>>], "beating")
    /\ UNCHANGED <<others, session, cache, faults>>

TakeHeartbeatAck(w) ==
    /\ Answered(w, "beating") /\ Answer(w).type = "HeartbeatAck"
    /\ worker' = [worker EXCEPT ![w].place = "rendering"]
    /\ Consumed(w)
    /\ UNCHANGED <<others, session, cache, faults>>

Result(w) ==
    LET task == worker[w].task IN
    With([type |-> "TaskResult", jobFingerprint |-> worker[w].fingerprint,
          resultSampleCount |-> task.sampleCount,
          radiance |-> [pixel \in 1..task.width * task.height |-> <<1, 0, 2>>]],
         [f \in {"tileOrdinal", "sampleStart", "sampleCount", "x", "y", "width", "height"} |->
             task[f]])

\* RenderDriver::prepare and RenderTaskRenderer::render do not refuse.
RendersTask(w) ==
    LET settings == worker[w].settings
        task == worker[w].task
        dimensions == [d \in Dimensions |-> settings[d]]
    IN  /\ settings.width * settings.height < Word /\ QueueCapacity(dimensions) < Word
        /\ task.jobFingerprint = worker[w].driver
        /\ Renders(dimensions, [tileOrdinal |-> task.tileOrdinal,
                                sampleStart |-> task.sampleStart, sampleCount |-> task.sampleCount,
                                tile |-> [f \in {"x", "y", "width", "height"} |-> task[f]]])

SubmitResult(w) ==
    /\ worker[w].place = "rendering" /\ connection[w].to = "nobody"
    /\ IF RendersTask(w) /\ Encodes(Result(w))
       THEN Send(w, Result(w), "awaitingAck") /\ UNCHANGED session
       ELSE Leave(w, "down")
    /\ UNCHANGED <<others, cache, faults>>

TakeAck(w) ==
    LET m == Answer(w) IN
    /\ Answered(w, "awaitingAck") /\ m.type = "ResultAck" /\ m.status # 2
    /\ IF m.hasNextTask THEN Begin(w, m)
       ELSE worker' = [worker EXCEPT ![w].place = "asking"]
    /\ Consumed(w)
    /\ UNCHANGED <<others, session, cache, faults>>

\* Every other answer, and every call on a connection that has failed, ends the
\* worker.
Expected(w) ==
    LET m == Answer(w) IN
    CASE worker[w].place = "registering" -> Accepted(m)
      [] worker[w].place = "awaitingChunk" -> ValidChunk(w, m)
      [] worker[w].place = "awaitingTask" -> m.type \in {"TaskAssignment", "NoTask"}
      [] worker[w].place = "beating" -> m.type = "HeartbeatAck"
      [] worker[w].place = "awaitingAck" -> m.type = "ResultAck" /\ m.status # 2

Waiting == {"registering", "awaitingChunk", "awaitingTask", "beating", "awaitingAck"}

GiveUp(w) ==
    /\ \/ worker[w].place \in Waiting /\ connection[w].to = "worker" /\ ~ Expected(w)
       \/ worker[w].place \in Waiting \cup {"fetching", "asking", "rendering"}
          /\ connection[w].to = "closed"
    /\ Leave(w, "down")
    /\ UNCHANGED <<others, cache, faults>>
-----------------------------------------------------------------------------
(* Faults.                                                                 *)

LoseConnection(w) ==
    /\ faults < job.maxFaults /\ connection[w].to # "closed"
    /\ faults' = faults + 1
    /\ connection' = [connection EXCEPT ![w] = Closed]
    /\ session' = [session EXCEPT ![w] = <<>>]
    /\ UNCHANGED <<others, worker, cache>>

KillWorker(w) ==
    /\ faults < job.maxFaults /\ worker[w].place \notin {"down", "finished"}
    /\ faults' = faults + 1
    /\ Leave(w, "down")
    /\ IF worker[w].place \in {"fetching", "awaitingChunk", "verifying"}
       THEN \E n \in 0..Len(Stored(w)) : Store(w, SubSeq(Stored(w), 1, n))
       ELSE UNCHANGED cache
    /\ UNCHANGED others
-----------------------------------------------------------------------------
CoordinatorStep == Fingerprinted \/ Listen \/ \E w \in Workers : HandleMessage(w)

WorkerStep(w) ==
    \/ StartWorker(w) \/ Register(w)
    \/ SyncNothing(w) \/ SkipAsset(w) \/ ReplaceAsset(w) \/ TruncateAsset(w)
    \/ RequestChunk(w) \/ StoreChunk(w) \/ VerifyAsset(w) \/ UseCache(w)
    \/ CompareFingerprint(w) \/ LoadScene(w) \/ PrepareDriver(w)
    \/ RequestTask(w) \/ TakeTask(w) \/ SubmitResult(w) \/ TakeAck(w)
    \/ TakeHeartbeatAck(w) \/ GiveUp(w)

Next ==
    \/ CoordinatorStep \/ RestartCoordinator \/ EditSource
    \/ \E w \in Workers :
         WorkerStep(w) \/ SendHeartbeat(w) \/ LoseConnection(w) \/ KillWorker(w)

\* Both programs run on, and a worker is started again whenever it ends; nobody has
\* to lose a connection, edit a file or start the coordinator again. The first
\* conjunct is the weak fairness of Fingerprinted and of Listen, each of which stays
\* enabled for as long as the coordinator is in its place.
Fairness ==
    /\ []<>(coordinator.place \notin {"starting", "cataloguing"})
    /\ \A w \in Workers : WF_vars(HandleMessage(w)) /\ WF_vars(WorkerStep(w))

Spec == Init /\ [][Next]_vars /\ Fairness
-----------------------------------------------------------------------------
(* Properties.                                                             *)

\* A result on its way to the coordinator was rendered from what this coordinator
\* offers, whatever was edited, cached, cut short or pushed in between: with the
\* worker's settings its scene has the coordinator's fingerprint, and what was
\* transferred is in the coordinator's catalog, byte for byte.
Submits(w) == connection[w].to = "session" /\ connection[w].m.type = "TaskResult"

RendersTheJob(w) ==
    LET loaded == worker[w].loaded IN
    PrimaryAsset(worker[w].settings) # NoPath =>
        coordinator.fingerprint =
            Fingerprint(worker[w].settings,
                        [path \in DOMAIN loaded |-> [bytes |-> loaded[path]]])

RendersWhatIsOffered(w) ==
    LET loaded == worker[w].loaded
        files == coordinator.catalog.files
    IN  worker[w].synchronized =>
            \A path \in DOMAIN loaded : \E i \in DOMAIN files :
                /\ files[i].relativePath = path
                /\ files[i].byteSize = Len(loaded[path])
                /\ files[i].checksum = Checksum(loaded[path])

RendersCatalogue ==
    \A w \in Workers : Submits(w) => RendersTheJob(w) /\ RendersWhatIsOffered(w)

\* The catalog names every file the loaders of the workers will open
\* (ARCHITECTURE.md: the primary geometry file and loader dependencies), and no
\* worker refuses one of its paths.
CatalogueComplete ==
    /\ NamesWhatIsLoaded(coordinator.catalog, job.settings, job.disk)
    /\ \A i \in DOMAIN coordinator.catalog.files :
         SafePath(coordinator.catalog.files[i].relativePath)

\* Unless a loop passes the end of the 32 bits, the coordinator comes to the end of
\* its task table, and the tasks cover every sample of every pixel once and are tasks
\* that a worker renders. They have distinct IDs as long as there are no more tiles
\* than the 32 bits can number.
PlanExact ==
    NoWrap(Dimensional) =>
        /\ coordinator.place # "endless"
        /\ coordinator.place = "cataloguing" =>
            /\ CoversImage(Dimensional)
            /\ TilesNumbered(Dimensional) => TaskIdsAreUnique(Dimensional)

\* Whatever is sent is read as what it was, and nothing else is taken for it.
WireExact ==
    \A w \in Workers :
        LET m == connection[w].m IN
        connection[w].to \in {"session", "worker"} =>
            Encodes(m) /\ Decode(Frame(m)) = {m} /\ (job \in WireJobs => ReadsBack(m))

\* The coordinator offers what is on its disk.
Current ==
    /\ coordinator.place = "listening"
    /\ coordinator.fingerprint = Fingerprint(job.settings, disk)
    /\ job.settings.pushAssets => coordinator.catalog = BuildAssetCatalog(job.settings, disk)

\* A worker of the job has what the scene takes, or is sent it in messages that hold
\* it.
Served ==
    LET settings == IF job.settings.pushConfigurationToWorkers
                    THEN Configured(job.own, WorkerConfiguration(job.settings)) ELSE job.own
        primary == PrimaryAsset(settings)
        transferred == settings.pushAssets /\ job.settings.pushAssets
                       /\ PrimaryAsset(job.settings) # NoPath
    IN  IF transferred
        THEN /\ Fingerprint(settings, disk) = coordinator.fingerprint
             /\ Encodes(Welcome)
             /\ LoaderNeeds(disk, PrimaryAsset(job.settings)) \subseteq
                    {coordinator.catalog.files[i].sourcePath : i \in DOMAIN coordinator.catalog.files}
        ELSE /\ Fingerprint(settings, job.local) = coordinator.fingerprint
             /\ LoaderNeeds(job.local, primary) \subseteq DOMAIN job.local
             /\ settings.pushAssets /\ ~ job.settings.pushAssets =>
                    job.settings.pushConfigurationToWorkers

\* Once the coordinator offers what is on its disk, each worker that is served gets
\* to its tasks, whatever it finds in its cache.
StartupSucceeds ==
    \A w \in Workers :
        <>[](Current /\ Served) =>
            []<>(worker[w].place \in {"asking", "rendering", "finished"})
=============================================================================
