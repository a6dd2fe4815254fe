------------------------ MODULE WorkerStartupProofs ------------------------
(***************************************************************************)
(* Proofs about the start of the processes, for jobs of every size, words  *)
(* of every width and disks of any files: the task table has every sample  *)
(* of every pixel in exactly one task (TaskTable), and it is what a        *)
(* running coordinator has (PlanExact of WorkerStartup); what a result was *)
(* rendered from is what its coordinator offers (RendersCatalogue).        *)
(***************************************************************************)
EXTENDS WorkerStartup, FiniteSetTheorems, SequenceTheorems, NaturalsInduction,
        WellFoundedInduction, TLAPS

-----------------------------------------------------------------------------
(* The task table.                                                         *)

(* The quotient and the remainder of a division. *)
LEMMA Division ==
    ASSUME NEW a \in Nat, NEW d \in Nat \ {0}
    PROVE  /\ a \div d \in Nat
           /\ (a \div d) * d <= a
           /\ a < (a \div d) * d + d
    BY SMT

(* A number below the modulus is its own remainder. *)
LEMMA SmallRemainder ==
    ASSUME NEW w \in Nat \ {0}, NEW a \in Nat, a < w
    PROVE  a % w = a
    BY SMT

(* Multiplication by a positive step keeps the order. *)
LEMMA StepsGrow ==
    ASSUME NEW j \in Nat, NEW k \in Nat, NEW step \in Nat \ {0}
    PROVE  /\ j * step \in Nat
           /\ j <= k => j * step <= k * step
           /\ j < k => j * step + step <= k * step
           /\ j * step < k * step + step => j <= k
           /\ k <= k * step
    BY SMT

(* A loop that does not wrap runs for the multiples of its step below the  *)
(* limit, and ends.                                                        *)
LEMMA RoundsExact ==
    ASSUME NEW limit \in Nat \ {0}, NEW step \in Nat \ {0}, limit + step <= Word,
           NEW k \in Nat
    PROVE  /\ k \in Rounds(limit, step) <=> k * step < limit
           /\ k * step < limit => Position(step, k) = k * step
<1> USE WordAssumption
<1>1. ASSUME NEW j \in Nat, j * step < Word
      PROVE  Position(step, j) = j * step
  BY <1>1, StepsGrow, SmallRemainder DEF Position
<1>2. ASSUME k * step < limit
      PROVE  k \in Rounds(limit, step)
  <2>1. k \in 0..limit
    BY <1>2, StepsGrow
  <2>2. ASSUME NEW j \in 0..k
        PROVE  Position(step, j) < limit
    <3>1. j * step <= k * step /\ j * step \in Nat /\ k * step \in Nat
      BY StepsGrow
    <3>2. Position(step, j) = j * step
      BY <1>1, <1>2, <3>1
    <3> QED
      BY <1>2, <3>1, <3>2
  <2> QED
    BY <2>1, <2>2 DEF Rounds
<1>3. ASSUME k \in Rounds(limit, step), ~ (k * step < limit)
      PROVE  FALSE
  <2> DEFINE q == (limit - 1) \div step
  <2>1. /\ q \in Nat
        /\ q * step <= limit - 1
        /\ limit - 1 < q * step + step
    BY Division
  <2> HIDE DEF q
  <2>2. /\ q + 1 \in Nat
        /\ (q + 1) * step = q * step + step
        /\ q * step \in Nat /\ k * step \in Nat
    BY <2>1, StepsGrow
  <2>3. q < k
    BY <1>3, <2>1, <2>2, StepsGrow
  <2>4. Position(step, q + 1) = q * step + step
    <3>1. q * step + step < Word
      BY <2>1, <2>2
    <3> QED
      BY <1>1, <2>2, <3>1
  <2>5. Position(step, q + 1) < limit
    <3>1. q + 1 \in 0..k
      BY <2>1, <2>3
    <3> QED
      BY <1>3, <3>1 DEF Rounds
  <2> QED
    BY <2>1, <2>2, <2>4, <2>5
<1>4. k * step < limit => Position(step, k) = k * step
  BY <1>1
<1> QED
  BY <1>2, <1>3, <1>4

(* The interval a round stands for. *)
InRound(limit, step, k, v) ==
    v \in Position(step, k)..Position(step, k) + Extent(limit, step, k) - 1

(* Every value below the limit is in the interval of exactly one round.    *)
LEMMA RoundsPartition ==
    ASSUME NEW limit \in Nat \ {0}, NEW step \in Nat \ {0}, limit + step <= Word,
           NEW v \in 0..limit - 1
    PROVE  /\ \E k \in Rounds(limit, step) : InRound(limit, step, k, v)
           /\ \A j, k \in Rounds(limit, step) :
                  InRound(limit, step, j, v) /\ InRound(limit, step, k, v) => j = k
<1>1. ASSUME NEW k \in Nat, k * step < limit
      PROVE  InRound(limit, step, k, v) <=> k * step <= v /\ v < k * step + step
  <2>1. Position(step, k) = k * step /\ k * step \in Nat
    BY <1>1, RoundsExact, StepsGrow
  <2>2. CASE step < limit - k * step
    BY <2>1, <2>2 DEF InRound, Extent
  <2>3. CASE ~ (step < limit - k * step)
    BY <2>1, <2>3 DEF InRound, Extent
  <2> QED
    BY <2>2, <2>3
<1>2. \E k \in Rounds(limit, step) : InRound(limit, step, k, v)
  <2> DEFINE q == v \div step
  <2>1. q \in Nat /\ q * step <= v /\ v < q * step + step
    BY Division
  <2> HIDE DEF q
  <2>2. q * step < limit
    BY <2>1, StepsGrow
  <2>3. q \in Rounds(limit, step)
    BY <2>1, <2>2, RoundsExact
  <2> QED
    BY <1>1, <2>1, <2>2, <2>3
<1>3. ASSUME NEW j \in Rounds(limit, step), NEW k \in Rounds(limit, step),
             InRound(limit, step, j, v), InRound(limit, step, k, v)
      PROVE  j = k
  <2>1. j \in Nat /\ k \in Nat
    BY DEF Rounds
  <2>2. j * step < limit /\ k * step < limit
    BY <2>1, RoundsExact
  <2>3. /\ j * step <= v /\ v < j * step + step
        /\ k * step <= v /\ v < k * step + step
    BY <1>1, <1>3, <2>1, <2>2
  <2>4. j * step \in Nat /\ k * step \in Nat
    BY <2>1, StepsGrow
  <2>5. j <= k
    <3>1. j * step < k * step + step
      BY <2>3, <2>4
    <3> QED
      BY <2>1, <3>1, StepsGrow
  <2>6. k <= j
    <3>1. k * step < j * step + step
      BY <2>3, <2>4
    <3> QED
      BY <2>1, <3>1, StepsGrow
  <2> QED
    BY <2>1, <2>5, <2>6
<1> QED
  BY <1>2, <1>3

(* The extent of a round ends at the limit and is no larger than the step. *)
LEMMA ExtentsFit ==
    ASSUME NEW limit \in Nat \ {0}, NEW step \in Nat \ {0}, limit + step <= Word,
           NEW k \in Rounds(limit, step)
    PROVE  /\ Position(step, k) \in Nat /\ Position(step, k) < limit
           /\ Extent(limit, step, k) \in Nat \ {0}
           /\ Extent(limit, step, k) <= step
           /\ Extent(limit, step, k) <= limit - Position(step, k)
<1>1. k \in Nat
  BY DEF Rounds
<1>2. Position(step, k) = k * step /\ k * step < limit /\ k * step \in Nat
  BY <1>1, RoundsExact, StepsGrow
<1> QED
  BY <1>2 DEF Extent

(* The rounds are numbered without a gap. *)
LEMMA RoundsCounted ==
    ASSUME NEW limit \in Nat \ {0}, NEW step \in Nat \ {0}, limit + step <= Word
    PROVE  /\ Cardinality(Rounds(limit, step)) \in Nat \ {0}
           /\ Cardinality(Rounds(limit, step)) <= limit
           /\ \A k \in Rounds(limit, step) : k \in Nat /\ k < Cardinality(Rounds(limit, step))
<1> DEFINE q == (limit - 1) \div step
<1>1. /\ q \in Nat
      /\ q * step <= limit - 1
      /\ limit - 1 < q * step + step
  BY Division
<1> HIDE DEF q
<1>2. ASSUME NEW k \in Nat
      PROVE  k \in Rounds(limit, step) <=> k \in 0..q
  <2>1. k \in Rounds(limit, step) <=> k * step < limit
    BY RoundsExact
  <2>2. k * step \in Nat /\ q * step \in Nat
    BY <1>1, StepsGrow
  <2>3. k * step < limit => k <= q
    <3>1. k * step < limit => k * step < q * step + step
      BY <1>1, <2>2
    <3> QED
      BY <1>1, <3>1, StepsGrow
  <2>4. k <= q => k * step < limit
    <3>1. k <= q => k * step <= q * step
      BY <1>1, StepsGrow
    <3> QED
      BY <1>1, <2>2, <3>1
  <2> QED
    BY <1>1, <2>1, <2>3, <2>4
<1>3. Rounds(limit, step) = 0..q
  BY <1>1, <1>2 DEF Rounds
<1>4. Cardinality(0..q) = q + 1
  BY <1>1, FS_Interval
<1>5. q + 1 <= limit
  <2>1. q <= q * step /\ q * step \in Nat
    BY <1>1, StepsGrow
  <2> QED
    BY <1>1, <2>1
<1> QED
  BY <1>1, <1>3, <1>4, <1>5

(* A plan the coordinator accepts. *)
Legal(plan) == plan \in Jobs /\ NoWrap(plan) /\ \A d \in Dimensions : plan[d] # 0

LEMMA LegalDimensions ==
    ASSUME NEW plan, Legal(plan)
    PROVE  /\ plan.width \in Nat \ {0} /\ plan.height \in Nat \ {0}
           /\ plan.tileWidth \in Nat \ {0} /\ plan.tileHeight \in Nat \ {0}
           /\ plan.samplesPerPixel \in Nat \ {0} /\ plan.samplesPerTask \in Nat \ {0}
           /\ plan.width + plan.tileWidth <= Word
           /\ plan.height + plan.tileHeight <= Word
           /\ plan.samplesPerPixel + plan.samplesPerTask <= Word
           /\ RenderTasks(plan) =
                {RenderTask(plan, place[1], place[2], place[3]) :
                    place \in Rows(plan) \X Columns(plan) \X Batches(plan)}
BY WordAssumption DEF Legal, NoWrap, Jobs, Dimensions, RenderTasks

(* A task covers a sample of a pixel if its three rounds do. *)
LEMMA CoversByRounds ==
    ASSUME NEW plan, NEW row, NEW column, NEW batch, NEW x, NEW y, NEW sample
    PROVE  Covers(RenderTask(plan, row, column, batch), x, y, sample) <=>
             /\ InRound(plan.width, plan.tileWidth, column, x)
             /\ InRound(plan.height, plan.tileHeight, row, y)
             /\ InRound(plan.samplesPerPixel, plan.samplesPerTask, batch, sample)
BY DEF Covers, RenderTask, Tile, InRound

(* Every sample of every pixel of the image is in exactly one task, and    *)
(* RenderTaskRenderer refuses none (task.hpp:54-55).                       *)
THEOREM TasksCoverImage ==
    ASSUME NEW plan, Legal(plan)
    PROVE  CoversImage(plan)
<1> USE LegalDimensions
<1>1. ASSUME NEW x \in 0..plan.width - 1, NEW y \in 0..plan.height - 1,
             NEW sample \in 0..plan.samplesPerPixel - 1
      PROVE  \E task \in RenderTasks(plan) :
                /\ Covers(task, x, y, sample)
                /\ \A other \in RenderTasks(plan) : Covers(other, x, y, sample) => other = task
  <2>1. PICK column \in Columns(plan) : InRound(plan.width, plan.tileWidth, column, x)
    BY RoundsPartition DEF Columns
  <2>2. PICK row \in Rows(plan) : InRound(plan.height, plan.tileHeight, row, y)
    BY RoundsPartition DEF Rows
  <2>3. PICK batch \in Batches(plan) :
            InRound(plan.samplesPerPixel, plan.samplesPerTask, batch, sample)
    BY RoundsPartition DEF Batches
  <2> DEFINE task == RenderTask(plan, row, column, batch)
  <2>4. task \in RenderTasks(plan)
    <3>1. <<row, column, batch>> \in Rows(plan) \X Columns(plan) \X Batches(plan)
      OBVIOUS
    <3> QED
      BY <3>1
  <2>5. Covers(task, x, y, sample)
    BY <2>1, <2>2, <2>3, CoversByRounds
  <2>6. ASSUME NEW other \in RenderTasks(plan), Covers(other, x, y, sample)
        PROVE  other = task
    <3>1. PICK r \in Rows(plan), c \in Columns(plan), b \in Batches(plan) :
              other = RenderTask(plan, r, c, b)
      OBVIOUS
    <3>2. /\ InRound(plan.width, plan.tileWidth, c, x)
          /\ InRound(plan.height, plan.tileHeight, r, y)
          /\ InRound(plan.samplesPerPixel, plan.samplesPerTask, b, sample)
      BY <2>6, <3>1, CoversByRounds
    <3>3. c = column
      BY <2>1, <3>2, RoundsPartition DEF Columns
    <3>4. r = row
      BY <2>2, <3>2, RoundsPartition DEF Rows
    <3>5. b = batch
      BY <2>3, <3>2, RoundsPartition DEF Batches
    <3> QED
      BY <3>1, <3>3, <3>4, <3>5
  <2> HIDE DEF task
  <2> QED
    BY <2>4, <2>5, <2>6
<1>2. ASSUME NEW task \in RenderTasks(plan)
      PROVE  Renders(plan, task)
  <2>1. PICK row \in Rows(plan), column \in Columns(plan), batch \in Batches(plan) :
            task = RenderTask(plan, row, column, batch)
    OBVIOUS
  <2> DEFINE w == Extent(plan.width, plan.tileWidth, column)
             h == Extent(plan.height, plan.tileHeight, row)
             n == Extent(plan.samplesPerPixel, plan.samplesPerTask, batch)
             px == Position(plan.tileWidth, column)
             py == Position(plan.tileHeight, row)
             start == Position(plan.samplesPerTask, batch)
  <2>2. /\ px \in Nat /\ px < plan.width
        /\ w \in Nat \ {0} /\ w <= plan.tileWidth /\ w <= plan.width - px
    BY ExtentsFit DEF Columns
  <2>3. /\ py \in Nat /\ py < plan.height
        /\ h \in Nat \ {0} /\ h <= plan.tileHeight /\ h <= plan.height - py
    BY ExtentsFit DEF Rows
  <2>4. /\ start \in Nat /\ start < plan.samplesPerPixel
        /\ n \in Nat \ {0} /\ n <= plan.samplesPerPixel - start
    BY ExtentsFit DEF Batches
  <2>5. /\ task.tile.x = px /\ task.tile.y = py
        /\ task.tile.width = w /\ task.tile.height = h
        /\ task.sampleStart = start /\ task.sampleCount = n
    BY <2>1 DEF RenderTask, Tile
  <2> HIDE DEF w, h, n, px, py, start
  <2>6. (w * h) % Word <= QueueCapacity(plan)
    <3>1. w * h \in Nat /\ w * h <= plan.tileWidth * h
      BY <2>2, <2>3, SMT
    <3>2. plan.tileWidth * h <= plan.tileWidth * plan.tileHeight
      BY <2>3, SMT
    <3>3. (w * h) % Word <= w * h
      BY <3>1, WordAssumption, SMT
    <3>4. plan.tileWidth * h \in Nat /\ plan.tileWidth * plan.tileHeight \in Nat
      BY <2>3, SMT
    <3>5. (w * h) % Word \in Nat
      BY <3>1, WordAssumption, SMT
    <3> QED
      BY <3>1, <3>2, <3>3, <3>4, <3>5 DEF QueueCapacity
  <2> QED
    BY <2>2, <2>3, <2>4, <2>5, <2>6 DEF Renders
<1> QED
  BY <1>1, <1>2 DEF CoversImage

(* An image that RenderDriver prepares for has no more tiles than numbers.  *)
LEMMA ImagesAreNumbered ==
    ASSUME NEW plan, Legal(plan), plan.width * plan.height < Word
    PROVE  TilesNumbered(plan)
<1> USE LegalDimensions
<1> DEFINE m == Cardinality(Rows(plan))
           n == Cardinality(Columns(plan))
<1>1. m \in Nat \ {0} /\ m <= plan.height
  BY RoundsCounted DEF Rows
<1>2. n \in Nat \ {0} /\ n <= plan.width
  BY RoundsCounted DEF Columns
<1> HIDE DEF m, n
<1>3. m * n <= plan.height * n /\ m * n \in Nat /\ plan.height * n \in Nat
  BY <1>1, <1>2, StepsGrow
<1>4. n * plan.height <= plan.width * plan.height /\ plan.width * plan.height \in Nat
  BY <1>2, StepsGrow
<1>5. plan.height * n = n * plan.height
  BY <1>2, SMT
<1>6. m * n <= Word
  BY <1>3, <1>4, <1>5, WordAssumption
<1> QED
  BY <1>6 DEF TilesNumbered, m, n

(* If there is a number for each tile, a task is known by its tile's number *)
(* and its sample range.                                                   *)
THEOREM TaskIdsIdentifyTasks ==
    ASSUME NEW plan, Legal(plan), TilesNumbered(plan)
    PROVE  TaskIdsAreUnique(plan)
<1> USE LegalDimensions
<1> SUFFICES ASSUME NEW a \in RenderTasks(plan), NEW b \in RenderTasks(plan),
                    a.tileOrdinal = b.tileOrdinal, a.sampleStart = b.sampleStart
             PROVE  a = b
  BY DEF TaskIdsAreUnique
<1>1. PICK r \in Rows(plan), c \in Columns(plan), s \in Batches(plan) :
          a = RenderTask(plan, r, c, s)
  OBVIOUS
<1>2. PICK q \in Rows(plan), d \in Columns(plan), t \in Batches(plan) :
          b = RenderTask(plan, q, d, t)
  OBVIOUS
<1> DEFINE m == Cardinality(Rows(plan))
           n == Cardinality(Columns(plan))
<1>3. n \in Nat \ {0} /\ c \in Nat /\ c < n /\ d \in Nat /\ d < n
  BY RoundsCounted DEF Columns
<1>4. m \in Nat \ {0} /\ r \in Nat /\ r < m /\ q \in Nat /\ q < m
  BY RoundsCounted DEF Rows
<1>5. r * n + c = q * n + d
  <2>1. (r * n + c) % Word = (q * n + d) % Word
    BY <1>1, <1>2 DEF RenderTask, TileOrdinal
  <2>2. m * n <= Word
    BY DEF TilesNumbered
  <2> HIDE DEF m, n
  <2>3. ASSUME NEW i \in Nat, NEW k \in Nat, i < m, k < n
        PROVE  (i * n + k) % Word = i * n + k
    <3>1. i * n + n <= m * n /\ i * n \in Nat /\ m * n \in Nat
      BY <1>3, <1>4, <2>3, StepsGrow
    <3>2. i * n + k \in Nat /\ i * n + k < Word
      BY <1>3, <2>2, <2>3, <3>1, WordAssumption
    <3> QED
      BY <3>2, SmallRemainder, WordAssumption
  <2> QED
    BY <1>3, <1>4, <2>1, <2>3
<1> HIDE DEF m, n
<1>6. r * n \in Nat /\ q * n \in Nat
  BY <1>3, <1>4, StepsGrow
<1>7. r = q /\ c = d
  <2>1. r * n < q * n + n /\ q * n < r * n + n
    BY <1>3, <1>5, <1>6
  <2>2. r <= q /\ q <= r
    BY <1>3, <1>4, <2>1, StepsGrow
  <2> QED
    BY <1>3, <1>4, <1>5, <1>6, <2>2
<1>8. s = t
  <2>1. s \in Nat /\ t \in Nat
    BY DEF Batches, Rounds
  <2>2. s * plan.samplesPerTask = t * plan.samplesPerTask
    <3>1. Position(plan.samplesPerTask, s) = Position(plan.samplesPerTask, t)
      BY <1>1, <1>2 DEF RenderTask
    <3> QED
      BY <2>1, <3>1, RoundsExact DEF Batches
  <2>3. s * plan.samplesPerTask \in Nat
    BY <2>1, StepsGrow
  <2>4. s <= t /\ t <= s
    BY <2>1, <2>2, <2>3, StepsGrow
  <2> QED
    BY <2>1, <2>4
<1> QED
  BY <1>1, <1>2, <1>7, <1>8

-----------------------------------------------------------------------------
(* The table of a running coordinator.                                     *)

\* The coordinator is beyond its task loops only if they end, and has tasks.
PlanInv ==
    /\ job \in StartJobs
    /\ coordinator.place = "endless" => ~ TableEnds
    /\ coordinator.place = "cataloguing" => Tasks # {}

\* A loop of which no position passes the end of the word ends.
LEMMA LoopsEnd ==
    ASSUME NEW limit \in Nat \ {0}, NEW step \in Nat \ {0}, limit + step <= Word
    PROVE  LoopEnds(limit, step)
<1>1. ~ (limit * step < limit)
    BY StepsGrow, limit <= limit * step, SMT
<1> QED
    BY <1>1, RoundsExact DEF LoopEnds

LEMMA TableOfJob ==
    ASSUME job \in StartJobs, NoWrap(Dimensional)
    PROVE  TableEnds
<1>1. Dimensional \in Jobs
    BY StartupAssumption DEF Dimensional, Jobs
<1>2. CASE \E d \in Dimensions : job.settings[d] = 0
    BY <1>2 DEF TableEnds
<1>3. CASE \A d \in Dimensions : job.settings[d] # 0
    <2>1. Legal(Dimensional)
        BY <1>1, <1>3 DEF Legal, Dimensional
    <2>2. /\ LoopEnds(Dimensional.height, Dimensional.tileHeight)
          /\ LoopEnds(Dimensional.width, Dimensional.tileWidth)
          /\ LoopEnds(Dimensional.samplesPerPixel, Dimensional.samplesPerTask)
        BY <2>1, LegalDimensions, LoopsEnd
    <2> QED
        BY <2>2 DEF TableEnds, Dimensional, Dimensions
<1> QED
    BY <1>2, <1>3

\* Only the start of a coordinator moves it into or out of the two places.
LEMMA OtherSteps ==
    ASSUME NEW w \in Workers,
           HandleMessage(w) \/ WorkerStep(w) \/ SendHeartbeat(w) \/ LoseConnection(w)
               \/ KillWorker(w)
    PROVE  UNCHANGED <<job, coordinator>>
<1>1. CASE HandleMessage(w)
    BY <1>1 DEF HandleMessage
<1>2. CASE WorkerStep(w)
    <2>1. ASSUME \/ StartWorker(w) \/ Register(w) \/ SyncNothing(w) \/ SkipAsset(w)
                 \/ ReplaceAsset(w) \/ TruncateAsset(w) \/ RequestChunk(w) \/ StoreChunk(w)
          PROVE  UNCHANGED <<job, coordinator>>
        BY <2>1 DEF StartWorker, Register, SyncNothing, SkipAsset, ReplaceAsset, TruncateAsset,
                    RequestChunk, StoreChunk, others
    <2>2. ASSUME \/ VerifyAsset(w) \/ UseCache(w) \/ CompareFingerprint(w) \/ LoadScene(w)
                 \/ PrepareDriver(w) \/ RequestTask(w) \/ TakeTask(w) \/ SubmitResult(w) \/ TakeAck(w)
                 \/ TakeHeartbeatAck(w) \/ GiveUp(w)
          PROVE  UNCHANGED <<job, coordinator>>
        BY <2>2 DEF VerifyAsset, UseCache, CompareFingerprint, LoadScene, PrepareDriver, RequestTask,
                    TakeTask, SubmitResult, TakeAck, TakeHeartbeatAck, GiveUp, others
    <2> QED
        BY <1>2, <2>1, <2>2 DEF WorkerStep
<1>3. CASE SendHeartbeat(w) \/ LoseConnection(w) \/ KillWorker(w)
    BY <1>3 DEF SendHeartbeat, LoseConnection, KillWorker, others
<1> QED
    BY <1>1, <1>2, <1>3

LEMMA PlanInductive == PlanInv /\ [Next]_vars => PlanInv'
<1> SUFFICES ASSUME PlanInv, [Next]_vars PROVE PlanInv'
    OBVIOUS
<1>1. ASSUME UNCHANGED <<job, coordinator>> PROVE PlanInv'
    BY <1>1 DEF PlanInv, TableEnds, Tasks, Dimensional
<1>2. CASE Fingerprinted
    <2>1. /\ UNCHANGED job
          /\ coordinator'.place = CASE ~ TableEnds -> "endless"
                                    [] TableEnds /\ Tasks = {} -> "failed"
                                    [] OTHER -> "cataloguing"
        BY <1>2 DEF Fingerprinted
    <2> QED
        BY <2>1 DEF PlanInv, TableEnds, Tasks, Dimensional
<1>3. CASE Listen
    <2>1. UNCHANGED job /\ coordinator'.place \in {"listening", "failed"}
        BY <1>3 DEF Listen
    <2> QED
        BY <2>1 DEF PlanInv
<1>4. CASE RestartCoordinator
    BY <1>4 DEF RestartCoordinator, Starting, PlanInv
<1>5. CASE EditSource
    BY <1>1, <1>5 DEF EditSource
<1>6. ASSUME NEW w \in Workers,
             HandleMessage(w) \/ WorkerStep(w) \/ SendHeartbeat(w) \/ LoseConnection(w)
                 \/ KillWorker(w)
      PROVE  PlanInv'
    BY <1>1, <1>6, OtherSteps
<1>7. CASE UNCHANGED vars
    BY <1>1, <1>7 DEF vars
<1> QED
    BY <1>2, <1>3, <1>4, <1>5, <1>6, <1>7 DEF Next, CoordinatorStep

LEMMA PlanInvGivesPlanExact == PlanInv => PlanExact
<1> SUFFICES ASSUME PlanInv, NoWrap(Dimensional)
             PROVE  /\ coordinator.place # "endless"
                    /\ coordinator.place = "cataloguing" =>
                        /\ CoversImage(Dimensional)
                        /\ TilesNumbered(Dimensional) => TaskIdsAreUnique(Dimensional)
    BY DEF PlanExact
<1>1. job \in StartJobs /\ TableEnds
    BY TableOfJob DEF PlanInv
<1>2. ASSUME Tasks # {} PROVE Legal(Dimensional)
    <2>1. Dimensional \in Jobs
        BY <1>1, StartupAssumption DEF Dimensional, Jobs
    <2> QED
        BY <1>2, <2>1 DEF Legal, Tasks, RenderTasks
<1> QED
    BY <1>1, <1>2, TasksCoverImage, TaskIdsIdentifyTasks DEF PlanInv

\* Whenever a coordinator has built its task table for a job whose loops stay within
\* a word, the tasks cover every sample of every pixel exactly once and are rendered
\* by a prepared worker, and have distinct IDs if there is a number for each tile;
\* its loops have ended.
THEOREM PlanIsExact == Spec => []PlanExact
<1>1. Init => PlanInv
    BY DEF Init, Starting, PlanInv
<1> QED
    BY <1>1, PlanInductive, PlanInvGivesPlanExact, PTL DEF Spec

-----------------------------------------------------------------------------
(* Sequences. Induction is on sets: its theorems in the library take a      *)
(* predicate as a parameter.                                                *)

\* A set of numbers that has 0 and with each number the next one has them all.
LEMMA Induction ==
    ASSUME NEW G, 0 \in G, \A n \in Nat : n \in G => n + 1 \in G
    PROVE  Nat \subseteq G
<1> SUFFICES ASSUME Nat \ G # {} PROVE FALSE
  OBVIOUS
<1> DEFINE R == {p \in Nat \X Nat : p[1] < p[2]}
           T == Nat \ G
<1>1. IsWellFoundedOn(R, Nat)
  BY NatLessThanWellFounded DEF OpToRel
<1>2. PICK n \in T : \A m \in T : ~ (<<m, n>> \in R)
  <2>1. T \subseteq Nat /\ T # {}
    OBVIOUS
  <2> HIDE DEF R, T
  <2> QED BY <1>1, <2>1, WFMin
<1>3. \A m \in T : ~ (m < n)
  BY <1>2
<1>4. n # 0 /\ n \in Nat
  OBVIOUS
<1>5. n - 1 \in Nat /\ n - 1 \notin T
  BY <1>3, <1>4
<1> QED
  BY <1>4, <1>5

\* The same, as far as n.
LEMMA InductionTo ==
    ASSUME NEW n \in Nat, NEW G, n > 0 => 1 \in G, \A m \in 1..n - 1 : m \in G => m + 1 \in G
    PROVE  1..n \subseteq G
<1> DEFINE H == {m \in Nat : m + 1 \in 1..n => m + 1 \in G}
<1>1. 0 \in H
  OBVIOUS
<1>2. \A m \in Nat : m \in H => m + 1 \in H
  OBVIOUS
<1>3. Nat \subseteq H
  <2> HIDE DEF H
  <2> QED BY <1>1, <1>2, Induction
<1> SUFFICES ASSUME NEW m \in 1..n PROVE m \in G
  OBVIOUS
<1>4. m - 1 \in H
  BY <1>3
<1> QED
  BY <1>4

\* FlattenSeq returns a sequence that has every element of every sequence.
LEMMA FlattenSeqs ==
    ASSUME NEW S, NEW seqs \in Seq(Seq(S))
    PROVE  /\ FlattenSeq(seqs) \in Seq(S)
           /\ \A i \in DOMAIN seqs : \A k \in DOMAIN seqs[i] :
                 \E l \in DOMAIN FlattenSeq(seqs) : FlattenSeq(seqs)[l] = seqs[i][k]
<1> DEFINE n == Len(seqs)
           Partial(f, m) == f = [i \in 1..m |-> IF i = 1 THEN seqs[i] ELSE f[i - 1] \o seqs[i]]
           Holds(s, m) ==
               \A i \in 1..m : \A k \in DOMAIN seqs[i] :
                  \E l \in DOMAIN s : s[l] = seqs[i][k]
           Begun == {m \in 1..n : \E f : Partial(f, m)}
<1>1. CASE n = 0
  BY <1>1 DEF FlattenSeq
<1>2. CASE n # 0
  <2>0. n \in Nat \ {0} /\ DOMAIN seqs = 1..n /\ \A i \in 1..n : seqs[i] \in Seq(S)
    BY <1>2
  <2>1. 1 \in Begun
    <3>1. Partial([i \in 1..1 |-> seqs[1]], 1)
      OBVIOUS
    <3> HIDE DEF Partial
    <3> QED
      BY <2>0, <3>1
  <2>2. ASSUME NEW m \in 1..n - 1, m \in Begun
        PROVE  m + 1 \in Begun
    <3>1. PICK f : Partial(f, m)
      <4> HIDE DEF Partial
      <4> QED BY <2>2
    <3>4. m \in Nat \ {0} /\ m + 1 \in 1..n
      <4> HIDE DEF n
      <4> QED BY <2>0
    <3> HIDE DEF n
    <3> DEFINE g == [i \in 1..m + 1 |-> IF i = m + 1 THEN f[m] \o seqs[m + 1] ELSE f[i]]
    <3>2. ASSUME NEW i \in 1..m + 1
          PROVE  g[i] = IF i = 1 THEN seqs[i] ELSE g[i - 1] \o seqs[i]
      <4>1. CASE i = m + 1
        <5>1. i # 1 /\ i - 1 = m /\ g[i] = f[m] \o seqs[m + 1] /\ m \in 1..m + 1 /\ m # m + 1
          <6>1. /\ m + 1 # 1 /\ (m + 1) - 1 = m
                /\ m \in 1..m + 1 /\ m # m + 1 /\ m + 1 \in 1..m + 1
            BY <3>4
          <6>2. g[m + 1] = f[m] \o seqs[m + 1]
            BY <6>1
          <6> HIDE DEF g
          <6> QED
            BY <4>1, <6>1, <6>2
        <5>2. g[m] = f[m]
          BY <5>1
        <5> QED
          BY <4>1, <5>1, <5>2
      <4>2. CASE i # m + 1
        <5>1. i \in 1..m /\ g[i] = f[i] /\ (i # 1 => i - 1 \in 1..m + 1 /\ i - 1 # m + 1)
          BY <4>2, <3>4
        <5>2. i # 1 => g[i - 1] = f[i - 1]
          BY <5>1
        <5>3. f[i] = IF i = 1 THEN seqs[i] ELSE f[i - 1] \o seqs[i]
          BY <5>1, <3>1
        <5> QED
          BY <5>1, <5>2, <5>3
      <4> QED
        BY <4>1, <4>2
    <3>3. Partial(g, m + 1)
      BY <3>2
    <3> HIDE DEF Partial, g
    <3> QED
      BY <3>4, <3>3
  <2>3. 1..n \subseteq Begun
    <3> HIDE DEF Begun
    <3> QED BY <2>0, <2>1, <2>2, InductionTo
  <2> DEFINE h == CHOOSE f : Partial(f, n)
  <2>4. Partial(h, n)
    <3>1. \E f : Partial(f, n)
      <4> HIDE DEF Partial, n
      <4> QED BY <2>0, <2>3
    <3> HIDE DEF Partial
    <3> QED BY <3>1
  <2>5. FlattenSeq(seqs) = h[n]
    BY <1>2 DEF FlattenSeq
  <2> HIDE DEF h
  <2>6. /\ h[1] = seqs[1]
        /\ \A m \in 1..n - 1 : h[m + 1] = h[m] \o seqs[m + 1]
    <3> HIDE DEF n
    <3>1. \A i \in 1..n : h[i] = IF i = 1 THEN seqs[i] ELSE h[i - 1] \o seqs[i]
      BY <2>4
    <3>2. 1 \in 1..n /\ \A m \in 1..n - 1 : m + 1 \in 1..n /\ m + 1 # 1 /\ (m + 1) - 1 = m
      BY <2>0
    <3> QED BY <3>1, <3>2
  <2> DEFINE Good == {m \in 1..n : h[m] \in Seq(S) /\ Holds(h[m], m)}
  <2>7. 1 \in Good
    BY <2>0, <2>6
  <2>8. ASSUME NEW m \in 1..n - 1, m \in Good
        PROVE  m + 1 \in Good
    <3> DEFINE a == h[m]
               b == seqs[m + 1]
    <3>1. a \in Seq(S) /\ b \in Seq(S) /\ Holds(a, m) /\ h[m + 1] = a \o b /\ m + 1 \in 1..n
      <4> HIDE DEF n, Holds
      <4>1. m + 1 \in 1..n
        BY <2>0
      <4>2. b \in Seq(S)
        BY <2>0, <4>1
      <4>3. a \in Seq(S) /\ Holds(a, m)
        BY <2>8
      <4> QED BY <2>6, <4>1, <4>2, <4>3
    <3> HIDE DEF a, b, n
    <3>2. /\ a \o b \in Seq(S)
          /\ DOMAIN (a \o b) = 1..Len(a) + Len(b)
          /\ DOMAIN a = 1..Len(a) /\ DOMAIN b = 1..Len(b)
          /\ Len(a) \in Nat /\ Len(b) \in Nat
          /\ \A l \in 1..Len(a) : (a \o b)[l] = a[l]
          /\ \A k \in 1..Len(b) : (a \o b)[Len(a) + k] = b[k]
      BY <3>1
    <3>3. ASSUME NEW i \in 1..m + 1, NEW k \in DOMAIN seqs[i]
          PROVE  \E l \in DOMAIN (a \o b) : (a \o b)[l] = seqs[i][k]
      <4>1. CASE i = m + 1
        <5>1. k \in 1..Len(b) /\ Len(a) + k \in 1..Len(a) + Len(b)
          BY <4>1, <3>2 DEF b
        <5> QED
          BY <4>1, <5>1, <3>2 DEF b
      <4>2. CASE i # m + 1
        <5>1. PICK l \in DOMAIN a : a[l] = seqs[i][k]
          BY <4>2, <3>1
        <5>2. l \in 1..Len(a) + Len(b)
          BY <5>1, <3>2
        <5> QED
          BY <5>1, <5>2, <3>2
      <4> QED
        BY <4>1, <4>2
    <3>4. Holds(a \o b, m + 1)
      BY <3>3
    <3> HIDE DEF Holds
    <3> QED
      BY <3>1, <3>2, <3>4
  <2>9. 1..n \subseteq Good
    <3> HIDE DEF Good
    <3> QED BY <2>0, <2>7, <2>8, InductionTo
  <2>10. n \in Good
    BY <2>0, <2>9
  <2> QED
    BY <2>0, <2>5, <2>10
<1> QED
  BY <1>1, <1>2

\* A function on 1..n is a sequence.
LEMMA FormsSequence ==
    ASSUME NEW T, NEW n \in Nat, NEW s, s = [i \in 1..n |-> s[i]], \A i \in 1..n : s[i] \in T
    PROVE  s \in Seq(T)
    OBVIOUS

\* What is left of a sequence behind a part of it.
LEMMA EndOfSequence ==
    ASSUME NEW T, NEW s \in Seq(T), NEW n \in Nat, n < Len(s)
    PROVE  SubSeq(s, n + 1, Len(s)) \in Seq(T) /\ SubSeq(s, n + 1, Len(s)) # <<>>
<1>1. SubSeq(s, n + 1, Len(s)) = [i \in 1..Len(s) - n |-> s[n + i]]
    OBVIOUS
<1> DEFINE e == [i \in 1..Len(s) - n |-> s[n + i]]
<1>2. Len(s) - n \in Nat /\ Len(s) - n > 0 /\ \A i \in 1..Len(s) - n : e[i] \in T
    OBVIOUS
<1>3. e = [i \in 1..Len(s) - n |-> e[i]]
    OBVIOUS
<1> HIDE DEF e
<1>4. e \in Seq(T)
    BY <1>2, <1>3, FormsSequence
<1>5. e # <<>>
    BY <1>2, <1>3
<1> QED
    BY <1>1, <1>4, <1>5 DEF e

\* A set of numbers that is not empty has a least one.
LEMMA SmallestExists ==
    ASSUME NEW T, T \subseteq Nat, T # {}
    PROVE  \E n \in T : \A m \in T : ~ (m < n)
<1> DEFINE R == {p \in Nat \X Nat : p[1] < p[2]}
<1>1. IsWellFoundedOn(R, Nat)
    BY NatLessThanWellFounded DEF OpToRel
<1>2. PICK n \in T : \A m \in T : ~ (<<m, n>> \in R)
    <2> HIDE DEF R
    <2> QED
        BY <1>1, WFMin
<1> QED
    BY <1>2

\* A recursion along 0..m has a solution.
IsSolvable(m, T, base, step) ==
    \E h \in [0..m -> T] : \A n \in 0..m : h[n] = IF n = 0 THEN base ELSE step[<<n, h[n - 1]>>]

LEMMA Recursion ==
    ASSUME NEW m \in Nat, NEW T, NEW base \in T, NEW step \in [Nat \X T -> T]
    PROVE  IsSolvable(m, T, base, step)
<1> DEFINE Solves(h, k) ==
              /\ h \in [0..k -> T]
              /\ \A n \in 0..k : h[n] = IF n = 0 THEN base ELSE step[<<n, h[n - 1]>>]
           Solved == {k \in Nat : \E h : Solves(h, k)}
<1>1. 0 \in Solved
    <2>1. Solves([n \in 0..0 |-> base], 0)
        OBVIOUS
    <2> HIDE DEF Solves
    <2> QED
        BY <2>1
<1>2. ASSUME NEW k \in Nat, k \in Solved PROVE k + 1 \in Solved
    <2>1. PICK h : Solves(h, k)
        <3> HIDE DEF Solves
        <3> QED
            BY <1>2
    <2> DEFINE g == [n \in 0..k + 1 |-> IF n = k + 1 THEN step[<<n, h[k]>>] ELSE h[n]]
    <2>2. /\ g[k + 1] = step[<<k + 1, h[k]>>] /\ g[k + 1] \in T
          /\ \A n \in 0..k : g[n] = h[n] /\ g[n] \in T
        <3>1. k + 1 \in 0..k + 1 /\ k \in 0..k /\ \A n \in 0..k : n \in 0..k + 1 /\ n # k + 1
            OBVIOUS
        <3>2. h[k] \in T /\ <<k + 1, h[k]>> \in Nat \X T
            BY <2>1, <3>1
        <3> QED
            BY <2>1, <3>1, <3>2
    <2>3. g \in [0..k + 1 -> T]
        <3>1. \A n \in 0..k + 1 : g[n] \in T
            <4> HIDE DEF g
            <4>1. \A n \in 0..k + 1 : n \in 0..k \/ n = k + 1
                OBVIOUS
            <4> QED
                BY <2>2, <4>1
        <3> QED
            BY <3>1
    <2>4. \A n \in 0..k + 1 : g[n] = IF n = 0 THEN base ELSE step[<<n, g[n - 1]>>]
        <3> HIDE DEF g
        <3>1. \A n \in 0..k : n # 0 => n - 1 \in 0..k
            OBVIOUS
        <3>2. \A n \in 0..k : g[n] = IF n = 0 THEN base ELSE step[<<n, g[n - 1]>>]
            BY <2>1, <2>2, <3>1
        <3>3. k + 1 # 0 /\ (k + 1) - 1 = k /\ k \in 0..k
            OBVIOUS
        <3>4. g[k + 1] = step[<<k + 1, g[k]>>]
            BY <2>2, <3>3
        <3> QED
            BY <3>2, <3>3, <3>4
    <2>5. Solves(g, k + 1)
        <3> HIDE DEF g
        <3> QED
            BY <2>3, <2>4
    <2> HIDE DEF Solves, g
    <2> QED
        BY <2>5
<1>3. m \in Solved
    <2> HIDE DEF Solved
    <2> QED
        BY <1>1, <1>2, Induction
<1> QED
    BY <1>3 DEF IsSolvable

-----------------------------------------------------------------------------
(* What a worker renders.                                                  *)

\* What a job's catalog lists, below the folder of its scene. It does not depend on the
\* bytes of the files.
Root(j) == Folder(PrimaryAsset(j.settings))
ListedPaths(j) ==
    LET primary == PrimaryAsset(j.settings)
        paths == AddedPaths(primary, Requests(j.disk, primary))
    IN  {Relative(Root(j), paths[i]) : i \in DOMAIN paths}

\* A list of files as a coordinator of job j may offer it.
IsOffer(j, files) ==
    files # <<>> =>
        /\ files \in Seq(Range(files))
        /\ \A i \in DOMAIN files : Root(j) \o files[i].relativePath \in DOMAIN j.disk
        /\ {files[i].relativePath : i \in DOMAIN files} = ListedPaths(j)
        /\ \A i, k \in DOMAIN files : files[i].relativePath = files[k].relativePath =>
              files[i].byteSize = files[k].byteSize /\ files[i].checksum = files[k].checksum

\* Only the bytes of files are edited.
OnlyBytesDiffer(j, d) ==
    /\ DOMAIN d = DOMAIN j.disk
    /\ \A path \in DOMAIN d :
          d[path].kind = j.disk[path].kind /\ d[path].requests = j.disk[path].requests

Sent(files) ==
    [i \in DOMAIN files |->
        [f \in {"relativePath", "byteSize", "checksum"} |-> files[i][f]]]

WorkerFields ==
    {"place", "settings", "fingerprint", "accepted", "next", "offset", "synchronized", "loaded",
     "driver", "task"}

StartupTypes ==
    /\ job \in StartJobs
    /\ DOMAIN coordinator = {"place", "fingerprint", "catalog"}
    /\ DOMAIN connection = Workers /\ DOMAIN worker = Workers
    /\ \A w \in Workers : DOMAIN worker[w] = WorkerFields
    /\ DOMAIN cache = {CacheOf[w] : w \in Workers}

\* The catalog is one of the job, from whatever the disk held.
CatalogOfJob ==
    /\ OnlyBytesDiffer(job, disk)
    /\ IsOffer(job, coordinator.catalog.files)
    /\ \A c \in DOMAIN cache : \A key \in DOMAIN cache[c] :
          key[2] \in ListedPaths(job) /\ Root(job) \o key[2] \in DOMAIN job.disk

\* What a message to a worker says of the coordinator.
TrueOf(m) ==
    /\ m.type = "TaskAssignment" => m.jobFingerprint = coordinator.fingerprint
    /\ m.type = "ResultAck" /\ m.hasNextTask => m.jobFingerprint = coordinator.fingerprint
    /\ Accepted(m) =>
          /\ m.jobFingerprint = coordinator.fingerprint
          /\ m.assets = Sent(coordinator.catalog.files)

\* What is under way to the worker is true of the coordinator.
SpeaksForCoordinator(w) ==
    /\ connection[w].to # "closed" => coordinator.place = "listening"
    /\ connection[w].to = "worker" => TrueOf(connection[w].m)

\* The places by what a worker has there: the answer to hello, the scene, a file to
\* fetch.
Registered ==
    {"syncing", "replacing", "fetching", "awaitingChunk", "verifying", "comparing", "loading"}
Loaded == {"preparing", "asking", "awaitingTask", "rendering", "beating", "awaitingAck"}
Transferring == {"replacing", "fetching", "awaitingChunk", "verifying"}

\* A worker whose connection is open has what this coordinator sent.
KnowsCoordinator(w) ==
    LET me == worker[w] IN
    connection[w].to # "closed" =>
        /\ me.place \in Registered \cup Loaded =>
             /\ me.accepted.jobFingerprint = coordinator.fingerprint
             /\ me.accepted.assets = Sent(coordinator.catalog.files)
        /\ me.place \in {"rendering", "beating"} =>
             me.task.jobFingerprint = coordinator.fingerprint
        /\ connection[w].to = "session" /\ connection[w].m.type = "TaskResult" =>
             me.place = "awaitingAck" /\ me.driver = coordinator.fingerprint

\* The scene has the fingerprint of the files until the renderer has taken it, and
\* from then on the one it took.
FingerprintOfScene(w) ==
    LET loaded == worker[w].loaded IN
    Fingerprint(worker[w].settings, [path \in DOMAIN loaded |-> [bytes |-> loaded[path]]])

LoadedFingerprint(w) ==
    LET me == worker[w] IN
    me.place \in Loaded /\ PrimaryAsset(me.settings) # NoPath =>
        FingerprintOfScene(w) =
            IF me.place = "preparing" THEN Fingerprint(me.settings, View(w)) ELSE me.driver

\* File i of the transfer is in the worker's cache.
Fetched(w, i) ==
    LET file == worker[w].accepted.assets[i]
        key == <<worker[w].accepted.jobFingerprint, file.relativePath>>
        files == cache[CacheOf[w]]
    IN  /\ key \in DOMAIN files
        /\ Len(files[key]) = file.byteSize /\ Checksum(files[key]) = file.checksum

\* How far the transfer is; what it has to fetch is none of the files it has.
TransferExact(w) ==
    LET me == worker[w]
        assets == me.accepted.assets
    IN  /\ me.place \in Registered \cup Loaded => IsOffer(job, assets)
        /\ me.place = "registering" => me.next = 1
        /\ me.place \in Registered => me.next \in Nat \ {0}
        /\ me.place \in {"syncing"} \cup Transferring =>
             \A i \in DOMAIN assets : i < me.next => Fetched(w, i)
        /\ me.place \in Transferring =>
             /\ me.next \in DOMAIN assets
             /\ \A i \in DOMAIN assets : i < me.next =>
                   assets[i].relativePath # assets[me.next].relativePath
        /\ me.place \in {"comparing", "loading"} /\ me.synchronized =>
             /\ assets # <<>>
             /\ \A i \in DOMAIN assets : Fetched(w, i)
        /\ me.place \in {"registering", "syncing"} \cup Transferring => ~ me.synchronized
        /\ me.place \in Loaded /\ me.synchronized =>
             \A path \in DOMAIN me.loaded : \E i \in DOMAIN assets :
                 /\ assets[i].relativePath = path /\ assets[i].byteSize = Len(me.loaded[path])
                 /\ assets[i].checksum = Checksum(me.loaded[path])

\* The inductive invariant.
StartupIInv ==
    /\ StartupTypes
    /\ CatalogOfJob
    /\ \A w \in Workers :
          /\ SpeaksForCoordinator(w) /\ KnowsCoordinator(w)
          /\ LoadedFingerprint(w) /\ TransferExact(w)

\* The steps about a worker.
Steps(w) ==
    \/ HandleMessage(w) \/ WorkerStep(w) \/ SendHeartbeat(w)
    \/ LoseConnection(w) \/ KillWorker(w)

-----------------------------------------------------------------------------
(* The catalog.                                                            *)

\* The requests of a scene come one after the other. Each is from the folder of the
\* primary file or, in an OBJ scene, from that of one of its libraries.
RequestFolders(d, primary) ==
    {Folder(primary)} \cup
    {Folder(Normal(Folder(primary) \o d[primary].requests[i])) :
        i \in {k \in DOMAIN d[primary].requests : d[primary].kind = "obj"}}

LEMMA RequestsInOrder ==
    ASSUME NEW d, \A path \in DOMAIN d : d[path].requests \in Seq(Seq(Nat)),
           NEW primary \in DOMAIN d,
           d[primary].kind = "obj" => LibrariesOpen(d, primary)
    PROVE  /\ Requests(d, primary) \in Seq([root : RequestFolders(d, primary), path : Seq(Nat)])
           /\ d[primary].kind \in {"obj", "gltf"} =>
                 \A i \in DOMAIN d[primary].requests :
                    \E n \in DOMAIN Requests(d, primary) : Requests(d, primary)[n] =
                       [root |-> Folder(primary), path |-> d[primary].requests[i]]
           /\ d[primary].kind = "obj" =>
                 \A i \in DOMAIN d[primary].requests :
                    LET library == Normal(Folder(primary) \o d[primary].requests[i]) IN
                    \A k \in DOMAIN d[library].requests :
                       \E n \in DOMAIN Requests(d, primary) : Requests(d, primary)[n] =
                          [root |-> Folder(library), path |-> d[library].requests[k]]
<1> DEFINE named == d[primary].requests
           libraries == In(Folder(primary), named)
           found(i) == Normal(Folder(primary) \o named[i])
           textures == [i \in DOMAIN libraries |-> In(Folder(found(i)), d[found(i)].requests)]
           folders == RequestFolders(d, primary)
           S == [root : folders, path : Seq(Nat)]
<1>1. named \in Seq(Seq(Nat)) /\ DOMAIN libraries = DOMAIN named
    BY DEF In
<1>2. ASSUME NEW root \in folders, NEW paths \in Seq(Seq(Nat)) PROVE In(root, paths) \in Seq(S)
    <2> HIDE DEF folders
    <2>1. /\ In(root, paths) = [i \in 1..Len(paths) |-> In(root, paths)[i]]
          /\ Len(paths) \in Nat
          /\ \A i \in 1..Len(paths) : In(root, paths)[i] \in S
        BY DEF In
    <2> QED
        BY <2>1, FormsSequence
<1>3. libraries \in Seq(S)
    <2>1. Folder(primary) \in folders
        BY DEF RequestFolders
    <2> HIDE DEF folders, S
    <2> QED
        BY <1>1, <1>2, <2>1
<1>4. \A i \in DOMAIN named :
         libraries[i] = [root |-> Folder(primary), path |-> named[i]]
    BY DEF In
<1>5. ASSUME d[primary].kind = "obj"
      PROVE  /\ \A i \in DOMAIN named : found(i) \in DOMAIN d
             /\ textures \in Seq(Seq(S)) /\ DOMAIN textures = DOMAIN named
             /\ Requests(d, primary) = libraries \o FlattenSeq(textures)
    <2>1. \A i \in DOMAIN named : found(i) \in DOMAIN d
        BY <1>5 DEF LibrariesOpen
    <2>2. ASSUME NEW i \in DOMAIN libraries PROVE textures[i] \in Seq(S)
        <3>1. Folder(found(i)) \in folders
            BY <1>1, <1>5, <2>2 DEF RequestFolders
        <3> HIDE DEF found, folders, S, named
        <3> QED
            BY <1>1, <1>2, <2>1, <2>2, <3>1
    <2>3. DOMAIN libraries = 1..Len(libraries) /\ Len(libraries) \in Nat
        BY <1>3
    <2>4. textures = [i \in 1..Len(libraries) |-> textures[i]] /\ DOMAIN textures = DOMAIN named
        BY <1>1, <2>3
    <2>5. textures \in Seq(Seq(S))
        <3> HIDE DEF textures, S, libraries
        <3> QED
            BY <2>2, <2>3, <2>4, FormsSequence
    <2>6. textures = [i \in DOMAIN libraries |->
                        In(Folder(PathOf(libraries[i])), d[PathOf(libraries[i])].requests)]
        <3>1. ASSUME NEW i \in DOMAIN libraries PROVE PathOf(libraries[i]) = found(i)
            <4>1. libraries[i] = [root |-> Folder(primary), path |-> named[i]]
                BY <1>1, <1>4
            <4> HIDE DEF libraries, named
            <4>2. libraries[i].root = Folder(primary) /\ libraries[i].path = named[i]
                BY <4>1
            <4> QED
                BY <4>2 DEF PathOf
        <3> HIDE DEF libraries, found
        <3> QED
            BY <3>1
    <2>7. Requests(d, primary) = libraries \o FlattenSeq(textures)
        BY <1>5, <2>6 DEF Requests, ObjRequests
    <2> QED
        BY <2>1, <2>4, <2>5, <2>7
<1>6. CASE d[primary].kind = "obj"
    <2> DEFINE more == FlattenSeq(textures)
    <2>1. /\ more \in Seq(S)
          /\ \A i \in DOMAIN textures : \A k \in DOMAIN textures[i] :
                \E l \in DOMAIN more : more[l] = textures[i][k]
        <3> HIDE DEF textures, S
        <3> QED
            BY <1>5, <1>6, FlattenSeqs
    <2>2. Requests(d, primary) = libraries \o more
        BY <1>5, <1>6
    <2>3. /\ libraries \o more \in Seq(S)
          /\ \A i \in DOMAIN libraries : /\ i \in DOMAIN (libraries \o more)
                                         /\ (libraries \o more)[i] = libraries[i]
          /\ \A l \in DOMAIN more : /\ Len(libraries) + l \in DOMAIN (libraries \o more)
                                    /\ (libraries \o more)[Len(libraries) + l] = more[l]
        <3> HIDE DEF libraries, more, S
        <3> QED
            BY <1>3, <2>1
    <2>4. ASSUME NEW i \in DOMAIN named
          PROVE  \E n \in DOMAIN Requests(d, primary) : Requests(d, primary)[n] =
                    [root |-> Folder(primary), path |-> named[i]]
        <3> HIDE DEF libraries, more, named
        <3> QED
            BY <1>1, <1>4, <2>2, <2>3, <2>4
    <2>5. ASSUME NEW i \in DOMAIN named, NEW k \in DOMAIN d[found(i)].requests
          PROVE  \E n \in DOMAIN Requests(d, primary) : Requests(d, primary)[n] =
                    [root |-> Folder(found(i)), path |-> d[found(i)].requests[k]]
        <3>1. /\ i \in DOMAIN textures /\ k \in DOMAIN textures[i]
              /\ textures[i][k] = [root |-> Folder(found(i)), path |-> d[found(i)].requests[k]]
            <4>1. textures[i] = In(Folder(found(i)), d[found(i)].requests)
                BY <1>1, <2>5
            <4> HIDE DEF textures, found
            <4> QED
                BY <1>5, <1>6, <2>5, <4>1 DEF In
        <3>2. PICK l \in DOMAIN more : more[l] = textures[i][k]
            <4> HIDE DEF textures, more
            <4> QED
                BY <2>1, <3>1
        <3> HIDE DEF libraries, more, textures, found, named
        <3> QED
            BY <2>2, <2>3, <3>1, <3>2
    <2> QED
        BY <1>6, <2>2, <2>3, <2>4, <2>5
<1>7. CASE d[primary].kind = "gltf"
    <2>1. Requests(d, primary) = libraries
        BY <1>7 DEF Requests
    <2> QED
        BY <1>1, <1>3, <1>4, <1>7, <2>1
<1>8. CASE d[primary].kind \notin {"obj", "gltf"}
    BY <1>8 DEF Requests
<1> QED
    BY <1>6, <1>7, <1>8

\* The added paths too; the primary file is the first.
LEMMA AddedInOrder ==
    ASSUME NEW primary, NEW S, NEW requests \in Seq(S)
    PROVE  /\ AddedPaths(primary, requests) \in Seq(Range(AddedPaths(primary, requests)))
           /\ 1 \in DOMAIN AddedPaths(primary, requests)
<1> DEFINE added == {i \in DOMAIN requests :
                       /\ requests[i].path # NoPath /\ KeyOf(requests[i]) # <<Last(primary)>>
                       /\ \A j \in 1..i - 1 : requests[j].path # NoPath =>
                             KeyOf(requests[j]) # KeyOf(requests[i])}
           nth(n) == CHOOSE i \in added : Cardinality({j \in added : j < i}) = n - 1
           more == [n \in 1..Cardinality(added) |-> PathOf(requests[nth(n)])]
<1>1. Cardinality(added) \in Nat
    <2>1. added \subseteq 1..Len(requests) /\ Len(requests) \in Nat
        OBVIOUS
    <2>2. IsFiniteSet(1..Len(requests))
        BY <2>1, FS_Interval
    <2> HIDE DEF added
    <2> QED
        BY <2>1, <2>2, FS_Subset, FS_CardinalityType
<1>2. AddedPaths(primary, requests) = <<primary>> \o more
    BY DEF AddedPaths
<1>3. \E T : more \in Seq(T)
    <2> DEFINE T == {PathOf(requests[nth(n)]) : n \in 1..Cardinality(added)}
    <2>1. \A n \in 1..Cardinality(added) : more[n] \in T
        OBVIOUS
    <2>2. more = [n \in 1..Cardinality(added) |-> more[n]]
        OBVIOUS
    <2> HIDE DEF T, added, nth, more
    <2> QED
        BY <1>1, <2>1, <2>2, FormsSequence
<1> HIDE DEF more
<1>4. PICK T : more \in Seq(T)
    BY <1>3
<1>5. <<primary>> \o more \in Seq(T \cup {primary}) /\ 1 \in DOMAIN (<<primary>> \o more)
    BY <1>4
<1> DEFINE all == <<primary>> \o more
<1>6. all \in Seq(Range(all))
    <2> HIDE DEF all
    <2>1. all \in Seq(T \cup {primary})
        BY <1>5 DEF all
    <2> QED
        BY <2>1 DEF Range
<1> QED
    BY <1>2, <1>5, <1>6

\* What lies below a folder is told apart by the path from there.
LEMMA RelativeIsInjective ==
    ASSUME NEW S, NEW root \in Seq(S), NEW p \in Seq(S), NEW q \in Seq(S), IsPrefix(root, p)
    PROVE  /\ root \o Relative(root, p) = p
           /\ IsPrefix(root, q) /\ Relative(root, p) = Relative(root, q) => p = q
<1>1. ASSUME NEW r \in Seq(S), IsPrefix(root, r) PROVE root \o Relative(root, r) = r
    BY <1>1 DEF IsPrefix, Relative, Drop
<1> QED
    BY <1>1

\* Editing files does not change what is requested.
LEMMA SameRequests ==
    ASSUME NEW j, NEW d, OnlyBytesDiffer(j, d), NEW primary \in DOMAIN d,
           d[primary].kind = "obj" => LibrariesOpen(d, primary)
    PROVE  Requests(d, primary) = Requests(j.disk, primary)
<1>1. d[primary].kind = j.disk[primary].kind /\ d[primary].requests = j.disk[primary].requests
    BY DEF OnlyBytesDiffer
<1>2. CASE d[primary].kind # "obj"
    BY <1>1, <1>2 DEF Requests
<1>3. CASE d[primary].kind = "obj"
    <2> DEFINE libraries == In(Folder(primary), d[primary].requests)
               found(i) == PathOf(libraries[i])
    <2>1. \A i \in DOMAIN libraries : d[found(i)].requests = j.disk[found(i)].requests
        <3>1. \A i \in DOMAIN libraries : found(i) \in DOMAIN d
            BY <1>3 DEF LibrariesOpen, PathOf, In
        <3> HIDE DEF libraries
        <3> QED
            BY <3>1 DEF OnlyBytesDiffer
    <2>2. [i \in DOMAIN libraries |-> In(Folder(found(i)), d[found(i)].requests)]
            = [i \in DOMAIN libraries |-> In(Folder(found(i)), j.disk[found(i)].requests)]
        <3> HIDE DEF libraries, found
        <3> QED
            BY <2>1
    <2>3. ObjRequests(d, primary) = ObjRequests(j.disk, primary)
        BY <1>1, <2>2 DEF ObjRequests
    <2> QED
        BY <1>1, <1>3, <2>3 DEF Requests
<1> QED
    BY <1>2, <1>3

\* A catalog built at any time is one that the job may offer.
LEMMA CatalogIsOffer ==
    ASSUME NEW j \in StartJobs, NEW d, OnlyBytesDiffer(j, d)
    PROVE  IsOffer(j, BuildAssetCatalog(j.settings, d).files)
<1> DEFINE primary == PrimaryAsset(j.settings)
           root == Root(j)
           requests == Requests(d, primary)
           paths == AddedPaths(primary, requests)
           files == [i \in DOMAIN paths |-> Descriptor(d, root, paths[i])]
           built == BuildAssetCatalog(j.settings, d).files
<1>1. CASE built = <<>>
    BY <1>1 DEF IsOffer
<1>2. CASE built # <<>>
    <2>1. /\ primary # NoPath /\ primary \in DOMAIN d
          /\ d[primary].kind = "obj" => LibrariesOpen(d, primary)
          /\ \A i \in DOMAIN paths : IsPrefix(root, paths[i]) /\ paths[i] \in DOMAIN d
          /\ built = files
        BY <1>2 DEF BuildAssetCatalog, NoCatalog, Root
    <2>2. /\ DOMAIN d = DOMAIN j.disk /\ DOMAIN d \subseteq Seq(Nat) \ {NoPath}
          /\ \A path \in DOMAIN d : d[path].requests \in Seq(Seq(Nat))
        BY StartupAssumption DEF IsDisk, IsFile, OnlyBytesDiffer, Up
    <2>3. requests = Requests(j.disk, primary)
        BY <2>1, SameRequests
    <2>4. paths \in Seq(Range(paths)) /\ 1 \in DOMAIN paths
        <3>1. \E S : requests \in Seq(S)
            BY <2>1, <2>2, RequestsInOrder
        <3> QED
            BY <3>1, AddedInOrder
    <2>5. root \in Seq(Nat)
        BY <2>1, <2>2 DEF Root, Folder, Front, NoPath
    <2>6. ListedPaths(j) = {Relative(root, paths[i]) : i \in DOMAIN paths}
        BY <2>3 DEF ListedPaths
    <2> HIDE DEF paths, root, primary
    <2>7. files \in Seq(Range(files))
        <3>1. files = [i \in 1..Len(paths) |-> files[i]] /\ Len(paths) \in Nat
            BY <2>4
        <3>2. \A i \in 1..Len(paths) : files[i] \in Range(files)
            BY <2>4 DEF Range
        <3> HIDE DEF files
        <3> QED
            BY <3>1, <3>2, FormsSequence
    <2>8. \A i \in DOMAIN files : /\ files[i].relativePath = Relative(root, paths[i])
                                  /\ files[i].byteSize = Len(d[paths[i]].bytes)
                                  /\ files[i].checksum = Checksum(d[paths[i]].bytes)
        BY DEF Descriptor
    <2>9. \A i \in DOMAIN paths :
             /\ root \o Relative(root, paths[i]) = paths[i]
             /\ \A k \in DOMAIN paths :
                   Relative(root, paths[i]) = Relative(root, paths[k]) => paths[i] = paths[k]
        BY <2>1, <2>2, <2>5, RelativeIsInjective
    <2>10. DOMAIN files = DOMAIN paths
        OBVIOUS
    <2> HIDE DEF files
    <2>11. ASSUME NEW i \in DOMAIN files PROVE root \o files[i].relativePath \in DOMAIN j.disk
        <3>1. root \o files[i].relativePath = paths[i]
            BY <2>8, <2>9, <2>10
        <3> QED
            BY <2>1, <2>2, <2>10, <3>1
    <2>12. {files[i].relativePath : i \in DOMAIN files} = ListedPaths(j)
        BY <2>6, <2>8, <2>10
    <2>13. \A i, k \in DOMAIN files : files[i].relativePath = files[k].relativePath =>
              files[i].byteSize = files[k].byteSize /\ files[i].checksum = files[k].checksum
        BY <2>8, <2>9, <2>10
    <2> QED
        BY <2>1, <2>7, <2>11, <2>12, <2>13 DEF IsOffer, root
<1> QED
    BY <1>1, <1>2

-----------------------------------------------------------------------------
(* The catalog is complete.                                                *)

\* A path without its ".." is a path.
LEMMA NormalIsPath ==
    ASSUME NEW path \in Seq(Nat)
    PROVE  Normal(path) \in Seq(Nat)
<1> DEFINE m == Len(path)
           T == Seq(Nat)
           step == [a \in Nat \X T |-> IF a[1] \in 1..m THEN Enter(a[2], path[a[1]]) ELSE <<>>]
           Def(h) == h = [n \in 0..m |-> IF n = 0 THEN <<>> ELSE Enter(h[n - 1], path[n])]
           done == CHOOSE h : Def(h)
<1>1. ASSUME NEW s \in T, NEW name \in Nat PROVE Enter(s, name) \in T
    BY DEF Enter, Front
<1>2. m \in Nat /\ \A n \in 1..m : path[n] \in Nat
    OBVIOUS
<1>3. step \in [Nat \X T -> T]
    <2>1. \A a \in Nat \X T : (IF a[1] \in 1..m THEN Enter(a[2], path[a[1]]) ELSE <<>>) \in T
        <3> HIDE DEF m
        <3>1. <<>> \in T
            OBVIOUS
        <3> HIDE DEF T
        <3> QED
            BY <1>1, <1>2, <3>1
    <2> HIDE DEF T, m
    <2> QED
        BY <2>1
<1>4. PICK h \in [0..m -> T] :
         \A n \in 0..m : h[n] = IF n = 0 THEN <<>> ELSE step[<<n, h[n - 1]>>]
    <2>1. <<>> \in T
        OBVIOUS
    <2>2. m \in Nat
        BY <1>2
    <2> HIDE DEF T, m, step
    <2>3. IsSolvable(m, T, <<>>, step)
        BY <1>3, <2>1, <2>2, Recursion
    <2> QED
        BY <2>3 DEF IsSolvable
<1>5. Def(h)
    <2> HIDE DEF m, T
    <2>1. ASSUME NEW n \in 0..m, n # 0 PROVE h[n] = Enter(h[n - 1], path[n])
        <3>1. n \in 1..m /\ n - 1 \in 0..m /\ n \in Nat
            BY <1>2, <2>1
        <3>2. h[n - 1] \in T
            BY <3>1
        <3>3. step[<<n, h[n - 1]>>] = Enter(h[n - 1], path[n])
            BY <3>1, <3>2
        <3> QED
            BY <1>4, <2>1, <3>3
    <2>2. \A n \in 0..m : h[n] = IF n = 0 THEN <<>> ELSE Enter(h[n - 1], path[n])
        BY <1>4, <2>1
    <2> QED
        BY <2>2
<1>6. Def(done)
    <2> HIDE DEF Def
    <2> QED
        BY <1>5
<1>7. Normal(path) = done[m]
    BY DEF Normal
<1> HIDE DEF done
<1> DEFINE Good == {n \in Nat : n \in 0..m => done[n] \in T}
<1>8. 0 \in Good
    <2>1. 0 \in 0..m => done[0] = <<>>
        BY <1>6
    <2>2. <<>> \in T
        OBVIOUS
    <2> HIDE DEF T
    <2> QED
        BY <2>1, <2>2
<1>9. ASSUME NEW n \in Nat, n \in Good PROVE n + 1 \in Good
    <2> SUFFICES ASSUME n + 1 \in 0..m PROVE done[n + 1] \in T
        OBVIOUS
    <2> HIDE DEF m, T
    <2>1. n + 1 # 0 /\ n + 1 - 1 = n /\ n \in 0..m /\ n + 1 \in 1..m
        BY <1>2
    <2>2. done[n + 1] = Enter(done[n], path[n + 1])
        BY <1>6, <2>1
    <2>3. done[n] \in T
        BY <1>9, <2>1
    <2> QED
        BY <1>1, <1>2, <2>1, <2>2, <2>3
<1>10. m \in Good
    <2> HIDE DEF Good
    <2> QED
        BY <1>2, <1>8, <1>9, Induction
<1> QED
    BY <1>2, <1>7, <1>10

\* Every path that is requested below the folder of the primary file is added.
LEMMA AddedComplete ==
    ASSUME NEW primary \in Seq(Nat) \ {NoPath}, NEW S, NEW requests \in Seq(S),
           NEW i \in DOMAIN requests, requests[i].path # NoPath,
           \A k \in DOMAIN requests : requests[k].path # NoPath =>
              /\ requests[k].root = Folder(primary) /\ PathOf(requests[k]) \in Seq(Nat)
              /\ IsPrefix(Folder(primary), PathOf(requests[k]))
    PROVE  \E n \in DOMAIN AddedPaths(primary, requests) :
              AddedPaths(primary, requests)[n] = PathOf(requests[i])
<1> DEFINE root == Folder(primary)
           added == {k \in DOMAIN requests :
                       /\ requests[k].path # NoPath /\ KeyOf(requests[k]) # <<Last(primary)>>
                       /\ \A j \in 1..k - 1 : requests[j].path # NoPath =>
                             KeyOf(requests[j]) # KeyOf(requests[k])}
           before(k) == {j \in added : j < k}
           nth(n) == CHOOSE k \in added : Cardinality(before(k)) = n - 1
           c == Cardinality(added)
           more == [n \in 1..c |-> PathOf(requests[nth(n)])]
           paths == <<primary>> \o more
<1>1. AddedPaths(primary, requests) = paths
    BY DEF AddedPaths
<1>2. /\ DOMAIN requests = 1..Len(requests) /\ Len(requests) \in Nat
      /\ DOMAIN requests \subseteq Nat
    OBVIOUS
<1>3. IsFiniteSet(added) /\ added \subseteq DOMAIN requests /\ c \in Nat
    <2>1. added \subseteq 1..Len(requests)
        BY <1>2
    <2>2. IsFiniteSet(1..Len(requests))
        BY <1>2, FS_Interval
    <2> HIDE DEF added
    <2> QED
        BY <1>2, <2>1, <2>2, FS_Subset, FS_CardinalityType
\* The paths behind the primary file are those of the added requests.
<1>4. ASSUME NEW k \in added PROVE \E n \in 1..c : nth(n) = k
    <2>1. ASSUME NEW j \in added
          PROVE  /\ before(j) \subseteq added /\ IsFiniteSet(before(j))
                 /\ Cardinality(before(j)) \in Nat /\ Cardinality(before(j)) < c
        <3>1. before(j) \subseteq added /\ j \in added /\ j \notin before(j)
            <4>1. j \in Nat
                BY <1>2, <1>3
            <4> HIDE DEF added
            <4> QED
                BY <4>1
        <3> HIDE DEF added, before
        <3>2. IsFiniteSet(before(j)) /\ Cardinality(before(j)) \in Nat
            BY <1>3, <3>1, FS_Subset, FS_CardinalityType
        <3>3. Cardinality(before(j)) <= c /\ Cardinality(before(j)) # c
            BY <1>3, <3>1, FS_Subset DEF c
        <3> QED
            BY <1>3, <3>1, <3>2, <3>3
    <2>2. ASSUME NEW j \in added, Cardinality(before(j)) = Cardinality(before(k)) PROVE j = k
        <3>1. ASSUME NEW a \in added, NEW b \in added, a < b
              PROVE  Cardinality(before(a)) # Cardinality(before(b))
            <4>1. before(a) \subseteq before(b) /\ a \in before(b) /\ a \notin before(a)
                <5>1. added \subseteq Nat
                    BY <1>2, <1>3
                <5> HIDE DEF added
                <5>2. a \in Nat /\ b \in Nat /\ a \in added /\ b \in added
                    BY <5>1
                <5>3. ASSUME NEW d \in before(a) PROVE d \in before(b)
                    <6>1. d \in added /\ d < a /\ d \in Nat
                        BY <5>1
                    <6>2. d < b
                        BY <3>1, <5>2, <6>1
                    <6> QED
                        BY <6>1, <6>2
                <5>4. a \in before(b) /\ a \notin before(a)
                    BY <3>1, <5>2
                <5> QED
                    BY <5>3, <5>4
            <4> HIDE DEF before, added
            <4> QED
                BY <2>1, <4>1, FS_Subset
        <3>2. j \in Nat /\ k \in Nat
            BY <1>2, <1>3
        <3>3. ~ (j < k) /\ ~ (k < j)
            <4> HIDE DEF before, added
            <4> QED
                BY <2>2, <3>1
        <3> QED
            BY <3>2, <3>3
    <2> DEFINE n == Cardinality(before(k)) + 1
    <2> HIDE DEF added, before, c
    <2>3. n \in 1..c /\ n - 1 = Cardinality(before(k))
        BY <1>3, <2>1
    <2>4. nth(n) = k
        BY <2>2, <2>3
    <2> HIDE DEF n, nth
    <2> QED
        BY <2>3, <2>4
<1>5. /\ DOMAIN paths = 1..c + 1 /\ paths[1] = primary
      /\ \A n \in 1..c : n + 1 \in 1..c + 1 /\ paths[n + 1] = more[n]
    <2>1. Len(more) = c /\ more \in Seq({more[n] : n \in 1..c})
        <3>1. more = [n \in 1..c |-> more[n]]
            OBVIOUS
        <3>2. \A n \in 1..c : more[n] \in {more[k] : k \in 1..c}
            OBVIOUS
        <3> HIDE DEF more, c
        <3>3. more \in Seq({more[n] : n \in 1..c})
            BY <1>3, <3>1, <3>2, FormsSequence
        <3> QED
            BY <1>3, <3>1, <3>3
    <2> HIDE DEF more, c
    <2> QED
        BY <1>3, <2>1
<1>6. root \in Seq(Nat) /\ root \o <<Last(primary)>> = primary
    BY DEF Folder, Front, Last, NoPath
<1>7. ASSUME NEW k \in DOMAIN requests, requests[k].path # NoPath
      PROVE  root \o KeyOf(requests[k]) = PathOf(requests[k])
    BY <1>6, <1>7, RelativeIsInjective DEF KeyOf
<1>8. CASE KeyOf(requests[i]) = <<Last(primary)>>
    <2>1. PathOf(requests[i]) = primary
        BY <1>6, <1>7, <1>8
    <2> HIDE DEF paths
    <2>2. 1 \in DOMAIN paths
        BY <1>3, <1>5
    <2> QED
        BY <1>1, <1>5, <2>1, <2>2
<1>9. CASE KeyOf(requests[i]) # <<Last(primary)>>
    <2> DEFINE same == {k \in DOMAIN requests :
                          requests[k].path # NoPath /\ KeyOf(requests[k]) = KeyOf(requests[i])}
    <2>1. PICK k \in same : \A j \in same : ~ (j < k)
        <3>1. same \subseteq Nat /\ i \in same
            BY <1>2
        <3> HIDE DEF same
        <3> QED
            BY <3>1, SmallestExists
    <2>2. k \in added
        <3>1. \A j \in 1..k - 1 : j \in DOMAIN requests /\ j < k
            BY <1>2
        <3> QED
            BY <1>9, <2>1, <3>1
    <2>3. PathOf(requests[k]) = PathOf(requests[i])
        BY <1>7, <2>1
    <2>4. PICK n \in 1..c : nth(n) = k
        <3> HIDE DEF nth, c, added
        <3> QED
            BY <1>4, <2>2
    <2>5. more[n] = PathOf(requests[i])
        <3> HIDE DEF nth, c
        <3> QED
            BY <2>3, <2>4
    <2> HIDE DEF paths, more, c
    <2> QED
        BY <1>1, <1>5, <2>5
<1> QED
    BY <1>8, <1>9

\* What a catalog of the job holds, whatever the bytes of the files were.
LEMMA CatalogIsComplete ==
    ASSUME NEW j \in StartJobs, NEW d, OnlyBytesDiffer(j, d)
    PROVE  LET catalog == BuildAssetCatalog(j.settings, d) IN
           /\ NamesWhatIsLoaded(catalog, j.settings, j.disk)
           /\ \A i \in DOMAIN catalog.files : SafePath(catalog.files[i].relativePath)
<1> DEFINE catalog == BuildAssetCatalog(j.settings, d)
           primary == PrimaryAsset(j.settings)
           root == Folder(primary)
           requests == Requests(d, primary)
           paths == AddedPaths(primary, requests)
           files == [i \in DOMAIN paths |-> Descriptor(d, root, paths[i])]
           named == j.disk[primary].requests
<1>1. CASE ~ (catalog.ok /\ primary # NoPath)
    <2>1. catalog.files = <<>>
        BY <1>1 DEF BuildAssetCatalog, NoCatalog
    <2>2. NamesWhatIsLoaded(catalog, j.settings, j.disk)
        <3> HIDE DEF catalog
        <3> QED
            BY <1>1 DEF NamesWhatIsLoaded
    <2>3. \A i \in DOMAIN catalog.files : SafePath(catalog.files[i].relativePath)
        <3> HIDE DEF catalog
        <3> QED
            BY <2>1
    <2> QED
        BY <2>2, <2>3
<1>2. CASE catalog.ok /\ primary # NoPath
    <2>1. /\ primary \in DOMAIN d
          /\ d[primary].kind = "obj" => LibrariesOpen(d, primary)
          /\ \A i \in DOMAIN requests : StaysBelow(requests[i])
          /\ \A i \in DOMAIN paths : IsPrefix(root, paths[i]) /\ paths[i] \in DOMAIN d
          /\ catalog.files = files
        BY <1>2 DEF BuildAssetCatalog, NoCatalog
    <2>2. /\ DOMAIN d = DOMAIN j.disk /\ DOMAIN d \subseteq Seq(Nat \ {Up}) \ {NoPath}
          /\ \A path \in DOMAIN d : /\ d[path].kind = j.disk[path].kind
                                    /\ d[path].requests = j.disk[path].requests
                                    /\ d[path].requests \in Seq(Seq(Nat))
                                    /\ j.disk[path].mapKd \subseteq DOMAIN d[path].requests
          /\ \A path \in DOMAIN d : \A other \in DOMAIN d :
                IsPrefix(path, other) => other = path
        BY StartupAssumption DEF IsDisk, IsFile, OnlyBytesDiffer
    <2>3. DOMAIN d \subseteq Seq(Nat)
        BY <2>2
    <2>4. primary \in Seq(Nat) \ {NoPath} /\ root \in Seq(Nat)
        BY <1>2, <2>1, <2>3 DEF Folder, Front, NoPath
    <2>5. DOMAIN files = DOMAIN paths
        OBVIOUS
    <2>6. \A i \in DOMAIN files : /\ files[i].relativePath = Relative(root, paths[i])
                                  /\ files[i].sourcePath = paths[i]
        BY DEF Descriptor
    \* No worker refuses a path.
    <2>7. ASSUME NEW i \in DOMAIN files PROVE SafePath(files[i].relativePath)
        <3> DEFINE path == paths[i]
        <3>1. path \in Seq(Nat \ {Up}) /\ IsPrefix(root, path) /\ path \in DOMAIN d
            BY <2>1, <2>2, <2>5
        <3>2. path # root
            <4>1. CASE path = root
                <5>1. IsPrefix(root, primary) /\ root # primary
                    BY <2>4 DEF Folder, Front, IsPrefix, NoPath
                <5> QED
                    BY <2>1, <2>2, <3>1, <4>1, <5>1
            <4> QED
                BY <4>1
        <3> HIDE DEF path, root
        <3> DEFINE T == Nat \ {Up}
        <3>3. Relative(root, path) # <<>> /\ Relative(root, path) \in Seq(T)
            <4>1. path \in Seq(T) /\ root \in Seq(Nat)
                BY <2>4, <3>1
            <4> HIDE DEF T
            <4>2. /\ Len(root) \in Nat /\ Len(path) \in Nat /\ Len(root) < Len(path)
                BY <3>1, <3>2, <4>1 DEF IsPrefix
            <4> QED
                BY <4>1, <4>2, EndOfSequence DEF Relative, Drop
        <3>4. Up \notin Range(Relative(root, path))
            BY <3>3 DEF Range
        <3> QED
            BY <2>6, <3>3, <3>4 DEF SafePath, path
    \* Nothing that a loader opens is missing.
    <2>8. ASSUME Flat(j.disk, primary), NEW path \in LoaderOpens(j.disk, primary)
          PROVE  \E i \in DOMAIN paths : paths[i] = path
        <3>1. /\ requests \in Seq([root : RequestFolders(d, primary), path : Seq(Nat)])
              /\ d[primary].kind \in {"obj", "gltf"} =>
                    \A i \in DOMAIN named : \E n \in DOMAIN requests :
                       requests[n] = [root |-> root, path |-> named[i]]
              /\ d[primary].kind = "obj" => \A i \in DOMAIN named :
                    LET library == Normal(root \o named[i]) IN
                    \A k \in DOMAIN d[library].requests : \E n \in DOMAIN requests :
                       requests[n] = [root |-> Folder(library), path |-> d[library].requests[k]]
            <4>1. d[primary].requests = named
                BY <2>1, <2>2
            <4>2. \A f \in DOMAIN d : d[f].requests \in Seq(Seq(Nat))
                BY <2>2
            <4>3. primary \in DOMAIN d /\ (d[primary].kind = "obj" => LibrariesOpen(d, primary))
                BY <2>1
            <4> HIDE DEF primary, named
            <4>4. /\ Requests(d, primary) \in
                        Seq([root : RequestFolders(d, primary), path : Seq(Nat)])
                  /\ d[primary].kind \in {"obj", "gltf"} =>
                        \A i \in DOMAIN d[primary].requests :
                           \E n \in DOMAIN Requests(d, primary) : Requests(d, primary)[n] =
                              [root |-> Folder(primary), path |-> d[primary].requests[i]]
                  /\ d[primary].kind = "obj" =>
                        \A i \in DOMAIN d[primary].requests :
                           LET library == Normal(Folder(primary) \o d[primary].requests[i]) IN
                           \A k \in DOMAIN d[library].requests :
                              \E n \in DOMAIN Requests(d, primary) : Requests(d, primary)[n] =
                                 [root |-> Folder(library), path |-> d[library].requests[k]]
                BY <4>2, <4>3, RequestsInOrder
            <4> QED
                BY <4>1, <4>4
        <3>2. RequestFolders(d, primary) = {root}
            <4>1. d[primary].kind = "obj" =>
                     \A i \in DOMAIN named : Folder(Normal(root \o named[i])) = root
                BY <2>1, <2>2, <2>8 DEF Flat
            <4>2. d[primary].requests = named
                BY <2>1, <2>2
            <4> HIDE DEF primary, named
            <4> QED
                BY <4>1, <4>2 DEF RequestFolders
        <3>3. ASSUME NEW i \in DOMAIN requests
              PROVE  /\ requests[i].root = root /\ requests[i].path \in Seq(Nat)
                     /\ PathOf(requests[i]) \in Seq(Nat)
                     /\ requests[i].path # NoPath => IsPrefix(root, PathOf(requests[i]))
            <4>1. requests[i] \in [root : {root}, path : Seq(Nat)]
                <5> DEFINE S == [root : {root}, path : Seq(Nat)]
                <5>1. requests \in Seq(S)
                    BY <3>1, <3>2
                <5>2. requests[i] \in S
                    <6> HIDE DEF requests, S
                    <6> QED
                        BY <3>3, <5>1
                <5> QED
                    BY <5>2
            <4>2. requests[i].root = root /\ requests[i].path \in Seq(Nat)
                <5> HIDE DEF requests, root
                <5> QED
                    BY <4>1
            <4>3. root \o requests[i].path \in Seq(Nat)
                <5> HIDE DEF requests, root
                <5> QED
                    BY <2>4, <4>2
            <4>4. PathOf(requests[i]) \in Seq(Nat)
                BY <4>2, <4>3, NormalIsPath DEF PathOf
            <4> QED
                BY <2>1, <4>2, <4>4 DEF StaysBelow
        <3>4. ASSUME NEW p \in Seq(Nat) \ {NoPath}, NEW n \in DOMAIN requests,
                     requests[n] = [root |-> root, path |-> p]
              PROVE  \E i \in DOMAIN paths : paths[i] = Normal(root \o p)
            <4>1. requests[n].path = p /\ requests[n].root = root
                BY <3>4
            <4>2. PathOf(requests[n]) = Normal(root \o p)
                BY <4>1 DEF PathOf
            <4> HIDE DEF requests
            <4>3. \E i \in DOMAIN paths : paths[i] = PathOf(requests[n])
                <5>1. requests[n].path # NoPath
                    BY <4>1
                <5>2. \A k \in DOMAIN requests : requests[k].path # NoPath =>
                         /\ requests[k].root = Folder(primary) /\ PathOf(requests[k]) \in Seq(Nat)
                         /\ IsPrefix(Folder(primary), PathOf(requests[k]))
                    BY <3>3
                <5> HIDE DEF primary
                <5> QED
                    BY <2>4, <3>1, <5>1, <5>2, AddedComplete
            <4> QED
                BY <4>2, <4>3
        <3>5. \E i \in DOMAIN paths : paths[i] = primary
            <4>1. 1 \in DOMAIN paths /\ paths[1] = primary
                <5>1. \E S : requests \in Seq(S)
                    BY <3>1
                <5>2. paths[1] = primary
                    BY DEF AddedPaths
                <5> HIDE DEF requests
                <5> QED
                    BY <5>1, <5>2, AddedInOrder
            <4> QED
                BY <4>1
        <3>6. ASSUME d[primary].kind \in {"obj", "gltf"}, NEW i \in DOMAIN named,
                     named[i] # NoPath
              PROVE  \E n \in DOMAIN paths : paths[n] = Normal(root \o named[i])
            <4>1. named[i] \in Seq(Nat)
                BY <2>1, <2>2, <3>6
            <4>2. PICK n \in DOMAIN requests : requests[n] = [root |-> root, path |-> named[i]]
                BY <3>1, <3>6
            <4> HIDE DEF requests, paths, root, named
            <4> QED
                BY <3>4, <3>6, <4>1, <4>2
        <3>7. CASE path = primary
            BY <3>5, <3>7
        <3>8. CASE d[primary].kind = "obj" /\ path # primary
            <4> DEFINE library(i) == Normal(root \o named[i])
            <4>1. \/ \E i \in DOMAIN named : named[i] # NoPath /\ path = library(i)
                  \/ \E i \in DOMAIN named :
                        /\ library(i) \in DOMAIN j.disk
                        /\ \E k \in j.disk[library(i)].mapKd :
                              /\ j.disk[library(i)].requests[k] # NoPath
                              /\ path = Normal(root \o j.disk[library(i)].requests[k])
                <5> DEFINE had == j.disk
                           names == {library(i) : i \in {k \in DOMAIN named : named[k] # NoPath}}
                           diffuse(lib) ==
                               {Normal(root \o had[lib].requests[k]) :
                                   k \in {l \in had[lib].mapKd : had[lib].requests[l] # NoPath}}
                <5>1. LoaderOpens(had, primary) =
                         {primary} \cup
                            (names \cup UNION {diffuse(lib) : lib \in names \cap DOMAIN had})
                    BY <1>2, <2>1, <2>2, <3>8 DEF LoaderOpens
                <5>2. \/ path \in names
                      \/ \E lib \in names \cap DOMAIN had : path \in diffuse(lib)
                    <6> HIDE DEF names, diffuse
                    <6> QED
                        BY <2>8, <3>8, <5>1
                <5>3. CASE path \in names
                    BY <5>3
                <5>4. ASSUME NEW lib \in names \cap DOMAIN had, path \in diffuse(lib)
                      PROVE  \E i \in DOMAIN named :
                                /\ library(i) \in DOMAIN j.disk
                                /\ \E k \in j.disk[library(i)].mapKd :
                                      /\ j.disk[library(i)].requests[k] # NoPath
                                      /\ path = Normal(root \o j.disk[library(i)].requests[k])
                    <6>1. PICK i \in DOMAIN named : lib = library(i)
                        <7> HIDE DEF library
                        <7> QED
                            BY <5>4
                    <6>2. PICK k \in had[lib].mapKd :
                             /\ had[lib].requests[k] # NoPath
                             /\ path = Normal(root \o had[lib].requests[k])
                        BY <5>4
                    <6> HIDE DEF library
                    <6> QED
                        BY <5>4, <6>1, <6>2
                <5> QED
                    BY <5>2, <5>3, <5>4
            <4>2. CASE \E i \in DOMAIN named : named[i] # NoPath /\ path = library(i)
                BY <3>6, <3>8, <4>2
            <4>3. ASSUME NEW i \in DOMAIN named, library(i) \in DOMAIN j.disk,
                         NEW k \in j.disk[library(i)].mapKd,
                         j.disk[library(i)].requests[k] # NoPath,
                         path = Normal(root \o j.disk[library(i)].requests[k])
                  PROVE  \E n \in DOMAIN paths : paths[n] = path
                <5> DEFINE p == d[library(i)].requests[k]
                <5>1. /\ k \in DOMAIN d[library(i)].requests /\ p \in Seq(Nat) \ {NoPath}
                      /\ path = Normal(root \o p)
                    <6> DEFINE lib == library(i)
                    <6>1. /\ lib \in DOMAIN d /\ k \in j.disk[lib].mapKd
                          /\ j.disk[lib].requests[k] # NoPath
                          /\ path = Normal(root \o j.disk[lib].requests[k])
                          /\ p = d[lib].requests[k]
                        BY <2>2, <4>3
                    <6> HIDE DEF lib, p, root
                    <6>2. k \in DOMAIN d[lib].requests /\ j.disk[lib].requests = d[lib].requests
                        BY <2>2, <6>1
                    <6>3. d[lib].requests \in Seq(Seq(Nat))
                        BY <2>2, <6>1
                    <6>4. d[lib].requests[k] \in Seq(Nat)
                        BY <6>2, <6>3
                    <6> QED
                        BY <6>1, <6>2, <6>4 DEF lib
                <5>2. Folder(library(i)) = root
                    BY <2>1, <2>2, <2>8, <3>8, <4>3 DEF Flat
                <5>3. \E n \in DOMAIN requests :
                         requests[n] = [root |-> Folder(library(i)), path |-> p]
                    BY <3>1, <3>8, <4>3, <5>1
                <5> HIDE DEF requests, paths, root, p, library
                <5> QED
                    BY <3>4, <5>1, <5>2, <5>3
            <4> QED
                BY <4>1, <4>2, <4>3
        <3>9. CASE d[primary].kind = "gltf" /\ path # primary
            <4>1. PICK i \in DOMAIN named : named[i] # NoPath /\ path = Normal(root \o named[i])
                BY <1>2, <2>1, <2>2, <2>8, <3>9 DEF LoaderOpens
            <4> QED
                BY <3>6, <3>9, <4>1
        <3>10. CASE d[primary].kind = "glb"
            BY <2>1, <2>2, <2>8, <3>5, <3>10 DEF Flat
        <3> QED
            BY <2>1, <2>2, <2>8, <3>7, <3>8, <3>9, <3>10 DEF Flat
    <2>9. NamesWhatIsLoaded(catalog, j.settings, j.disk)
        <3> SUFFICES ASSUME Flat(j.disk, primary), NEW path \in LoaderOpens(j.disk, primary)
                     PROVE  path \in {catalog.files[i].sourcePath : i \in DOMAIN catalog.files}
            BY DEF NamesWhatIsLoaded
        <3>1. PICK i \in DOMAIN paths : paths[i] = path
            BY <2>8
        <3> HIDE DEF catalog, paths, files
        <3> QED
            BY <2>1, <2>5, <2>6, <3>1
    <2> HIDE DEF catalog, files
    <2> QED
        BY <2>1, <2>7, <2>9 DEF catalog
<1> QED
    BY <1>1, <1>2

-----------------------------------------------------------------------------
(* The conversation of a worker with its coordinator, and the fingerprint. *)

\* The effect of the operations that several actions share.
LEMMA LeaveKeepsTypes ==
    ASSUME StartupTypes, NEW w \in Workers, NEW place, Leave(w, place)
    PROVE  /\ DOMAIN connection' = Workers /\ DOMAIN worker' = Workers
           /\ \A v \in Workers : DOMAIN worker'[v] = WorkerFields
           /\ \A v \in Workers \ {w} : worker'[v] = worker[v] /\ connection'[v] = connection[v]
           /\ connection'[w].to = "closed" /\ worker'[w].place = place
           /\ worker'[w].settings = job.own /\ ~ worker'[w].synchronized
    BY DEF StartupTypes, Leave, Down, WorkerFields, Closed, Under

LEMMA StoreKeepsTypes ==
    ASSUME StartupTypes, NEW w \in Workers, NEW bytes, Store(w, bytes)
    PROVE  /\ DOMAIN cache' = {CacheOf[v] : v \in Workers}
           /\ \A c \in DOMAIN cache : c # CacheOf[w] => cache'[c] = cache[c]
           /\ DOMAIN cache'[CacheOf[w]] = DOMAIN cache[CacheOf[w]] \cup {Key(w)}
           /\ cache'[CacheOf[w]][Key(w)] = bytes
           /\ \A key \in DOMAIN cache[CacheOf[w]] :
                 key # Key(w) => cache'[CacheOf[w]][key] = cache[CacheOf[w]][key]
    BY DEF StartupTypes, Store

\* What a session sends has the fingerprint and the files of its coordinator.
LEMMA Welcoming ==
    /\ Welcome.type = "WorkerHelloAccepted" /\ Welcome.jobFingerprint = coordinator.fingerprint
    /\ Welcome.assets = Sent(coordinator.catalog.files)
    BY DEF Welcome, Sent, With

LEMMA Assigning ==
    ASSUME NEW task, NEW status, NEW result
    PROVE /\ Assignment(task).jobFingerprint = coordinator.fingerprint
          /\ With([type |-> "TaskAssignment"], Assignment(task)).type = "TaskAssignment"
          /\ With([type |-> "TaskAssignment"], Assignment(task)).jobFingerprint
               = coordinator.fingerprint
    BY DEF Assignment, With

\* A step of a worker or its session leaves the others alone.
OthersAlone(w) ==
    /\ DOMAIN connection' = Workers /\ DOMAIN worker' = Workers
    /\ \A v \in Workers : DOMAIN worker'[v] = WorkerFields
    /\ \A v \in Workers \ {w} : worker'[v] = worker[v] /\ connection'[v] = connection[v]
    /\ DOMAIN cache' = DOMAIN cache
    /\ \A c \in DOMAIN cache : c # CacheOf[w] => cache'[c] = cache[c]
    /\ UNCHANGED <<job, disk, coordinator>>

LEMMA StepsLeaveOthersAlone ==
    ASSUME StartupTypes, NEW w \in Workers, Steps(w)
    PROVE  OthersAlone(w)
<1> USE DEF OthersAlone
<1> DEFINE Rest == cache' = cache /\ UNCHANGED <<job, disk, coordinator>>
<1>1. ASSUME NEW place, Leave(w, place), Rest PROVE OthersAlone(w)
    BY <1>1, LeaveKeepsTypes
<1>2. ASSUME NEW m, NEW place, Send(w, m, place), Rest PROVE OthersAlone(w)
    BY <1>2 DEF Send, StartupTypes, WorkerFields
<1>3. CASE HandleMessage(w)
    <2>1. PICK c : connection' = [connection EXCEPT ![w] = c]
        BY <1>3 DEF HandleMessage
    <2> QED
        BY <1>3, <2>1 DEF HandleMessage, StartupTypes
<1>4. CASE StartWorker(w)
    BY <1>4 DEF StartWorker, others, StartupTypes, WorkerFields, Down
<1>5. CASE Register(w)
    BY <1>5 DEF Register, Consumed, others, StartupTypes, WorkerFields
<1>6. CASE SyncNothing(w) \/ SkipAsset(w) \/ ReplaceAsset(w)
    BY <1>6 DEF SyncNothing, SkipAsset, ReplaceAsset, others, StartupTypes, WorkerFields
<1>7. CASE TruncateAsset(w)
    <2>1. Store(w, <<>>)
        BY <1>7 DEF TruncateAsset
    <2> QED
        BY <1>7, <2>1, StoreKeepsTypes DEF TruncateAsset, others, StartupTypes, WorkerFields
<1>8. CASE RequestChunk(w) \/ RequestTask(w) \/ SendHeartbeat(w)
    BY <1>2, <1>8 DEF RequestChunk, RequestTask, SendHeartbeat, others
<1>9. CASE StoreChunk(w)
    <2>1. Store(w, Patched(Stored(w), worker[w].offset, Answer(w).bytes))
        BY <1>9 DEF StoreChunk
    <2> QED
        BY <1>9, <2>1, StoreKeepsTypes
           DEF StoreChunk, Consumed, others, StartupTypes, WorkerFields
<1>10. CASE VerifyAsset(w)
    BY <1>1, <1>10 DEF VerifyAsset, others, StartupTypes, WorkerFields
<1>11. CASE UseCache(w)
    BY <1>11 DEF UseCache, others, StartupTypes, WorkerFields
<1>12. CASE CompareFingerprint(w)
    BY <1>1, <1>12 DEF CompareFingerprint, others, StartupTypes, WorkerFields
<1>13. CASE LoadScene(w) \/ PrepareDriver(w)
    BY <1>1, <1>13 DEF LoadScene, PrepareDriver, others, StartupTypes, WorkerFields
<1>14. CASE TakeTask(w)
    BY <1>1, <1>14 DEF TakeTask, Begin, Consumed, others, StartupTypes, WorkerFields
<1>15. CASE SubmitResult(w)
    BY <1>1, <1>2, <1>15 DEF SubmitResult, others
<1>16. CASE TakeAck(w) \/ TakeHeartbeatAck(w)
    BY <1>16 DEF TakeAck, TakeHeartbeatAck, Begin, Consumed, others, StartupTypes, WorkerFields
<1>17. CASE GiveUp(w)
    BY <1>1, <1>17 DEF GiveUp, others
<1>18. CASE LoseConnection(w)
    BY <1>18 DEF LoseConnection, others, StartupTypes
<1>19. CASE KillWorker(w)
    <2>1. Leave(w, "down") /\ UNCHANGED <<job, disk, coordinator>>
        BY <1>19 DEF KillWorker, others
    <2>2. cache' = cache \/ \E bytes : Store(w, bytes)
        BY <1>19 DEF KillWorker
    <2>3. /\ DOMAIN cache' = DOMAIN cache
          /\ \A c \in DOMAIN cache : c # CacheOf[w] => cache'[c] = cache[c]
        BY <2>2, StoreKeepsTypes DEF StartupTypes
    <2> QED
        BY <2>1, <2>3, LeaveKeepsTypes
<1> QED
    BY <1>3, <1>4, <1>5, <1>6, <1>7, <1>8, <1>9, <1>10, <1>11, <1>12, <1>13, <1>14, <1>15,
         <1>16,
       <1>17, <1>18, <1>19 DEF Steps, WorkerStep

\* Whatever a session answers, it speaks for the coordinator it runs in.
LEMMA AnswersAreTrue ==
    ASSUME NEW id, NEW m, NEW answer \in Answers(id, m)
    PROVE  TrueOf(answer)
<1>1. TrueOf(ErrorResponse) /\ TrueOf(Refusal)
    BY DEF TrueOf, ErrorResponse, Refusal, Accepted
<1>2. TrueOf(Welcome)
    BY Welcoming DEF TrueOf, Accepted
<1>3. ASSUME NEW task PROVE TrueOf(With([type |-> "TaskAssignment"], Assignment(task)))
    BY <1>3, Assigning DEF TrueOf, Accepted
<1>4. ASSUME NEW complete
      PROVE  TrueOf([type |-> "NoTask", retryAfterMs |-> 0, jobComplete |-> complete])
    BY DEF TrueOf, Accepted
<1>5. ASSUME NEW result, NEW a \in Acknowledgments(result) PROVE TrueOf(a)
    <2> DEFINE ack(status) == [type |-> "ResultAck", ackOrdinal |-> result.tileOrdinal,
                               ackStart |-> result.sampleStart, ackCount |-> result.sampleCount,
                               status |-> status, hasNextTask |-> FALSE]
    <2>1. ASSUME NEW status PROVE TrueOf(ack(status))
        BY DEF TrueOf, Accepted
    <2>2. ASSUME NEW task PROVE TrueOf(With([ack(0) EXCEPT !.hasNextTask = TRUE],
        Assignment(task)))
        <3> DEFINE b == With([ack(0) EXCEPT !.hasNextTask = TRUE], Assignment(task))
        <3>1. b.type = "ResultAck" /\ b.jobFingerprint = coordinator.fingerprint
            BY DEF With, Assignment
        <3>2. TrueOf(b)
            <4> HIDE DEF b
            <4> QED
                BY <3>1 DEF TrueOf, Accepted
        <3> QED
            BY <3>2
    <2> QED
        BY <1>5, <2>1, <2>2 DEF Acknowledgments
<1>6. ASSUME NEW request, NEW a \in AssetAnswers(request) PROVE TrueOf(a)
    <2>1. a.type = "AssetChunk"
        <3>1. PICK file, chunk :
                  a = With([type |-> "AssetChunk", relativePath |-> file.relativePath,
                            offset |-> request.offset, totalSize |-> file.byteSize,
                            checksum |-> file.checksum], chunk)
            BY <1>6 DEF AssetAnswers
        <3> QED
            BY <3>1 DEF With
    <2> QED
        BY <2>1 DEF TrueOf, Accepted
<1>7. TrueOf([type |-> "HeartbeatAck", renewedLeaseCount |-> 1])
    BY DEF TrueOf, Accepted
<1> QED
    BY <1>1, <1>2, <1>3, <1>4, <1>5, <1>6, <1>7 DEF Answers

\* The conversation of a worker with the coordinator.
Conversation(w) == SpeaksForCoordinator(w) /\ KnowsCoordinator(w)

\* By what it says of the coordinator the worker stays informed.
LEMMA ConversationStep ==
    ASSUME StartupTypes, NEW w \in Workers, Conversation(w), Steps(w)
    PROVE  Conversation(w)'
<1>1. coordinator' = coordinator /\ job' = job
    BY StepsLeaveOthersAlone DEF OthersAlone
<1>2. \A m : TrueOf(m)' <=> TrueOf(m)
    BY <1>1 DEF TrueOf, Accepted
<1>3. ASSUME NEW place, Leave(w, place) PROVE Conversation(w)'
    BY <1>3, LeaveKeepsTypes DEF Conversation, SpeaksForCoordinator, KnowsCoordinator
<1>4. ASSUME NEW m, NEW place, Send(w, m, place), m.type # "TaskResult",
             connection[w].to # "closed",
             worker[w].place \in Registered \/ worker[w].place \in Loaded,
             \/ place \in {"awaitingChunk", "awaitingTask"}
             \/ worker[w].place = "rendering" /\ place = "beating"
      PROVE  Conversation(w)'
    <2>1. /\ connection'[w].to = "session" /\ connection'[w].m = m
          /\ worker'[w].place = place /\ worker'[w].accepted = worker[w].accepted
          /\ worker'[w].task = worker[w].task
        BY <1>4 DEF Send, Under, StartupTypes, WorkerFields
    <2> QED
        BY <1>1, <1>4, <2>1 DEF Conversation, SpeaksForCoordinator, KnowsCoordinator
<1>5. ASSUME \/ UNCHANGED connection
             \/ connection[w].to # "closed" /\ connection'[w].to = "nobody",
             worker[w].place \in Registered \/ worker[w].place \in Loaded,
             \/ worker'[w].place \in Registered \cup {"preparing", "asking"}
             \/ worker[w].place = "beating" /\ worker'[w].place = "rendering",
             \/ worker[w].place \in Registered \cup {"preparing"}
             \/ connection'[w].to = "nobody",
             worker'[w].accepted = worker[w].accepted, worker'[w].task = worker[w].task
      PROVE  Conversation(w)'
    BY <1>1, <1>2, <1>5 DEF Registered, Loaded, Conversation, SpeaksForCoordinator,
         KnowsCoordinator
<1>6. CASE HandleMessage(w)
    <2>1. /\ connection[w].to = "session" /\ worker' = worker
          /\ \/ connection'[w] = Closed
             \/ \E answer \in Answers(session[w], connection[w].m) :
                   connection'[w] = Under(answer, "worker")
        BY <1>6 DEF HandleMessage, StartupTypes
    <2> QED
        <3>1. \/ connection'[w].to = "closed"
              \/ connection'[w].to = "worker" /\ TrueOf(connection'[w].m)
            <4>1. CASE connection'[w] = Closed
                <5>1. connection'[w].to = "closed"
                    BY <4>1 DEF Closed, Under
                <5> QED
                    BY <5>1
            <4>2. ASSUME NEW answer \in Answers(session[w], connection[w].m),
                         connection'[w] = Under(answer, "worker")
                  PROVE  connection'[w].to = "worker" /\ TrueOf(connection'[w].m)
                <5>1. connection'[w].to = "worker" /\ connection'[w].m = answer
                    BY <4>2 DEF Under
                <5> QED
                    BY <4>2, <5>1, AnswersAreTrue
            <4> QED
                BY <2>1, <4>1, <4>2
        <3>2. TrueOf(connection[w].m)' <=> TrueOf(connection'[w].m)
            BY <1>1 DEF TrueOf, Accepted
        <3> QED
            BY <1>1, <2>1, <3>1, <3>2 DEF Conversation, SpeaksForCoordinator, KnowsCoordinator
<1>7. CASE StartWorker(w)
    <2>1. /\ connection'[w].to = "session" /\ connection'[w].m.type = "WorkerHello"
          /\ worker'[w].place = "registering" /\ coordinator.place = "listening"
        BY <1>7 DEF StartWorker, StartupTypes, Under, Down
    <2> QED
        BY <1>1, <2>1 DEF Registered, Loaded, Conversation, SpeaksForCoordinator,
             KnowsCoordinator
<1>8. CASE Register(w)
    <2>1. /\ connection[w].to = "worker" /\ connection'[w].to = "nobody"
          /\ Accepted(connection[w].m) /\ worker'[w].accepted = connection[w].m
          /\ worker'[w].place \in {"syncing", "comparing", "loading"}
        BY <1>8 DEF Register, Answered, Answer, Consumed, Quiet, Under, StartupTypes,
             WorkerFields
    <2> QED
        BY <1>1, <2>1 DEF TrueOf, Conversation, SpeaksForCoordinator, KnowsCoordinator
<1>9. CASE SyncNothing(w) \/ SkipAsset(w) \/ ReplaceAsset(w) \/ UseCache(w)
    <2>1. /\ UNCHANGED connection /\ worker[w].place \in Registered
          /\ worker'[w].place \in Registered
          /\ worker'[w].accepted = worker[w].accepted /\ worker'[w].task = worker[w].task
        BY <1>9 DEF SyncNothing, SkipAsset, ReplaceAsset, UseCache, Syncing, StartupTypes,
             WorkerFields,
                    Registered
    <2> QED
        BY <1>5, <2>1
<1>10. CASE TruncateAsset(w) \/ StoreChunk(w)
    <2>1. /\ \/ UNCHANGED connection
             \/ connection[w].to = "worker" /\ connection'[w].to = "nobody"
          /\ worker[w].place \in Registered /\ worker'[w].place \in Registered
          /\ worker'[w].accepted = worker[w].accepted /\ worker'[w].task = worker[w].task
        BY <1>10 DEF TruncateAsset, StoreChunk, Answered, Consumed, Quiet, Under, StartupTypes,
                     WorkerFields, Registered
    <2> QED
        BY <1>5, <2>1
<1>11. CASE RequestChunk(w)
    <2>1. PICK m : Send(w, m, "awaitingChunk") /\ m.type = "AssetRequest"
        BY <1>11 DEF RequestChunk
    <2>2. connection[w].to # "closed" /\ worker[w].place \in Registered
        BY <1>11 DEF RequestChunk, Registered
    <2>3. m.type # "TaskResult"
        BY <2>1
    <2> QED
        BY <1>4, <2>1, <2>2, <2>3
<1>12. CASE RequestTask(w) \/ SendHeartbeat(w)
    <2>1. PICK m, place : /\ Send(w, m, place) /\ m.type # "TaskResult"
                          /\ \/ place = "awaitingTask"
                             \/ worker[w].place = "rendering" /\ place = "beating"
        BY <1>12 DEF RequestTask, SendHeartbeat
    <2>2. connection[w].to # "closed" /\ worker[w].place \in Loaded
        BY <1>12 DEF RequestTask, SendHeartbeat, Loaded
    <2> QED
        BY <1>4, <2>1, <2>2
<1>13. CASE VerifyAsset(w) \/ CompareFingerprint(w)
    <2>1. \/ Leave(w, "down")
          \/ /\ UNCHANGED connection /\ worker[w].place \in Registered
             /\ worker'[w].place \in Registered
             /\ worker'[w].accepted = worker[w].accepted /\ worker'[w].task = worker[w].task
        BY <1>13 DEF VerifyAsset, CompareFingerprint, StartupTypes, WorkerFields, Registered
    <2> QED
        BY <1>3, <1>5, <2>1
<1>14. CASE LoadScene(w)
    <2>1. CASE Leave(w, "down")
        BY <1>3, <2>1
    <2>2. CASE ~ Leave(w, "down")
        <3>1. /\ UNCHANGED connection /\ worker[w].place \in Registered
              /\ worker'[w].place = "preparing"
              /\ worker'[w].accepted = worker[w].accepted /\ worker'[w].task = worker[w].task
            <4>1. PICK l : worker' = [worker EXCEPT ![w].place = "preparing", ![w].loaded = l]
                BY <1>14, <2>2 DEF LoadScene
            <4> QED
                BY <1>14, <2>2, <4>1 DEF LoadScene, StartupTypes, WorkerFields, Registered
        <3> QED
            BY <1>5, <3>1
    <2> QED
        BY <2>1, <2>2
<1>21. CASE PrepareDriver(w)
    <2>1. /\ UNCHANGED connection /\ worker[w].place = "preparing"
          /\ worker'[w].place = "asking"
          /\ worker'[w].accepted = worker[w].accepted /\ worker'[w].task = worker[w].task
        <3>1. PICK d : worker' = [worker EXCEPT ![w].place = "asking", ![w].driver = d]
            BY <1>21 DEF PrepareDriver
        <3> QED
            BY <1>21, <3>1 DEF PrepareDriver, StartupTypes, WorkerFields
    <2> QED
        BY <1>5, <2>1 DEF Loaded
<1>15. CASE TakeTask(w)
    <2>1. CASE Leave(w, "finished")
        BY <1>3, <2>1
    <2>2. CASE ~ Leave(w, "finished")
        <3>1. /\ connection[w].to = "worker" /\ connection'[w].to = "nobody"
              /\ worker[w].place = "awaitingTask"
              /\ worker'[w].accepted = worker[w].accepted
              /\ \/ /\ connection[w].m.type = "TaskAssignment"
                    /\ worker'[w].place = "rendering" /\ worker'[w].task = connection[w].m
                 \/ worker'[w].place = "asking" /\ worker'[w].task = worker[w].task
            BY <1>15, <2>2 DEF TakeTask, Answered, Answer, Begin, Consumed, Quiet, Under,
                 StartupTypes,
                               WorkerFields
        <3> QED
            BY <1>1, <3>1 DEF TrueOf, Registered, Loaded, Conversation, SpeaksForCoordinator,
                 KnowsCoordinator
    <2> QED
        BY <2>1, <2>2
<1>16. CASE SubmitResult(w)
    <2>1. CASE Leave(w, "down")
        BY <1>3, <2>1
    <2>2. CASE ~ Leave(w, "down")
        <3>1. /\ worker[w].place = "rendering" /\ connection[w].to = "nobody"
              /\ RendersTask(w) /\ Send(w, Result(w), "awaitingAck")
            BY <1>16, <2>2 DEF SubmitResult
        <3>2. worker[w].task.jobFingerprint = worker[w].driver
            BY <3>1 DEF RendersTask
        <3>3. /\ connection'[w].to = "session"
              /\ worker'[w].place = "awaitingAck" /\ worker'[w].accepted = worker[w].accepted
              /\ worker'[w].driver = worker[w].driver
            BY <3>1 DEF Send, Under, StartupTypes, WorkerFields
        <3> QED
            BY <1>1, <3>1, <3>2, <3>3 DEF Registered, Loaded, Conversation,
                 SpeaksForCoordinator, KnowsCoordinator
    <2> QED
        BY <2>1, <2>2
<1>17. CASE TakeAck(w)
    <2>1. /\ connection[w].to = "worker" /\ connection'[w].to = "nobody"
          /\ worker[w].place = "awaitingAck"
          /\ worker'[w].accepted = worker[w].accepted
          /\ \/ /\ connection[w].m.type = "ResultAck" /\ connection[w].m.hasNextTask
                /\ worker'[w].place = "rendering" /\ worker'[w].task = connection[w].m
             \/ worker'[w].place = "asking" /\ worker'[w].task = worker[w].task
        BY <1>17 DEF TakeAck, Answered, Answer, Begin, Consumed, Quiet, Under, StartupTypes,
                     WorkerFields
    <2> QED
        BY <1>1, <2>1 DEF TrueOf, Registered, Loaded, Conversation, SpeaksForCoordinator,
             KnowsCoordinator
<1>18. CASE TakeHeartbeatAck(w)
    <2>1. /\ connection[w].to = "worker" /\ connection'[w].to = "nobody"
          /\ worker[w].place = "beating" /\ worker'[w].place = "rendering"
          /\ worker'[w].accepted = worker[w].accepted /\ worker'[w].task = worker[w].task
        BY <1>18 DEF TakeHeartbeatAck, Answered, Consumed, Quiet, Under, StartupTypes,
             WorkerFields
    <2> QED
        BY <1>5, <2>1 DEF Loaded
<1>19. CASE GiveUp(w) \/ KillWorker(w)
    BY <1>3, <1>19 DEF GiveUp, KillWorker
<1>20. CASE LoseConnection(w)
    BY <1>20 DEF LoseConnection, StartupTypes, Closed, Under, Conversation,
         SpeaksForCoordinator, KnowsCoordinator
<1> QED
    BY <1>6, <1>7, <1>8, <1>9, <1>10, <1>11, <1>12, <1>13, <1>14, <1>15, <1>16, <1>17, <1>18,
         <1>19, <1>20, <1>21
       DEF Steps, WorkerStep

\* The fingerprint is one of the primary file, which every loader opens.
LEMMA FingerprintOfLoaded ==
    ASSUME NEW settings, NEW files, NEW opened,
           PrimaryAsset(settings) # NoPath,
           LoaderNeeds(files, PrimaryAsset(settings)) \subseteq DOMAIN files,
           opened = LoaderOpens(files, PrimaryAsset(settings)) \cap DOMAIN files
    PROVE  Fingerprint(settings, files)
             = Fingerprint(settings, [path \in opened |-> [bytes |-> files[path].bytes]])
<1> DEFINE primary == PrimaryAsset(settings)
           loaded == [path \in opened |-> [bytes |-> files[path].bytes]]
           path == IF settings.preset = Sponza THEN settings.gltfFilename
                   ELSE settings.objectFilename
<1>1. primary \in LoaderOpens(files, primary)
    BY DEF LoaderOpens
<1>2. primary \in DOMAIN files
    <2>1. CASE primary \notin DOMAIN files
        BY <1>1, <2>1 DEF LoaderNeeds
    <2> QED
        BY <2>1
<1>3. primary \in DOMAIN loaded /\ loaded[primary].bytes = files[primary].bytes
    BY <1>1, <1>2
<1>4. settings.preset \notin {Prism, Demo} => path = primary
    BY DEF PrimaryAsset, Demo, Prism, Sponza, NoPath
<1>5. FingerprintedBytes(settings, files) = FingerprintedBytes(settings, loaded)
    <2> HIDE DEF loaded
    <2>1. CASE settings.preset \in {Prism, Demo}
        BY <2>1 DEF FingerprintedBytes
    <2>2. CASE settings.preset \notin {Prism, Demo}
        BY <1>2, <1>3, <1>4, <2>2 DEF FingerprintedBytes
    <2> QED
        BY <2>1, <2>2
<1> QED
    BY <1>5 DEF Fingerprint

\* Until its next start a worker keeps the scene it loaded and the fingerprint it took.
LEMMA LoadedFingerprintStep ==
    ASSUME StartupTypes, NEW w \in Workers, LoadedFingerprint(w), Steps(w)
    PROVE  LoadedFingerprint(w)'
<1>1. ASSUME worker'[w].place \notin Loaded PROVE LoadedFingerprint(w)'
    BY <1>1 DEF LoadedFingerprint
<1>2. ASSUME worker[w].place \in Loaded \ {"preparing"}, worker'[w].place # "preparing",
             worker'[w].settings = worker[w].settings,
             worker'[w].loaded = worker[w].loaded, worker'[w].driver = worker[w].driver
      PROVE  LoadedFingerprint(w)'
    BY <1>2 DEF LoadedFingerprint, FingerprintOfScene
<1>3. ASSUME NEW place, Leave(w, place), place \notin Loaded PROVE LoadedFingerprint(w)'
    BY <1>1, <1>3, LeaveKeepsTypes
<1>4. CASE HandleMessage(w) \/ LoseConnection(w)
    <2>1. worker' = worker /\ cache' = cache /\ job' = job
        BY <1>4 DEF HandleMessage, LoseConnection, others
    <2> QED
        BY <2>1 DEF LoadedFingerprint, FingerprintOfScene, View, Cached
<1>5. CASE StartWorker(w)
    <2>1. worker'[w].place = "registering"
        BY <1>5 DEF StartWorker, StartupTypes, Down
    <2> QED
        BY <1>1, <2>1 DEF Loaded
<1>6. CASE Register(w)
    <2>1. worker'[w].place \in {"syncing", "comparing", "loading"}
        BY <1>6 DEF Register, StartupTypes, WorkerFields
    <2> QED
        BY <1>1, <2>1 DEF Loaded
<1>7. CASE SyncNothing(w) \/ SkipAsset(w) \/ ReplaceAsset(w) \/ TruncateAsset(w) \/ UseCache(w)
    BY <1>1, <1>7 DEF SyncNothing, SkipAsset, ReplaceAsset, TruncateAsset, UseCache, Syncing,
                      StartupTypes, WorkerFields, Loaded
<1>8. CASE RequestChunk(w) \/ StoreChunk(w)
    BY <1>1, <1>8 DEF RequestChunk, Send, StoreChunk, StartupTypes, WorkerFields, Loaded
<1>9. CASE VerifyAsset(w) \/ CompareFingerprint(w)
    <2>1. Leave(w, "down") \/ worker'[w].place \in {"syncing", "loading"}
        BY <1>9 DEF VerifyAsset, CompareFingerprint, StartupTypes, WorkerFields
    <2> QED
        BY <1>1, <1>3, <2>1 DEF Loaded
<1>10. CASE LoadScene(w)
    <2> DEFINE settings == worker[w].settings
               primary == PrimaryAsset(settings)
               files == View(w)
               opened == LoaderOpens(files, primary) \cap DOMAIN files
    <2>1. CASE LoaderNeeds(files, primary) \subseteq DOMAIN files
        <3>1. worker' = [worker EXCEPT ![w].place = "preparing",
                                       ![w].loaded = [path \in opened |-> files[path].bytes]]
            BY <1>10, <2>1 DEF LoadScene
        <3>5. View(w)' = files
            <4>1. /\ cache' = cache /\ job' = job
                  /\ worker'[w].synchronized = worker[w].synchronized
                  /\ worker'[w].accepted = worker[w].accepted
                BY <1>10, <3>1 DEF LoadScene, others, StartupTypes, WorkerFields
            <4> QED
                BY <4>1 DEF View, Cached
        <3> HIDE DEF files, opened
        <3>2. /\ worker'[w].settings = settings
              /\ worker'[w].place = "preparing"
              /\ worker'[w].loaded = [path \in opened |-> files[path].bytes]
            BY <3>1 DEF StartupTypes, WorkerFields
        <3>3. ASSUME primary # NoPath
              PROVE  Fingerprint(settings, files)
                       = Fingerprint(settings,
                           [path \in opened |-> [bytes |-> files[path].bytes]])
            BY <2>1, <3>3, FingerprintOfLoaded DEF opened
        <3>4. [path \in DOMAIN worker'[w].loaded |-> [bytes |-> worker'[w].loaded[path]]]
                = [path \in opened |-> [bytes |-> files[path].bytes]]
            BY <3>2
        <3> HIDE DEF settings
        <3> QED
            BY <3>2, <3>3, <3>4, <3>5 DEF LoadedFingerprint, FingerprintOfScene
    <2>2. CASE ~ (LoaderNeeds(files, primary) \subseteq DOMAIN files)
        BY <1>3, <1>10, <2>2 DEF LoadScene, Loaded
    <2> QED
        BY <2>1, <2>2
<1>16. CASE PrepareDriver(w)
    <2>1. /\ worker[w].place = "preparing" /\ worker'[w].place = "asking"
          /\ worker'[w].settings = worker[w].settings /\ worker'[w].loaded = worker[w].loaded
          /\ worker'[w].driver = Fingerprint(worker[w].settings, View(w))
        BY <1>16 DEF PrepareDriver, StartupTypes, WorkerFields
    <2> QED
        BY <2>1 DEF LoadedFingerprint, FingerprintOfScene, Loaded
<1>11. CASE RequestTask(w) \/ SendHeartbeat(w)
    BY <1>2, <1>11 DEF RequestTask, SendHeartbeat, Send, StartupTypes, WorkerFields, Loaded
<1>12. CASE TakeTask(w)
    <2>1. CASE Leave(w, "finished")
        BY <1>3, <2>1 DEF Loaded
    <2>2. CASE ~ Leave(w, "finished")
        BY <1>2, <1>12, <2>2 DEF TakeTask, Answered, Begin, StartupTypes, WorkerFields, Loaded
    <2> QED
        BY <2>1, <2>2
<1>13. CASE SubmitResult(w)
    <2>1. CASE Leave(w, "down")
        BY <1>3, <2>1 DEF Loaded
    <2>2. CASE ~ Leave(w, "down")
        <3>1. worker[w].place = "rendering" /\ Send(w, Result(w), "awaitingAck")
            BY <1>13, <2>2 DEF SubmitResult
        <3> QED
            BY <1>2, <3>1 DEF Send, StartupTypes, WorkerFields, Loaded
    <2> QED
        BY <2>1, <2>2
<1>14. CASE TakeAck(w) \/ TakeHeartbeatAck(w)
    BY <1>2, <1>14 DEF TakeAck, TakeHeartbeatAck, Answered, Begin, StartupTypes, WorkerFields,
         Loaded
<1>15. CASE GiveUp(w) \/ KillWorker(w)
    BY <1>3, <1>15 DEF GiveUp, KillWorker, Loaded
<1> QED
    BY <1>4, <1>5, <1>6, <1>7, <1>8, <1>9, <1>10, <1>11, <1>12, <1>13, <1>14, <1>15, <1>16
       DEF Steps, WorkerStep

\* The inductive invariant of the conversation; it says nothing about the caches.
ConversationIInv == StartupTypes /\ \A w \in Workers : Conversation(w)

LEMMA ConversationInductive == ConversationIInv /\ [Next]_vars => ConversationIInv'
<1> SUFFICES ASSUME ConversationIInv, [Next]_vars PROVE ConversationIInv'
    OBVIOUS
<1> USE DEF ConversationIInv
<1>1. ASSUME NEW w \in Workers, Steps(w) PROVE ConversationIInv'
    <2>1. OthersAlone(w)
        BY <1>1, StepsLeaveOthersAlone
    <2>2. StartupTypes'
        BY <2>1 DEF OthersAlone, StartupTypes
    <2>3. Conversation(w)'
        BY <1>1, ConversationStep
    <2>4. ASSUME NEW v \in Workers \ {w} PROVE Conversation(v)'
        BY <2>1 DEF OthersAlone, Conversation, SpeaksForCoordinator, KnowsCoordinator, TrueOf,
             Accepted
    <2> QED
        BY <2>2, <2>3, <2>4
\* Before it listens the coordinator has no connections.
<1>2. ASSUME UNCHANGED <<job, worker, cache, connection>>, coordinator.place # "listening",
             DOMAIN coordinator' = DOMAIN coordinator
      PROVE  ConversationIInv'
    BY <1>2 DEF StartupTypes, Conversation, SpeaksForCoordinator, KnowsCoordinator
<1>3. CASE Fingerprinted
    BY <1>2, <1>3 DEF Fingerprinted
<1>4. CASE Listen
    <2>1. DOMAIN coordinator' = DOMAIN coordinator
        BY <1>4 DEF Listen
    <2> QED
        BY <1>2, <1>4, <2>1 DEF Listen
<1>5. CASE RestartCoordinator
    BY <1>5 DEF RestartCoordinator, Starting, Closed, Under, StartupTypes, Conversation,
                SpeaksForCoordinator, KnowsCoordinator
<1>6. CASE EditSource \/ UNCHANGED vars
    BY <1>6 DEF EditSource, vars, StartupTypes, Conversation, SpeaksForCoordinator,
         KnowsCoordinator, TrueOf, Accepted
<1> QED
    BY <1>1, <1>3, <1>4, <1>5, <1>6 DEF Next, CoordinatorStep, Steps

LEMMA ConversationInitially == Init => ConversationIInv
    BY DEF Init, ConversationIInv, StartupTypes, Starting, Down, Closed, Under, WorkerFields,
         Conversation,
           SpeaksForCoordinator, KnowsCoordinator, Registered, Loaded

\* Types, and what each worker knows of the coordinator it is connected to, at all times,
\* however many workers share a cache.
THEOREM ConversationInvariant == Spec => []ConversationIInv
    BY ConversationInitially, ConversationInductive, PTL DEF Spec

-----------------------------------------------------------------------------
(* The transfer.                                                           *)

\* What is sent of a catalog lists the same files.
LEMMA SentIsOffer ==
    ASSUME NEW j, NEW files, IsOffer(j, files)
    PROVE  IsOffer(j, Sent(files))
<1>1. CASE files = <<>>
    BY <1>1 DEF Sent, IsOffer
<1>2. CASE files # <<>>
    <2>1. DOMAIN files = 1..Len(files) /\ Len(files) \in Nat
        BY <1>2 DEF IsOffer
    <2>2. DOMAIN Sent(files) = DOMAIN files
        BY DEF Sent
    <2>3. \A i \in DOMAIN files : /\ Sent(files)[i].relativePath = files[i].relativePath
                                  /\ Sent(files)[i].byteSize = files[i].byteSize
                                  /\ Sent(files)[i].checksum = files[i].checksum
        BY DEF Sent
    <2>4. Sent(files) \in Seq(Range(Sent(files)))
        <3>1. Sent(files) = [i \in 1..Len(files) |-> Sent(files)[i]]
            BY <2>1 DEF Sent
        <3>2. \A i \in 1..Len(files) : Sent(files)[i] \in Range(Sent(files))
            BY <2>1, <2>2 DEF Range
        <3> QED
            BY <2>1, <3>1, <3>2, FormsSequence
    <2>5. {Sent(files)[i].relativePath : i \in DOMAIN Sent(files)}
            = {files[i].relativePath : i \in DOMAIN files}
        BY <2>2, <2>3
    <2> QED
        BY <1>2, <2>2, <2>3, <2>4, <2>5 DEF IsOffer
<1> QED
    BY <1>1, <1>2

\* The file under way is one of the catalog.
LEMMA AssetIsListed ==
    ASSUME NEW w \in Workers, TransferExact(w), worker[w].place \in Transferring
    PROVE  /\ Asset(w).relativePath \in ListedPaths(job)
           /\ Root(job) \o Asset(w).relativePath \in DOMAIN job.disk
    BY DEF TransferExact, Transferring, Registered, IsOffer, Asset

\* Writing it leaves the files that are there alone.
LEMMA StoreKeepsFetched ==
    ASSUME StartupTypes, NEW w \in Workers, TransferExact(w), NEW bytes, Store(w, bytes),
           worker[w].place \in Transferring, worker'[w].accepted = worker[w].accepted
    PROVE  \A i \in DOMAIN worker[w].accepted.assets : i < worker[w].next => Fetched(w, i)'
<1> SUFFICES ASSUME NEW i \in DOMAIN worker[w].accepted.assets, i < worker[w].next
             PROVE  Fetched(w, i)'
    OBVIOUS
<1> DEFINE key == <<worker[w].accepted.jobFingerprint,
    worker[w].accepted.assets[i].relativePath>>
<1>1. Fetched(w, i) /\ key # Key(w)
    BY DEF TransferExact, Transferring, Key, Asset
<1>2. key \in DOMAIN cache[CacheOf[w]] /\ key \in DOMAIN cache'[CacheOf[w]]
    BY <1>1, StoreKeepsTypes DEF Fetched
<1>3. cache'[CacheOf[w]][key] = cache[CacheOf[w]][key]
    BY <1>1, <1>2, StoreKeepsTypes
<1> QED
    BY <1>1, <1>2, <1>3 DEF Fetched

\* Each file that is passed over or verified is the one the catalog names, and stays it
\* until the scene is loaded.
LEMMA TransferStep ==
    ASSUME StartupTypes, CatalogOfJob, NEW w \in Workers, Conversation(w), TransferExact(w),
        Steps(w)
    PROVE  TransferExact(w)'
<1> DEFINE me == worker[w]
           assets == me.accepted.assets
<1>1. job' = job /\ coordinator' = coordinator
    BY StepsLeaveOthersAlone DEF OthersAlone
<1>2. ASSUME NEW place, Leave(w, place), place \in {"down", "finished"} PROVE TransferExact(w)'
    BY <1>2, LeaveKeepsTypes DEF TransferExact, Registered, Loaded, Transferring
<1>3. ASSUME me.place \in Loaded, worker'[w].place \in Loaded,
    worker'[w].accepted = me.accepted,
             worker'[w].loaded = me.loaded, worker'[w].synchronized = me.synchronized
      PROVE  TransferExact(w)'
    BY <1>1, <1>3 DEF TransferExact, Registered, Loaded, Transferring
<1>4. ASSUME cache' = cache, worker'[w].accepted = me.accepted
      PROVE  \A i : Fetched(w, i)' <=> Fetched(w, i)
    BY <1>4 DEF Fetched
<1>5. CASE HandleMessage(w) \/ LoseConnection(w)
    <2>1. worker' = worker /\ cache' = cache
        BY <1>5 DEF HandleMessage, LoseConnection
    <2> QED
        BY <1>1, <2>1 DEF TransferExact, Fetched
<1>6. CASE StartWorker(w)
    <2>1. worker'[w].place = "registering" /\ worker'[w].next = 1 /\ ~ worker'[w].synchronized
        BY <1>6 DEF StartWorker, StartupTypes, Down
    <2> QED
        BY <2>1 DEF TransferExact, Registered, Loaded, Transferring
<1>7. CASE Register(w)
    <2>1. /\ me.place = "registering" /\ Accepted(connection[w].m)
          /\ worker'[w].accepted = connection[w].m
          /\ worker'[w].place \in {"syncing", "comparing", "loading"}
          /\ worker'[w].next = me.next /\ worker'[w].synchronized = me.synchronized
          /\ connection[w].to = "worker"
        BY <1>7 DEF Register, Answered, Answer, StartupTypes, WorkerFields
    <2>2. worker'[w].next = 1 /\ ~ worker'[w].synchronized
        BY <2>1 DEF TransferExact
    <2>3. worker'[w].accepted.assets = Sent(coordinator.catalog.files)
        BY <2>1 DEF Conversation, SpeaksForCoordinator, TrueOf
    <2>4. IsOffer(job, worker'[w].accepted.assets)
        BY <2>3, SentIsOffer DEF CatalogOfJob
    <2>5. \A i \in DOMAIN worker'[w].accepted.assets : ~ (i < 1)
        BY <2>4 DEF IsOffer
    <2> QED
        BY <1>1, <2>1, <2>2, <2>4, <2>5 DEF TransferExact, Registered, Loaded, Transferring
<1>8. CASE SyncNothing(w)
    <2>1. /\ me.place = "syncing" /\ worker'[w].place = "comparing"
          /\ worker'[w].accepted = me.accepted /\ worker'[w].next = me.next
          /\ worker'[w].synchronized = me.synchronized
        BY <1>8 DEF SyncNothing, StartupTypes, WorkerFields
    <2> QED
        BY <1>1, <2>1 DEF TransferExact, Registered, Loaded, Transferring
<1>9. ASSUME me.place \in {"syncing", "verifying"}, Matches(w), cache' = cache,
             me.next \in DOMAIN assets, worker'[w].place = "syncing",
             worker'[w].next = me.next + 1, worker'[w].accepted = me.accepted,
             worker'[w].synchronized = me.synchronized
      PROVE  TransferExact(w)'
    <2>1. Fetched(w, me.next)
        BY <1>9 DEF Matches, Fetched, Key, Stored, Asset
    <2>2. me.next \in Nat \ {0} /\ me.next + 1 \in Nat \ {0}
        BY <1>9 DEF TransferExact, Registered
    <2>3. DOMAIN assets \subseteq Nat
        BY <1>9 DEF TransferExact, Registered, IsOffer
    <2>4. \A i \in DOMAIN assets : i < me.next + 1 => i < me.next \/ i = me.next
        BY <2>2, <2>3
    <2>5. \A i \in DOMAIN assets : i < me.next => Fetched(w, i)
        BY <1>9 DEF TransferExact, Transferring
    <2> QED
        BY <1>1, <1>4, <1>9, <2>1, <2>2, <2>4, <2>5
           DEF TransferExact, Registered, Loaded, Transferring
<1>10. CASE SkipAsset(w)
    <2>1. /\ me.place = "syncing" /\ worker'[w].place = "syncing" /\ me.next <= Len(assets)
          /\ worker'[w].accepted = me.accepted /\ worker'[w].next = me.next + 1
          /\ worker'[w].synchronized = me.synchronized /\ cache' = cache /\ Matches(w)
        BY <1>10 DEF SkipAsset, Syncing, StartupTypes, WorkerFields
    <2>2. me.next \in DOMAIN assets
        BY <2>1 DEF TransferExact, Registered, IsOffer
    <2> QED
        BY <1>9, <2>1, <2>2
<1>11. CASE ReplaceAsset(w)
    <2>1. /\ me.place = "syncing" /\ worker'[w].place = "replacing" /\ me.next <= Len(assets)
          /\ worker'[w].accepted = me.accepted /\ worker'[w].next = me.next
          /\ worker'[w].synchronized = me.synchronized /\ cache' = cache /\ ~ Matches(w)
        BY <1>11 DEF ReplaceAsset, Syncing, StartupTypes, WorkerFields
    <2>2. me.next \in DOMAIN assets
        BY <2>1 DEF TransferExact, Registered, IsOffer
    <2>3. ASSUME NEW i \in DOMAIN assets, i < me.next
          PROVE  assets[i].relativePath # assets[me.next].relativePath
        <3>1. Fetched(w, i)
            BY <2>1, <2>3 DEF TransferExact
        <3>2. assets[i].relativePath = assets[me.next].relativePath =>
                 /\ assets[i].byteSize = assets[me.next].byteSize
                 /\ assets[i].checksum = assets[me.next].checksum
            BY <2>1, <2>2 DEF TransferExact, Registered, IsOffer
        <3> QED
            BY <2>1, <3>1, <3>2 DEF Fetched, Matches, Key, Stored, Asset
    <2> QED
        BY <1>1, <1>4, <2>1, <2>2, <2>3 DEF TransferExact, Registered, Loaded, Transferring
<1>12. ASSUME NEW bytes, Store(w, bytes), me.place \in Transferring,
              worker'[w].place \in Transferring, worker'[w].accepted = me.accepted,
              worker'[w].next = me.next, worker'[w].synchronized = me.synchronized
       PROVE  TransferExact(w)'
    BY <1>1, <1>12, StoreKeepsFetched DEF TransferExact, Registered, Loaded, Transferring
<1>13. CASE TruncateAsset(w)
    <2>1. /\ Store(w, <<>>) /\ me.place = "replacing" /\ worker'[w].place = "fetching"
          /\ worker'[w].accepted = me.accepted
          /\ worker'[w].next = me.next /\ worker'[w].synchronized = me.synchronized
        BY <1>13 DEF TruncateAsset, StartupTypes, WorkerFields
    <2> QED
        BY <1>12, <2>1 DEF Transferring
<1>14. CASE StoreChunk(w)
    <2>1. /\ me.place = "awaitingChunk" /\ worker'[w].place \in {"verifying", "fetching"}
          /\ worker'[w].accepted = me.accepted
          /\ worker'[w].next = me.next /\ worker'[w].synchronized = me.synchronized
        BY <1>14 DEF StoreChunk, Answered, StartupTypes, WorkerFields
    <2>2. Store(w, Patched(Stored(w), worker[w].offset, Answer(w).bytes))
        BY <1>14 DEF StoreChunk
    <2> QED
        BY <1>12, <2>1, <2>2 DEF Transferring
<1>15. CASE RequestChunk(w)
    <2>1. /\ me.place = "fetching" /\ worker'[w].place = "awaitingChunk" /\ cache' = cache
          /\ worker'[w].accepted = me.accepted
          /\ worker'[w].next = me.next /\ worker'[w].synchronized = me.synchronized
        BY <1>15 DEF RequestChunk, Send, StartupTypes, WorkerFields
    <2> QED
        BY <1>1, <1>4, <2>1 DEF TransferExact, Registered, Loaded, Transferring
<1>16. CASE VerifyAsset(w)
    <2>1. CASE ~ Matches(w)
        BY <1>2, <1>16, <2>1 DEF VerifyAsset
    <2>2. CASE Matches(w)
        <3>1. /\ me.place = "verifying" /\ worker'[w].place = "syncing" /\ cache' = cache
              /\ worker'[w].accepted = me.accepted /\ worker'[w].next = me.next + 1
              /\ worker'[w].synchronized = me.synchronized
            BY <1>16, <2>2 DEF VerifyAsset, StartupTypes, WorkerFields
        <3>2. me.next \in DOMAIN assets
            BY <3>1 DEF TransferExact, Transferring
        <3> QED
            BY <1>9, <2>2, <3>1, <3>2
    <2> QED
        BY <2>1, <2>2
<1>17. CASE UseCache(w)
    <2>1. /\ me.place = "syncing" /\ worker'[w].place = "comparing" /\ cache' = cache
          /\ worker'[w].accepted = me.accepted /\ worker'[w].next = me.next
          /\ assets # <<>> /\ me.next > Len(assets)
        BY <1>17 DEF UseCache, StartupTypes, WorkerFields
    <2>2. \A i \in DOMAIN assets : i < me.next
        BY <2>1 DEF TransferExact, Registered, IsOffer
    <2> QED
        BY <1>1, <1>4, <2>1, <2>2 DEF TransferExact, Registered, Loaded, Transferring
<1>18. CASE CompareFingerprint(w)
    <2>1. CASE Leave(w, "down")
        BY <1>2, <2>1
    <2>2. CASE ~ Leave(w, "down")
        <3>1. /\ me.place = "comparing" /\ worker'[w].place = "loading" /\ cache' = cache
              /\ worker'[w].accepted = me.accepted /\ worker'[w].next = me.next
              /\ worker'[w].synchronized = me.synchronized
            BY <1>18, <2>2 DEF CompareFingerprint, StartupTypes, WorkerFields
        <3> QED
            BY <1>1, <1>4, <3>1 DEF TransferExact, Registered, Loaded, Transferring
    <2> QED
        BY <2>1, <2>2
<1>19. CASE LoadScene(w)
    <2>1. CASE Leave(w, "down")
        BY <1>2, <2>1
    <2>2. CASE ~ Leave(w, "down")
        <3> DEFINE opened == LoaderOpens(View(w), PrimaryAsset(me.settings)) \cap DOMAIN View(w)
        <3>1. /\ me.place = "loading" /\ worker'[w].place = "preparing" /\ cache' = cache
              /\ worker'[w].accepted = me.accepted
              /\ worker'[w].synchronized = me.synchronized
              /\ worker'[w].loaded = [path \in opened |-> View(w)[path].bytes]
            <4>1. worker' = [worker EXCEPT
                                ![w].place = "preparing",
                                ![w].loaded = [path \in opened |-> View(w)[path].bytes]]
                BY <1>19, <2>2 DEF LoadScene
            <4> HIDE DEF opened
            <4> QED
                BY <1>19, <4>1 DEF LoadScene, StartupTypes, WorkerFields
        <3>2. ASSUME me.synchronized, NEW path \in opened
              PROVE  \E i \in DOMAIN assets :
                        /\ assets[i].relativePath = path
                        /\ assets[i].byteSize = Len(View(w)[path].bytes)
                        /\ assets[i].checksum = Checksum(View(w)[path].bytes)
            <4> DEFINE files == cache[CacheOf[w]]
                       key == <<me.accepted.jobFingerprint, path>>
            <4>1. path \in DOMAIN Cached(w) /\ View(w) = Cached(w)
                BY <3>2 DEF View
            <4>2. key \in DOMAIN files
                BY <4>1 DEF Cached
            <4>3. key[2] = path
                OBVIOUS
            <4>4. path \in ListedPaths(job) /\ Root(job) \o path \in DOMAIN job.disk
                <5>1. CacheOf[w] \in DOMAIN cache
                    BY DEF StartupTypes
                <5> HIDE DEF key
                <5> QED
                    BY <4>2, <4>3, <5>1 DEF CatalogOfJob
            <4>5. Cached(w)[path] = [job.disk[Root(job) \o path] EXCEPT !.bytes = files[key]]
                BY <4>1 DEF Cached, Root
            <4>6. "bytes" \in DOMAIN job.disk[Root(job) \o path]
                BY <4>4, StartupAssumption DEF StartupTypes, IsDisk, IsFile
            <4>7. Cached(w)[path].bytes = files[key]
                BY <4>5, <4>6
            <4>8. assets # <<>> /\ IsOffer(job, assets) /\ \A i \in DOMAIN assets : Fetched(w,
                i)
                BY <3>1, <3>2 DEF TransferExact, Registered
            <4>9. PICK i \in DOMAIN assets : assets[i].relativePath = path
                BY <4>4, <4>8 DEF IsOffer
            <4> QED
                BY <4>1, <4>7, <4>8, <4>9 DEF Fetched
        <3>3. IsOffer(job, assets)
            BY <3>1 DEF TransferExact, Registered
        <3> HIDE DEF opened
        <3>4. /\ DOMAIN worker'[w].loaded = opened
              /\ \A path \in opened : worker'[w].loaded[path] = View(w)[path].bytes
            BY <3>1
        <3> QED
            BY <1>1, <3>1, <3>2, <3>3, <3>4 DEF TransferExact, Registered, Loaded, Transferring
    <2> QED
        BY <2>1, <2>2
<1>25. CASE PrepareDriver(w)
    BY <1>3, <1>25 DEF PrepareDriver, StartupTypes, WorkerFields, Loaded
<1>20. CASE RequestTask(w) \/ SendHeartbeat(w)
    BY <1>3, <1>20 DEF RequestTask, SendHeartbeat, Send, StartupTypes, WorkerFields, Loaded
<1>21. CASE TakeTask(w)
    <2>1. CASE Leave(w, "finished")
        BY <1>2, <2>1
    <2>2. CASE ~ Leave(w, "finished")
        BY <1>3, <1>21, <2>2 DEF TakeTask, Answered, Begin, StartupTypes, WorkerFields, Loaded
    <2> QED
        BY <2>1, <2>2
<1>22. CASE SubmitResult(w)
    <2>1. CASE Leave(w, "down")
        BY <1>2, <2>1
    <2>2. CASE ~ Leave(w, "down")
        <3>1. worker[w].place = "rendering" /\ Send(w, Result(w), "awaitingAck")
            BY <1>22, <2>2 DEF SubmitResult
        <3> QED
            BY <1>3, <3>1 DEF Send, StartupTypes, WorkerFields, Loaded
    <2> QED
        BY <2>1, <2>2
<1>23. CASE TakeAck(w) \/ TakeHeartbeatAck(w)
    BY <1>3, <1>23 DEF TakeAck, TakeHeartbeatAck, Answered, Begin, StartupTypes, WorkerFields,
         Loaded
<1>24. CASE GiveUp(w) \/ KillWorker(w)
    BY <1>2, <1>24 DEF GiveUp, KillWorker
<1> QED
    BY <1>5, <1>6, <1>7, <1>8, <1>10, <1>11, <1>13, <1>14, <1>15, <1>16, <1>17, <1>18, <1>19,
       <1>20, <1>21, <1>22, <1>23, <1>24, <1>25 DEF Steps, WorkerStep

\* No two workers have the same cache directory.
OwnCaches == \A v, w \in Workers : CacheOf[v] = CacheOf[w] => v = w

\* Only files of the catalog are written.
LEMMA StoreKeepsCatalog ==
    ASSUME StartupTypes, CatalogOfJob, NEW w \in Workers, TransferExact(w),
           worker[w].place \in Transferring, NEW bytes, Store(w, bytes),
           UNCHANGED <<job, disk, coordinator>>
    PROVE  CatalogOfJob'
<1>1. Key(w)[2] = Asset(w).relativePath
    BY DEF Key
<1>2. \A c \in DOMAIN cache : DOMAIN cache'[c] \subseteq DOMAIN cache[c] \cup {Key(w)}
    BY StoreKeepsTypes
<1>3. DOMAIN cache' = DOMAIN cache
    BY StoreKeepsTypes DEF StartupTypes
<1>4. \A c \in DOMAIN cache' : \A key \in DOMAIN cache'[c] :
         key[2] \in ListedPaths(job) /\ Root(job) \o key[2] \in DOMAIN job.disk
    BY <1>1, <1>2, <1>3, AssetIsListed DEF CatalogOfJob
<1> QED
    BY <1>4 DEF CatalogOfJob

LEMMA CatalogStep ==
    ASSUME StartupTypes, CatalogOfJob, NEW w \in Workers, TransferExact(w), Steps(w)
    PROVE  CatalogOfJob'
<1>1. UNCHANGED <<job, disk, coordinator>>
    BY StepsLeaveOthersAlone DEF OthersAlone
<1>2. CASE cache' = cache
    BY <1>1, <1>2 DEF CatalogOfJob
<1>3. CASE TruncateAsset(w)
    <2>1. Store(w, <<>>) /\ worker[w].place \in Transferring
        BY <1>3 DEF TruncateAsset, Transferring
    <2> QED
        BY <1>1, <2>1, StoreKeepsCatalog
<1>4. CASE StoreChunk(w)
    <2>1. /\ Store(w, Patched(Stored(w), worker[w].offset, Answer(w).bytes))
          /\ worker[w].place \in Transferring
        BY <1>4 DEF StoreChunk, Answered, Transferring
    <2> QED
        BY <1>1, <2>1, StoreKeepsCatalog
<1>5. CASE KillWorker(w)
    <2>1. \/ cache' = cache
          \/ worker[w].place \in Transferring /\ \E bytes : Store(w, bytes)
        BY <1>5 DEF KillWorker, Transferring
    <2> QED
        BY <1>1, <1>2, <2>1, StoreKeepsCatalog
<1> QED
    BY <1>2, <1>3, <1>4, <1>5
       DEF Steps, WorkerStep, HandleMessage, SendHeartbeat, LoseConnection, StartWorker,
           Register,
           SyncNothing, SkipAsset, ReplaceAsset, RequestChunk, VerifyAsset, UseCache,
           CompareFingerprint, LoadScene, PrepareDriver, RequestTask, TakeTask, SubmitResult,
           TakeAck, TakeHeartbeatAck, GiveUp

\* What is said of one worker is about its own state, its own cache and the job.
LEMMA UndisturbedWorker ==
    ASSUME NEW v \in Workers, LoadedFingerprint(v), TransferExact(v),
           job' = job, worker'[v] = worker[v], cache'[CacheOf[v]] = cache[CacheOf[v]]
    PROVE  LoadedFingerprint(v)' /\ TransferExact(v)'
<1>1. Cached(v)' = Cached(v)
    BY DEF Cached
<1>2. View(v)' = View(v)
    BY <1>1 DEF View
<1>3. FingerprintOfScene(v)' = FingerprintOfScene(v)
    BY <1>2 DEF FingerprintOfScene
<1>4. LoadedFingerprint(v)'
    BY <1>2, <1>3 DEF LoadedFingerprint
<1>5. TransferExact(v)'
    BY DEF TransferExact, Fetched
<1> QED
    BY <1>4, <1>5

LEMMA StartupInductive ==
    ASSUME OwnCaches
    PROVE  StartupIInv /\ [Next]_vars => StartupIInv'
<1> SUFFICES ASSUME StartupIInv, [Next]_vars PROVE StartupIInv'
    OBVIOUS
<1>1. ConversationIInv'
    BY ConversationInductive DEF StartupIInv, ConversationIInv, Conversation
<1>2. ASSUME CatalogOfJob', \A w \in Workers : LoadedFingerprint(w)' /\ TransferExact(w)'
      PROVE  StartupIInv'
    BY <1>1, <1>2 DEF StartupIInv, ConversationIInv, Conversation
<1> USE DEF StartupIInv
<1>3. ASSUME NEW w \in Workers, Steps(w) PROVE StartupIInv'
    <2>1. OthersAlone(w)
        BY <1>3, StepsLeaveOthersAlone
    <2>2. CatalogOfJob' /\ LoadedFingerprint(w)' /\ TransferExact(w)'
        BY <1>3, CatalogStep, LoadedFingerprintStep, TransferStep DEF Conversation
    <2>3. ASSUME NEW v \in Workers \ {w} PROVE LoadedFingerprint(v)' /\ TransferExact(v)'
        <3>1. CacheOf[v] # CacheOf[w] /\ CacheOf[v] \in DOMAIN cache
            BY DEF OwnCaches, StartupTypes
        <3>2. cache'[CacheOf[v]] = cache[CacheOf[v]] /\ worker'[v] = worker[v] /\ job' = job
            BY <2>1, <3>1 DEF OthersAlone
        <3> QED
            BY <3>2, UndisturbedWorker
    <2> QED
        BY <1>2, <2>2, <2>3
<1>4. ASSUME UNCHANGED <<job, worker, cache>>, CatalogOfJob' PROVE StartupIInv'
    <2>1. \A w \in Workers : LoadedFingerprint(w)' /\ TransferExact(w)'
        BY <1>4, UndisturbedWorker
    <2> QED
        BY <1>2, <1>4, <2>1
<1>5. CASE Fingerprinted \/ UNCHANGED vars
    <2>1. coordinator'.catalog = coordinator.catalog
        BY <1>5 DEF Fingerprinted, vars, StartupTypes
    <2> QED
        BY <1>4, <1>5, <2>1 DEF Fingerprinted, vars, CatalogOfJob
<1>6. CASE Listen
    <2>1. \/ coordinator'.catalog = coordinator.catalog
          \/ coordinator'.catalog = BuildAssetCatalog(job.settings, disk)
        BY <1>6 DEF Listen, StartupTypes
    <2>2. IsOffer(job, BuildAssetCatalog(job.settings, disk).files)
        BY CatalogIsOffer DEF CatalogOfJob, StartupTypes
    <2> QED
        BY <1>4, <1>6, <2>1, <2>2 DEF Listen, CatalogOfJob
<1>7. CASE RestartCoordinator
    BY <1>4, <1>7 DEF RestartCoordinator, Starting, NoCatalog, CatalogOfJob, IsOffer
<1>8. CASE EditSource
    <2>1. PICK path \in DOMAIN disk, bytes \in Edits :
             disk' = [disk EXCEPT ![path].bytes = bytes]
        BY <1>8 DEF EditSource
    <2>2. OnlyBytesDiffer(job, disk')
        BY <2>1, StartupAssumption DEF OnlyBytesDiffer, CatalogOfJob, StartupTypes, IsDisk,
             IsFile
    <2> QED
        BY <1>4, <1>8, <2>2 DEF EditSource, CatalogOfJob
<1> QED
    BY <1>3, <1>5, <1>6, <1>7, <1>8 DEF Next, CoordinatorStep, Steps

LEMMA StartupInitially == Init => StartupIInv
<1> SUFFICES ASSUME Init PROVE StartupIInv
    OBVIOUS
<1>1. ConversationIInv
    BY ConversationInitially
<1>2. CatalogOfJob
    BY DEF Init, CatalogOfJob, Starting, NoCatalog, IsOffer, OnlyBytesDiffer
<1>3. \A w \in Workers : LoadedFingerprint(w) /\ TransferExact(w)
    BY DEF Init, Down, LoadedFingerprint, TransferExact, Registered, Loaded, Transferring
<1> QED
    BY <1>1, <1>2, <1>3 DEF StartupIInv, ConversationIInv, Conversation

LEMMA StartupGivesRendersCatalogue == StartupIInv => RendersCatalogue
<1> SUFFICES ASSUME StartupIInv, NEW w \in Workers, Submits(w)
             PROVE  RendersTheJob(w) /\ RendersWhatIsOffered(w)
    BY DEF RendersCatalogue
<1> DEFINE files == coordinator.catalog.files
<1>1. RendersTheJob(w)
    BY DEF StartupIInv, KnowsCoordinator, LoadedFingerprint, FingerprintOfScene, Loaded, Submits,
           RendersTheJob
<1>2. worker[w].place \in Loaded /\ worker[w].accepted.assets = Sent(files)
    BY DEF StartupIInv, KnowsCoordinator, Loaded, Submits
<1>3. /\ DOMAIN Sent(files) = DOMAIN files
      /\ \A i \in DOMAIN files : /\ Sent(files)[i].relativePath = files[i].relativePath
                                 /\ Sent(files)[i].byteSize = files[i].byteSize
                                 /\ Sent(files)[i].checksum = files[i].checksum
    BY DEF Sent
<1>4. RendersWhatIsOffered(w)
    BY <1>2, <1>3 DEF StartupIInv, TransferExact, RendersWhatIsOffered
<1> QED
    BY <1>1, <1>4

\* Under whatever options, edits, restarts and lost connections, and whatever other
\* workers do to its cache, a worker sends the coordinator no result unless the fingerprint
\* its renderer took is the coordinator's. That the files it loaded before that still
\* had this fingerprint needs a cache of its own.
THEOREM RendererIsOfTheJob ==
    Spec => [](\A w \in Workers : Submits(w) => worker[w].driver = coordinator.fingerprint)
<1>1. ConversationIInv =>
        \A w \in Workers : Submits(w) => worker[w].driver = coordinator.fingerprint
    BY DEF ConversationIInv, Conversation, KnowsCoordinator, Submits
<1> QED
    BY <1>1, ConversationInvariant, PTL

\* If no two workers share a cache directory, no result is under way that was rendered
\* from files of another fingerprint than the coordinator's, and what it was rendered
\* from is, file by file, what the coordinator of the connection has in its catalog.
THEOREM RendersFromCatalogue == ASSUME OwnCaches PROVE Spec => []RendersCatalogue
    BY StartupInitially, StartupInductive, StartupGivesRendersCatalogue, PTL DEF Spec

\* Whenever there is a catalog it is complete; the disk differs in bytes only.
CatalogueIInv ==
    /\ job \in StartJobs /\ OnlyBytesDiffer(job, disk)
    /\ DOMAIN coordinator = {"place", "fingerprint", "catalog"}
    /\ CatalogueComplete

LEMMA CatalogueInductive == ConversationIInv /\ CatalogueIInv /\ [Next]_vars => CatalogueIInv'
<1> SUFFICES ASSUME ConversationIInv, CatalogueIInv, [Next]_vars PROVE CatalogueIInv'
    OBVIOUS
<1> USE DEF CatalogueIInv
<1>1. ASSUME UNCHANGED <<job, disk, coordinator>> PROVE CatalogueIInv'
    BY <1>1 DEF CatalogueComplete
<1>2. ASSUME NEW w \in Workers, Steps(w) PROVE CatalogueIInv'
    BY <1>1, <1>2, StepsLeaveOthersAlone DEF ConversationIInv, OthersAlone
<1>3. CASE Fingerprinted
    BY <1>3 DEF Fingerprinted, CatalogueComplete
<1>4. CASE Listen
    <2>1. /\ UNCHANGED <<job, disk>>
          /\ DOMAIN coordinator' = DOMAIN coordinator
          /\ \/ coordinator'.catalog = coordinator.catalog
             \/ coordinator'.catalog = BuildAssetCatalog(job.settings, disk)
        BY <1>4 DEF Listen
    <2>2. CASE coordinator'.catalog = coordinator.catalog
        BY <2>1, <2>2 DEF CatalogueComplete
    <2>3. CASE coordinator'.catalog = BuildAssetCatalog(job.settings, disk)
        BY <2>1, <2>3, CatalogIsComplete DEF CatalogueComplete
    <2> QED
        BY <2>1, <2>2, <2>3
<1>5. CASE RestartCoordinator
    <2>1. UNCHANGED <<job, disk>> /\ coordinator' = Starting
        BY <1>5 DEF RestartCoordinator
    <2>2. CatalogueComplete'
        BY <2>1 DEF Starting, CatalogueComplete, NamesWhatIsLoaded, NoCatalog
    <2> QED
        BY <2>1, <2>2 DEF Starting
<1>6. CASE EditSource
    <2>1. PICK path \in DOMAIN disk :
             \E bytes \in Edits : disk' = [disk EXCEPT ![path].bytes = bytes]
        BY <1>6 DEF EditSource
    <2>2. OnlyBytesDiffer(job, disk')
        BY <2>1, StartupAssumption DEF OnlyBytesDiffer, IsDisk, IsFile
    <2> QED
        BY <1>6, <2>2 DEF EditSource, CatalogueComplete
<1> QED
    BY <1>1, <1>2, <1>3, <1>4, <1>5, <1>6 DEF Next, CoordinatorStep, Steps, vars

LEMMA CatalogueInitially == Init => CatalogueIInv
    BY DEF Init, CatalogueIInv, Starting, CatalogueComplete, NamesWhatIsLoaded, NoCatalog,
         OnlyBytesDiffer

\* With whatever scene, and whatever is edited before the coordinator comes to it, the catalog
\* names every file that a loader will open, unless the scene is one of those that catalog
\* and loaders read differently (Flat), and no path that a worker would refuse.
THEOREM CatalogueIsComplete == Spec => []CatalogueComplete
<1>1. CatalogueIInv => CatalogueComplete
    BY DEF CatalogueIInv
<1> QED
    BY <1>1, CatalogueInitially, CatalogueInductive, ConversationInvariant, PTL DEF Spec
=============================================================================
