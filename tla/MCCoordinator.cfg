SPECIFICATION Spec
CONSTANTS
    NumTasks = 3
    Tiles = {"A", "B"}
    TileOf <- MCTileOf
    SampleStart <- MCSampleStart
    SampleCount <- MCSampleCount
    SamplesPerPixel = 3
    MaxSampleCount = 3
    Workers <- MCWorkers
    NoWorker = NoWorker
    NoCheckpoint = NoCheckpoint
    LeaseDuration = 2
    ClockLag = 1
    MaxTime = 3
INVARIANTS
    ExactlyOnce
    SampleCountsExact
    BookkeepingExact
    NoSpuriousReject
PROPERTIES
    NeverOvertaken
    ImplementsLedger
