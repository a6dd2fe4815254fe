SPECIFICATION RenderSpec
CONSTANTS
    NumTasks = 2
    Tiles = {"A"}
    TileOf <- MCTileOf
    SampleStart <- MCSampleStart
    SampleCount <- MCSampleCount
    SamplesPerPixel = 2
    MaxSampleCount = 2
    Workers <- MCIds
    NoWorker = NoWorker
    NoCheckpoint = NoCheckpoint
    LeaseDuration = 1
    ClockLag = 1
    MaxTime = 1
    Clients <- MCClients
    IdOf <- RestartedId
    Compatible <- MCClients
    Reliable <- OneReliable
INVARIANTS
    LeasesAreServed
    RepliesMatchRequests
    AcknowledgedIsMerged
    DoneMeansComplete
PROPERTIES
    KeepsItsTask
    UsesCoordinator
CHECK_DEADLOCK FALSE
