SPECIFICATION RenderSpec
CONSTANTS
    NumTasks = 2
    Tiles = {"A"}
    TileOf <- MCTileOf
    SampleStart <- MCSampleStart
    SampleCount <- MCSampleCount
    SamplesPerPixel = 2
    MaxSampleCount = 2
    Workers <- MCIds
    NoWorker = NoWorker
    NoCheckpoint = NoCheckpoint
    LeaseDuration = 0
    ClockLag = 0
    MaxTime = 0
    Clients <- MCClients
    IdOf <- OwnIds
    Compatible <- TwoCompatible
    Reliable <- OneReliable
PROPERTIES
    JobCompletes
    WorkersLeave
CHECK_DEADLOCK FALSE
