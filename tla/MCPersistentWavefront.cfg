SPECIFICATION Spec
CONSTANTS
    TilePixels <- MCTilePixels
    NumSamples = 1
    Capacity = 5
    MaxDepth = 3
    BlockSize = 2
    WarpSize = 2
    MaxBlocks = 3
    ResidentBlocks = 2
    NoPath = NoPath
INVARIANTS
    ExactWhileLed
PROPERTIES
    LedgerWhileLed
    RenderEnds
CONSTRAINTS
    StillLed
CHECK_DEADLOCK FALSE
