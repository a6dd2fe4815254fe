SPECIFICATION Spec
CONSTANTS
    TilePixels <- MCTilePixels
    NumSamples = 2
    Capacity = 3
    MaxDepth = 3
    BlockSize = 2
    WarpSize = 2
    MaxBlocks = 2
    NoPath = NoPath
INVARIANTS
    ExactWhileLed
PROPERTIES
    LedgerWhileLed
CONSTRAINTS
    StillLed
CHECK_DEADLOCK FALSE
