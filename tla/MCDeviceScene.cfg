SPECIFICATION Spec
CONSTANTS
    MaxTrianglesPerLeaf = 2
    SplitBins = 8
    MaxBvhDepth = 2
    StackSize = 3
    WideStackSize = 4
    Infinity = 12
    Resolution = 64
    GridMinimum <- MCGridMinimum
    GridMaximum <- MCGridMaximum
    SearchRadius = 384
    MaxNearest = 2
    CausticMaxDepth = 3
    HostScenes <- MCHostScenes
    Rays <- MCRays
    Starts <- MCStarts
    Hits <- MCHits
INVARIANTS
    TracesExact
    LightsExact
    GatherIsNearest
