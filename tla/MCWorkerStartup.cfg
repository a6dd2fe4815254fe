SPECIFICATION Spec
CONSTANTS
    Base = 4
    Word = 32
    MaxMessageBytes = 250
    MaxStringBytes = 4
    MaxAssetFiles = 3
    ChunkBytes = 2
    Workers = {1}
    CacheOf <- MCCacheOf
    StartJobs <- MCStartJobs
    WireJobs <- MCWireJobs
    Edits <- MCEdits
INVARIANTS
    RendersCatalogue
    CatalogueComplete
    PlanExact
    WireExact
PROPERTIES
    StartupSucceeds
CHECK_DEADLOCK FALSE
