SPECIFICATION Spec
CONSTANTS
    Absent = Absent
    Partial = Partial
    MaxSequence = 4
    Writers <- MCWriters
    StaleStopping <- MCZeroedMemory
INVARIANTS
    NewestRetained
    ShutdownDrains
PROPERTIES
    FlushMeansWritten
    FileAdvances
    EveryCallReturns
    AcceptedIsWritten
CHECK_DEADLOCK FALSE
