SPECIFICATION Spec
CONSTANTS
    Absent = Absent
    Partial = Partial
    MaxSequence = 2
    Writers <- MCWriters
    StaleStopping <- MCAnyMemory
INVARIANTS
    ShutdownDrains
CHECK_DEADLOCK FALSE
