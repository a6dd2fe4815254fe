SPECIFICATION AppSpec
CONSTANTS
    Absent = Absent
    Partial = Partial
    MaxSequence = 4
    Writers <- MCWriters
    StaleStopping <- MCZeroedMemory
    NumTasks = 2
    MaxSessions = 2
    MaxStarts = 2
INVARIANTS
    FinalCheckpointComplete
    CleanReturn
PROPERTIES
    CheckpointKeepsProgress
    ProcessEnds
CHECK_DEADLOCK FALSE
