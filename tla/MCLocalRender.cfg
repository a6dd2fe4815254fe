SPECIFICATION Spec
CONSTANTS
    Absent = Absent
    Partial = Partial
    MaxSequence = 6
    Writers <- MCWriters
    SlotCount = 2
    ProgressPercent = 16
    MaxStarts = 3
INVARIANTS
    ImageIsComplete
PROPERTIES
    CheckpointsAdvance
    EveryRunEnds
CHECK_DEADLOCK FALSE
