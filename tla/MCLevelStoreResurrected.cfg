\* A deletion marker is dropped while an older value stays in its level.
CONSTANTS
    MaxKey = 2
    MaxSequence = 4
    NumLevels = 3
    MaxMemCompactLevel = 1
    L0Trigger = 2
    L0StopWrites = 3
    MaxBytes = 3
    GrandParentLimit = 9
    ExpandLimit = 9
    Options <- SplitKey
    NoTable = NoTable
    NoCompaction = NoCompaction
    NoManual = NoManual
SPECIFICATION Spec
INVARIANT DeletedStaysDeleted
CHECK_DEADLOCK FALSE
