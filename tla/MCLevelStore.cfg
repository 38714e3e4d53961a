\* Flushes, moves, compactions, snapshots and requested compactions.
CONSTANTS
    MaxKey = 2
    MaxSequence = 4
    NumLevels = 3
    MaxMemCompactLevel = 1
    L0Trigger = 2
    L0StopWrites = 3
    MaxBytes = 3
    GrandParentLimit = 9
    ExpandLimit = 9
    Options <- MCOptions
    NoTable = NoTable
    NoCompaction = NoCompaction
    NoManual = NoManual
SPECIFICATION Spec
INVARIANTS
    TypeOK
    LevelsDisjoint
    NewerFirst
    ReadsRight
PROPERTY SnapshotsKept
CHECK_DEADLOCK FALSE
