CONSTANTS
    BufferSize = 0
    SyncOptions <- MCSyncOptions
    MaxWrites = 3
    MaxCrashes = 2
    MaxPins = 1
    MaxEvents = 4
SPECIFICATION Spec
INVARIANTS
    TypeOK
    Reopens
    AckedSurvive
    SequencesUnique
    LiveTablesExist
PROPERTIES EventuallyOpen
CHECK_DEADLOCK FALSE
