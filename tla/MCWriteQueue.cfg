\* A third batch finds the memtable full, a second table would be too many: writers
\* queue up, are delayed, and wait for flushes and compactions.
CONSTANTS
    c1 = c1
    c2 = c2
    NoClient = NoClient
    Client = {c1, c2}
    BatchSize = 2
    BufferSize = 2
    CompactionTrigger = 1
    SlowdownTrigger = 1
    StopTrigger = 2
    MaxWrites = 3
    MaxForced = 1
    MaxErrors = 1
SPECIFICATION Spec
INVARIANTS
    TypeOK
    KilledLosesNothing
    SyncedSurvives
    SequencesFollowLog
    NothingAfterSyncError
PROPERTIES
    EveryCallReturns
    CloseReturns
    ImplementsAtomicWrites
\* All calls made and the database closed: the system stops.
CHECK_DEADLOCK FALSE
