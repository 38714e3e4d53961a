\* Every order of taps, queues, connection and server.
CONSTANTS
    p = p
    q = q
    none = none
    find = find
    Photo = {p, q}
    KeyOrder <- MCKeyOrder
    KeyOf <- MCKeyOf
    Stray = Stray
    Text = {none, find}
    NoText = none
    Matching <- MCMatching
    Absent = Absent
    Unknown = Unknown
    Closed = Closed
    Untold = Untold
    MaxWrites = 2
    MaxTroubles = 1
    MaxBlocks = 2
SPECIFICATION Spec
INVARIANTS
    TypeOK
    ScreenCurrent
    ScreenMatchesDatabase
    AlertsAreTrue
CHECK_DEADLOCK FALSE
