\* The list ends up showing the favourites the server has.
CONSTANTS
    p = p
    q = q
    none = none
    find = find
    Photo = {p, q}
    KeyOrder <- MCKeyOrder
    KeyOf <- MCKeyOf
    Stray = Stray
    Text = {none, find}
    NoText = none
    Matching <- MCMatching
    Absent = Absent
    Unknown = Unknown
    Closed = Closed
    Untold = Untold
    MaxWrites = 1
    MaxTroubles = 1
    MaxBlocks = 2
SPECIFICATION FairSpec
PROPERTY ListEventuallyShowsSaved
CHECK_DEADLOCK FALSE
