\* The alert of a removal, against what the removal does.
CONSTANTS
    p = p
    q = q
    none = none
    find = find
    Photo = {p, q}
    KeyOrder <- MCKeyOrder
    KeyOf <- MCKeyOf
    Stray = Stray
    Text = {none, find}
    NoText = none
    Matching <- MCMatching
    Absent = Absent
    Unknown = Unknown
    Closed = Closed
    Untold = Untold
    MaxWrites = 2
    MaxTroubles = 0
    MaxBlocks = 2
SPECIFICATION Spec
INVARIANT DeletedAlertIsTrue
CHECK_DEADLOCK FALSE
