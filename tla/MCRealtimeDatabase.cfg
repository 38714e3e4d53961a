\* Lost connections, refused and foreign writes, a killed app.
CONSTANTS
    here = here
    there = there
    a = a
    b = b
    Path = {here, there}
    Listened = {here}
    Value = {a, b}
    Absent = Absent
    Unknown = Unknown
    MaxWrites = 3
    MaxTroubles = 2
SPECIFICATION FairSpec
INVARIANTS
    TypeOK
    QuietMeansEqual
PROPERTIES
    NoFlicker
    EventuallyEqual
CHECK_DEADLOCK FALSE
