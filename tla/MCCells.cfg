\* Three uses: both cells may wait for one download of a when one of them is
\* reused, for the same picture or another, and b and m come from the disk.  One
\* download may fail.
CONSTANTS
    c1 = c1
    c2 = c2
    p = p
    q = q
    r = r
    a = a
    b = b
    m = m
    Cell = {c1, c2}
    Photo = {p, q, r}
    URL = {a, b, m}
    NoURL = NoURL
    NoPhoto = NoPhoto
    NoCell = NoCell
    Full <- MCFull
    Medium <- MCMedium
    Stored = {b, m}
    MaxFailures = 1
    MaxUses = 3
SPECIFICATION Spec
INVARIANTS TypeOK ShowsItsRow
PROPERTIES EventuallyShown
\* All uses over and all queues empty: nothing is left to do.
CHECK_DEADLOCK FALSE
