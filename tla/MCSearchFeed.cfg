\* Every order of key strokes, timers, answers and failures.
CONSTANTS
    none = none
    random = random
    cats = cats
    dogs = dogs
    Text <- MCText
    NoText = none
    Random = random
    Total <- MCTotal
    PageSize = 2
    MaxKeystrokes = 3
SPECIFICATION SessionSpec
INVARIANTS
    TypeOK
    ShowsSearch
    PagesRequestedExist
    PageLoadsBounded
PROPERTIES
    EventuallyShowsSearch
    ImplementsFeed
CHECK_DEADLOCK FALSE
