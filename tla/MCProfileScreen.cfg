\* Screens come and go while their requests are answered.
CONSTANTS
    s1 = s1
    s2 = s2
    Screen = {s1, s2}
    NoAnswer = NoAnswer
SPECIFICATION FairSpec
INVARIANTS
    TypeOK
    NothingDropped
PROPERTY StayedIsFilled
CHECK_DEADLOCK FALSE
