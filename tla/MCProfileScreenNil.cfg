\* The unwrapped self of the completions.
CONSTANTS
    s1 = s1
    s2 = s2
    Screen = {s1, s2}
    NoAnswer = NoAnswer
SPECIFICATION Spec
SYMMETRY Screens
INVARIANT SelfIsNeverNil
CHECK_DEADLOCK FALSE
