SPECIFICATION Spec
CONSTANTS
    a = a
    b = b
    c = c
    FINGER_COUNT = 3
    FINGER_COUNT_SUPPORT = 2
    PERSON_COUNT = 2
    ENROLL_COUNT = 2
    Fingers = {a, b}
    Names = {1, 2, 3}
    OwnName = 3
    InitialMnt <- TwoPersons
    MaxOps = 0
    MaxCuts = 0
    MaxUnopened = 0
INVARIANTS FingernumCounts
CHECK_DEADLOCK FALSE
