SPECIFICATION Spec
CONSTANTS
    a = a
    b = b
    c = c
    FINGER_COUNT = 3
    FINGER_COUNT_SUPPORT = 2
    PERSON_COUNT = 2
    ENROLL_COUNT = 2
    Fingers = {a, b, c}
    Names = {1}
    OwnName = 1
    InitialMnt <- NoFiles
    MaxOps = 3
    MaxCuts = 1
    MaxUnopened = 0
INVARIANTS EnrolledKept
CHECK_DEADLOCK FALSE
