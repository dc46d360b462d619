SPECIFICATION Spec
CONSTANTS
    a = a
    b = b
    c = c
    FINGER_COUNT = 3
    FINGER_COUNT_SUPPORT = 2
    PERSON_COUNT = 2
    ENROLL_COUNT = 2
    Fingers = {a, b, c}
    Names = {1, 2, 3}
    OwnName = 2
    InitialMnt <- MayBeAnothers
    MaxOps = 4
    MaxCuts = 2
    MaxUnopened = 1
SYMMETRY Symmetry
INVARIANTS TypeOK IdOfFinger NoFingerTwice DeletedGone
PROPERTIES OthersKnown
CHECK_DEADLOCK FALSE
