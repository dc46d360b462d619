SPECIFICATION FairSpec
CONSTANTS
    ENROLL_COUNT = 2
    MaxEnrols = 1
    MaxResets = 1
    MaxNoise = 1
    MaxFails = 1
    MaxHasty = 2
INVARIANTS TypeOK OneImagePerTouch SpoiltOnce StuckHasCause
PROPERTIES StuckForever VerifiesOrStuck
CHECK_DEADLOCK FALSE
