\* One reset of the sensor the program did not make, and no failure else.
SPECIFICATION FairSpec
CONSTANTS
    ENROLL_COUNT = 2
    MaxEnrols = 0
    MaxResets = 1
    MaxNoise = 0
    MaxFails = 0
    MaxHasty = 0
PROPERTIES ScansAfterReset
CHECK_DEADLOCK FALSE
