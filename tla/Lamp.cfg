\* The battery between empty and full, charging, and at a status that leaves
\* the lamp as it is.
SPECIFICATION FairSpec
CONSTANTS
    Levels = {0, 15, 136, 128}
    MaxMishaps = 3
    MaxChanges = 3
    MaxLine = 2
INVARIANTS TypeOK LampLagsOne
PROPERTIES LampFollows
