\* A year's end: two mishaps among lost frames and presses, both orders of
\* reading.  Time may stop, the rounds go on, until a command has overrun
\* time_s and the program is dead.
SPECIFICATION FairSpec
CONSTANTS
    Instants <- YearEnd
    BootDate <- FactoryDate
    Strays <- StrayTimes
    ReadOrders <- BothWays
    MaxMishaps = 2
    MaxLine = 2
INVARIANTS TypeOK CommandFits DateTrue DateWhole
PROPERTIES DateFollows
CHECK_DEADLOCK FALSE
