SPECIFICATION FairSpec
CONSTANTS
    ByteMod = 16
    SOH_FF = 15
    SOH_55 = 5
    SOH_AA = 10
    PROTO_DATA_LEN = 16
    PROTO_BUFF_LEN = 5
    ReadMax = 4
    Transmissions <- Anything
    Clean <- InSync
    Garbage = {0}
    MaxSends = 3
    MaxSpill = 6
    GET_ICON_BUTTON_SELECT = 2
    GET_USER = 3
    GET_PASSWORD = 4
INVARIANTS TypeOK RoundDrains RingFifo ParserCoherent HandledAsSent
PROPERTIES DeliversFrames WedgedForever EachSentHandled
CHECK_DEADLOCK FALSE
