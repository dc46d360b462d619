SPECIFICATION FairSpec
CONSTANTS
    ByteMod = 16
    SOH_FF = 15
    SOH_55 = 5
    SOH_AA = 10
    PROTO_DATA_LEN = 16
    ReadMax = 14
    Transmissions <- Mixed
    MaxSends = 3
INVARIANTS TypeOK ChunkMeaning OneFramePerChunk BuffersApart
PROPERTIES FirstNotLost
CHECK_DEADLOCK FALSE
