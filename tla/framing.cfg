SPECIFICATION FairSpec
CONSTANTS
    Byte = {0, 1, 2, 3}
    Radix = 4
    kMaxFrameLen = 2
    kCapacity = 4
    MaxStream = 7
INVARIANTS
    FramesExact
PROPERTIES
    FeedReturns
CHECK_DEADLOCK FALSE
