SPECIFICATION Spec
CONSTANTS
    MaxThreads = 3
    MaxAllocs = 2
    warmup = 1
    cfg_ops = 3
    kMaxLive = 2
    kDriftEvery = 2
    mid0 = 9001
    mid_lo = 9000
    mid_hi = 11000
    PassiveOff <- Passive
    AggressiveOff <- Aggressive
INVARIANTS
    StreamSound
    MeasuredRegionExact
