SPECIFICATION FairSpec
CONSTANTS
    Key <- Four
    empty = 0
    Val = {v1, v2}
    null = null
    InitSlots = 4
    MaxSlots = 8
    Hashes <- WrapHashes
INVARIANTS
    TableSound
PROPERTIES
    ImplementsMap
    EveryCallReturns
