SPECIFICATION Spec
CONSTANTS
    OrderId = {o1, o2, o3}
    nil = nil
    Owner = {w0, w1}
    Ungrouped = w0
    band_lo = 1
    band_hi = 3
    MaxQty = 2
    stp_ = "CancelResting"
    protection_ = 0
SYMMETRY IdSymmetry
INVARIANTS
    TypeOK
    ListsAreFifo
    TotalsExact
    IndexInSync
    SweepSound
PROPERTIES
    SelfTradePrevented
    EveryLossIsReported
    ReproducesV1
