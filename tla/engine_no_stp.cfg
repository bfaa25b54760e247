SPECIFICATION Spec
CONSTANTS
    OrderId = {o1, o2, o3}
    nil = nil
    Owner = {w0}
    Ungrouped = w0
    band_lo = 1
    band_hi = 4
    MaxQty = 2
    stp_ = "None"
    protection_ = 1
SYMMETRY IdSymmetry
INVARIANTS
    LadderInSync
    ProtectionCapsSweep
PROPERTIES
    TradesAtPriority
    ReproducesNaive
