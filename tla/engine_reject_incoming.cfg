SPECIFICATION Spec
CONSTANTS
    OrderId = {o1, o2, o3}
    nil = nil
    Owner = {w0, w1}
    Ungrouped = w0
    band_lo = 1
    band_hi = 3
    MaxQty = 2
    stp_ = "RejectIncoming"
    protection_ = 0
SYMMETRY IdSymmetry
INVARIANTS
    NeverCrossed
    ResultIsTrue
    FokExact
PROPERTIES
    SweepEnds
