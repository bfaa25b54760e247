SPECIFICATION Spec
CONSTANTS
    lo_ = 2
    hi_ = 142
    Ticks <- BoundaryTicks
    MaxTop = 3
INVARIANTS
    BestIsBest
    ScanSkipsNothing
    TopLevelsExact
