SPECIFICATION MCSpec
CONSTANTS
    ClientId = {a, b}
    MaxQty = 2
    MaxId = 3
    MaxOwner = 3
    MaxConns = 2
    kMaxOutbox = 2
    Stp = {"None", "CancelResting", "RejectIncoming"}
SYMMETRY ClientSymmetry
INVARIANTS
    MirrorExact
    ReportsTrue
    NoOrphans
    FeedTrue
PROPERTIES
    OnlyOwnOrders
    IterationEnds
