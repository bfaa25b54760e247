SPECIFICATION Spec
CONSTANTS
    ClientId = {a}
    MaxQty = 1
    MaxId = 2
    MaxOwner = 2
    MaxConns = 2
    kMaxOutbox = 2
    Stp = {"None"}
INVARIANTS
    FilledMeansTraded
