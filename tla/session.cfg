SPECIFICATION FairSpec
CONSTANTS
    max_msgs = 3
    MaxBad = 1
    Client = {1, 2}
    nobody = 0
    n_orders <- Orders
    MaxOps <- Ops
    MaxOpsInAll = 3
    kMaxOutbox = 2
    MaxTrades = 1
    MaxLost = 1
INVARIANTS
    SubscriberRight
    OneOpInFlight
    LoadStartsLive
    WindowExact
PROPERTIES
    ClientsEnd
CHECK_DEADLOCK FALSE
