SPECIFICATION MCSpec
CONSTANTS
    initial_capacity = 1
    MaxSlot = 3
    null = null
    object = object
    OrderId = {a, b, c}
    nil = nil
    Owner = {u, g}
    Ungrouped = u
    PriceArg <- Prices
    QtyArg <- Qtys
SYMMETRY IdSymmetry
INVARIANTS
    FreeListExact
    StorageExact
PROPERTIES
    PooledReproducesV1
