SPECIFICATION Spec
CONSTANTS
    MaxEntries = 1
    MaxOrders = 2
    OrderQty = 1
    MaxChase = 2
    CallsMayFail = TRUE
    ReadsMayMiss = TRUE
INVARIANTS
    TypeOK
    NoStuckCancel
    AddFindsNoPending
    PromotedIsUnregistered
PROPERTY
    SlotSpec
