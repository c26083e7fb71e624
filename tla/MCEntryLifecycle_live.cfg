SPECIFICATION FairSpec
CONSTANTS
    MaxEntries = 1
    MaxOrders = 3
    OrderQty = 1
    MaxChase = 1
    CallsMayFail = FALSE
    ReadsMayMiss = FALSE
PROPERTIES
    CancellingEnds
    FilledEntryLeaves
    ExposureManaged
