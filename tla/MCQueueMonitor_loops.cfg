SPECIFICATION FairSpec
CONSTANTS
    Orders = {o1, o2}
    Capacity = 2
    Nobody = Nobody
INVARIANTS
    TypeOK
    RequestedOnce
PROPERTIES
    StaleLeaves
    DetectedLeaves
CHECK_DEADLOCK FALSE
