SPECIFICATION FairSpec
CONSTANTS
    Orders = {o1, o2}
    Capacity = 2
    Nobody = Nobody
PROPERTY
    EvaporatedIsCancelled
CHECK_DEADLOCK FALSE
