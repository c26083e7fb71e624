SPECIFICATION FairSpec
CONSTANTS
    Kills = {k1}
    Lots = 2
    MaxFaults = 0
PROPERTY
    ZombieIsClosed
CHECK_DEADLOCK FALSE
