SPECIFICATION FairSpec
CONSTANTS
    Kills = {k1}
    Lots = 2
    MaxFaults = 1
INVARIANTS
    TypeOK
    FinalizedIsFlat
    AbandonedByFaultOnly
PROPERTY
    ExitUnlessStuck
CHECK_DEADLOCK FALSE
