SPECIFICATION FairSpec
CONSTANTS
    Signals = {s1, s2}
    Shadowed = {}
    s1 = s1
    s2 = s2
    None = None
    LossThreshold = 1
    WinThreshold = 2
    MaxFaults = 1
INVARIANTS
    TypeOK
    LearnedOnce
PROPERTIES
    KeptIsLearned
    ResultsDrain
    ClosedLeaves
    StreakTrains
CHECK_DEADLOCK FALSE
