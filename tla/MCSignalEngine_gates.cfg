SPECIFICATION FairSpec
CONSTANTS
    Dollar <- MCDollar
    Predictions <- MCPredictions
    Books <- MCBooks
    FlipTicks = 2
    AdverseTicks = 2
    CorrLimit = 1
    MaxDicts = 2
    MaxFaults = 1
INVARIANTS
    TypeOK
    SignalSound
    SignaledOnce
    FlaggedIsSent
    LossMutes
    PlanCorrect
PROPERTIES
    PersistentFlipSignals
