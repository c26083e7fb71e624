SPECIFICATION FairSpec
CONSTANTS
    Trades <- MCTrades
    Outcomes <- MCOutcomes
    MaxUnwritten = 1
    MaxScripts = 1
    MaxFaults = 2
INVARIANTS
    TypeOK
    MismatchIsVisible
    PersistedSurvives
    OutcomesStayFlushed
    RebalanceCorrect
PROPERTIES
    EngineReturns
CHECK_DEADLOCK FALSE
