SPECIFICATION FairSpec
CONSTANTS
    Trainers = {"worker"}
    MaxSessions = 3
    Accs = {500, 530}
    MaxFaults = 1
INVARIANTS
    TypeOK
    ManifestComplete
    ServedFromOneTraining
PROPERTIES
    DowngradeNeedsLostReport
    SlotSpec
CHECK_DEADLOCK FALSE
