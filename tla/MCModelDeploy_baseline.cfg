SPECIFICATION FairSpec
CONSTANTS
    Trainers = {"worker"}
    MaxSessions = 3
    Accs = {500, 530}
    MaxFaults = 0
PROPERTY
    NoDowngrade
CHECK_DEADLOCK FALSE
