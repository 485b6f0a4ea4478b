SPECIFICATION FairSpec
CONSTANTS
    Keys = {k1, k2}
    MaxPendingOpens = 2
    MaxOpenTasks = 2
    MaxConnections = 2
    MaxOpens = 2
    MaxCrashes = 1
PROPERTY
    OpensAreAnswered
CHECK_DEADLOCK FALSE
