SPECIFICATION Spec
CONSTANTS
    Keys = {k1, k2, k3}
    MaxPendingOpens = 2
    MaxOpenTasks = 2
    MaxConnections = 3
    MaxOpens = 3
    MaxCrashes = 1
SYMMETRY KeySymmetry
INVARIANT
    OpenNeverRaises
CHECK_DEADLOCK FALSE
