SPECIFICATION Spec
CONSTANTS
    Keys = {k1, k2, k3}
    MaxPendingOpens = 2
    MaxOpenTasks = 2
    MaxConnections = 2
    MaxOpens = 3
    MaxCrashes = 1
SYMMETRY KeySymmetry
INVARIANTS
    TypeOK
    SocketsWithinLimit
    CancelledLeavesNothing
    ReservationsAreHeld
CHECK_DEADLOCK FALSE
