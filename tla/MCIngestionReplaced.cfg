SPECIFICATION Spec
CONSTANTS
    Effects = 1
    FirstCheckpoint = 1
    MaxRetained = 2
    MaxInFlight = 2
    MaxGenerations = 2
    MaxSequence = 2
    MaxSessions = 2
    MaxFaults = 1
INVARIANT
    AcknowledgedIsApplied
CHECK_DEADLOCK FALSE
