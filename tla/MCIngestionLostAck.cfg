SPECIFICATION Spec
CONSTANTS
    Effects = 1
    FirstCheckpoint = 1
    MaxRetained = 3
    MaxInFlight = 3
    MaxGenerations = 1
    MaxSequence = 3
    MaxSessions = 2
    MaxFaults = 2
INVARIANT
    AppliedAtMostOnce
CHECK_DEADLOCK FALSE
