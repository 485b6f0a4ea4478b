SPECIFICATION FairSpec
CONSTANTS
    Effects = 1
    FirstCheckpoint = 1
    MaxRetained = 2
    MaxInFlight = 2
    MaxGenerations = 2
    MaxSequence = 2
    MaxSessions = 2
    MaxFaults = 2
PROPERTIES
    ClaimsAreReleased
    FailureIsRetried
CHECK_DEADLOCK FALSE
