SPECIFICATION Spec
CONSTANTS
    Effects = 2
    FirstCheckpoint = 1
    MaxRetained = 2
    MaxInFlight = 2
    MaxGenerations = 2
    MaxSequence = 3
    MaxSessions = 2
    MaxFaults = 2
INVARIANTS
    TypeOK
    GuardedEffectsApplyOnce
    AcknowledgedWasApplied
PROPERTY
    ClaimsOutliveReplay
CHECK_DEADLOCK FALSE
