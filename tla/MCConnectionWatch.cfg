SPECIFICATION FairSpec
CONSTANTS
    Consumers = {c1}
    NoConsumer = none
    Keys = {k1, k2}
    PayloadSizes = {1}
    MaxRecords = 1
    MaxBytes = 1
    MaxInFlight = 1
    MaxSentOnceKeys = 2
    MaxSequence = 1
    MaxAttachments = 3
    MaxChunk = 1
CHECK_DEADLOCK FALSE
INVARIANTS
    DeadConsumerIsWatched
    SentAtMostOnce
PROPERTIES
    StaleSignalIsHarmless
    DeadConsumerIsDetached
    TombstoneExpires
