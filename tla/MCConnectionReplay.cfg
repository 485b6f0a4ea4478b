SPECIFICATION Spec
CONSTANTS
    Consumers = {c1, c2}
    NoConsumer = none
    Keys = {}
    PayloadSizes = {1, 3, 4}
    MaxRecords = 2
    MaxBytes = 3
    MaxInFlight = 2
    MaxSentOnceKeys = 1
    MaxSequence = 4
    MaxAttachments = 2
    MaxChunk = 1
SYMMETRY ConsumerSymmetry
CHECK_DEADLOCK FALSE
INVARIANTS
    TypeOK
    NoSilentLoss
    CheckpointAtWatermark
    NoStalledDelivery
    DeliveredInOrder
    ClosureIsLast
    GapIsTold
    MailboxBounded
PROPERTIES
    AckCoversDelivered
    RefinesReplayFeed
