SPECIFICATION Spec
CONSTANTS
    None = None
    RenderLimit = 3
    BootPage = 2
    Page = 1
    DirectPage = 2
    Stored = 3
    MaxUnsent = 2
    MaxLog = 5
    MaxSteps = 4
    MaxDrops = 1
INVARIANTS
    TypeOK
    NothingMissing
    StatusesConverge
    NoDuplicates
    HydratedIsComplete
CHECK_DEADLOCK FALSE
