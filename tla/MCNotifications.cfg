SPECIFICATION Spec
CONSTANTS
    None = None
    Users = {u1, u2}
    Tabs = {t1, t2}
    LeaseLimit = 1
    MaxPushes = 2
    MaxSteps = 3
    MaxDrops = 1
SYMMETRY TabAndUserSymmetry
INVARIANTS
    TypeOK
    ConfirmedIsRegistered
PROPERTIES
    PushVerdict
CHECK_DEADLOCK FALSE
