SPECIFICATION Spec
CONSTANTS
    s1 = s1
    s2 = s2
    c1 = c1
    c2 = c2
    d1 = d1
    None = None
    Servers = {s1, s2}
    Channels = {c1, c2}
    Dms = {d1}
    Owner <- MCOwner
    Order <- MCOrder
    LiveAtFirst = {s1}
    Queries = {q1}
    MaxSteps = 6
    MaxEvents = 2
    MaxDrops = 1
INVARIANTS
    TypeOK
    IdleHasNoQueue
    Converged
    SelectionIsShown
    ListingsAnswerTheLatestRequest
PROPERTIES
    RevisionsNeverFall
CHECK_DEADLOCK FALSE
