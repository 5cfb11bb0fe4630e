SPECIFICATION FairSpec
CONSTANTS
    t1 = t1
    t2 = t2
    h1 = h1
    h2 = h2
    w1 = w1
    op1 = op1
    c1 = c1
    c2 = c2
    Threads = {t1}
    Sessions = {h1}
    Waiters = {w1}
    Contents = {c1}
    Operations = {op1}
    NoOperation = NoOperation
    MaxMessages = 2
    MaxFaults = 2
    WriteFaults = TRUE
INVARIANTS
    RoutingIsReadable
    AcknowledgedWasInjected
    RepeatsNeedACut
    OneMessagePerOperation
PROPERTIES
    WaitersAreServed
    PromisesAreKept
CHECK_DEADLOCK FALSE
