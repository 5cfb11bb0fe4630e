SPECIFICATION Spec
CONSTANTS
    t1 = t1
    t2 = t2
    h1 = h1
    h2 = h2
    w1 = w1
    op1 = op1
    c1 = c1
    c2 = c2
    Threads = {t1}
    Sessions = {h1, h2}
    Waiters = {w1}
    Contents = {c1, c2}
    Operations = {}
    NoOperation = NoOperation
    MaxMessages = 2
    MaxFaults = 2
    WriteFaults = FALSE
INVARIANTS
    PromisesAreRouted
    NobodyParkedOnAClosedThread
    RetryIsEarned
PROPERTIES
    PruneOnlySettled
    HonoursContract
CHECK_DEADLOCK FALSE
