SPECIFICATION Spec
CONSTANTS
    p1 = p1
    p2 = p2
    p3 = p3
    Processes = {p1, p2}
    NoProcess = NoProcess
    Attempts = 2
    MaxAlive = 2
    MaxWrites = 2
    MaxCrashes = 0
INVARIANTS
    OwnerIsCurrent
CHECK_DEADLOCK FALSE
