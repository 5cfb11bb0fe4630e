SPECIFICATION Spec
CONSTANTS
    p1 = p1
    p2 = p2
    p3 = p3
    Processes = {p1, p2, p3}
    NoProcess = NoProcess
    Attempts = 2
    MaxAlive = 3
    MaxWrites = 0
    MaxCrashes = 0
INVARIANTS
    AtMostOneOwner
CHECK_DEADLOCK FALSE
