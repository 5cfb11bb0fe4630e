SPECIFICATION RemoteSpec
CONSTANTS
    p1 = p1
    p2 = p2
    p3 = p3
    n1 = n1
    o1 = o1
    o2 = o2
    Processes = {p1, p2, p3}
    NoProcess = NoProcess
    Attempts = 2
    MaxAlive = 3
    MaxWrites = 1
    MaxCrashes = 1
    Notes = {n1}
    OwnerNote = OwnerNote
    Prompts = {o1, o2}
    NoNote = NoNote
    MaxEdits = 1
    MaxTroubles = 1
    MaxChanges = 2
    MaxHitches = 2
INVARIANTS
    ExclusiveUnlessStolen
    ReachableUnlessStolen
PROPERTIES
    StartersGetService
    RequestsAreServed
    NeverOlder
    CatchesUp
CHECK_DEADLOCK FALSE
