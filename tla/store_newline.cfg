SPECIFICATION Spec
CONSTANTS
    t1 = t1
    t2 = t2
    Threads = {t1}
    CompactThreshold = 3
    Tears = {"bytes", "newline"}
    WritesMayFail = FALSE
    MaxPuts = 5
    MaxFaults = 3
INVARIANTS
    AckedIsReadable
CHECK_DEADLOCK FALSE
