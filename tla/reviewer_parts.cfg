SPECIFICATION ReviewerSpec
CONSTANTS
    s1 = s1
    s2 = s2
    s3 = s3
    h1 = h1
    c1 = c1
    c2 = c2
    l1 = l1
    l2 = l2
    n1 = n1
    n2 = n2
    o1 = o1
    o2 = o2
    t1 = t1
    Sessions = {s1, s2, s3}
    NoSession = NoSession
    Hunks = {h1}
    Comments = {c1, c2}
    Links = {l1}
    MaxActs = 3
    Notes = {n1, n2}
    OwnerNote = OwnerNote
    Prompts = {o1, o2}
    NoNote = NoNote
    MaxEdits = 2
    MaxTroubles = 1
    Threads = {t1}
    CompactThreshold = 3
    Tears = {"bytes", "newline"}
    WritesMayFail = TRUE
    MaxPuts = 8
    MaxFaults = 5
SYMMETRY Alike
INVARIANTS
    ShowsWhatIs
    NotesKeepTheirPlace
    EachEntersOnce
    AskedIsShown
    EditsAreKept
    LossIsBounded
    LogIsBounded
CHECK_DEADLOCK FALSE
