SPECIFICATION DaemonSpec
CONSTANTS
    t1 = t1
    t2 = t2
    a1 = a1
    a2 = a2
    x = x
    y = y
    p = p
    q = q
    Threads = {t1, t2}
    CompactThreshold = 3
    Tears = {"bytes"}
    WritesMayFail = FALSE
    MaxPuts = 5
    MaxFaults = 3
    Comments = {a1, a2}
    Texts = {x, y}
    NoText = NoText
    Branches = {"alt"}
    MaxEntries = 3
    MaxAsides = 1
    MaxEdits = 1
    Patches = {p, q}
    MaxMoves = 2
    MaxRefreshes = 1
    MaxRevisions = 1
    MaxRestarts = 1
    MaxPrompts = 2
    MaxLines = 2
    MaxCrashes = 3
    MaxRelays = 2
INVARIANTS
    AckedIsReadable
    ShowsItsPathUnlessBeside
    CommentsSurvive
    PromptedOnce
    ProgressIsTheOutput
PROPERTIES
    IsARegister
    NeverBackInTime
    FollowsTheTree
    MovesAreOffered
    PromptsEnd
CHECK_DEADLOCK FALSE
