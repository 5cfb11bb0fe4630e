SPECIFICATION ViewSpec
CONSTANTS
    s1 = s1
    s2 = s2
    h1 = h1
    c1 = c1
    l1 = l1
    l2 = l2
    Sessions = {s1, s2}
    NoSession = NoSession
    Hunks = {h1}
    Comments = {c1}
    Links = {l1, l2}
    MaxActs = 3
PROPERTIES
    UnshareStopsSharing
CHECK_DEADLOCK FALSE
