SPECIFICATION Spec
CONSTANTS
    s1 = s1
    s2 = s2
    r1 = r1
    r2 = r2
    NoId = NoId
    Ids <- MCIds
    Reqs <- MCReqs
    MaxSessions = 1
    ClosedKept = 1
    MaxAsks = 3
    MaxSignOuts = 1
    MaxEnding = 1
SYMMETRY Symmetry
CHECK_DEADLOCK FALSE
INVARIANTS
    NothingLeftBehind
PROPERTIES
    KeptWhileUsed
