SPECIFICATION Spec
CONSTANTS
    c1 = c1
    o1 = o1
    o2 = o2
    NoCall = NoCall
    Calls <- OneCall
    Ops <- TwoOps
    MaxLife = 2
    MaxOps = 3
CHECK_DEADLOCK FALSE
INVARIANTS
    NothingOutlivesOwner
    Answerable
PROPERTIES
    EndedKeepsResult
    CreateEnds
