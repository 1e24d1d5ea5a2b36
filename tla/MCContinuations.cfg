SPECIFICATION Spec
CONSTANTS
    c1 = c1
    c2 = c2
    o1 = o1
    r1 = r1
    None = None
    Calls <- MCCalls
    Owners <- MCOwners
    Targets <- MCTargets
    Quota = 2
    MaxRounds = 2
    MaxConn = 2
    MaxGen = 1
    MaxTokens = 1
CHECK_DEADLOCK FALSE
SYMMETRY Symmetry
INVARIANTS
    LedgerIsExact
    ParkedIsValid
    SentOnceWhereAsked
