SPECIFICATION Spec
CONSTANTS
    PendingLimit = 2
    ReplayLimit = 3
    ChanCap = 1
    MaxSends = 4
    MaxConnects = 3
    MaxAsked = 1
    MaxLosses = 1
CHECK_DEADLOCK FALSE
INVARIANTS
    LostOnlyInRace
    NothingStranded
