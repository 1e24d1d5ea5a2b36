\* Two callers, two families, one catalog change, four calls.
CONSTANTS
    c1 = c1
    c2 = c2
    tools = tools
    resources = resources
    Callers <- TwoCallers
    Families <- TwoFamilies
    Tools = tools
    MaxVersion = 1
    MaxCalls = 4
SPECIFICATION FairSpec
CHECK_DEADLOCK FALSE
INVARIANT TypeOK
INVARIANT OnePassAtATime
INVARIANT AvailabilityMatchesSnapshot
INVARIANT SomeoneWillNotify
PROPERTY KeepsContract
PROPERTY EveryCallEnds
