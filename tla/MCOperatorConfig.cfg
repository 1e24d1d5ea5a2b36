SPECIFICATION ConfigFairSpec
CONSTANTS
    s = s
    c = c
    Servers <- TwoServers
    CopyOf <- OneCopy
    Values = {v1, v2}
    ChanCap = 1
    MaxChanges = 2
    MaxReloads = 1
    MaxSaves = 1
    MaxTrouble = 1
    MaxEvents = 3
CHECK_DEADLOCK FALSE
INVARIANTS
    KeyIsAccepted
PROPERTY
    MemoryFollowsFile
