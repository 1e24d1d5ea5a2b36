\* Two clients, two servers, two generations, one refresh pass, one connection event.
CONSTANTS
    c1 = c1
    c2 = c2
    s1 = s1
    s2 = s2
    None = None
    Clients <- TwoClients
    Servers <- TwoServers
    MaxGen = 2
    MaxPasses = 1
    MaxDials = 1
SPECIFICATION SubscriptionsSpec
SYMMETRY Symmetry
CHECK_DEADLOCK FALSE

INVARIANT EntryIsBacked
INVARIANT OrphanedOnlyLate
