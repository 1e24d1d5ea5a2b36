SPECIFICATION RegistrySpec
CONSTANTS
    k1 = k1
    k2 = k2
    a = a
    b = b
    NoConn = NoConn
    Conns <- MCConns
    Clients <- MCClients
CHECK_DEADLOCK FALSE
INVARIANTS
    RegistryIsCurrent
PROPERTIES
    StopsUnlessMissed


