SPECIFICATION FairSpec
CONSTANTS
    a = a
    b = b
    off = off
    absent = absent
    operator = operator
    call = call
    recovery = recovery
    token = token
    h1 = h1
    h2 = h2
    Configs <- TwoConfigs
    On <- TurnedOn
    Absent = absent
    Operators <- OneOperator
    Reconnectors <- OneCall
    Recovery = recovery
    TokenLoop = token
    HealthTasks <- TwoTasks
    DegradeAt = 1
    FailAt = 3
    SuperviseAt = 2
    MaxReloads = 1
CHECK_DEADLOCK FALSE
INVARIANTS
    TypeOK
    OneStartAtATime
    InstalledIsConfigured
    DownIsWatched
    RemovedIsForgotten
    OneCurrentHealthTask
PROPERTIES
    DownIsRetried
