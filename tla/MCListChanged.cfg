\* Two handlers, two changes of two kinds, two task slots, one timeout, one abnormal exit.
CONSTANTS
    h1 = h1
    h2 = h2
    t1 = t1
    t2 = t2
    tools = tools
    resources = resources
    Kinds <- BothKinds
    KindOrder <- ToolsFirst
    Relisted <- OnlyTools
    Handlers <- TwoHandlers
    Tasks <- TwoTasks
    MaxVersion = 2
    MaxTimeouts = 1
    MaxAborts = 1
SPECIFICATION FairSpec
CHECK_DEADLOCK FALSE
INVARIANT FlagMeansOneWorker
INVARIANT LostOnlyByTheft
PROPERTY ChangeReachesCatalog
PROPERTY AnnouncementIsFannedOut
