SPECIFICATION LFRSpec
CONSTANTS
    Parts = {"hash"}
    Threads = 2
    IdleCritical = 1
    StealFrequency = 3
    CriticalSize = 2
    Budget = 2
    MaxLoads = 1
    LFMayKill = TRUE
    LFSources = {TRUE, FALSE}
    HTProc = {"a", "b"}
    HTKey <- TwoKeys
    HTHash <- KeyHash
    FirstSlots = 2
    MaxImpl = 3
    HTOps = 2
    HTCollects = FALSE
    DqThief = {"a", "b"}
    DqSize = 2
    DqPushes = 3
    DqOps = 2
CHECK_DEADLOCK FALSE
INVARIANTS HashOneAtomicPerKey
