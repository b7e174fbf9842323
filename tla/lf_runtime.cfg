SPECIFICATION LFRSpec
CONSTANTS
    Parts = {"runtime", "hash", "deque"}
    Threads = 2
    IdleCritical = 1
    StealFrequency = 3
    CriticalSize = 2
    Budget = 2
    MaxLoads = 1
    LFMayKill = TRUE
    LFSources = {TRUE, FALSE}
    HTProc = {"a", "b"}
    HTKey <- TwoKeys
    HTHash <- KeyHash
    FirstSlots = 1
    MaxImpl = 3
    HTOps = 2
    HTCollects = TRUE
    DqThief = {"a", "b"}
    DqSize = 2
    DqPushes = 3
    DqOps = 2
CHECK_DEADLOCK FALSE
INVARIANTS RunTimeSleepers RunTimeOneSource
INVARIANTS HashCopyTransparent DequeExactlyOnce
PROPERTIES QueueRuns
