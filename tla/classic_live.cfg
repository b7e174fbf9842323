SPECIFICATION FairSpec
CONSTANTS
    Thread = {t1, t2, t3}
    Event = {plain, reads, apart}
    Blocking = {reads}
    Detached = {apart}
    Releasing = {plain}
    MaxThreads = 3
    MaxDetached = 1
    MayKill = TRUE
    MayFail = FALSE
    HasSource = TRUE
    NoEvent = NoEvent
PROPERTIES EventsProgress KillStops
