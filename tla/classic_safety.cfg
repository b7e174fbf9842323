SPECIFICATION Spec
CONSTANTS
    Thread = {t1, t2, t3, t4}
    Event = {plain, reads, sleeps, apart, remote}
    Blocking = {reads, sleeps}
    Detached = {apart, remote}
    Releasing = {plain, sleeps}
    MaxThreads = 4
    MaxDetached = 1
    MayKill = TRUE
    MayFail = TRUE
    HasSource = FALSE
    NoEvent = NoEvent
SYMMETRY Symmetry
INVARIANTS CountsAgree NoStall
CHECK_DEADLOCK FALSE
