SPECIFICATION PartSpec
CONSTANTS
    Parts = {"exclusive", "readwrite", "pool", "memory", "reclaim", "shim", "maps", "events", "buffer", "list",
             "gather", "exerciser", "timer", "webserver"}
    Event = {p, q, r}
    Node = {n1, n2, n3, n4}
    RWEvent = {p, q, r}
    RWNode = {n1, n2, n3, n4}
    RWPlans <- MixedPlans
    PoolEvent = {p, q, r}
    Resource = {s}
    FirstSize = 2
    PoolRounds = 1
    MpThreads = 2
    MpPerThread = 3
    MpNone = NULL
    MpGets = 3
    SmrThread = {a, b}
    SmrNode = {n1, n2, n3, n4}
    SmrCell = {x}
    SmrNull = NULL
    SmrBatch = 3
    SmrOps = 4
    ShThread = {a, b}
    Fd = {x}
    ShRoom = 2
    ShNobody = NULL
    AmEvent = {p, q, r}
    AmPlan <- MapPlans
    AmPool = "pool"
    AmKey = {"k", "l"}
    AmAtom = {a, b}
    AmCell = {n1, n2, n3, n4}
    AmData = {s}
    AmNull = NULL
    ElThread = {a, b}
    ElQueue = 4
    ElStyles = {"classic", "melding", "lockfree"}
    ElFlows = 2
    ElOutputs = 2
    ElNone = NULL
    CbThread = {p, q, r}
    CbSize = 4
    CbItems = 6
    LlNode = {n1, n2, n3, n4}
    LlHead = HEAD
    LlNull = NULL
    SgBar = {p, q, r}
    SgStyles = {"classic", "lockfree"}
    ExEvent = {p, q, r}
    ExStyles = {"classic", "lockfree"}
    ExPoolSize = 2
    ExSlots = 5
    ExNull = NULL
    TmThread = {a, b}
    TmEvent = {a, b}
    TmId = {"k", "l"}
    TmCancels = 1
    TmTime = 1
    WsFd = {a, b}
    WsNoFd = NULL
    WsPage = {a, b}
    WsPieces = 2
SYMMETRY Symmetry
CHECK_DEADLOCK FALSE
INVARIANTS ExclusiveOneHolder ReadWriteExclusion PoolResourceOnce NobodyWaitsInVain MemoryKept
INVARIANTS ShimKeepsLockFree AtomicMapsKept EventsKept OneSource ContainersKept
INVARIANTS GatherOnce ExerciserPool HandedOutOnce WebServerSockets
