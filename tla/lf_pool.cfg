SPECIFICATION PartSpec
CONSTANTS
    Parts = {"pool"}
    Event = {p, q, r}
    Node = {n1}
    RWEvent = {p, q, r}
    RWNode = {n1}
    RWPlans <- MixedPlans
    PoolEvent = {a, b}
    Resource = {s, t}
    FirstSize = 3
    PoolRounds = 6
    MpThreads = 2
    MpPerThread = 3
    MpNone = NULL
    MpGets = 3
    SmrThread = {a, b}
    SmrNode = {n1, n2, n3, n4}
    SmrCell = {x}
    SmrNull = NULL
    SmrBatch = 3
    SmrOps = 4
    ShThread = {a, b}
    Fd = {x}
    ShRoom = 2
    ShNobody = NULL
    AmEvent = {p, q, r}
    AmPlan <- MapPlans
    AmPool = "pool"
    AmKey = {"k", "l"}
    AmAtom = {a, b}
    AmCell = {n1, n2, n3, n4}
    AmData = {s}
    AmNull = NULL
    ElThread = {a, b}
    ElQueue = 4
    ElStyles = {"classic", "melding", "lockfree"}
    ElFlows = 2
    ElOutputs = 2
    ElNone = NULL
    CbThread = {p, q, r}
    CbSize = 4
    CbItems = 6
    LlNode = {n1, n2, n3, n4}
    LlHead = HEAD
    LlNull = NULL
    SgBar = {p, q, r}
    SgStyles = {"classic", "lockfree"}
    ExEvent = {p, q, r}
    ExStyles = {"classic", "lockfree"}
    ExPoolSize = 2
    ExSlots = 5
    ExNull = NULL
    TmThread = {a, b}
    TmEvent = {a, b}
    TmId = {"k", "l"}
    TmCancels = 1
    TmTime = 1
    WsFd = {a, b}
    WsNoFd = NULL
    WsPage = {a, b}
    WsPieces = 2
SYMMETRY Symmetry
CHECK_DEADLOCK FALSE
INVARIANT PoolAssertionsHold
