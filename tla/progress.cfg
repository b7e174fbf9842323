SPECIFICATION ProgressSpec
CONSTANTS
    Event = {e1, e2, e3}
    Null = NULL
    Nodes <- StarvationNodes
    Atom <- MCAtom
    ExclusiveAtom <- MCExclusive
    Plan <- MCPlan
    MaxAtomicsPerNode = 2
    Plans <- MCPlans
    Main = 0
    MaxLoads = 2
INVARIANTS FilesReadOnce FailsForCause RoutesAsWritten MagicNumbersRespectOrder
PROPERTIES LibrariesInOrder LoadEnds EveryEventRuns
CHECK_DEADLOCK FALSE
