SPECIFICATION Spec
CONSTANTS
    Event = {e1, e2, e3}
    Null = NULL
    Nodes <- AllNodes
    Atom <- MCAtom
    ExclusiveAtom <- MCExclusive
    Plan <- MCPlan
    MaxAtomicsPerNode = 2
SYMMETRY Symmetry
INVARIANTS TypeOK HeldCount GuardExclusion WaitersBlocked WaitsOnce GuardsInOrder OwnedOnce NoCircularWait
PROPERTIES NoOvertaking KeepsPromise
