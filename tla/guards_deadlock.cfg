SPECIFICATION Spec
CONSTANTS
    Event = {e1, e2, e3}
    Null = NULL
    Nodes <- DeadlockNodes
    Atom <- MCAtom
    ExclusiveAtom <- MCExclusive
    Plan <- MCPlan
    MaxAtomicsPerNode = 2
SYMMETRY Symmetry
INVARIANTS NoCircularWait
