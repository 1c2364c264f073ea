CONSTANTS
    top = top
    d1 = d1
    d2 = d2
    w1 = w1
    w2 = w2
    both = both
    one = one
    Nodes <- MCNodes
    Workers <- MCWorkers
    Paths <- MCPaths
    Scope <- MCScope
    HasSummary <- MCHasSummary
    HasTreeSum <- MCHasTreeSum
    MaxRuns = 3
SPECIFICATION Spec
SYMMETRY MCSymmetry
INVARIANT
    MetadataDescribesStore
CHECK_DEADLOCK FALSE
