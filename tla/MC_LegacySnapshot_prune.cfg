\* longitudinal_snapshot.py run() when gufi_query skips a subtree whose
\* -T returns no row.
CONSTANTS
    top = top
    d1 = d1
    d2 = d2
    e2 = e2
    w1 = w1
    w2 = w2
    both = both
    one = one
    Nodes <- MCNodes
    Workers <- MCWorkers
    Paths <- MCPaths
    Scope <- MCScope
    HasSummary <- MCHasSummary
    HasTreeSum <- MCHasTreeSum
    Below <- MCBelow
    MaxRuns = 3
    TPrunes = TRUE
SPECIFICATION Spec
SYMMETRY MCSymmetry
INVARIANT SnapshotOfLastRun
CHECK_DEADLOCK FALSE
