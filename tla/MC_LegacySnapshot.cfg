\* longitudinal_snapshot.py run() over three invocations; gufi_query
\* walks every directory whatever -T returns.
CONSTANTS
    top = top
    d1 = d1
    d2 = d2
    e2 = e2
    w1 = w1
    w2 = w2
    both = both
    one = one
    Nodes <- MCNodes
    Workers <- MCWorkers
    Paths <- MCPaths
    Scope <- MCScope
    HasSummary <- MCHasSummary
    HasTreeSum <- MCHasTreeSum
    Below <- MCBelow
    MaxRuns = 3
    TPrunes = FALSE
SPECIFICATION FairSpec
INVARIANTS
    SnapshotOfLastRun
    FailedRunKeepsSnapshot
PROPERTY
    ImplementsAbstract
CHECK_DEADLOCK FALSE
