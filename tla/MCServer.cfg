SPECIFICATION Spec
CONSTANTS
    MaxWorkers = 2
    Pids = {p1, p2, p3}
    NoPid = NoPid
    Junk = Junk
    TermSigs = {TERM, INT}
    CHLD = CHLD
    SplitIncrement = FALSE
    CountBound = 4
SYMMETRY Symmetry
CHECK_DEADLOCK FALSE
INVARIANTS
    TypeOK
    CountMatchesPool
    ChildrenKnown
    WorkersBounded
    TermReachesChildren
    RunNeverReturns
PROPERTY PoolImplemented
