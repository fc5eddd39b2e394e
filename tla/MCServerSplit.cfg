SPECIFICATION Spec
CONSTANTS
    MaxWorkers = 2
    Pids = {p1, p2, p3}
    NoPid = NoPid
    Junk = Junk
    TermSigs = {TERM}
    CHLD = CHLD
    SplitIncrement = TRUE
    CountBound = 4
SYMMETRY Symmetry
CHECK_DEADLOCK FALSE
INVARIANT
    WorkersBounded
PROPERTY
    DriftIsTorn
