SPECIFICATION FairSpec
CONSTANTS
    MaxWorkers = 1
    Pids = {p1, p2}
    NoPid = NoPid
    Junk = Junk
    TermSigs = {TERM}
    CHLD = CHLD
    SplitIncrement = FALSE
    CountBound = 4
CHECK_DEADLOCK FALSE
PROPERTY MissingIsSpawned
