SPECIFICATION Spec
CONSTANTS
    Paths <- MCPaths
    Asked <- MCAsked
    Posted <- MCPosted
    Requests = {r1, r2}
    Backends = 3
    Width = 2
    ttl = 1
    maxEntries = 2
    MaxTime = 2
    MaxWrites = 1
    MaxPicks = 5
SYMMETRY MCSymmetry
CHECK_DEADLOCK FALSE
INVARIANTS
    BoundedLRU
    StalenessBound
    OwnAnswers
    RoundRobinBound
