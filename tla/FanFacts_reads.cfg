SPECIFICATION Spec
CONSTANTS
    j1 = j1
    j2 = j2
    d1 = d1
    d2 = d2
    None = None
    Jobs = {j1, j2}
    Devices = {d1, d2}
    Pages = 2
    MaxAttempts = 2
    MaxReleases = 1
    Spent <- MCSpent
    MaxTruth = 2
    MaxReads = 2
INVARIANTS TypeOK CoveredWhenDone AttemptsAreLeases
PROPERTIES Promised
SYMMETRY Symmetry
CHECK_DEADLOCK FALSE
