SPECIFICATION FairSpec
CONSTANTS
    d1 = d1
    w1 = w1
    w2 = w2
    None = 0
    Gens = 2
    Jobs <- MCJobs
    Devices = {d1}
    Workers = {w1, w2}
    Pages = 1
    MaxAttempts = 2
    MaxReleases = 0
INVARIANTS TypeOK NoLostSignal JobFitsRun
PROPERTIES DebtIsPaid Promised
CHECK_DEADLOCK FALSE
