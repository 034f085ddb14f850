CONSTANTS
    t1 = t1
    t2 = t2
    NoOne = NoOne
    Threads = {t1, t2}
    NExperts = 3
    TopK = 2
    ExpertBytes = 2
    Budget = 5
    Workers = 1
    Starts <- MCStarts
    MaxSteps = 3
    MaxFaults = 1
SPECIFICATION Spec
INVARIANTS CacheExact OneReads SameWeights ClaimsCover
PROPERTIES Settles
CHECK_DEADLOCK FALSE
