\* Lock-freedom of the retry loops, and the progress of the collector.
SPECIFICATION FairSpec
CONSTANTS
    t1 = t1
    t2 = t2
    k1 = k1
    Threads = {t1, t2}
    Keys = {k1}
    Values = {}
    TTL = 1
    MaxTime = 3
    MaxCalls = 3
PROPERTIES
    LockFree
    ExpiredReclaimed
CHECK_DEADLOCK FALSE
