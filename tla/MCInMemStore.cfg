\* Three goroutines racing on one key, overwriting Sets: invariants and refinement.
SPECIFICATION Spec
CONSTANTS
    t1 = t1
    t2 = t2
    t3 = t3
    k1 = k1
    Threads = {t1, t2, t3}
    Keys = {k1}
    Values = {7}
    TTL = 1
    MaxTime = 3
    MaxCalls = 3
SYMMETRY Symmetry
INVARIANTS
    TypeOK
    NoLostIncrement
    ActsOnLiveItem
PROPERTIES
    ImplementsCounterStore
    OnlyExpiredLeave
CHECK_DEADLOCK FALSE
