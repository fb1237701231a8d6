\* Late calls on a failing store; prompt calls on the Redis counter.
SPECIFICATION Spec
CONSTANTS
    t1 = t1
    t2 = t2
    t3 = t3
    Threads = {t1, t2, t3}
    Configs <- CheckedConfigs
SYMMETRY Symmetry
INVARIANTS
    TypeOK
    BucketLimit
    DeniedOnlyWhenFull
CHECK_DEADLOCK FALSE
