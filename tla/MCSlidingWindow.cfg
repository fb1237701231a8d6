\* One call at a time; goroutines racing on a store that fails.
SPECIFICATION Spec
CONSTANTS
    t1 = t1
    t2 = t2
    Threads = {t1, t2}
    Configs <- CheckedConfigs
SYMMETRY Symmetry
INVARIANTS
    TypeOK
    CountsMatchHistory
    RollingLimit
PROPERTIES
    DeniedOnlyWhenFull
    RetryAfterNearlyKept
    StaleCountsForgotten
CHECK_DEADLOCK FALSE
