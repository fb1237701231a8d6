\* A reliable store, stalled calls, rounded refill times, a failing store, a clock set back.
SPECIFICATION Spec
CONSTANTS
    t1 = t1
    t2 = t2
    Threads = {t1, t2}
    Configs <- CheckedConfigs
SYMMETRY Symmetry
INVARIANTS
    TypeOK
    RateBound
    MutexReleased
PROPERTIES
    DelaysKept
CHECK_DEADLOCK FALSE
