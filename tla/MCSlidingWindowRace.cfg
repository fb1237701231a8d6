\* Two goroutines: the check and the increment are not one step.
SPECIFICATION Spec
CONSTANTS
    t1 = t1
    t2 = t2
    Threads = {t1, t2}
    Configs <- PairConfigs
SYMMETRY Symmetry
INVARIANTS
    AtMostLimitAtOnce
CHECK_DEADLOCK FALSE
