\* Inexact quotients, rounded leak times, a failing store.
SPECIFICATION Spec
CONSTANTS
    t1 = t1
    t2 = t2
    Threads = {t1, t2}
    Configs <- SafetyConfigs
SYMMETRY Symmetry
INVARIANTS
    TypeOK
    RateBound
PROPERTIES
    DelaysNearlyKept
CHECK_DEADLOCK FALSE
