\* The count expires during a call and the refill time does not: Reset after
\* the previous call the bucket is one token short.
SPECIFICATION Spec
CONSTANTS
    t1 = t1
    t2 = t2
    Threads = {t1, t2}
    Configs <- ExactConfigs
SYMMETRY Symmetry
PROPERTIES
    ResetKept
CHECK_DEADLOCK FALSE
