\* One call at a time: the RetryAfter of a full window is not reliable.
SPECIFICATION Spec
CONSTANTS
    t1 = t1
    t2 = t2
    Threads = {t1, t2}
    Configs <- SequentialConfigs
SYMMETRY Symmetry
PROPERTIES
    RetryAfterKept
CHECK_DEADLOCK FALSE
