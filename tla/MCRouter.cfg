\* Two resources and three goroutines that call and close; files and
\* literals of every kind, and up to two stores.
SPECIFICATION EitherSpec
CONSTANTS
    t1 = t1
    t2 = t2
    t3 = t3
    Threads = {t1, t2, t3}
    Chars = {"a", "b", ":"}
    Names <- CheckedNames
    Keys <- CheckedKeys
    Configs <- CheckedConfigs
    Resources = {"login", "search"}
    Files <- CheckedFiles
    Literals <- CheckedLiterals
    MaxStores = 2
INVARIANTS
    TypeOK
    Isolated
    ClosedOnce
    BuildTypeOK
    InForce
    NothingLeftOpen
PROPERTIES
    CallsReturn
CHECK_DEADLOCK FALSE
