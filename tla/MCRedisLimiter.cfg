\* The three scripts with clocks apart, late, repeated and abandoned requests.
SPECIFICATION Spec
CONSTANTS
    i1 = i1
    i2 = i2
    Instances = {i1, i2}
    Milli = 3
    Configs <- CheckedConfigs
SYMMETRY Symmetry
INVARIANTS
    TypeOK
    SharedRate
    SharedRollingLimit
PROPERTIES
    SharedDelaysKept
CHECK_DEADLOCK FALSE
