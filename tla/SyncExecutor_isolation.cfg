SPECIFICATION Spec
CHECK_DEADLOCK FALSE
CONSTANTS
    a = a
    b = b
    c = c
    Dropped = Dropped
    Op = {a, b, c}
    Plan <- Plans
    MaxConcurrency = 2
    MaxLocks = 1
INVARIANTS
    SiblingsAreIsolated
