SPECIFICATION Spec
CONSTANTS
    Workers = {w1, w2, w3}
    Attempts = 2
    Window = 2
    Lock = 2
    MaxTime = 4
SYMMETRY Symmetry
INVARIANTS
    TypeOK
    RefusalsBounded
CHECK_DEADLOCK FALSE
