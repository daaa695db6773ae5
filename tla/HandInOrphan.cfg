SPECIFICATION Spec
CONSTANTS
    None = None
    Workers = {w1, w2}
    Tasks = {t1}
    Subs = {s1, s2}
    Keys = {k1}
    Files = {f1, f2}
    Capacity = 2
    Reserve = 0
    MaxFiles = 1
    Faults <- DatabaseErrors
    Offered <- All
SYMMETRY Symmetry
INVARIANTS
    NoOrphansAtRest
