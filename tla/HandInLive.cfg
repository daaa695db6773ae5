SPECIFICATION FairSpec
CONSTANTS
    None = None
    Workers = {w1, w2}
    Tasks = {t1}
    Subs = {s1, s2}
    Keys = {k1}
    Files = {f1, f2}
    Capacity = 2
    Reserve = 1
    MaxFiles = 1
    Faults <- AllFaults
    Offered <- All
PROPERTIES
    ImplementsDropBox
    RequestsEnd
    LockFreed
