SPECIFICATION ServerSpec
CONSTANTS
    None = None
    Workers = {w1, op}
    Operator = op
    Tasks = {t1}
    Subs = {s1, s2}
    Keys = {k1, k2}
    Files = {f1, f2}
    Capacity = 2
    Reserve = 0
    MaxFiles = 2
    Faults <- AllFaults
    Offered <- All
    Chunk = 1
SYMMETRY Symmetry
INVARIANTS
    ServerTypeOK
    RecordedBytesKept
    ExportComplete
    ReportExact
    FlushLeavesNothing
