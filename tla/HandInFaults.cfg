SPECIFICATION Spec
CONSTANTS
    None = None
    Workers = {w1, w2}
    Tasks = {t1, t2}
    Subs = {s1, s2}
    Keys = {k1}
    Files = {f1, f2, f3}
    Capacity = 3
    Reserve = 1
    MaxFiles = 2
    Faults <- AllFaults
    Offered <- All
SYMMETRY Symmetry
INVARIANTS
    TypeOK
    ReferencesIntact
    KeysUnique
    RecordedBytesKept
    ReserveKept
    RetryGetsReceipt
    ReceiptsTrue
PROPERTIES
    ClosedBlocks
    ClosedOnlyUnknownKeys
    RecordsHaveFiles
    StraysOnlyTakenBack
