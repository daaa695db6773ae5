SPECIFICATION Spec
CONSTANTS
    None = None
    Workers = {w1, w2}
    Browsers = {b1}
    SKeys = {k1, k2, k3}
    Tasks = {t1}
    Nonces = {n1}
    Pins = {1, 2}
    Keep = 1
    Faults <- Accidents
    Offered <- Operations
SYMMETRY Symmetry
INVARIANTS
    TypeOK
    AuthorizationEarned
PROPERTIES
    OnlyCurrentPinCreates
