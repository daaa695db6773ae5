SPECIFICATION Spec
CONSTANTS
    None = None
    Workers = {w1, w2}
    Browsers = {b1}
    SKeys = {k1, k2, k3, k4}
    Tasks = {t1, t2}
    Nonces = {n1, n2}
    Pins = {1}
    Keep = 1
    Faults <- NoAccidents
    Offered <- Creating
SYMMETRY Symmetry
INVARIANTS
    CreationRendersReceipt
