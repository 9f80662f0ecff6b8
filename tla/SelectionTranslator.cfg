SPECIFICATION Spec
CONSTANTS
    Requests = {r1, r2, r3}
    Keys = {k1, k2}
    NoKey = NoKey
    Dictionary = {k2}
    MaxEpoch = 1
SYMMETRY Symmetry
INVARIANTS
    ClearedStaysCleared
    TurnsAreTracked
PROPERTIES
    NeverOlder
CHECK_DEADLOCK FALSE
