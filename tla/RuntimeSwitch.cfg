SPECIFICATION SwitchFairSpec
CONSTANTS
    Requests = {q1}
    Works = {w1}
    HoldSeconds = 2
    MaxIdle = 1
    IdleSeconds = 1
    SwitchSeconds = 1
    ServerDies = TRUE
    Releases = 2
    Faults = 1
INVARIANTS
    Exclusive
    OldOrNew
    PhaseIsTrue
PROPERTIES
    IdleIsReal
    OwnHoldProtects
    HoldEnds
    SwitchEnds
