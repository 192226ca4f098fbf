CONSTANTS
    r1 = r1
    r2 = r2
    k1 = k1
    k2 = k2
    k3 = k3
    NoKey = NoKey
    Requests = {r1, r2}
    Calls <- MCCalls
    FmdToken = FALSE
    MaxEntries = 2
    Ttl = 2
    RequestTimeout = 1
    MaxVersion = 1
    MaxClock = 4
    MaxGone = 1
SYMMETRY MCSymmetry
SPECIFICATION Spec
\* Every request may be over and the clock at its bound.
CHECK_DEADLOCK FALSE
INVARIANTS
    HitIsRecent
    CacheBounded
    HeldUntilExpiry
    ActiveIsOpen
