CONSTANTS
    c1 = c1
    c2 = c2
    s1 = s1
    s2 = s2
    NoSession = NoSession
    Calls = {c1, c2}
    Kinds = {"GET", "POST", "BARE"}
    Sessions = {s1, s2}
    Ttl = 6
    RequestTimeout = 2
    Travel = 0
    Margin = 3
    MaxClock = 9
    MaxCalls = 3
    MaxFailures = 1
SYMMETRY MCSymmetry
SPECIFICATION Spec
\* Every call may be over and the clock at its bound.
CHECK_DEADLOCK FALSE
INVARIANTS
    SlidingExpiry
    TokenHasSession
    SureIsNotRefused
PROPERTIES
    DeletedWhenExpired
