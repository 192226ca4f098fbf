CONSTANTS
    c1 = c1
    c2 = c2
    r1 = r1
    r2 = r2
    r3 = r3
    Never = Never
    Clients = {c1, c2}
    Requests = {r1, r2, r3}
    ClientOf <- MCClientOf
    MaxRequests = 2
    Window = 1
    MaxTime = 4
SPECIFICATION LimiterSpec
INVARIANTS
    AtMostLimit
    AnswersAreExact
    MapHoldsActive
