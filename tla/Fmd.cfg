CONSTANTS
    q1 = q1
    q2 = q2
    q3 = q3
    a1 = a1
    a2 = a2
    a3 = a3
    Stray = Stray
    Nobody = Nobody
    Requests = {q1, q2, q3}
    Addresses = {a1, a2, a3}
    Public = {a1, a2}
    MaxTries = 2
    MaxConcurrency = 2
    RenderConcurrency = 1
    RenderEnabled = TRUE
    TextThreshold = 1
    MaxSubrequests = 1
    MaxStrays = 1
SPECIFICATION FairSpec
INVARIANTS
    StraysAreLost
    OwnBrowser
    RefusedIsNotShown
PROPERTIES
    Admitted
