CONSTANTS
    p1 = p1
    p2 = p2
    t1 = t1
    t2 = t2
    t3 = t3
    a = a
    b = b
    None = None
    Procs = {p1, p2}
    Tasks = {t1, t2, t3}
    ProcOf <- MCProcOf
    Listings <- MCListings
    RetryAttempts = 2
    MaxRequests = 2
    MaxCrashes = 0
    MaxLeaks = 0
SPECIFICATION MCSpec
INVARIANTS
    TimeoutMeansNoRefresh
