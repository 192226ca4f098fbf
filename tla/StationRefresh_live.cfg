CONSTANTS
    p1 = p1
    p2 = p2
    t1 = t1
    t2 = t2
    t3 = t3
    a = a
    b = b
    None = None
    Procs = {p1}
    Tasks = {t1, t2}
    ProcOf <- MCProcOf
    Listings <- MCListing1
    RetryAttempts = 1
    MaxRequests = 2
    MaxCrashes = 1
    MaxLeaks = 1
SPECIFICATION MCFairSpec
PROPERTIES
    OnlyUpstreamBlocks
    LockReleased
