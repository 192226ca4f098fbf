CONSTANTS
    a = a
    b = b
    c = c
    u1 = u1
    u2 = u2
    u3 = u3
    Silent = Silent
    Nothing = Nothing
    HostPool <- MCHosts
    Directories <- MCDirectories
    Urls = {u1, u2, u3}
    Public = {u1, u2}
    Streams <- MCStreams
    TotalLimit = 3
    PageSize = 2
    MaxPages = 3
    Concurrency = 2
    Ttl = 2
    FailureTtl = 1
    BatchSize = 3
    MaxClock = 3
    MaxRefreshes = 2
    MaxChanges = 1
SPECIFICATION SourceSpec
\* Every refresh may be over and the clock at its bound.
CHECK_DEADLOCK FALSE
INVARIANTS
    VerdictsAreFresh
    KeptIsTheListing
