CONSTANTS
    r1 = r1
    r2 = r2
    ip1 = ip1
    m1 = m1
    k1 = k1
    k2 = k2
    None = None
    Slots = {r1, r2}
    Ips = {ip1}
    Messages = {m1, m2}
    Tokens = {k1, k2}
    MaxPerIp = 1
    Window = 2
    DedupeWindow = 2
    Turnstile = TRUE
    MaxRequests = 3
    MaxTime = 3
SPECIFICATION MCSpec
INVARIANT LimitIsEnforced
