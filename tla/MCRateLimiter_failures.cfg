SPECIFICATION Spec
CONSTANTS
    Handlers = {h1}
    Ips = {i1}
    Addrs = {a1}
    MaxCells = 3
    Period = 2
    Cap = 4
    IdleLimit = 4
    Limit = 3
    Lockout = 6
INVARIANTS
    FailuresLock
