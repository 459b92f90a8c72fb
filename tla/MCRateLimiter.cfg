SPECIFICATION Spec
CONSTANTS
    Handlers = {h1, h2}
    Ips = {i1}
    Addrs = {a1}
    MaxCells = 2
    Period = 1
    Cap = 2
    IdleLimit = 2
    Limit = 2
    Lockout = 3
INVARIANTS
    TypeOK
    RateBound
PROPERTIES
    LockoutKept
SYMMETRY Symmetry
