SPECIFICATION LifecycleSpec
CONSTANTS
    Urls = {u1, u2}
    TokenUrl = token
    NoUrl = none
    MaxLines = 2
    MaxPairs = 2
    MaxStarts = 3
PROPERTIES
    SignalEnds
CHECK_DEADLOCK FALSE
