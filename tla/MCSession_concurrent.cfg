SPECIFICATION Spec
CONSTANTS
    Handlers = {h1, h2}
    MaxTokens = 2
    MaxCrashes = 0
    DiskMayFail = TRUE
SYMMETRY HandlerSymmetry
INVARIANTS
    NeverServedOnceRevoked
    AckedIsFinal
