SPECIFICATION Spec
CONSTANTS
    Handlers = {h1, h2}
    MaxTokens = 2
    MaxCrashes = 1
    DiskMayFail = FALSE
INVARIANTS
    AckedIsFinal
