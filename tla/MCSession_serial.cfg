SPECIFICATION FairSpec
CONSTANTS
    Handlers = {h1}
    MaxTokens = 3
    MaxCrashes = 2
    DiskMayFail = FALSE
INVARIANTS
    TypeOK
    DurableWhenIdle
    ForgottenWhenIdle
    AckedIsFinal
PROPERTIES
    RevokedOnlyOnPurpose
    ImplementsRegister
    ExpiredSessionGoes
