SPECIFICATION FairSpec
CONSTANTS
    Phones = {p1, p2}
    Pages = {g1}
    MaxTokens = 2
    MaxRequests = 2
    MaxTime = 1
    MaxRestarts = 1
    TTL = 0
INVARIANTS
    TypeOK
    SingleUse
PROPERTIES
    AcceptedInTime
    UsableTokenKept
    PagesFollowSession
