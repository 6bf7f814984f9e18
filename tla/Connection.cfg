CONSTANTS
    MaxReq = 3
    Limit = 1
SPECIFICATION FairSpec
INVARIANTS
    QuotaExact
    GoawayKept
PROPERTIES
    DrainEnds
    DeadlineIsFair
