CONSTANTS
    MaxSeq = 3
    Caps = {0, 1, 2}
SPECIFICATION FairSpec
INVARIANTS
    RosterExact
PROPERTIES
    AuthenticatedKeepsSlot
    EvictedEnds
    ShutdownCompletes
