CONSTANTS
    MaxChunks = 2
SPECIFICATION TcpFairSpec
INVARIANTS
    SeenThroughOrReset
PROPERTIES
    AbandonedEnds
    HalfClosedEnds
