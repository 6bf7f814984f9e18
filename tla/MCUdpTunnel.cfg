CONSTANTS
    Sessions = {s1, s2}
    INBOUND_QUEUE_DEPTH = 1
    unanswered_packet_budget = 1
    CONNECTION_UNANSWERED_MULTIPLIER = 3
    U32_MAX = 2
    MaxCapsules = 1
    s1 = s1
    s2 = s2
SPECIFICATION Spec
SYMMETRY Symmetry
INVARIANTS
    BudgetExact
PROPERTIES
    FinIsWhole
    IdleEnds
