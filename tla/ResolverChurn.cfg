CONSTANTS
    Conns = {c1, c2, c3, c4}
    Names = {n1}
    MaxConnections = 1
    SHARED_LOOKUPS = 1
    BURST_LOOKUPS = 1
    RESERVED_LOOKUP_CEILING = 2
    LOOKUP_FREE_THREADS = 1
    Answered = {}
    c1 = c1
    c2 = c2
    c3 = c3
    c4 = c4
    n1 = n1
SPECIFICATION ResolverSpec
INVARIANTS
    EverySlotHasThread
