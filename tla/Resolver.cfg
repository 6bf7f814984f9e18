CONSTANTS
    Conns = {c1, c2}
    Names = {n1, n2}
    MaxConnections = 2
    SHARED_LOOKUPS = 1
    BURST_LOOKUPS = 1
    RESERVED_LOOKUP_CEILING = 2
    LOOKUP_FREE_THREADS = 0
    Answered = {c1}
    c1 = c1
    c2 = c2
    n1 = n1
    n2 = n2
SPECIFICATION FairResolverSpec
INVARIANTS
    EverySlotHasThread
PROPERTIES
    SerialAtWorst
