CONSTANTS
    s1 = s1
    s2 = s2
    s3 = s3
    Streams = {s1, s2, s3}
    Kinds = {"DATA", "HEADERS", "CONTROL", "RESERVED", "UNKNOWN"}
    HEADER = 2
    MAX_BUFFERED_FRAME = 2
    HEADERS_BUFFER_BUDGET = 4
    MAX_SKIPPED_FRAMES = 1
    MaxFrames = 3
    MaxLength = 3
    MaxChunk = 4
    CrowdFrames = 1
    CrowdChunk = 1
SPECIFICATION MCSpec
SYMMETRY Symmetry
CHECK_DEADLOCK FALSE
INVARIANTS
    VerdictFitsFrame
    DecodersExact
