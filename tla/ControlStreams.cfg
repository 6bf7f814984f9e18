CONSTANTS
    Streams = {s1, s2}
    Ids = {0, 1}
    Bytes = {32, 127, 128}
    MAX_INTEGER_CONTINUATION = 1
    Main = Main
    Peer = Peer
    None = None
SPECIFICATION FairSpec
CHECK_DEADLOCK FALSE
INVARIANTS
    OneVerdict
    ReportFitsEnding
    CriticalIsKept
PROPERTIES
    EndsWhole
