CONSTANTS
    Networks <- MCNetworks
    Settled = 5
    Learned = 13
    MaxAge = 2
    InFlight = {0, 5}
    SAMPLES = 2
    SAMPLES_WITHOUT_GROWTH = 2
    RISES_TO_RESTART = 2
    MIN_RTT_LIFETIME = 2
    PROBE_TIME = 1
    initial_window = 2
    probe_window = 1
    None = None
SPECIFICATION CongestionSpec
INVARIANTS
    EstimateIsWindowMax
    RiseIsLearned
    StartupSettles
