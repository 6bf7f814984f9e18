CONSTANTS
    Requests = {r1, r2}
    Users = {u1, u2}
    Answers <- MCAnswers
    Hosts <- MCHosts
    max_auth_failures = 2
    max_targets_per_conn = 1
    connect_timeout = 2
    allow_private_networks = FALSE
    ip_family_preference = "ipv6"
    Stranger = Stranger
    None = None
    r1 = r1
    r2 = r2
    MaxRequests = 3
    u1 = u1
    u2 = u2
SPECIFICATION Spec
SYMMETRY Symmetry
CHECK_DEADLOCK FALSE
INVARIANTS
    GuessesCost
    DialsOnlyAdmitted
    DialWithinBudget
    AnswerIsTrue
