-------------------------------- MODULE Startup ---------------------------------
(***************************************************************************)
(* From a configuration file to a server: Config::validate and warnings of    *)
(* config.rs, main, run and Server::bind, and what they build: the transport  *)
(* parameters of quic/transport.rs, the TLS identity of tls.rs and the        *)
(* sockets of quic/socket.rs.  An operator edits the example configuration,   *)
(* a key at a time, and starts the server.                                   *)
(***************************************************************************)
EXTENDS Credentials, FiniteSets

CONSTANTS Unset,            \* an Option without its value
          Default,          \* the configuration before the operator's edits
          KeyChoices,       \* the values tried for each key
          MaxEdits,         \* bound: keys edited
          Granted,          \* sizes the kernel may give a socket buffer
          FdLimits          \* soft limits on descriptors, Unset for none

\* Seconds, octets and counts of config.rs, quic/transport.rs and quic/socket.rs.
MAX_TOKEN == 32
MAX_SHUTDOWN_GRACE == 3600
MAX_IDLE_TIMEOUT_CEILING == 3600
MAX_TARGETS_PER_CONN_CEILING == 65536
MAX_STREAMS_BIDI_CEILING == MAX_TARGETS_PER_CONN_CEILING
MIN_INITIAL_MTU == 1200
MAX_INITIAL_MTU == 1452
DEFAULT_MTU_UPPER_BOUND == 1436
MAX_MTU_UPPER_BOUND == 1472
INITIAL_RTT_RANGE_MS == 10 .. 10000
LOG_LEVELS == {"trace", "debug", "info", "warn", "error"}
INITIAL_BIDI_STREAMS == 16
FD_HEADROOM == 64

VARIABLES config,       \* the file
          edits,        \* how many keys were edited
          fd_soft_limit,
          phase,        \* what the process is doing, or how it ended
          transport,    \* the parameters connections are accepted with
          buffers,      \* what the kernel granted and how it says so
          told          \* what the log was warned of

vars == <<config, edits, fd_soft_limit, phase, transport, buffers, told>>

Init ==
    /\ config = Default /\ edits = 0 /\ phase = "editing" /\ fd_soft_limit \in FdLimits
    /\ transport = Unset /\ buffers = Unset /\ told = {}

Edit(key) ==
    /\ phase = "editing" /\ edits < MaxEdits
    /\ \E value \in KeyChoices[key] : config' = [config EXCEPT ![key] = value]
    /\ edits' = edits + 1
    /\ UNCHANGED <<fd_soft_limit, phase, transport, buffers, told>>

-------------------------------------------------------------------------------
(* Config::validate                                                          *)

\* A filter directive is judged by the filter itself, a bare level by its name.
validate_log_level(level) ==
    IF level.directive THEN level.parses ELSE level.name \in LOG_LEVELS

\* A name is its labels, and the dot that spells the root if it has one.
root_relative(name) ==
    IF Len(name) > 1 /\ name[Len(name)] = "" THEN SubSeq(name, 1, Len(name) - 1) ELSE name
IsAddress(name) == Len(name) = 4 /\ \A i \in 1 .. 4 : name[i] = "1"
validate_expected_sni(name) ==
    LET bare == root_relative(name) IN
    /\ \A i \in DOMAIN bare : bare[i] \notin {"", "*", "long", "bad"}
    /\ ~IsAddress(bare)

Colons(text) == {i \in DOMAIN text : text[i] = COLON}
ColonsAllowed(users) ==
    \A i \in DOMAIN users :
        /\ users[i].username # <<>> /\ Len(users[i].username) <= MAX_TOKEN
        /\ users[i].password # <<>>
        /\ \A j \in 1 .. i - 1 : users[j].username # users[i].username
ValidUsers(users) ==
    \A i \in DOMAIN users :
        /\ users[i].username # <<>> /\ Len(users[i].username) <= MAX_TOKEN
        /\ Colons(users[i].username) = {}
        /\ users[i].password # <<>>
        /\ \A j \in 1 .. i - 1 : users[j].username # users[i].username

div_ceil(n, d) == (n + d - 1) \div d
ValidKeepAlive(c) ==
    c.keep_alive_interval > 0 => c.keep_alive_interval < div_ceil(c.max_idle_timeout, 2)

ValidMtu(c) ==
    /\ c.initial_mtu \in MIN_INITIAL_MTU .. MAX_INITIAL_MTU
    /\ c.mtu_upper_bound # Unset =>
           c.mtu_upper_bound \in c.initial_mtu .. MAX_MTU_UPPER_BOUND

ValidSecurity(c) ==
    /\ 0 \notin c.denied_ports
    /\ \A i \in DOMAIN c.expected_sni : validate_expected_sni(c.expected_sni[i])
ValidIdentity(c) == c.cert # "missing" /\ c.key # "missing"

validate(c) ==
    /\ validate_log_level(c.level)
    /\ c.alpn # <<>> /\ \A i \in DOMAIN c.alpn : c.alpn[i] \notin {"", "long"}
    /\ c.shutdown_grace <= MAX_SHUTDOWN_GRACE
    /\ c.udp_session_timeout \in 1 .. MAX_IDLE_TIMEOUT_CEILING
    /\ c.connect_timeout <= MAX_IDLE_TIMEOUT_CEILING
    /\ c.max_targets_per_conn \in 1 .. MAX_TARGETS_PER_CONN_CEILING
    /\ c.max_streams_bidi \in 1 .. MAX_STREAMS_BIDI_CEILING
    /\ c.max_idle_timeout \in 1 .. MAX_IDLE_TIMEOUT_CEILING
    /\ ValidKeepAlive(c)
    /\ ValidMtu(c)
    /\ c.initial_rtt_ms \in INITIAL_RTT_RANGE_MS
    /\ ValidUsers(c.users)
    /\ ValidSecurity(c)
    /\ ValidIdentity(c)

-------------------------------------------------------------------------------
(* Config::warnings                                                          *)

\* tls::names_not_covered: external but for the name it is asked about.
names_not_covered(c) ==
    {i \in DOMAIN c.expected_sni : root_relative(c.expected_sni[i]) \notin c.covered}

Warned(condition, key) == IF condition THEN {key} ELSE {}
LimitWarnings(c) ==
    UNION {Warned(c.udp_session_timeout < 120, "udp_session_timeout"),
           Warned(c.allow_private_networks, "allow_private_networks"),
           Warned(53 \in c.denied_ports, "denied_ports"),
           Warned(c.max_connections = 0, "max_connections"),
           Warned(c.max_auth_failures = 0 /\ c.users # <<>>, "max_auth_failures"),
           Warned(c.keep_alive_interval = 0, "keep_alive_interval"),
           Warned(~c.mtu_discovery, "mtu_discovery"),
           Warned(~c.mtu_discovery /\ c.mtu_upper_bound # Unset, "mtu_upper_bound"),
           Warned(c.keylog, "keylog"),
           Warned(c.unanswered_packet_budget = 0, "unanswered_packet_budget"),
           Warned(c.connect_timeout = 0, "connect_timeout")}
warnings(c) ==
    UNION {Warned(c.users = <<>>, "users"),
           Warned(\E i \in DOMAIN c.users : c.users[i].placeholder, "password"),
           Warned(\A i \in DOMAIN c.alpn : c.alpn[i] # "h3", "alpn"),
           Warned(c.cert = "good" /\ names_not_covered(c) # {}, "expected_sni"),
           LimitWarnings(c)}

-------------------------------------------------------------------------------
(* What a server is built of                                                 *)

\* Limits::mtu_upper_bound, and the parameters of transport_config.
mtu_upper_bound(c) ==
    IF c.mtu_upper_bound # Unset THEN c.mtu_upper_bound
    ELSE IF c.initial_mtu > DEFAULT_MTU_UPPER_BOUND THEN c.initial_mtu
    ELSE DEFAULT_MTU_UPPER_BOUND
OrNone(seconds) == IF seconds = 0 THEN Unset ELSE seconds
initial_bidi_streams(c) ==
    IF c.max_streams_bidi < INITIAL_BIDI_STREAMS THEN c.max_streams_bidi
    ELSE INITIAL_BIDI_STREAMS
congestion_factory(cc) ==
    [bbr |-> "BbrCapped", bbr_uncapped |-> "Bbr", cubic |-> "Cubic", newreno |-> "NewReno"][cc]

transport_config(c) ==
    [bidi |-> initial_bidi_streams(c),
     idle |-> c.max_idle_timeout,
     keep_alive |-> OrNone(c.keep_alive_interval),
     rtt |-> c.initial_rtt_ms,
     mtu |-> c.initial_mtu,
     search |-> IF c.mtu_discovery THEN mtu_upper_bound(c) ELSE Unset,
     congestion |-> congestion_factory(c.congestion_control)]

\* tls::server_crypto: both files parse, each with its block, and are a pair.
load_certs(c) == c.cert = "good"
load_key(c) == c.key \in {"good", "other"}
server_crypto(c) == load_certs(c) /\ load_key(c) /\ c.key # "other"

\* A kernel grants each direction a size, and says what it is in some of them; a
\* Linux one says twice what it granted, for the overhead of its packets.
Directions == {"recv", "send"}
Kernel == [recv : Granted, send : Granted, says : SUBSET Directions, doubles : BOOLEAN]
get(kernel, which) ==
    IF which \notin kernel.says THEN Unset
    ELSE IF kernel.doubles THEN 2 * kernel[which] ELSE kernel[which]

\* Whether the size asked for was not taken, or what is read back falls short.
Requested(c) == [recv |-> c.socket_recv_buffer, send |-> c.socket_send_buffer]
socket_buffer_was_capped(requested, granted) == granted # Unset /\ granted < requested
request_socket_buffer(requested, taken, granted) ==
    /\ requested > 0
    /\ ~taken \/ socket_buffer_was_capped(requested, granted)

fd_budget(max_connections, max_targets_per_conn) ==
    (IF max_connections = 0 THEN 1 ELSE max_connections) * max_targets_per_conn + FD_HEADROOM
fd_budget_is_tight(c) ==
    /\ fd_soft_limit # Unset
    /\ fd_soft_limit < fd_budget(c.max_connections, c.max_targets_per_conn)

-------------------------------------------------------------------------------
(* main and run                                                              *)

Load(mode) ==
    /\ phase = "editing"
    /\ phase' = IF ~validate(config) THEN "refused"
                ELSE IF mode = "serve" THEN "loaded" ELSE "reported"
    /\ told' = IF validate(config) THEN warnings(config) ELSE {}
    /\ UNCHANGED <<config, edits, fd_soft_limit, transport, buffers>>

\* server_config refuses the identity, the address cannot be bound, or the socket
\* cannot be handed to the runtime and the endpoint.
BindFails ==
    /\ phase = "loaded" /\ phase' = "failed"
    /\ UNCHANGED <<config, edits, fd_soft_limit, transport, buffers, told>>

Bind(taken, kernel) ==
    /\ phase = "loaded" /\ server_crypto(config)
    /\ transport' = transport_config(config)
    /\ buffers' = kernel
    /\ told' = told
          \union {which \in Directions :
                     request_socket_buffer(Requested(config)[which], which \in taken,
                                           get(kernel, which))}
          \union Warned(fd_budget_is_tight(config), "descriptors")
    /\ phase' = "serving"
    /\ UNCHANGED <<config, edits, fd_soft_limit>>

Next ==
    \/ \E key \in DOMAIN KeyChoices : Edit(key)
    \/ \E mode \in {"serve", "check", "diagnostics"} : Load(mode)
    \/ BindFails
    \/ \E taken \in SUBSET Directions, kernel \in Kernel : Bind(taken, kernel)

Spec == Init /\ [][Next]_vars

-------------------------------------------------------------------------------
\* A server that starts can serve.  One lost keep-alive does not let an idle
\* connection time out; path discovery starts within the range it searches; a
\* connection may send its first request, and no more than the configuration
\* allows; and a name the gate waits for is one a client can ask for (what
\* Config::validate says of each bound, taken through transport_config).
AcceptedServes ==
    phase = "serving" =>
        /\ transport.keep_alive # Unset => 2 * transport.keep_alive < transport.idle
        /\ transport.mtu >= MIN_INITIAL_MTU
        /\ transport.search # Unset =>
               transport.search \in transport.mtu .. MAX_MTU_UPPER_BOUND
        /\ transport.bidi \in 1 .. config.max_streams_bidi
        /\ \A i \in DOMAIN config.expected_sni :
               LET name == root_relative(config.expected_sni[i]) IN
               name # <<>> /\ ~IsAddress(name) /\ \A j \in DOMAIN name : name[j] # ""

\* Every configured user is admitted by their own credentials and as themselves,
\* whatever octets their password has: the colon that ends a user-id is the first
\* of the decoded token (check), which is why validate has no user-id with one.
UserIsAdmitted ==
    phase = "serving" =>
        \A i \in DOMAIN config.users :
            check(config.users, BasicOf(config.users[i]))
                = [denied |-> FALSE, octets |-> config.users[i].username]

\* A server that starts without a warning has what it was configured for:
\* descriptors for every tunnel of every connection, none of its protections off,
\* and, where the kernel says what it granted, the buffers asked for; on a kernel
\* that says twice as much a grant of half of what was asked passes for the whole.
SilentIsWhole ==
    phase = "serving" /\ told = {} =>
        /\ \A which \in buffers.says :
               /\ 2 * buffers[which] >= Requested(config)[which]
               /\ ~buffers.doubles => buffers[which] >= Requested(config)[which]
        /\ fd_soft_limit # Unset =>
               fd_soft_limit >= config.max_connections * config.max_targets_per_conn
        /\ config.users # <<>> /\ config.max_auth_failures > 0
        /\ config.unanswered_packet_budget > 0 /\ config.max_connections > 0
===============================================================================
