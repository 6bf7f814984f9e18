-------------------------------- MODULE Reload --------------------------------
(***************************************************************************)
(* Reloading the configuration of a running server: the SIGHUP watcher of   *)
(* main.rs, `ReloadHandle::reload` of quic/reload.rs, and everything that    *)
(* reads or writes the same four values: `accept_under_the_swap` and         *)
(* `drain` of quic/mod.rs, and the SNI gate's receive path in gate.rs.       *)
(*                                                                         *)
(* A generation is one version of the configuration file.  The watcher, the  *)
(* accept loop and the endpoint driver run on different threads; `swap` is   *)
(* the mutex the first two (and the drain) take, and the driver never does.  *)
(***************************************************************************)
EXTENDS Integers

CONSTANTS MaxGen,    \* bound: how often the file is rewritten
          Lists      \* the values security.expected_sni may have

ASSUME MaxGenAssumption == MaxGen \in Nat
ASSUME ListsAssumption == Lists # {}

VARIABLES
    file,             \* the configuration file: generation, list, usable or not
    hangup,           \* a SIGHUP the watcher has not received yet
    watcher,          \* where the watcher and the reload it runs are
    loading,          \* the configuration the reload has parsed
    swap,             \* who holds the ConfigSwap
    names, any,       \* the gate's Expected: the list and the flag beside it
    config,           \* LiveConfig
    quic_config,      \* LiveQuicConfig
    endpoint,         \* the endpoint's own server configuration, or None
    incoming,         \* the generation pinned to a pending Incoming, or None
    accepting,        \* where the accept loop is
    accepted,         \* what the last accepted connection runs on
    batch,            \* where the gate is with a receive batch
    verdict,          \* what the batch was judged by
    shutdown,         \* the shutdown latch
    draining,         \* where the drain is
    grace             \* the generation the drain read shutdown_grace from

reloadVars == <<file, hangup, watcher, loading>>
liveVars == <<names, any, config, quic_config, endpoint>>
acceptVars == <<incoming, accepting, accepted>>
gateVars == <<batch, verdict>>
drainVars == <<shutdown, draining, grace>>
serverVars == <<reloadVars, swap, liveVars, acceptVars, gateVars, drainVars>>

None == -1
Gens == 0 .. MaxGen
Configs == [gen : Gens, list : Lists]

\* A batch is handed on unjudged while the gate is off, or held to a list.
Verdicts == [kind : {"none", "off", "enforced"}, list : Lists \union {{}}]
Unjudged == [kind |-> "none", list |-> {}]

ReloadTypeOK ==
    /\ file \in [gen : Gens, list : Lists, sound : BOOLEAN]
    /\ hangup \in BOOLEAN
    /\ watcher \in {"waiting", "loading", "loaded", "held", "names", "any", "config",
                    "quic_config", "endpoint"}
    /\ loading \in Configs
    /\ swap \in {"free", "reload", "accept", "drain"}
    /\ names \in Configs /\ any \in BOOLEAN
    /\ config \in Configs
    /\ quic_config \in Gens
    /\ endpoint \in Gens \union {None}
    /\ incoming \in Gens \union {None}
    /\ accepting \in {"loop", "admitted", "held", "read", "left"}
    /\ accepted \in [config : Gens, quic : Gens]
    /\ batch \in {"idle", "received", "flagged"}
    /\ verdict \in Verdicts
    /\ shutdown \in BOOLEAN
    /\ draining \in {"no", "swap", "closed", "graced", "exited"}
    /\ grace \in [drain : Gens, exit : Gens]

\* Server::bind: everything from the file the process started on.
ReloadInit ==
    \E list \in Lists :
        LET start == [gen |-> 0, list |-> list]
        IN  /\ file = [gen |-> 0, list |-> list, sound |-> TRUE]
            /\ hangup = FALSE
            /\ watcher = "waiting" /\ loading = start
            /\ swap = "free"
            /\ names = start /\ any = (list # {})
            /\ config = start /\ quic_config = 0 /\ endpoint = 0
            /\ incoming = None /\ accepting = "loop"
            /\ accepted = [config |-> 0, quic |-> 0]
            /\ batch = "idle" /\ verdict = Unjudged
            /\ shutdown = FALSE /\ draining = "no"
            /\ grace = [drain |-> 0, exit |-> 0]

-------------------------------------------------------------------------------
(* The watcher, and the reload it runs.                                      *)

\* The file is rewritten, perhaps into something unusable, and SIGHUP sent.
Rewrite ==
    /\ file.gen < MaxGen
    /\ \E list \in Lists, sound \in BOOLEAN :
          file' = [gen |-> file.gen + 1, list |-> list, sound |-> sound]
    /\ hangup' = TRUE
    /\ UNCHANGED <<watcher, loading, swap, liveVars, acceptVars, gateVars, drainVars>>

\* hangup.recv: signals that arrived together are one.
Receive ==
    /\ watcher = "waiting" /\ hangup
    /\ hangup' = FALSE
    /\ watcher' = "loading"
    /\ UNCHANGED <<file, loading, swap, liveVars, acceptVars, gateVars, drainVars>>

\* Config::load and server_config, or the error that leaves everything as it was.
Load ==
    /\ watcher = "loading"
    /\ IF file.sound
       THEN /\ loading' = [gen |-> file.gen, list |-> file.list]
            /\ watcher' = "loaded"
       ELSE watcher' = "waiting" /\ UNCHANGED loading
    /\ UNCHANGED <<file, hangup, swap, liveVars, acceptVars, gateVars, drainVars>>

\* swap.hold
Hold ==
    /\ watcher = "loaded" /\ swap = "free"
    /\ swap' = "reload" /\ watcher' = "held"
    /\ UNCHANGED <<file, hangup, loading, liveVars, acceptVars, gateVars, drainVars>>

\* The latch: a server that is shutting down is not reloaded.
Bail ==
    /\ watcher = "held" /\ shutdown
    /\ swap' = "free" /\ watcher' = "waiting"
    /\ UNCHANGED <<file, hangup, loading, liveVars, acceptVars, gateVars, drainVars>>

\* One of the reload's writes: the watcher moves from one to the next.
Write(from, to) ==
    /\ watcher = from
    /\ watcher' = to
    /\ UNCHANGED <<file, hangup, loading, acceptVars, gateVars, drainVars>>

\* Past the latch.  Expected::set writes the list, then the flag.
WriteNames ==
    /\ Write("held", "names")
    /\ ~shutdown
    /\ names' = loading
    /\ UNCHANGED <<swap, any, config, quic_config, endpoint>>

WriteAny ==
    /\ Write("names", "any")
    /\ any' = (loading.list # {})
    /\ UNCHANGED <<swap, names, config, quic_config, endpoint>>

WriteConfig ==
    /\ Write("any", "config")
    /\ config' = loading
    /\ UNCHANGED <<swap, names, any, quic_config, endpoint>>

WriteQuicConfig ==
    /\ Write("config", "quic_config")
    /\ quic_config' = loading.gen
    /\ UNCHANGED <<swap, names, any, config, endpoint>>

\* endpoint.set_server_config(Some(..)), whatever was there before.
SetServerConfig ==
    /\ Write("quic_config", "endpoint")
    /\ endpoint' = loading.gen
    /\ UNCHANGED <<swap, names, any, config, quic_config>>

MutantForgetSignal ==
    /\ watcher = "endpoint"
    /\ swap' = "free" /\ watcher' = "waiting"
    /\ hangup' = FALSE
    /\ UNCHANGED <<file, loading, liveVars, acceptVars, gateVars, drainVars>>

Release ==
    /\ watcher = "endpoint"
    /\ swap' = "free" /\ watcher' = "waiting"
    /\ UNCHANGED <<file, hangup, loading, liveVars, acceptVars, gateVars, drainVars>>

-------------------------------------------------------------------------------
(* The endpoint driver: the gate, and quinn's pinning of a first Initial.    *)

\* poll_recv yields a batch of datagrams.
ReceiveBatch ==
    /\ batch = "idle"
    /\ batch' = "received" /\ verdict' = Unjudged
    /\ UNCHANGED <<reloadVars, swap, liveVars, acceptVars, drainVars>>

\* The flag first: a gate that is off judges nothing.
ReadFlag ==
    /\ batch = "received"
    /\ IF any
       THEN batch' = "flagged" /\ UNCHANGED verdict
       ELSE batch' = "idle" /\ verdict' = [kind |-> "off", list |-> {}]
    /\ UNCHANGED <<reloadVars, swap, liveVars, acceptVars, drainVars>>

\* Then the list, which may have become empty since.
ReadList ==
    /\ batch = "flagged"
    /\ batch' = "idle"
    /\ verdict' = [kind |-> IF names.list = {} THEN "off" ELSE "enforced",
                   list |-> names.list]
    /\ UNCHANGED <<reloadVars, swap, liveVars, acceptVars, drainVars>>

\* A first Initial makes an Incoming, which keeps the endpoint's configuration
\* of that moment.  An endpoint without one answers nobody.
FirstInitial ==
    /\ endpoint # None /\ incoming = None
    /\ incoming' = endpoint
    /\ UNCHANGED <<reloadVars, swap, liveVars, accepting, accepted, gateVars, drainVars>>

-------------------------------------------------------------------------------
(* The accept loop.                                                          *)

\* endpoint.accept yields the Incoming, and admit lets it pass or turns it away.
TakeIncoming ==
    /\ accepting = "loop" /\ ~shutdown
    /\ incoming # None
    /\ \/ accepting' = "admitted" /\ UNCHANGED incoming
       \/ incoming' = None /\ UNCHANGED accepting
    /\ UNCHANGED <<reloadVars, swap, liveVars, accepted, gateVars, drainVars>>

\* accept_under_the_swap: the guard, the live Config, and accept_with the slot.
AcceptHold ==
    /\ accepting = "admitted" /\ swap = "free"
    /\ swap' = "accept" /\ accepting' = "held"
    /\ UNCHANGED <<reloadVars, liveVars, incoming, accepted, gateVars, drainVars>>

ReadConfig ==
    /\ accepting = "held"
    /\ accepted' = [accepted EXCEPT !.config = config.gen]
    /\ accepting' = "read"
    /\ UNCHANGED <<reloadVars, swap, liveVars, incoming, gateVars, drainVars>>

MutantPinned ==
    /\ accepting = "read"
    /\ accepted' = [accepted EXCEPT !.quic = incoming]
    /\ incoming' = None
    /\ swap' = "free" /\ accepting' = "loop"
    /\ UNCHANGED <<reloadVars, liveVars, gateVars, drainVars>>

AcceptWith ==
    /\ accepting = "read"
    /\ accepted' = [accepted EXCEPT !.quic = quic_config]
    /\ incoming' = None
    /\ swap' = "free" /\ accepting' = "loop"
    /\ UNCHANGED <<reloadVars, liveVars, gateVars, drainVars>>

\* The loop leaves when the latch is set.
LeaveLoop ==
    /\ accepting = "loop" /\ shutdown
    /\ accepting' = "left"
    /\ UNCHANGED <<reloadVars, swap, liveVars, incoming, accepted, gateVars, drainVars>>

-------------------------------------------------------------------------------
(* The shutdown.                                                             *)

FireShutdown ==
    /\ ~shutdown
    /\ shutdown' = TRUE
    /\ UNCHANGED <<reloadVars, swap, liveVars, acceptVars, gateVars, draining, grace>>

DrainHold ==
    /\ accepting = "left" /\ draining = "no"
    /\ swap = "free"
    /\ swap' = "drain" /\ draining' = "swap"
    /\ UNCHANGED <<reloadVars, liveVars, acceptVars, gateVars, shutdown, grace>>

\* set_server_config(None), and the guard dropped at once.
DrainClose ==
    /\ draining = "swap"
    /\ endpoint' = None
    /\ swap' = "free" /\ draining' = "closed"
    /\ UNCHANGED <<reloadVars, names, any, config, quic_config, acceptVars, gateVars,
                   shutdown, grace>>

\* drain bounds its wait with shutdown_grace, and so does main the blocking pool.
ReadGrace ==
    /\ \/ draining = "closed" /\ draining' = "graced"
          /\ grace' = [grace EXCEPT !.drain = config.gen]
       \/ draining = "graced" /\ draining' = "exited"
          /\ grace' = [grace EXCEPT !.exit = config.gen]
    /\ UNCHANGED <<reloadVars, swap, liveVars, acceptVars, gateVars, shutdown>>

Reloading == \/ Receive \/ Load \/ Hold \/ Bail \/ WriteNames \/ WriteAny
             \/ WriteConfig \/ WriteQuicConfig \/ SetServerConfig \/ Release
Driver == ReceiveBatch \/ ReadFlag \/ ReadList \/ FirstInitial
AcceptLoop == \/ TakeIncoming \/ AcceptHold \/ ReadConfig \/ AcceptWith \/ LeaveLoop
DrainEndpoint == DrainHold \/ DrainClose \/ ReadGrace

ReloadNext == Rewrite \/ Reloading \/ Driver \/ AcceptLoop \/ FireShutdown \/ DrainEndpoint

ReloadSpec == ReloadInit /\ [][ReloadNext]_serverVars

\* Each of the three threads runs.  The watcher contends for the swap with the
\* accept loop, which holds it for a few instructions at a time, so waiting for
\* it is strongly fair; the drain contends with a single reload at most.
ReloadFairSpec ==
    /\ ReloadSpec
    /\ WF_serverVars(Reloading) /\ SF_serverVars(Hold)
    /\ WF_serverVars(ReadConfig) /\ WF_serverVars(AcceptWith)

-------------------------------------------------------------------------------
(* Safety                                                                    *)

\* A connection runs wholly on one generation: the credentials, policy and
\* quotas it was accepted with and its certificate and transport parameters are
\* of one file, whenever the file changed and whenever its first packet came.
AcceptedWhole ==
    accepting \in {"loop", "admitted", "left"} => accepted.config = accepted.quic

\* No reload reopens the listener the drain closed.
ListenerStaysClosed ==
    [][endpoint = None => endpoint' = None]_serverVars

\* Nothing is half applied once the swap has been let go.
SettledWhole ==
    swap # "reload" =>
        /\ names = config /\ quic_config = config.gen
        /\ any = (names.list # {})
        /\ endpoint \in {config.gen, None}

\* What the endpoint driver can see of a reload in progress, without the swap:
\* the gate's list is never behind the certificate the endpoint presents, and
\* the endpoint never holds a configuration the slot does not hold yet.
WriteOrder ==
    /\ endpoint <= quic_config /\ quic_config <= config.gen /\ config.gen <= names.gen
    /\ names.gen <= file.gen

\* The lists a batch may be held to now: while Expected::set is between its two
\* stores that is the old one as well as the new.
InForce == {names.list} \union (IF watcher = "names" THEN {config.list} ELSE {})

\* Each batch is judged by a list in force at that moment: it goes unjudged only
\* if one of them is empty, and the empty list is never enforced as a list.
GateFollowsConfiguration ==
    [][verdict'.kind \in {"off", "enforced"} /\ verdict.kind = "none" =>
          /\ verdict'.list \in InForce
          /\ verdict'.kind = "off" <=> verdict'.list = {}]_serverVars

\* The drain and the exit of the process are bounded by the same grace.
GraceAgreed ==
    draining = "exited" => grace.drain = grace.exit

-------------------------------------------------------------------------------
(* Liveness                                                                  *)

\* A usable file whose SIGHUP was sent is applied, however many signals were
\* folded into one, unless it is rewritten again or the server shuts down.
LastHangupWins ==
    \A g \in Gens :
        (file.gen = g /\ file.sound) ~> (config.gen = g \/ file.gen # g \/ shutdown)
===============================================================================
