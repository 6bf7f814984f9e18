------------------------------- MODULE Requests --------------------------------
(***************************************************************************)
(* What becomes of the requests of one connection before a tunnel relays     *)
(* anything: `handle_request` of conn.rs, the failure counters and the        *)
(* admission of a target in tunnel/mod.rs, `authenticate` of auth.rs, the     *)
(* dialling of tunnel/tcp.rs and tunnel/udp.rs, and the answers of            *)
(* tunnel/status.rs.                                                         *)
(*                                                                         *)
(* Each request is a task; two of them meet only in the failure counters,     *)
(* under one lock that is taken once per counted failure, in the quota, and   *)
(* in the connection itself.  An address is what the policy and the dialling  *)
(* tell apart: its octets, and whether this host holds it.  A credential      *)
(* value is the user-id it claims and whether it is right.                    *)
(***************************************************************************)
EXTENDS Policy, FiniteSets, FiniteSetsExt

CONSTANTS Requests,                 \* bound: requests at a time
          MaxRequests,              \* bound: requests in all
          Users,                    \* auth.users, {} for an open proxy
          Answers,                  \* what a lookup may return
          Hosts,                    \* IPv4 hosts behind those addresses
          max_auth_failures,        \* 0 for no limit
          max_targets_per_conn,
          connect_timeout,          \* in ticks, 0 for none
          ip_family_preference,
          Stranger,                 \* a user-id that is not configured
          None

ASSUME RequestsAssumption ==
    /\ IsFiniteSet(Requests) /\ IsFiniteSet(Users)
    /\ MaxRequests \in Nat /\ max_auth_failures \in Nat /\ max_targets_per_conn \in Nat
    /\ connect_timeout \in Nat
    /\ allow_private_networks \in BOOLEAN
    /\ ip_family_preference \in {"system", "ipv4", "ipv6"}
    /\ Stranger \notin Users /\ None \notin Users \union {Stranger}
    /\ Hosts \subseteq V4
    /\ \A a \in Answers : a \in Seq([ip : V4 \union V6, own : BOOLEAN])

Addresses == UNION {{a[i] : i \in DOMAIN a} : a \in Answers}
Claims == Users \union {Stranger, None}
Values == {v \in [claim : Claims, right : BOOLEAN] : v.right => v.claim \in Users}
MAX_CREDENTIAL_VALUES == 2

VARIABLES
    pc,             \* where each request's task is
    owed,           \* the refused claims it has still to count
    spent,          \* whether a count reached the limit
    kind,           \* the tunnel it asks for
    port,           \* whether its port is one the policy allows
    found,          \* what the lookup returned
    todo,           \* addresses still to be tried
    clock,          \* ticks since dialling began
    deadline,       \* of the dialling
    last,           \* the last address that failed, and how
    answer,         \* the status and the next hop it is answered with
    failures,       \* AuthFailures
    slots,          \* requests holding a slot of the quota
    arrived,        \* requests so far
    closed,         \* whether the connection was closed for its failures
    dialled,        \* history: addresses each request tried
    log             \* history: failures counted and successes, in order

guess == <<owed, spent>>
target == <<kind, port, found>>
dial == <<todo, clock, deadline, last, dialled>>
shared == <<failures, slots, arrived, closed, log>>
vars == <<pc, guess, target, dial, answer, shared>>

Hops == Addresses \union {None}
Errors == {"refused", "timed out", "unreachable", "exhausted", "no addresses"}

TypeOK ==
    /\ pc \in [Requests -> {"idle", "charge", "route", "lookup", "dial",
                            "answer", "relay"}]
    /\ owed \in [Requests -> Seq(Claims)] /\ spent \in [Requests -> BOOLEAN]
    /\ kind \in [Requests -> {"tcp", "udp", None}]
    /\ port \in [Requests -> BOOLEAN]
    /\ found \in [Requests -> Seq(Addresses)]
    /\ todo \in [Requests -> Seq(Addresses)]
    /\ clock \in [Requests -> Nat] /\ deadline \in [Requests -> Nat]
    /\ last \in [Requests -> [hop : Hops, error : Errors]]
    /\ answer \in [Requests -> [status : Nat, hop : Hops]]
    /\ failures \in [configured : [Users -> Nat], unconfigured : Nat,
                     anonymous : Nat]
    /\ slots \subseteq Requests /\ closed \in BOOLEAN /\ arrived \in 0 .. MaxRequests
    /\ dialled \in [Requests -> SUBSET Addresses]
    /\ log \in Seq([claim : Claims, right : BOOLEAN])

no_addresses == [hop |-> None, error |-> "no addresses"]
no_answer == [status |-> 0, hop |-> None]

Init ==
    /\ pc = [r \in Requests |-> "idle"]
    /\ owed = [r \in Requests |-> <<>>] /\ spent = [r \in Requests |-> FALSE]
    /\ kind = [r \in Requests |-> None] /\ port = [r \in Requests |-> FALSE]
    /\ found = [r \in Requests |-> <<>>] /\ todo = [r \in Requests |-> <<>>]
    /\ clock = [r \in Requests |-> 0] /\ deadline = [r \in Requests |-> 0]
    /\ last = [r \in Requests |-> no_addresses]
    /\ answer = [r \in Requests |-> no_answer]
    /\ failures = [configured |-> [u \in Users |-> 0], unconfigured |-> 0,
                   anonymous |-> 0]
    /\ slots = {} /\ closed = FALSE /\ arrived = 0
    /\ dialled = [r \in Requests |-> {}] /\ log = <<>>

Goto(r, there) == pc' = [pc EXCEPT ![r] = there]

\* The task returns: its slot, its socket and everything else it held go with it.
Return(r) ==
    /\ Goto(r, "idle")
    /\ owed' = [owed EXCEPT ![r] = <<>>] /\ spent' = [spent EXCEPT ![r] = FALSE]
    /\ kind' = [kind EXCEPT ![r] = None] /\ port' = [port EXCEPT ![r] = FALSE]
    /\ found' = [found EXCEPT ![r] = <<>>] /\ todo' = [todo EXCEPT ![r] = <<>>]
    /\ clock' = [clock EXCEPT ![r] = 0] /\ deadline' = [deadline EXCEPT ![r] = 0]
    /\ last' = [last EXCEPT ![r] = no_addresses]
    /\ answer' = [answer EXCEPT ![r] = no_answer]
    /\ dialled' = [dialled EXCEPT ![r] = {}]
    /\ slots' = slots \ {r}

\* refuse_with and respond: the answer is written next, bounded by the idle
\* timeout.
refuse_with(r, code, hop) ==
    /\ answer' = [answer EXCEPT ![r] = [status |-> code, hop |-> hop]]
    /\ Goto(r, "answer")

refuse(r, code) == refuse_with(r, code, None)

recommended_status(error) ==
    CASE error \in {"HttpRequestDenied", "DestinationIpProhibited"} -> 403
      [] error = "ProxyInternalError" -> 500
      [] error \in {"ConnectionRefused", "DnsError"} -> 502
      [] error \in {"DestinationUnavailable", "ConnectionLimitReached"} -> 503
      [] error \in {"ConnectionTimeout", "DnsTimeout"} -> 504

refuse_because(r, error) == refuse(r, recommended_status(error))

\* A 200 with nothing behind it, finished as soon as it is sent.
accept_then_close(r) == refuse_with(r, 200, None)

(***************************************************************************)
(* Credentials.                                                              *)
(***************************************************************************)
\* The saturating sum of every bucket; the counts stay far below 2^32.
total(f) ==
    MapThenSumSet(LAMBDA u : f.configured[u], Users) + f.unconfigured + f.anonymous

\* The bucket a refused value is counted in.
Counted(f, claim) ==
    IF claim \in Users THEN [f EXCEPT !.configured[claim] = @ + 1]
    ELSE IF claim = Stranger THEN [f EXCEPT !.unconfigured = @ + 1]
    ELSE [f EXCEPT !.anonymous = @ + 1]

\* A request that was let in clears the anonymous bucket and the user's own.
ForgiveAll(f, user) ==
    [configured |-> [u \in Users |-> 0], unconfigured |-> 0, anonymous |-> 0]
Forgiven(f, user) ==
    [f EXCEPT !.anonymous = 0,
              !.configured = [u \in Users |-> IF u = user THEN 0 ELSE @[u]]]

mark_authenticated(user) ==
    /\ failures' = Forgiven(failures, user)
    /\ log' = Append(log, [claim |-> user, right |-> TRUE])

\* record_auth_failure, one lock per refused value; `spent` keeps whether any of
\* them reached the limit.
Reached(f) == max_auth_failures > 0 /\ total(f) >= max_auth_failures

record_auth_failure(r) ==
    /\ pc[r] = "charge" /\ owed[r] # <<>>
    /\ failures' = Counted(failures, Head(owed[r]))
    /\ log' = Append(log, [claim |-> Head(owed[r]), right |-> FALSE])
    /\ spent' = [spent EXCEPT ![r] = @ \/ Reached(failures')]
    /\ owed' = [owed EXCEPT ![r] = Tail(@)]
    /\ UNCHANGED <<pc, target, dial, answer, slots, arrived, closed>>

\* All counted: the connection is closed without an answer, or 407 is sent.
Denied(r) ==
    /\ pc[r] = "charge" /\ owed[r] = <<>>
    /\ IF spent[r]
       THEN closed' = TRUE /\ Return(r)
       ELSE refuse(r, 407) /\ UNCHANGED <<guess, target, dial, slots, closed>>
    /\ UNCHANGED <<failures, arrived, log>>

\* authenticate: the values are tried in order and the first right one ends the
\* search; otherwise each refused value is a claim of its own, and a request
\* with no value claims nobody.
RightOnes(values) == {i \in DOMAIN values : values[i].right}
Refused(values) ==
    IF values = <<>> THEN <<None>>
    ELSE [i \in DOMAIN values |-> values[i].claim]

authenticate(r, values) ==
    IF Users = {} \/ RightOnes(values) # {}
    THEN /\ mark_authenticated(IF Users = {} THEN None
                               ELSE values[Min(RightOnes(values))].claim)
         /\ Goto(r, "route") /\ UNCHANGED owed
    ELSE /\ owed' = [owed EXCEPT ![r] = Refused(values)]
         /\ Goto(r, "charge")
         /\ UNCHANGED <<failures, log>>

\* A request arrives on a connection that is still open.
Arrives(r) ==
    /\ pc[r] = "idle" /\ ~closed
    /\ arrived < MaxRequests /\ arrived' = arrived + 1

\* One with a connection-specific field, or with more values than it may offer,
\* is refused before any value is tried.
Malformed(r) ==
    /\ Arrives(r)
    /\ refuse(r, 400)
    /\ UNCHANGED <<guess, target, dial, failures, slots, closed, log>>

handle_request(r) ==
    /\ Arrives(r)
    /\ \E n \in 0 .. MAX_CREDENTIAL_VALUES : \E values \in [1 .. n -> Values] :
          authenticate(r, values)
    /\ UNCHANGED <<spent, target, dial, answer, slots, closed>>

(***************************************************************************)
(* From the quota to the list of addresses that may be dialled.              *)
(***************************************************************************)
LimitReached(r) ==
    /\ pc[r] = "route" /\ Cardinality(slots) >= max_targets_per_conn
    /\ refuse_because(r, "ConnectionLimitReached")
    /\ UNCHANGED <<guess, target, dial, shared>>

\* The port is judged before the name is looked up.
allows_port(r, k) ==
    \E allowed \in BOOLEAN :
        /\ kind' = [kind EXCEPT ![r] = k]
        /\ port' = [port EXCEPT ![r] = allowed]
        /\ IF allowed THEN Goto(r, "lookup") /\ UNCHANGED answer
           ELSE refuse_because(r, "HttpRequestDenied")

\* tcp::run: an authority that split_authority cannot take apart is malformed.
tcp_run(r) ==
    \/ allows_port(r, "tcp")
    \/ refuse(r, 400) /\ UNCHANGED <<kind, port>>

\* udp::run: so is what validate and parse_target refuse; and the datagrams of
\* the stream may be claimed already.
udp_run(r) ==
    \/ allows_port(r, "udp")
    \/ \E code \in {400, 500} : refuse(r, code) /\ UNCHANGED <<kind, port>>

\* `route`: anything but a CONNECT or a connect-udp is not implemented.  All of
\* it with the slot held.
route(r) ==
    /\ pc[r] = "route" /\ Cardinality(slots) < max_targets_per_conn
    /\ slots' = slots \union {r}
    /\ \/ tcp_run(r)
       \/ udp_run(r)
       \/ refuse(r, 501) /\ UNCHANGED <<kind, port>>
    /\ UNCHANGED <<guess, found, dial, failures, arrived, closed, log>>

is_the_proxys_own(a) == ~is_loopback(canonical(a.ip)) /\ a.own

Dialable(a) == allows_address(a.ip) /\ ~is_the_proxys_own(a)

SomeBlackhole(addresses) ==
    \E i \in DOMAIN addresses : is_unspecified(canonical(addresses[i].ip))
is_dns_blackhole(addresses) ==
    addresses # <<>> /\ \A i \in DOMAIN addresses : is_unspecified(canonical(addresses[i].ip))

\* The addresses of a list that are in S, in the list's order.
Kept(addresses, S) ==
    LET kept[i \in 0 .. Len(addresses)] ==
            IF i = 0 THEN <<>>
            ELSE IF addresses[i] \in S THEN Append(kept[i - 1], addresses[i])
            ELSE kept[i - 1]
    IN  kept[Len(addresses)]

\* prefer_family: the preferred family first, each in the resolver's order.
prefer_family(addresses) ==
    LET preferred == {a \in Addresses : IsV6(a.ip) = (ip_family_preference = "ipv6")}
    IN  IF ip_family_preference = "system" THEN addresses
        ELSE Kept(addresses, preferred) \o Kept(addresses, Addresses \ preferred)

\* admit_target after its lookup answered.  Nothing to dial is a 200 that is
\* closed at once for a blackholed name, and a refusal otherwise.
admit_target(r, addresses) ==
    LET allowed == Kept(addresses, {a \in Addresses : Dialable(a)}) IN
    /\ found' = [found EXCEPT ![r] = addresses]
    /\ IF allowed # <<>>
       THEN /\ todo' = [todo EXCEPT ![r] = allowed]
            /\ deadline' = [deadline EXCEPT ![r] = connect_timeout]
            /\ Goto(r, "dial")
            /\ UNCHANGED answer
       ELSE /\ IF is_dns_blackhole(addresses) THEN accept_then_close(r)
               ELSE refuse_because(r, "DestinationIpProhibited")
            /\ UNCHANGED <<todo, deadline>>

Lookup(r) ==
    /\ pc[r] = "lookup"
    /\ \E addresses \in Answers : admit_target(r, prefer_family(addresses))
    /\ UNCHANGED <<guess, kind, port, clock, last, dialled, shared>>

\* resolve_within: the lookup fails, or outlasts its budget.
LookupFails(r) ==
    /\ pc[r] = "lookup"
    /\ \E error \in {"DnsError", "DnsTimeout"} : refuse_because(r, error)
    /\ UNCHANGED <<guess, target, dial, shared>>

(***************************************************************************)
(* connect_any and bind_any.                                                 *)
(***************************************************************************)
Tried(r) == dialled' = [dialled EXCEPT ![r] = @ \union {Head(todo[r])}]

Connected(r) ==
    /\ pc[r] = "dial" /\ todo[r] # <<>>
    /\ Tried(r)
    /\ refuse_with(r, 200, None)
    /\ UNCHANGED <<guess, target, todo, clock, deadline, last, shared>>

\* The next address is tried under the deadline of the first.
NextAddressAfresh(r) ==
    /\ todo' = [todo EXCEPT ![r] = Tail(@)]
    /\ deadline' = [deadline EXCEPT ![r] = clock[r] + connect_timeout]
NextAddress(r) == todo' = [todo EXCEPT ![r] = Tail(@)] /\ UNCHANGED deadline

AttemptFails(r, error) ==
    /\ pc[r] = "dial" /\ todo[r] # <<>>
    /\ error # "no addresses"
    /\ kind[r] = "udp" => error \in {"unreachable", "exhausted"}
    /\ Tried(r)
    /\ last' = [last EXCEPT ![r] = [hop |-> Head(todo[r]), error |-> error]]
    /\ NextAddress(r)
    /\ UNCHANGED <<pc, guess, target, clock, answer, shared>>

\* Time passes while a connect is outstanding; a socket is opened in no time.
Tick(r) ==
    /\ pc[r] = "dial" /\ todo[r] # <<>> /\ kind[r] = "tcp"
    /\ connect_timeout > 0 /\ clock[r] < deadline[r]
    /\ clock' = [clock EXCEPT ![r] = @ + 1]
    /\ UNCHANGED <<pc, guess, target, todo, deadline, last, dialled, answer, shared>>

\* What this host has run out of comes before what the error says.
from_connect_error(error) ==
    CASE error = "exhausted" -> "ProxyInternalError"
      [] error = "refused" -> "ConnectionRefused"
      [] error = "timed out" -> "ConnectionTimeout"
      [] OTHER -> "DestinationUnavailable"

\* fields_with_next_hop: an error of this host's own names no next hop.
discloses_next_hop(error) ==
    error \in {"ConnectionRefused", "ConnectionTimeout", "DestinationUnavailable"}

refuse_unreachable(r, failure) ==
    LET error == from_connect_error(failure.error) IN
    refuse_with(r, recommended_status(error),
                IF discloses_next_hop(error) THEN failure.hop ELSE None)

\* The deadline passes: the address being tried is the one that timed out.
DialTimesOut(r) ==
    /\ pc[r] = "dial" /\ todo[r] # <<>> /\ kind[r] = "tcp"
    /\ connect_timeout > 0 /\ clock[r] = deadline[r]
    /\ Tried(r)
    /\ refuse_unreachable(r, [hop |-> Head(todo[r]), error |-> "timed out"])
    /\ UNCHANGED <<guess, target, todo, clock, deadline, last, shared>>

Unreachable(r) ==
    /\ pc[r] = "dial" /\ todo[r] = <<>>
    /\ refuse_unreachable(r, last[r])
    /\ UNCHANGED <<guess, target, dial, shared>>

(***************************************************************************)
(* The answer and the end.                                                   *)
(***************************************************************************)
\* A target stands behind a 200 only when an address was left to relay to.
HasTarget(r) == answer[r].status = 200 /\ todo[r] # <<>>

\* Responded::Sent: a tunnel relays, and any other answer ends the stream.
Sent(r) ==
    /\ pc[r] = "answer" /\ ~closed
    /\ IF HasTarget(r)
       THEN Goto(r, "relay") /\ UNCHANGED <<guess, target, dial, answer, slots>>
       ELSE Return(r)
    /\ UNCHANGED <<failures, arrived, closed, log>>

\* Responded::Failed and Responded::Expired: a target that was dialled goes too.
NotLanded(r) ==
    /\ pc[r] = "answer"
    /\ Return(r)
    /\ UNCHANGED <<failures, arrived, closed, log>>

TunnelEnds(r) ==
    /\ pc[r] = "relay"
    /\ Return(r)
    /\ UNCHANGED <<failures, arrived, closed, log>>

Handle(r) ==
    \/ Malformed(r) \/ handle_request(r) \/ record_auth_failure(r) \/ Denied(r)
    \/ LimitReached(r) \/ route(r) \/ Lookup(r) \/ LookupFails(r)
    \/ Connected(r) \/ Tick(r) \/ DialTimesOut(r) \/ Unreachable(r)
    \/ \E error \in Errors : AttemptFails(r, error)
    \/ Sent(r) \/ NotLanded(r) \/ TunnelEnds(r)

Next == \E r \in Requests : Handle(r)
Spec == Init /\ [][Next]_vars

-------------------------------------------------------------------------------
\* The failures of a history no later success forgives: a configured user's own
\* success, any success for a request that claimed nobody, and none at all for a
\* user-id that is not configured (the reason AuthFailures has three buckets).
Forgives(success, claim) == claim = None \/ success = claim
Unforgiven ==
    {i \in DOMAIN log : ~log[i].right /\
        ~\E j \in i + 1 .. Len(log) : log[j].right /\ Forgives(log[j].claim, log[i].claim)}

\* The counters hold exactly the failures nothing has forgiven, however the
\* requests interleave, and the connection does not outlive the limit: a request
\* that reached it has closed it or is about to (record_auth_failure,
\* mark_authenticated, handle_request).
GuessesCost ==
    /\ total(failures) = Cardinality(Unforgiven)
    /\ max_auth_failures > 0 /\ Cardinality(Unforgiven) >= max_auth_failures
          => closed \/ \E r \in Requests : spent[r]

\* Nothing is dialled that leads, through any embedding of an IPv4 host in an IPv6
\* address, to a host the policy bars, nor an address of this host's own; and
\* only on an allowed port, by a request that was let in and holds a slot
\* (admit_target, Policy::allows_address, the order of handle_request).
Barred(v4) == is_never_allowed(v4) \/ (is_private(v4) /\ ~allow_private_networks)
DialsOnlyAdmitted ==
    \A r \in Requests :
        /\ \A a \in dialled[r] :
              /\ \A v4 \in Hosts : a.ip \in Aliases(v4) => ~Barred(v4)
              /\ a.own => is_loopback(canonical(a.ip))
        /\ dialled[r] # {} => port[r] /\ owed[r] = <<>> /\ ~spent[r]
        /\ pc[r] \in {"lookup", "dial", "relay"} => r \in slots

\* One budget covers every address of a name: dialling never lasts longer than
\* connect_timeout, however many of them refuse late
\* (connect_any_with).
DialWithinBudget == \A r \in Requests : clock[r] <= connect_timeout

\* What a client is told is true.  A request is accepted only with a target behind
\* it, or for a name whose every address is unspecified (accept_then_close); and an
\* answer names a next hop only if that hop was dialled, a fault of this host's own
\* being never laid at a target's door (fields_with_next_hop).
AcceptedMeansReached ==
    \A r \in Requests : answer[r].status = 200 =>
        \/ todo[r] # <<>> /\ Head(todo[r]) \in dialled[r]
        \/ /\ found[r] # <<>> /\ dialled[r] = {}
           /\ \A i \in DOMAIN found[r] : is_unspecified(canonical(found[r][i].ip))
HopWasDialled ==
    \A r \in Requests : answer[r].hop # None =>
        answer[r].hop \in dialled[r] /\ answer[r].status \in {502, 503, 504}
AnswerIsTrue == AcceptedMeansReached /\ HopWasDialled
===============================================================================
