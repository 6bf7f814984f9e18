---------------------------------- MODULE Gate ----------------------------------
(***************************************************************************)
(* The SNI gate, gate.rs: what stands between the socket and the QUIC         *)
(* endpoint, and lets no handshake be answered that does not ask for one of   *)
(* the configured names.                                                     *)
(*                                                                         *)
(* The kernel hands over a buffer of datagrams end to end, all of one length  *)
(* but the last.  A datagram is what the tests of `judge` find in it, and, if *)
(* its Initial packet opens, the frames inside; a CRYPTO frame is the part of *)
(* the client's first handshake message it carries.                           *)
(***************************************************************************)
EXTENDS Integers, Sequences, FiniteSetsExt

CONSTANTS Configurations,   \* the lists of names that may be configured
          ExtensionLists,   \* the extensions a ClientHello may carry
          HELLO,            \* octets of a first handshake message
          MaxFrames,        \* bound: frames of a packet
          MaxDatagrams,     \* bound: datagrams of a buffer
          STRIDE            \* octets of a datagram but the last

\* A host name but for its spelling; an extension is its kind and its entries.
Host(label, upper, dots) == [label |-> label, upper |-> upper, dots |-> dots]
ServerName(entries) == [kind |-> "server_name", entries |-> entries]
Entry(host, name) == [host |-> host, name |-> name]

\* Config::validate has no name with an empty label, so at most the root's dot.
IsSequence(s) == s \in Seq({s[i] : i \in DOMAIN s})
ASSUME GateAssumption ==
    /\ {HELLO, STRIDE} \subseteq Nat \ {0} /\ {MaxFrames, MaxDatagrams} \subseteq Nat
    /\ \A list \in Configurations :
          IsSequence(list) /\ \A i \in DOMAIN list : list[i].dots \in {0, 1}
    /\ \A list \in ExtensionLists : IsSequence(list) /\ \A i \in DOMAIN list :
          /\ IsSequence(list[i].entries)
          /\ \A j \in DOMAIN list[i].entries : list[i].entries[j].name.dots \in Nat

NoHello == [client_hello |-> FALSE, extensions |-> <<>>]
Messages ==
    {NoHello} \union [client_hello : {TRUE}, extensions : ExtensionLists]

\* PADDING, PING, ACK and CONNECTION_CLOSE are read past; no other type belongs in
\* an Initial packet.  A frame may be cut short by the end of the packet.
Crypto == [kind : {"crypto"}, from : 0 .. HELLO, to : 0 .. HELLO]
Frames == {f \in Crypto : f.from <= f.to}
          \union [kind : {"passed", "alien", "cut"}, from : {0}, to : {0}]

\* What judge tests, in its order, and the frames of a packet that opens.
Tests == <<"octets", "long", "versioned", "v1", "initial", "padded", "parsed",
           "long_cid", "opens">>
Opening == [t \in {Tests[i] : i \in DOMAIN Tests} |-> TRUE]

VARIABLES names,        \* the names configured
          message,      \* the first handshake message of the client
          batch,        \* the datagrams of the buffer
          len,          \* its length in octets
          at,           \* how far poll_recv has walked
          blinded       \* datagrams made unreadable

GateVars == <<names, message, batch, len, at, blinded>>

GateInit ==
    /\ names \in Configurations
    /\ message \in Messages
    /\ batch = <<>> /\ len = 0 /\ at = 0 /\ blinded = {}

-------------------------------------------------------------------------------
(* The names                                                                 *)

root_relative(name) ==
    Host(name.label, name.upper, IF name.dots > 0 THEN name.dots - 1 ELSE 0)
normalise(name) == [root_relative(name) EXCEPT !.upper = FALSE]
eq_ignore_ascii_case(a, b) == a.label = b.label /\ a.dots = b.dots

accepts(name) ==
    \E i \in DOMAIN names : eq_ignore_ascii_case(normalise(names[i]), root_relative(name))

-------------------------------------------------------------------------------
(* The frames of an Initial packet, and the message they make                 *)

\* The fragments up to a frame that ends the walk; a cut frame leaves nothing.
Walked(frames) ==
    LET alien == {i \in DOMAIN frames : frames[i].kind = "alien"} IN
    IF alien = {} THEN frames ELSE SubSeq(frames, 1, Min(alien) - 1)

\* The fragments in the order of their offsets, those of one offset at a time.
\* One that begins past what is there leaves a gap, and so do all that follow.
Ends(frames, offset) ==
    {frames[i].to : i \in {j \in DOMAIN frames :
                              frames[j].kind = "crypto" /\ frames[j].from = offset}}
Extended(length, frames, offset) ==
    IF offset > length THEN length ELSE Max({length} \union Ends(frames, offset))

\* The octets of the message that stand in the packet without a gap.
crypto_stream_prefix(frames) ==
    LET Length[n \in 0 .. HELLO + 1] ==
            IF n = 0 THEN 0 ELSE Extended(Length[n - 1], Walked(frames), n - 1)
    IN  IF \E i \in DOMAIN Walked(frames) : Walked(frames)[i].kind = "cut" THEN 0
        ELSE Length[HELLO + 1]

Nobody == [kind |-> "Anonymous"]
Named(name) == [kind |-> "Named", name |-> name]

host_name(entries) ==
    LET hosts == {i \in DOMAIN entries : entries[i].host} IN
    IF hosts = {} THEN Nobody ELSE Named(entries[Min(hosts)].name)

\* The first server_name extension decides, whatever it holds.
server_name(extensions) ==
    LET found == {i \in DOMAIN extensions : extensions[i].kind = "server_name"} IN
    IF found = {} THEN Nobody ELSE host_name(extensions[Min(found)].entries)

RefusesEarly(octets) ==
    IF octets = 0 THEN [kind |-> "Truncated"]
    ELSE IF ~message.client_hello THEN [kind |-> "NotAClientHello"]
    ELSE IF octets < HELLO THEN Nobody
    ELSE server_name(message.extensions)
first_flight(octets) ==
    IF octets = 0 THEN [kind |-> "Truncated"]
    ELSE IF ~message.client_hello THEN [kind |-> "NotAClientHello"]
    ELSE IF octets < HELLO THEN [kind |-> "Truncated"]
    ELSE server_name(message.extensions)

-------------------------------------------------------------------------------
(* The verdict on a datagram                                                  *)

\* The first test that fails decides: most leave the datagram to the endpoint.
judge(datagram) ==
    LET failed == {i \in DOMAIN Tests : ~datagram.tests[Tests[i]]}
        flight == first_flight(crypto_stream_prefix(datagram.frames))
    IN  IF failed # {}
        THEN IF Tests[Min(failed)] \in {"v1", "long_cid"} THEN "Refuse" ELSE "Pass"
        ELSE CASE flight.kind = "Truncated" -> "Pass"
               [] flight.kind \in {"NotAClientHello", "Anonymous"} -> "Refuse"
               [] flight.kind = "Named" -> IF accepts(flight.name) THEN "Pass" ELSE "Refuse"

\* screen: a datagram that is refused is made one the endpoint drops unanswered.
screen(i) ==
    blinded' = IF judge(batch[i]) = "Refuse" THEN blinded \union {i} ELSE blinded

-------------------------------------------------------------------------------
(* poll_recv                                                                 *)

\* A datagram with frames in it, or one that fails a test or two.
Others == {[Opening EXCEPT ![Tests[i]] = FALSE, ![Tests[j]] = FALSE] :
               i \in DOMAIN Tests, j \in DOMAIN Tests}
Datagrams ==
    [tests : {Opening}, frames : UNION {[1 .. n -> Frames] : n \in 0 .. MaxFrames}]
    \union [tests : Others, frames : {<<>>}]

Receive ==
    /\ batch = <<>>
    /\ \E d \in Datagrams, count \in 1 .. MaxDatagrams, short \in 1 .. STRIDE :
          /\ batch' = [i \in 1 .. count |-> d]
          /\ len' = (count - 1) * STRIDE + short
    /\ at' = IF names = <<>> THEN len' ELSE 0
    /\ UNCHANGED <<names, message, blinded>>

Screen ==
    /\ at < len
    /\ screen(at \div STRIDE + 1)
    /\ at' = Min({at + STRIDE, len})
    /\ UNCHANGED <<names, message, batch, len>>

\* The buffer goes to the endpoint, and the next one comes.
Ready ==
    /\ batch # <<>> /\ at = len
    /\ batch' = <<>> /\ len' = 0 /\ at' = 0 /\ blinded' = {}
    /\ UNCHANGED <<names, message>>

GateNext == Receive \/ Screen \/ Ready
GateSpec == GateInit /\ [][GateNext]_GateVars

\* OneOfTheseNames, in tls.rs: whether a handshake that comes as far as TLS is shown
\* the certificate; the gate lets one through that it has not read to its end.
resolve ==
    LET asked == server_name(message.extensions) IN
    names = <<>> \/ (asked.kind = "Named" /\ accepts(asked.name))

-------------------------------------------------------------------------------
\* Whether the client asks for one of the names, spelt as it may be.
SameHost(a, b) == a.label = b.label /\ {a.dots, b.dots} \subseteq {0, 1}
AsksFor(host) ==
    \E i \in DOMAIN message.extensions :
        LET e == message.extensions[i] IN
        /\ e.kind = "server_name"
        /\ \A j \in 1 .. i - 1 : message.extensions[j].kind # "server_name"
        /\ \E k \in DOMAIN e.entries :
              /\ e.entries[k].host /\ SameHost(e.entries[k].name, host)
              /\ \A l \in 1 .. k - 1 : ~e.entries[l].host
Welcome == message.client_hello /\ \E i \in DOMAIN names : AsksFor(names[i])

\* A client that asks for a name of this server loses no datagram of its
\* handshake, however its ClientHello is cut into frames and whatever arrives
\* with it, and is shown the certificate; and a gate with no names drops nothing
\* (judge, poll_recv, OneOfTheseNames::resolve).
WelcomeIsHeard ==
    Welcome \/ names = <<>> =>
        /\ resolve
        /\ \A i \in blinded : names # <<>> /\ batch[i].tests # Opening

\* A datagram that carries the whole of a ClientHello for another name, or for
\* none, is dropped unanswered: in any order of its frames, doubled or
\* overlapping, and also as the short last one of a buffer; one that comes through
\* in pieces is shown no certificate (crypto_stream_prefix, poll_recv, resolve).
Carries(frames) ==
    /\ \A i \in DOMAIN frames : frames[i].kind \in {"crypto", "passed"}
    /\ \A octet \in 0 .. HELLO - 1 : \E i \in DOMAIN frames :
          frames[i].kind = "crypto" /\ frames[i].from <= octet /\ octet < frames[i].to
StrangerIsDropped ==
    ~Welcome /\ names # <<>> /\ at = len =>
        /\ message.client_hello => ~resolve
        /\ \A i \in DOMAIN batch :
            batch[i].tests = Opening /\ Carries(batch[i].frames) => i \in blinded

\* The gate is exact: a client that asks for a name of this server loses nothing,
\* and a whole ClientHello for another name is dropped unanswered (Gate::poll_recv
\* and judge).
GateIsExact == WelcomeIsHeard /\ StrangerIsDropped
===============================================================================
