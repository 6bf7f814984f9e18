------------------------------- MODULE Messages ---------------------------------
(***************************************************************************)
(* From a decoded field section to a request and the target it names:         *)
(* build_request of h3/stream.rs over the values of h3/message.rs, the        *)
(* routing of tunnel/mod.rs, and the two ways of naming a target,             *)
(* split_authority of tunnel/tcp.rs and parse_target of tunnel/udp.rs.        *)
(*                                                                         *)
(* A text is a sequence of marks: the characters the code looks for, escapes, *)
(* and words of letters and hyphens, which no rule here looks inside.         *)
(***************************************************************************)
EXTENDS Integers, Sequences, FiniteSetsExt

CONSTANTS None,                 \* an Option without its value
          PORT_MAX              \* of a u16: 65535

malformed == [request |-> None]

Words == {"CONNECT", "GET", "https", "connect-udp", "udp", "trailers", "a", "b"}
Digits == {"0", "1", "8"}
Escapes == {"%5B", "%5D", "%3A", "%31", "%FF"}
Blanks == {" "}

is_tchar(mark) == mark \in Words \cup Digits \cup Escapes
is_pchar(mark) == is_tchar(mark) \/ mark \in {":", "@"}
InAuthority(mark) == is_pchar(mark) \/ mark \in {"[", "]"}
is_field_value(value) == \A i \in DOMAIN value : value[i] # "NUL"
token(text) == text # <<>> /\ \A i \in DOMAIN text : is_tchar(text[i])

Places(text, mark) == {i \in DOMAIN text : text[i] = mark}
Has(text, mark) == Places(text, mark) # {}
After(text, n) == SubSeq(text, n + 1, Len(text))
Before(text, n) == SubSeq(text, 1, n - 1)
Starts(text, prefix) ==
    Len(prefix) <= Len(text) /\ SubSeq(text, 1, Len(prefix)) = prefix

-------------------------------------------------------------------------------
(* The request                                                               *)

Pseudo == {":method", ":scheme", ":authority", ":path", ":protocol"}
IsPseudo(name) == name \in Pseudo \cup {":status"}
field_name(name) == name # "Accept"         \* it has a capital

trim_optional_whitespace(value) ==
    LET kept == {i \in DOMAIN value : value[i] \notin Blanks} IN
    IF kept = {} THEN <<>> ELSE SubSeq(value, Min(kept), Max(kept))

\* Fields: name and value in the order they came; get is the first of its name.
get(fields, name) ==
    LET at == {i \in DOMAIN fields : fields[i].name = name} IN
    IF at = {} THEN None ELSE fields[Min(at)].value
contains(fields, name) == get(fields, name) # None

Started == [malformed |-> FALSE, regular_field_seen |-> FALSE, fields |-> <<>>,
            slot |-> [name \in Pseudo |-> None]]
Broken(state) == [state EXCEPT !.malformed = TRUE]

add_field(state, field) ==
    LET value == trim_optional_whitespace(field.value)
        kept == [name |-> field.name, value |-> value]
    IN  IF \/ ~field_name(field.name)
           \/ ~is_field_value(value)
           \/ field.name = "connection"
           \/ field.name = "te" /\ value # <<"trailers">>
           \/ field.name = "host" /\ contains(state.fields, "host")
        THEN Broken(state)
        ELSE [state EXCEPT !.fields = Append(@, kept), !.regular_field_seen = TRUE]

LastCounts(state, field) ==
    IF state.malformed THEN state
    ELSE IF ~IsPseudo(field.name) THEN add_field(state, field)
    ELSE IF state.regular_field_seen \/ field.name \notin Pseudo THEN Broken(state)
    ELSE [state EXCEPT !.slot[field.name] = field.value]
TakeField(state, field) ==
    IF state.malformed THEN state
    ELSE IF ~IsPseudo(field.name) THEN add_field(state, field)
    ELSE IF \/ state.regular_field_seen
            \/ field.name \notin Pseudo
            \/ state.slot[field.name] # None
    THEN Broken(state)
    ELSE [state EXCEPT !.slot[field.name] = field.value]

Collected(section) ==
    LET
      State[n \in 0 .. Len(section)] ==
        IF n = 0 THEN Started ELSE TakeField(State[n - 1], section[n])
    IN  State[Len(section)]

uri_scheme(scheme) ==
    /\ scheme # <<>> /\ Head(scheme) \in Words
    /\ \A i \in DOMAIN scheme : scheme[i] \in Words \cup Digits

uri_authority(authority) ==
    authority # <<>> /\ \A i \in DOMAIN authority : InAuthority(authority[i])

\* The path, and the query if there is one.
split_target(target, extended) ==
    LET mark == Places(target, "?")
        path == IF mark = {} THEN target ELSE Before(target, Min(mark))
        query == IF mark = {} THEN None ELSE After(target, Min(mark))
    IN  IF target = <<"*">> /\ ~extended THEN [path |-> target, query |-> None]
        ELSE IF \/ ~Starts(target, <<"/">>)
                \/ \E i \in DOMAIN path : ~is_pchar(path[i]) /\ path[i] # "/"
                \/ query # None /\ \E i \in DOMAIN query :
                       ~is_pchar(query[i]) /\ query[i] \notin {"/", "?"}
        THEN None
        ELSE [path |-> path, query |-> query]

\* The parts of the request, once every field is taken: a plain CONNECT names an
\* authority alone, any other request a scheme, a target and an authority or a
\* Host, which agree where both are there.
build_request(section) ==
    LET
      all == Collected(section)
      slot == all.slot
      host == get(all.fields, "host")
      connect == slot[":method"] = <<"CONNECT">>
      extended == slot[":protocol"] # None
      named == IF slot[":authority"] # None THEN slot[":authority"] ELSE host
      target == split_target(slot[":path"], extended)
      Request(scheme, authority, path, query) ==
        [request |-> [method |-> slot[":method"], scheme |-> scheme,
                      authority |-> authority, path |-> path, query |-> query,
                      protocol |-> slot[":protocol"], fields |-> all.fields]]
    IN  IF \/ all.malformed
           \/ slot[":method"] = None \/ ~token(slot[":method"])
           \/ extended /\ ~connect
        THEN malformed
        ELSE IF connect /\ ~extended
        THEN IF \/ slot[":scheme"] # None \/ slot[":path"] # None
                \/ slot[":authority"] = None \/ ~uri_authority(slot[":authority"])
             THEN malformed
             ELSE Request(None, slot[":authority"], None, None)
        ELSE IF \/ slot[":scheme"] = None \/ slot[":path"] = None
                \/ slot[":authority"] # None /\ host # None /\ slot[":authority"] # host
                \/ slot[":authority"] = None /\ (extended \/ host = None)
                \/ target = None \/ ~uri_scheme(slot[":scheme"])
                \/ ~uri_authority(named)
                \/ extended /\ ~token(slot[":protocol"])
        THEN malformed
        ELSE Request(slot[":scheme"], named, target.path, target.query)

-------------------------------------------------------------------------------
(* Where it goes                                                             *)

route(req) ==
    CASE req.method # <<"CONNECT">> -> "NotConnect"
      [] req.method = <<"CONNECT">> /\ req.protocol = None -> "Tcp"
      [] req.method = <<"CONNECT">> /\ req.protocol = <<"connect-udp">> -> "ConnectUdp"
      [] OTHER -> "UnsupportedProtocol"

connection_specific_field(req) ==
    \E name \in {"proxy-connection", "keep-alive", "transfer-encoding", "upgrade"} :
        contains(req.fields, name)

\* udp::validate.
validate(req) ==
    /\ req.scheme # None /\ req.scheme # <<>>
    /\ ~contains(req.fields, "content-length")
    /\ ~contains(req.fields, "content-type")

is_port(text) == text # <<>> /\ \A i \in DOMAIN text : text[i] \in Digits
stray_bracket(host) == Has(host, "[") \/ Has(host, "]")

Number(text) ==
    LET digit(mark) == CASE mark = "0" -> 0 [] mark = "1" -> 1 [] mark = "8" -> 8
        Read[n \in 0 .. Len(text)] ==
            IF n = 0 THEN 0 ELSE Read[n - 1] * 10 + digit(text[n])
    IN  Read[Len(text)]
Target(host, port) ==
    IF is_port(port) /\ Number(port) \in 1 .. PORT_MAX
    THEN [host |-> host, port |-> Number(port)] ELSE None

SplitAtLastColon(authority) ==
    LET closing == Places(authority, "]")
        literal == SubSeq(authority, 2, Min(closing) - 1)
        rest == After(authority, Min(closing))
        colons == Places(authority, ":")
        host == Before(authority, Max(colons))
    IN  IF Has(authority, "@") THEN None
        ELSE IF Starts(authority, <<"[">>)
        THEN IF \/ closing = {} \/ literal = <<>> \/ stray_bracket(literal)
                \/ ~Starts(rest, <<":">>)
             THEN None ELSE Target(literal, Tail(rest))
        ELSE IF colons = {} \/ host = <<>> \/ stray_bracket(host)
        THEN None ELSE Target(host, After(authority, Max(colons)))
split_authority(authority) ==
    LET closing == Places(authority, "]")
        literal == SubSeq(authority, 2, Min(closing) - 1)
        rest == After(authority, Min(closing))
        colons == Places(authority, ":")
        host == Before(authority, Max(colons))
    IN  IF Has(authority, "@") THEN None
        ELSE IF Starts(authority, <<"[">>)
        THEN IF \/ closing = {} \/ literal = <<>> \/ stray_bracket(literal)
                \/ ~Starts(rest, <<":">>)
             THEN None ELSE Target(literal, Tail(rest))
        ELSE IF colons = {} \/ host = <<>> \/ Has(host, ":") \/ stray_bracket(host)
        THEN None ELSE Target(host, After(authority, Max(colons)))

WELL_KNOWN_PREFIX == <<"/", "udp", "/">>    \* /.well-known/masque/udp/
IsUtf8(text) == ~Has(text, "%FF")
percent_decode(text) ==
    [i \in DOMAIN text |->
        CASE text[i] = "%5B" -> "[" [] text[i] = "%5D" -> "]"
          [] text[i] = "%3A" -> ":" [] text[i] = "%31" -> "1" [] OTHER -> text[i]]
Unbracketed(host) ==
    IF Len(host) > 2 /\ host[1] = "[" /\ host[Len(host)] = "]"
    THEN SubSeq(host, 2, Len(host) - 1) ELSE host

parse_target(path, query) ==
    LET given == After(path, Len(WELL_KNOWN_PREFIX))
        rest == IF given # <<>> /\ given[Len(given)] = "/"
                THEN Before(given, Len(given)) ELSE given
        slash == Places(rest, "/")
        host == Before(rest, Min(slash))
        port == After(rest, Min(slash))
        bare == Unbracketed(percent_decode(host))
    IN  IF \/ query # None /\ query # <<>>
           \/ ~Starts(path, WELL_KNOWN_PREFIX)
           \/ Cardinality(slash) # 1
           \/ ~IsUtf8(host) \/ host = <<>> \/ stray_bracket(bare)
           \/ ~IsUtf8(port)
        THEN None ELSE Target(bare, percent_decode(port))

-------------------------------------------------------------------------------
(* What the readings are held to                                             *)

target_of(section) ==
    LET req == build_request(section).request IN
    IF req = None THEN None
    ELSE IF connection_specific_field(req) THEN None
    ELSE IF route(req) = "Tcp" THEN split_authority(req.authority)
    ELSE IF route(req) = "ConnectUdp" /\ validate(req)
    THEN parse_target(req.path, req.query) ELSE None

\* Nothing in a request can be read two ways: each part is named once, whatever
\* order the parts came in, every field that names the host of a request with a
\* target names the same one, and no part comes after the fields it must precede.
IsReadOneWay(section) ==
    LET req == build_request(section).request
        Values(name) == {trim_optional_whitespace(section[i].value) :
                            i \in {j \in DOMAIN section : section[j].name = name}}
        parts == {i \in DOMAIN section : IsPseudo(section[i].name)}
        n == Cardinality(parts)
        Turned == [i \in DOMAIN section |->
                      section[IF i <= n THEN n + 1 - i ELSE i]]
    IN  req # None =>
            /\ parts = 1 .. n
            /\ build_request(Turned).request = req
            /\ Values(":method") = {req.method}
            /\ Values(":protocol") = {req.protocol} \ {None}
            /\ IF route(req) = "Tcp" THEN Values(":authority") = {req.authority}
               ELSE Values(":authority") \union Values("host") = {req.authority}
            /\ Cardinality(Values("host")) <= 1

IsHost(host) == host # <<>> /\ ~stray_bracket(host)
Literal(host) == Len(host) > 2 /\ host[1] = "[" /\ host[Len(host)] = "]"
Bare(host) == IF Literal(host) THEN SubSeq(host, 2, Len(host) - 1) ELSE host
IsPortNumber(text) ==
    text # <<>> /\ (\A i \in DOMAIN text : text[i] \in Digits) /\ Number(text) \in 1 .. PORT_MAX

\* The targets an authority can be taken for: a name, or a bracketed literal, a
\* colon, and a port.
AuthorityTargets(text) ==
    LET Here(i) == LET host == Before(text, i) IN
            /\ IsHost(Bare(host)) /\ IsPortNumber(After(text, i))
            /\ ~Has(text, "@")
            /\ Has(host, ":") => Literal(host)
    IN  {[host |-> Bare(Before(text, i)), port |-> Number(After(text, i))] :
            i \in {j \in Places(text, ":") : Here(j)}}

\* The targets a path can be taken for: the template, its last slash optional and
\* nothing in its query.
PathTargets(text) ==
    LET Seg(i) == SubSeq(text, Len(WELL_KNOWN_PREFIX) + 1, i - 1)
        Port(i, end) == SubSeq(text, i + 1, Len(text) - Len(end))
        Here(i, end) ==
            /\ Starts(text, WELL_KNOWN_PREFIX) /\ i > Len(WELL_KNOWN_PREFIX)
            /\ SubSeq(text, Len(text) - Len(end) + 1, Len(text)) = end
            /\ \A j \in DOMAIN Seg(i) : is_pchar(Seg(i)[j]) /\ Seg(i)[j] # "%FF"
            /\ IsHost(Bare(percent_decode(Seg(i))))
            /\ IsPortNumber(percent_decode(Port(i, end)))
    IN  {[host |-> Bare(percent_decode(Seg(p[1]))), port |-> Number(percent_decode(Port(p[1], p[2])))] :
            p \in {q \in Places(text, "/") \X {<<>>, <<"/">>, <<"?">>, <<"/", "?">>} :
                        Here(q[1], q[2])}}

\* The target of a request is the one its text can be taken for.
IsTargetWritten(section, targets) ==
    targets = {target_of(section)} \ {None}
===============================================================================
