-------------------------------- MODULE Settings --------------------------------
(***************************************************************************)
(* The payload of a SETTINGS frame, h3/frame.rs: as this server sends it and  *)
(* as it reads the peer's.                                                   *)
(***************************************************************************)
EXTENDS Varints, TLC

CONSTANT MAX_FIELD_SECTION_SIZE

SETTING_QPACK_MAX_TABLE_CAPACITY == 1
SETTING_MAX_FIELD_SECTION_SIZE == 6
SETTING_QPACK_BLOCKED_STREAMS == 7
SETTING_ENABLE_CONNECT_PROTOCOL == 8
SETTING_H3_DATAGRAM == 51
RESERVED_HTTP2_SETTINGS == {0, 2, 3, 4, 5}
GREASE == 31 * 8 + 33

Ok(value) == [error |-> "none", value |-> value]
Error(code) == [error |-> code, value |-> FALSE]

boolean(value) ==
    IF value \in {0, 1} THEN Ok(value = 1) ELSE Error("H3_SETTINGS_ERROR")

\* One pair of the payload: what it leaves to read, and what it settles.
Start(payload) == [error |-> "none", rest |-> payload, seen |-> {}, datagrams |-> FALSE]
Pair(rest) ==
    LET identifier == peek_varint(rest)
        value == peek_varint(Drop(rest, identifier.length))
    IN  [whole |-> Whole(identifier) /\ Whole(value), identifier |-> identifier.value,
         value |-> value.value, rest |-> Drop(rest, identifier.length + value.length)]

RepeatsAllowed(identifier, seen) == identifier \in RESERVED_HTTP2_SETTINGS
IsRefused(identifier, seen) == identifier \in RESERVED_HTTP2_SETTINGS \union seen

Settle(state, pair) ==
    IF ~pair.whole THEN [state EXCEPT !.error = "H3_FRAME_ERROR"]
    ELSE IF IsRefused(pair.identifier, state.seen)
    THEN [state EXCEPT !.error = "H3_SETTINGS_ERROR"]
    ELSE IF pair.identifier = SETTING_H3_DATAGRAM
    THEN [error |-> boolean(pair.value).error, rest |-> pair.rest,
          seen |-> state.seen \union {pair.identifier},
          datagrams |-> boolean(pair.value).value]
    ELSE [state EXCEPT !.rest = pair.rest, !.seen = @ \union {pair.identifier}]
TakePair(state) ==
    IF state.error # "none" \/ state.rest = <<>> THEN state
    ELSE Settle(state, Pair(state.rest))

parse_settings(payload) ==
    LET
      State[n \in 0 .. Len(payload)] ==
        IF n = 0 THEN Start(payload) ELSE TakePair(State[n - 1])
      end == State[Len(payload)]
    IN  IF end.error = "none" THEN Ok(end.datagrams) ELSE Error(end.error)

Payload(pairs) ==
    LET Out[n \in 0 .. Len(pairs)] ==
          IF n = 0 THEN <<>>
          ELSE Out[n - 1] \o put_varint(pairs[n][1]) \o put_varint(pairs[n][2])
    IN  Out[Len(pairs)]

settings_payload ==
    Payload(<<<<SETTING_QPACK_MAX_TABLE_CAPACITY, 0>>,
              <<SETTING_QPACK_BLOCKED_STREAMS, 0>>,
              <<SETTING_MAX_FIELD_SECTION_SIZE, MAX_FIELD_SECTION_SIZE>>,
              <<SETTING_ENABLE_CONNECT_PROTOCOL, 1>>,
              <<SETTING_H3_DATAGRAM, 1>>,
              <<GREASE, 0>>>>)

-------------------------------------------------------------------------------
(* What the reading is held to                                               *)

PairsOf(payload) ==
    LET Of[n \in 0 .. Len(payload)] ==
          LET pair == Pair(Drop(payload, n)) IN
          IF n = Len(payload) \/ ~pair.whole THEN <<>>
          ELSE <<<<pair.identifier, pair.value>>>> \o Of[Len(payload) - Len(pair.rest)]
    IN  Of[0]

Rewritten(payload) ==
    LET pairs == PairsOf(payload) IN
    {Payload([i \in DOMAIN pairs |-> pairs[order[i]]]) : order \in Permutations(DOMAIN pairs)}

\* Settings have no order: any order of the pairs read, written again, reads as
\* the same settings, and this server reads its own.
IsUnordered(payload) ==
    /\ \A own \in {settings_payload} : parse_settings(own) = Ok(TRUE)
    /\ \A settings \in {parse_settings(payload)} : settings.error = "none" =>
           \A again \in Rewritten(payload) : parse_settings(again) = settings
===============================================================================
