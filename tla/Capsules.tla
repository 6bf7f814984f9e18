-------------------------------- MODULE Capsules --------------------------------
(***************************************************************************)
(* CapsuleDecoder of capsule.rs, fed the octets of a request stream in        *)
(* chunks.  One step is one pass of the loop of next_capsule; a chunk is      *)
(* pushed only when the decoder has asked for more.                          *)
(***************************************************************************)
EXTENDS Varints

CONSTANTS Octets, MaxBytes, MAX_DATAGRAM_CAPSULE_VALUE,
          MaxChunk                      \* bound: octets of a chunk

ASSUME CapsuleAssumption ==
    /\ Octets \subseteq 0 .. 255
    /\ {MaxBytes, MAX_DATAGRAM_CAPSULE_VALUE, MaxChunk} \subseteq Nat

VARIABLES buffer,
          state,        \* Header, Value with its length, or Skip with what remains
          decoding,     \* whether next_capsule has still to return None
          given, end,
          arrived       \* history: every octet pushed

decoder == <<buffer, state, decoding>>
CapsuleVars == <<decoder, given, end, arrived>>

CAPSULE_TYPE_DATAGRAM == 0
Header == [at |-> "Header", n |-> 0]
ValueOf(length) == [at |-> "Value", n |-> length]
Skip(remaining) == [at |-> "Skip", n |-> remaining]

CapsuleTypeOK ==
    /\ buffer \in Seq(Octets) /\ arrived \in Seq(Octets)
    /\ state \in [at : {"Header", "Value", "Skip"}, n : Nat]
    /\ decoding \in BOOLEAN
    /\ given \in Seq([context_id : Nat, payload : Seq(Octets)])
    /\ end \in {"open", "error", "complete", "truncated"}

CapsuleInit ==
    /\ buffer = <<>> /\ state = Header /\ decoding = FALSE
    /\ given = <<>> /\ end = "open" /\ arrived = <<>>

push(chunk) ==
    /\ end = "open" /\ ~decoding
    /\ Len(arrived) + Len(chunk) <= MaxBytes
    /\ buffer' = buffer \o chunk /\ arrived' = arrived \o chunk
    /\ decoding' = TRUE
    /\ UNCHANGED <<state, given, end>>

\* next_capsule asks for more.
NeedsMore ==
    /\ decoding' = FALSE
    /\ UNCHANGED <<buffer, state, given, end, arrived>>

\* An unknown capsule is discarded as it arrives.
DiscardWhole ==
    /\ state.at = "Skip"
    /\ IF Len(buffer) < state.n THEN NeedsMore
       ELSE /\ buffer' = Drop(buffer, state.n) /\ state' = Header
            /\ UNCHANGED <<decoding, given, end, arrived>>

Discard ==
    /\ state.at = "Skip"
    /\ IF state.n > 0 /\ buffer = <<>> THEN NeedsMore
       ELSE LET discard == IF state.n < Len(buffer) THEN state.n ELSE Len(buffer) IN
            /\ buffer' = Drop(buffer, discard)
            /\ state' = IF state.n = 0 THEN Header ELSE Skip(state.n - discard)
            /\ UNCHANGED <<decoding, given, end, arrived>>

\* Both integers must be there before either is consumed.
Declared(type, length, after) ==
    /\ buffer' = after
    /\ IF type # CAPSULE_TYPE_DATAGRAM
       THEN state' = Skip(length) /\ UNCHANGED <<decoding, end>>
       ELSE IF length > MAX_DATAGRAM_CAPSULE_VALUE
       THEN end' = "error" /\ decoding' = FALSE /\ UNCHANGED state
       ELSE state' = ValueOf(length) /\ UNCHANGED <<decoding, end>>
    /\ UNCHANGED <<given, arrived>>

EagerHeader ==
    LET type == peek_varint(buffer)
        length == peek_varint(Drop(buffer, type.length))
    IN  /\ state.at = "Header"
        /\ IF ~Whole(type) THEN NeedsMore
           ELSE IF ~Whole(length)
           THEN /\ decoding' = FALSE /\ buffer' = Drop(buffer, type.length)
                /\ UNCHANGED <<state, given, end, arrived>>
           ELSE Declared(type.value, length.value,
                         Drop(buffer, type.length + length.length))

ReadHeader ==
    LET type == peek_varint(buffer)
        length == peek_varint(Drop(buffer, type.length))
    IN  /\ state.at = "Header"
        /\ IF ~Whole(type) \/ ~Whole(length) THEN NeedsMore
           ELSE Declared(type.value, length.value,
                         Drop(buffer, type.length + length.length))

\* A datagram is handed on whole, and its Context ID is inside its value.
ReadValue ==
    LET value == Take(buffer, state.n)
        context == peek_varint(value)
    IN  /\ state.at = "Value"
        /\ IF Len(buffer) < state.n THEN NeedsMore
           ELSE /\ buffer' = Drop(buffer, state.n) /\ state' = Header
                /\ IF Whole(context)
                   THEN /\ given' = Append(given,
                              [context_id |-> context.value,
                               payload |-> Drop(value, context.length)])
                        /\ UNCHANGED <<decoding, end>>
                   ELSE end' = "error" /\ decoding' = FALSE /\ UNCHANGED given
                /\ UNCHANGED arrived

at_capsule_boundary ==
    (state = Header \/ state = Skip(0)) /\ buffer = <<>>

\* The peer ends its side, and the session asks whether that was mid-capsule.
Fin ==
    /\ end = "open" /\ ~decoding
    /\ end' = IF at_capsule_boundary THEN "complete" ELSE "truncated"
    /\ UNCHANGED <<decoder, given, arrived>>

next_capsule == decoding /\ (Discard \/ ReadHeader \/ ReadValue)

CapsuleNext ==
    \/ \E n \in 1 .. MaxChunk : \E chunk \in [1 .. n -> Octets] : push(chunk)
    \/ next_capsule
    \/ Fin

CapsuleSpec == CapsuleInit /\ [][CapsuleNext]_CapsuleVars

-------------------------------------------------------------------------------
\* However the octets are cut into chunks, the decoder hands on exactly the
\* datagrams of the whole string, in order, and its verdict at the end is the
\* verdict on the whole string: a split inside an integer, a value or a skipped
\* capsule changes nothing (CapsuleDecoder implements CapsuleStream).
Stream == INSTANCE CapsuleStream WITH arrived <- arrived, given <- given, end <- end
DecodesWhole == Stream!Spec

\* What is held between two chunks is less than the largest value that is taken,
\* or the longest header: a skipped capsule is never accumulated (the memory
\* bound stated at MAX_DATAGRAM_CAPSULE_VALUE).
HoldsOneCapsule ==
    ~decoding /\ end = "open" =>
        Len(buffer) < (IF state.at = "Value" THEN MAX_DATAGRAM_CAPSULE_VALUE
                       ELSE IF state.at = "Header" THEN 2 * 8 ELSE 1)
===============================================================================
