----------------------------- MODULE CapsuleStream ------------------------------
(***************************************************************************)
(* What the capsule decoder promises (capsule.rs and its use in               *)
(* tunnel/udp.rs): the DATAGRAM capsules of the octets that have arrived, in  *)
(* order, whatever the chunks they arrived in; and at the end, whether the    *)
(* octets were a whole number of capsules.  The meaning of an octet string is *)
(* defined on the whole of it.                                               *)
(***************************************************************************)
EXTENDS Varints

CONSTANTS Octets,                       \* octets the peer sends
          MaxBytes,                     \* bound: octets of the stream
          MAX_DATAGRAM_CAPSULE_VALUE

VARIABLES arrived,      \* the octets so far
          given,        \* the capsules handed on
          end           \* "open", or how the stream ended

abstract == <<arrived, given, end>>

CAPSULE_TYPE_DATAGRAM == 0

\* The first capsule of an octet string: its type, the length it declares, and
\* where its value begins.
Type(w) == peek_varint(w)
Length(w) == peek_varint(Drop(w, Type(w).length))
HasHeader(w) == Whole(Type(w)) /\ Whole(Length(w))
HeaderSize(w) == Type(w).length + Length(w).length
IsDatagram(w) == Type(w).value = CAPSULE_TYPE_DATAGRAM
TooLarge(w) == IsDatagram(w) /\ Length(w).value > MAX_DATAGRAM_CAPSULE_VALUE
CapsuleSize(w) == HeaderSize(w) + Length(w).value
IsComplete(w) == HasHeader(w) /\ Len(w) >= CapsuleSize(w)
Value(w) == SubSeq(w, HeaderSize(w) + 1, CapsuleSize(w))
Datagram(value) ==
    LET context == peek_varint(value) IN
    [context_id |-> context.value, payload |-> Drop(value, context.length)]

\* The capsules of an octet string, and what stands after the last of them.
Stop(ending) == [capsules |-> <<>>, ending |-> ending]
Prefixed(capsules, rest) ==
    [capsules |-> capsules \o rest.capsules, ending |-> rest.ending]

\* What a string says, when what follows its first capsule says `rest`.
Reads(w, rest) ==
    IF w = <<>> THEN Stop("boundary")
    ELSE IF ~HasHeader(w) THEN Stop("midway")
    ELSE IF TooLarge(w) THEN Stop("error")
    ELSE IF ~IsComplete(w) THEN Stop("midway")
    ELSE IF ~IsDatagram(w) THEN rest
    ELSE IF ~Whole(peek_varint(Value(w))) THEN Stop("error")
    ELSE Prefixed(<<Datagram(Value(w))>>, rest)

Meaning(w) ==
    LET Of[n \in 0 .. Len(w)] ==
            Reads(Drop(w, n), Of[n + CapsuleSize(Drop(w, n))])
    IN  Of[0]

Init == arrived = <<>> /\ given = <<>> /\ end = "open"

Receive ==
    /\ end = "open"
    /\ Len(arrived') \in Len(arrived) + 1 .. MaxBytes
    /\ Take(arrived', Len(arrived)) = arrived /\ arrived' \in Seq(Octets)
    /\ UNCHANGED <<given, end>>

Give ==
    /\ end = "open" /\ Len(given) < Len(Meaning(arrived).capsules)
    /\ given' = Take(Meaning(arrived).capsules, Len(given) + 1)
    /\ UNCHANGED <<arrived, end>>

\* The stream ends with every capsule handed on: at a fault, or where the peer
\* ends it.
End ==
    /\ end = "open" /\ given = Meaning(arrived).capsules
    /\ end' = CASE Meaning(arrived).ending = "error" -> "error"
                [] Meaning(arrived).ending = "boundary" -> "complete"
                [] Meaning(arrived).ending = "midway" -> "truncated"
    /\ UNCHANGED <<arrived, given>>

Next == Receive \/ Give \/ End
Spec == Init /\ [][Next]_abstract
===============================================================================
