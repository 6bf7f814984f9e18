-------------------------------- MODULE Varints ---------------------------------
(***************************************************************************)
(* QUIC variable-length integers and the HTTP/3 datagrams made of them,      *)
(* datagram.rs, over sequences of octets.                                    *)
(***************************************************************************)
EXTENDS Naturals, Sequences

Drop(s, n) == SubSeq(s, n + 1, Len(s))
Take(s, n) == SubSeq(s, 1, n)

\* The number an octet string stands for, most significant octet first.
BigEndian(s) ==
    LET Value[n \in 0 .. Len(s)] == IF n = 0 THEN 0 ELSE 256 * Value[n - 1] + s[n]
    IN  Value[Len(s)]

\* peek_varint: the value and its length in octets, or length 0 where the buffer
\* does not hold the whole of it.  The two top bits give the length.
NoVarint == [value |-> 0, length |-> 0]
peek_varint(buf) ==
    IF buf = <<>> THEN NoVarint
    ELSE LET length == 2 ^ (buf[1] \div 64) IN
         IF Len(buf) < length THEN NoVarint
         ELSE [value |-> BigEndian(<<buf[1] % 64>> \o SubSeq(buf, 2, length)),
               length |-> length]

Whole(varint) == varint.length > 0

varint_len(value) ==
    IF value < 64 THEN 1 ELSE IF value < 16384 THEN 2
    ELSE IF value < 2 ^ 30 THEN 4 ELSE 8

\* put_varint: the shortest form, its length in the two top bits.
LengthBits(n) == CASE n = 1 -> 0 [] n = 2 -> 64 [] n = 4 -> 128 [] n = 8 -> 192
Octet(value, place) == IF place > 3 THEN 0 ELSE (value \div 256 ^ place) % 256
put_varint(value) ==
    LET n == varint_len(value) IN
    [i \in 1 .. n |->
        Octet(value, n - i) + (IF i = 1 THEN LengthBits(n) ELSE 0)]
===============================================================================
