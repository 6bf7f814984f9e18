------------------------------ MODULE Credentials -------------------------------
(***************************************************************************)
(* HTTP Basic credentials, auth.rs: from the field value of a request to the  *)
(* user it names.  Texts are sequences of octets; a field value is its        *)
(* scheme, the spaces after it and the token after them, and whether it is    *)
(* text at all.                                                              *)
(***************************************************************************)
EXTENDS Integers, Sequences

COLON == 58
PAD == 61
Denied == [denied |-> TRUE]

sextet(byte) ==
    CASE byte \in 65 .. 90  -> byte - 65
      [] byte \in 97 .. 122 -> byte - 97 + 26
      [] byte \in 48 .. 57  -> byte - 48 + 52
      [] byte = 43 -> 62
      [] byte = 47 -> 63
      [] OTHER -> -1

\* A quantum of four characters stands for three octets less its padding, which
\* only the last has; the padding, and what it leaves unused, count as zero.
Padding(quantum) == Len(SelectSeq(quantum, LAMBDA byte : byte = PAD))
Quantum(quantum, padding) ==
    LET value(i) == IF i > 4 - padding THEN 0 ELSE sextet(quantum[i])
        bits == value(1) * 2 ^ 18 + value(2) * 2 ^ 12 + value(3) * 2 ^ 6 + value(4)
        octets == <<bits \div 2 ^ 16, (bits \div 2 ^ 8) % 2 ^ 8, bits % 2 ^ 8>>
    IN  SubSeq(octets, 1, 3 - padding)

decode_base64(input) ==
    LET
      quanta == Len(input) \div 4
      At(i) == SubSeq(input, 4 * i - 3, 4 * i)
      padding(i) == IF i = quanta THEN Padding(At(i)) ELSE 0
      Sound(i) == padding(i) <= 2 /\ \A j \in 1 .. 4 - padding(i) : sextet(At(i)[j]) # -1
      Out[i \in 0 .. quanta] ==
        IF i = 0 THEN <<>> ELSE Out[i - 1] \o Quantum(At(i), padding(i))
    IN  IF input = <<>> \/ Len(input) % 4 # 0 \/ \E i \in 1 .. quanta : ~Sound(i)
        THEN Denied ELSE [denied |-> FALSE, octets |-> Out[quanta]]

basic_token(value) ==
    IF value.spaces > 0 /\ value.scheme \in {"Basic", "basic", "BASIC"}
    THEN [denied |-> FALSE, octets |-> value.token] ELSE Denied

\* The user-id is what stands before the first colon, the password all the rest.
\* Every user is compared, and the last that matches is the one.
verify(users, username, password) ==
    LET hits == {i \in DOMAIN users :
                    users[i].username = username /\ users[i].password = password}
    IN  IF hits = {} THEN Denied
        ELSE [denied |-> FALSE,
              octets |-> users[CHOOSE i \in hits : \A j \in hits : j <= i].username]

\* A field value need not be UTF-8, which to_str asks for before anything else.
check(users, value) ==
    LET token == basic_token(value)
        decoded == decode_base64(token.octets)
        colons == {i \in DOMAIN decoded.octets : decoded.octets[i] = COLON}
        colon == CHOOSE i \in colons : \A j \in colons : i <= j
    IN  IF ~value.utf8 THEN Denied
        ELSE IF token.denied THEN Denied
        ELSE IF decoded.denied THEN Denied
        ELSE IF colons = {} THEN Denied
        ELSE verify(users, SubSeq(decoded.octets, 1, colon - 1),
                    SubSeq(decoded.octets, colon + 1, Len(decoded.octets)))

-------------------------------------------------------------------------------
(* What a client sends                                                       *)

Character(value) ==
    CASE value < 26 -> value + 65
      [] value \in 26 .. 51 -> value - 26 + 97
      [] value \in 52 .. 61 -> value - 52 + 48
      [] value = 62 -> 43
      [] value = 63 -> 47

\* Base64 by its definition: six bits to a character, and four to a quantum.
Encoded(octets) ==
    LET n == Len(octets)
        bit(i) == IF i > 8 * n THEN 0
                  ELSE (octets[(i - 1) \div 8 + 1] \div 2 ^ (7 - ((i - 1) % 8))) % 2
        six(k) == bit(6*k-5)*32 + bit(6*k-4)*16 + bit(6*k-3)*8 + bit(6*k-2)*4 + bit(6*k-1)*2 + bit(6*k)
    IN  [k \in 1 .. 4 * ((n + 2) \div 3) |->
            IF 6 * (k - 1) >= 8 * n THEN PAD ELSE Character(six(k))]

BasicOf(user) ==
    [utf8 |-> TRUE, scheme |-> "Basic", spaces |-> 1,
     token |-> Encoded(user.username \o <<COLON>> \o user.password)]
===============================================================================
