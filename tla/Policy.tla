-------------------------------- MODULE Policy ----------------------------------
(***************************************************************************)
(* The destination policy, policy.rs, over the octets of an address: four of  *)
(* them for IPv4, sixteen for IPv6.                                          *)
(***************************************************************************)
EXTENDS Integers, Sequences

CONSTANT allow_private_networks

Octet == 0 .. 255
V4 == [1 .. 4 -> Octet]
V6 == [1 .. 16 -> Octet]

IsV6(ip) == DOMAIN ip = 1 .. 16
Zeros(n) == [i \in 1 .. n |-> 0]

\* Whether an address lies in `prefix` of `bits` bits.
In(ip, prefix, bits) ==
    LET whole == bits \div 8
        shift == 2 ^ (8 - (bits % 8))
    IN  /\ \A i \in 1 .. whole : ip[i] = prefix[i]
        /\ bits % 8 # 0 => ip[whole + 1] \div shift = prefix[whole + 1] \div shift

\* Four octets of an address, after the first n.
Cut(ip, n) == [i \in 1 .. 4 |-> ip[n + i]]

\* canonical: an IPv4-mapped address is the IPv4 address it maps.
V4Mapped == <<0, 0, 0, 0, 0, 0, 0, 0, 0, 0, 255, 255>>
canonical(ip) == IF IsV6(ip) /\ In(ip, V4Mapped, 96) THEN Cut(ip, 12) ELSE ip

\* embedded_ipv4: the IPv4 address a NAT64, 6to4 or Teredo address leads to, and
\* any other address itself.
WellKnownNat64 == <<0, 100, 255, 155, 0, 0, 0, 0, 0, 0, 0, 0>>
SixToFour == <<32, 2>>
Teredo == <<32, 1, 0, 0>>
Inverted(octets) == [i \in DOMAIN octets |-> 255 - octets[i]]

EmbeddedPlainly(ip) ==
    CASE ~IsV6(ip) -> ip
      [] IsV6(ip) /\ In(ip, WellKnownNat64, 96) -> Cut(ip, 12)
      [] IsV6(ip) /\ In(ip, SixToFour, 16) -> Cut(ip, 2)
      [] IsV6(ip) /\ In(ip, Teredo, 32) -> Cut(ip, 12)
      [] OTHER -> ip
embedded_ipv4(ip) ==
    CASE ~IsV6(ip) -> ip
      [] IsV6(ip) /\ In(ip, WellKnownNat64, 96) -> Cut(ip, 12)
      [] IsV6(ip) /\ In(ip, SixToFour, 16) -> Cut(ip, 2)
      [] IsV6(ip) /\ In(ip, Teredo, 32) -> Inverted(Cut(ip, 12))
      [] OTHER -> ip

is_unspecified(ip) == \A i \in DOMAIN ip : ip[i] = 0
is_loopback(ip) ==
    IF IsV6(ip) THEN ip = Zeros(15) \o <<1>> ELSE ip[1] = 127

is_never_allowed(ip) ==
    \/ is_unspecified(ip)
    \/ IsV6(ip) /\ ip[1] = 255
    \/ ~IsV6(ip) /\ (In(ip, <<224>>, 4) \/ \A i \in 1 .. 4 : ip[i] = 255)

\* The ranges of is_private, as prefixes and their bits.
Private4 ==
    {<<<<0>>, 8>>, <<<<127>>, 8>>, <<<<10>>, 8>>, <<<<172, 16>>, 12>>,
     <<<<192, 168>>, 16>>, <<<<169, 254>>, 16>>, <<<<100, 64>>, 10>>,
     <<<<192, 0, 0>>, 24>>, <<<<198, 18>>, 15>>, <<<<192, 88, 99>>, 24>>,
     <<<<240>>, 4>>,
     <<<<192, 0, 2>>, 24>>, <<<<198, 51, 100>>, 24>>, <<<<203, 0, 113>>, 24>>}
LocalRanges ==
    {<<<<252>>, 7>>, <<<<254, 128>>, 10>>, <<<<254, 192>>, 10>>, <<Zeros(12), 96>>}
SpecialRanges ==
    {<<<<32, 1, 13, 184>>, 32>>, <<<<32, 1, 0, 2, 0, 0>>, 48>>,
     <<<<32, 1, 0, 16>>, 28>>, <<<<1, 0, 0, 0, 0, 0, 0, 0>>, 64>>,
     <<<<0, 100, 255, 155, 0, 1>>, 48>>}
Private6 == LocalRanges \union SpecialRanges
is_private(ip) ==
    \E p \in IF IsV6(ip) THEN Private6 ELSE Private4 : In(ip, p[1], p[2])

allows_address(ip) ==
    LET judged == embedded_ipv4(canonical(ip)) IN
    ~is_never_allowed(judged) /\ (is_private(judged) => allow_private_networks)

\* The IPv6 addresses through which an IPv4 one can be reached, built from it: a
\* prefix, the four octets after the first `at`, and zeros elsewhere.
Written(prefix, at, v4) ==
    [i \in 1 .. 16 |-> IF i \in DOMAIN prefix THEN prefix[i]
                      ELSE IF i - at \in 1 .. 4 THEN v4[i - at] ELSE 0]
Mapped(v4) == Written(V4Mapped, 12, v4)
Nat64(v4) == Written(WellKnownNat64, 12, v4)
SixToFourOf(v4) == Written(SixToFour, 2, v4)
TeredoOf(v4) == Written(Teredo, 12, Inverted(v4))
Aliases(v4) == {v4, Mapped(v4), Nat64(v4), SixToFourOf(v4), TeredoOf(v4)}
===============================================================================
