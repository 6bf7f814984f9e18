------------------------------ MODULE DatagramProofs ------------------------------
(***************************************************************************)
(* Proofs about the two parts that handle datagrams one by one: Gate, which     *)
(* reads the server's socket, for any names, frames and buffers, and UdpTunnel, *)
(* which carries a client's payloads, for any sessions, queue depth and budgets. *)
(***************************************************************************)
EXTENDS Gate, UdpTunnel, Sums

-------------------------------------------------------------------------------
(* The gate, for any names, hellos, lengths and cuts.                          *)

\* The constants, as the proofs use them.
LEMMA GateConstants ==
  /\ HELLO \in Nat /\ HELLO # 0 /\ STRIDE \in Nat /\ STRIDE # 0
  /\ MaxDatagrams \in Nat
  BY GateAssumption

\* The least of a set of naturals, as Min chooses it.
LEMMA MinOf ==
  ASSUME NEW S \in SUBSET Nat, S # {}
  PROVE  Min(S) \in S /\ \A y \in S : Min(S) <= y
<1>1. \E n \in S : \A m \in S : n <= m  BY LeastNatural, Zenon
<1>. QED  BY <1>1, Zenon DEF Min

\* The largest of a bounded set of naturals, as Max chooses it.
LEMMA MaxOf ==
  ASSUME NEW m \in Nat, NEW S \in SUBSET (0 .. m), S # {}
  PROVE  Max(S) \in S /\ \A y \in S : Max(S) >= y
<1>. DEFINE Depths == {m - x : x \in S}
<1>1. Depths \in SUBSET Nat  OBVIOUS
<1>2. Depths # {}  BY Zenon
<1>. HIDE DEF Depths
<1>3. PICK d \in Depths : \A e \in Depths : d <= e  BY <1>1, <1>2, LeastNatural, Zenon
<1>4. PICK x \in S : d = m - x  BY <1>3, Zenon DEF Depths
<1>5. \A y \in S : m - x <= m - y  BY <1>3, <1>4, Zenon DEF Depths
<1>6. \A y \in S : x >= y
  <2>1. ASSUME NEW y \in S PROVE x >= y
    <3>1. m - x <= m - y /\ x \in 0 .. m /\ y \in 0 .. m  BY <1>5, Zenon
    <3>. QED  BY ONLY <3>1, m \in Nat, SMT
  <2>. QED  BY <2>1, Zenon
<1>7. \E z \in S : \A y \in S : z >= y  BY <1>6, Zenon
<1>. QED  BY <1>7, Zenon DEF Max

(* A whole first flight is put together, however it is cut.                    *)

\* One entry of the table crypto_stream_prefix walks down, and such a table.
Lengthened(w, f, n) == IF n = 0 THEN 0 ELSE Extended(f[n - 1], w, n - 1)
IsLengths(w, f) == f = [n \in 0 .. HELLO + 1 |-> Lengthened(w, f, n)]
Framed(w) == \E n \in Nat : w \in [1 .. n -> Frames]

\* The frames of a packet, by their fields.
LEMMA FrameFields ==
  ASSUME NEW w, Framed(w), NEW i \in DOMAIN w, w[i].kind = "crypto"
  PROVE  w[i].from \in 0 .. HELLO /\ w[i].to \in 0 .. HELLO
<1>1. w[i] \in Frames  BY Zenon DEF Framed
<1>2. w[i] \notin [kind : {"passed", "alien", "cut"}, from : {0}, to : {0}]  OBVIOUS
<1>3. w[i] \in Crypto  BY <1>1, <1>2, Zenon DEF Frames
<1>. QED  BY <1>3, Zenon DEF Crypto

\* Taking the fragments of one more offset keeps the length in the message, and
\* loses nothing that was there.
LEMMA ExtendedGrows ==
  ASSUME NEW w, Framed(w), NEW l \in 0 .. HELLO, NEW n \in Nat
  PROVE  /\ Extended(l, w, n) \in 0 .. HELLO /\ Extended(l, w, n) >= l
         /\ n <= l => \A i \in DOMAIN w :
               w[i].kind = "crypto" /\ w[i].from = n => w[i].to <= Extended(l, w, n)
<1>0. HELLO \in Nat  BY GateConstants, Zenon
<1>. DEFINE S == {l} \union Ends(w, n)
<1>1. CASE n > l
  <2>1. Extended(l, w, n) = l  BY <1>1, Zenon DEF Extended
  <2>2. l >= l /\ ~(n <= l)  BY <1>0, <1>1
  <2>. QED  BY <2>1, <2>2, Zenon
<1>2. CASE ~(n > l)
  <2>1. Ends(w, n) \subseteq 0 .. HELLO  BY FrameFields, Zenon DEF Ends
  <2>2. S \in SUBSET (0 .. HELLO) /\ S # {} /\ l \in S  BY <2>1, Zenon
  <2>3. Extended(l, w, n) = Max(S)  BY <1>2, Zenon DEF Extended
  <2>. HIDE DEF S
  <2>4. Max(S) \in S /\ \A y \in S : Max(S) >= y  BY <1>0, <2>2, MaxOf, Zenon
  <2>5. ASSUME NEW i \in DOMAIN w, w[i].kind = "crypto", w[i].from = n
        PROVE  w[i].to <= Max(S)
    <3>1. w[i].to \in Ends(w, n)  BY <2>5, Zenon DEF Ends
    <3>2. w[i].to \in S  BY <3>1, Zenon DEF S
    <3>3. Max(S) >= w[i].to /\ Max(S) \in 0 .. HELLO /\ w[i].to \in 0 .. HELLO
      BY <2>2, <2>4, <3>2, Zenon
    <3>. QED  BY ONLY <3>3, <1>0, SMT
  <2>. QED  BY <2>2, <2>3, <2>4, <2>5, Zenon
<1>. QED  BY <1>1, <1>2, Zenon

\* The table exists.
LEMMA LengthsExist ==
  ASSUME NEW w, Framed(w)
  PROVE  \E f \in [0 .. HELLO + 1 -> 0 .. HELLO] : IsLengths(w, f)
<1>0. HELLO \in Nat  BY GateConstants, Zenon
<1>. DEFINE L == HELLO + 1
<1>a. L \in Nat /\ 0 \in 0 .. HELLO /\ L \in 0 .. L /\ 0 \in 0 .. L  BY <1>0
<1>. HIDE DEF L
<1>. DEFINE Upto(m) == \E f \in [0 .. L -> 0 .. HELLO] : \A n \in 0 .. m : f[n] = Lengthened(w, f, n)
            Bad == {m \in 0 .. L : ~Upto(m)}
<1>1. Bad = {}
  <2>1. SUFFICES ASSUME Bad # {} PROVE FALSE  BY Zenon
  <2>2. Bad \in SUBSET Nat  BY <1>a
  <2>3. PICK b \in Bad : \A m \in Bad : b <= m
    <3>. HIDE DEF Bad
    <3>. QED  BY <2>1, <2>2, LeastNatural, Zenon
  <2>4. b \in 0 .. L /\ ~Upto(b)  BY <2>3, Zenon
  <2>. HIDE DEF Upto
  <2>5. b # 0
    <3>1. [n \in 0 .. L |-> 0] \in [0 .. L -> 0 .. HELLO]  BY <1>a, Zenon
    <3>2. \A n \in 0 .. 0 : n = 0 /\ n \in 0 .. L  BY <1>a
    <3>3. \A n \in 0 .. 0 : [i \in 0 .. L |-> 0][n] = Lengthened(w, [i \in 0 .. L |-> 0], n)
      BY <3>2, Zenon DEF Lengthened
    <3>4. Upto(0)  BY <3>1, <3>3, Zenon DEF Upto
    <3>. QED  BY <2>4, <3>4, Zenon
  <2>6. b \in 0 .. L /\ b - 1 \in 0 .. L /\ b - 1 \in Nat /\ ~(b <= b - 1)  BY <1>a, <2>4, <2>5
  <2>7. b - 1 \notin Bad  BY <2>3, <2>6, Zenon
  <2>8. PICK f \in [0 .. L -> 0 .. HELLO] : \A n \in 0 .. b - 1 : f[n] = Lengthened(w, f, n)
    BY <2>6, <2>7, Zenon DEF Upto
  <2>. DEFINE g == [f EXCEPT ![b] = Lengthened(w, f, b)]
  <2>9. Lengthened(w, f, b) \in 0 .. HELLO
    <3>1. f[b - 1] \in 0 .. HELLO  BY <2>6, Zenon
    <3>. QED  BY <2>5, <2>6, <3>1, ExtendedGrows, Zenon DEF Lengthened
  <2>10. g \in [0 .. L -> 0 .. HELLO]  BY <2>6, <2>9, Zenon
  <2>11. ASSUME NEW n \in 0 .. b PROVE g[n] = Lengthened(w, g, n)
    <3>1. /\ n \in 0 .. L /\ (n # 0 => n - 1 \in 0 .. L /\ n - 1 # b)
          /\ (n # b => n \in 0 .. b - 1)
      BY ONLY <1>a, <2>6, n \in 0 .. b, SMT
    <3>2. n # 0 => g[n - 1] = f[n - 1]  BY <3>1, Zenon
    <3>3. Lengthened(w, g, n) = Lengthened(w, f, n)
      <4>1. CASE n = 0  BY <4>1, Zenon DEF Lengthened
      <4>2. CASE n # 0
        <5>1. Extended(g[n - 1], w, n - 1) = Extended(f[n - 1], w, n - 1)  BY <3>2, <4>2, Zenon
        <5>. QED  BY <4>2, <5>1, Zenon DEF Lengthened
      <4>. QED  BY <4>1, <4>2, Zenon
    <3>4. g[n] = Lengthened(w, f, n)
      <4>1. CASE n = b  BY <4>1, <3>1, Zenon
      <4>2. CASE n # b  BY <4>2, <3>1, <2>8, Zenon
      <4>. QED  BY <4>1, <4>2, Zenon
    <3>. QED  BY <3>3, <3>4, Zenon
  <2>12. Upto(b)  BY <2>10, <2>11, Zenon DEF Upto
  <2>. QED  BY <2>4, <2>12, Zenon
<1>3. Upto(L)
  <2>. HIDE DEF Upto
  <2>. QED  BY <1>1, <1>a, Zenon
<1>4. PICK f \in [0 .. L -> 0 .. HELLO] : \A n \in 0 .. L : f[n] = Lengthened(w, f, n)
  BY <1>3, Zenon
<1>5. f = [n \in 0 .. L |-> Lengthened(w, f, n)]  BY <1>4, Zenon
<1>. QED  BY <1>4, <1>5, Zenon DEF IsLengths, L

\* Steps of arithmetic.
LEMMA Reaches ==
  ASSUME NEW n \in Int, NEW a \in Int, NEW b \in Int, n - 1 < a, a <= b
  PROVE  n <= b
  OBVIOUS
\* The same, for what is longer already.
LEMMA Outgrown ==
  ASSUME NEW a \in Int, NEW b \in Int, NEW c \in Int, a <= b, c >= b
  PROVE  a <= c
  OBVIOUS

\* Down a table for frames that carry the whole of the message there is no gap, and
\* nothing of the fragments passed is missing.
LEMMA NoGap ==
  ASSUME NEW w, Framed(w), Carries(w), NEW f, IsLengths(w, f)
  PROVE  f[HELLO + 1] = HELLO
<1>0. HELLO \in Nat  BY GateConstants, Zenon
<1>a. 0 .. HELLO \subseteq Int /\ 0 \in 0 .. HELLO /\ 0 \in 0 .. HELLO + 1  BY <1>0
<1>. DEFINE Passed(n) ==
              /\ f[n] \in 0 .. HELLO
              /\ \A i \in DOMAIN w :
                    w[i].kind = "crypto" /\ w[i].from < n => w[i].to <= f[n]
            Bad == {n \in 0 .. HELLO + 1 : ~Passed(n)}
<1>1. \A n \in 0 .. HELLO + 1 : f[n] = Lengthened(w, f, n)
  BY Zenon DEF IsLengths
<1>2. ASSUME NEW n \in 0 .. HELLO, Passed(n) PROVE n <= f[n]
  <2>1. CASE n = 0
    <3>1. f[0] = 0  BY <1>1, <1>a, Zenon DEF Lengthened
    <3>. QED  BY <2>1, <3>1
  <2>2. CASE n # 0
    <3>1. n - 1 \in 0 .. HELLO - 1 /\ n \in 0 .. HELLO + 1  BY ONLY <1>0, <2>2, n \in 0 .. HELLO, SMT
    <3>2. PICK i \in DOMAIN w : w[i].kind = "crypto" /\ w[i].from <= n - 1 /\ n - 1 < w[i].to
      BY <3>1, Zenon DEF Carries
    <3>3. w[i].from \in 0 .. HELLO /\ w[i].to \in 0 .. HELLO  BY <3>2, FrameFields, Zenon
    <3>4. w[i].from < n  BY ONLY <3>2, <3>3, <1>0, n \in 0 .. HELLO, SMT
    <3>5. w[i].to <= f[n] /\ f[n] \in 0 .. HELLO  BY <1>2, <3>2, <3>4, Zenon
    <3>6. n \in Int /\ w[i].to \in Int /\ f[n] \in Int  BY <1>a, <3>3, <3>5, Zenon
    <3>. QED  BY <3>2, <3>5, <3>6, Reaches, Zenon
  <2>. QED  BY <2>1, <2>2, Zenon
<1>3. ASSUME NEW n \in 0 .. HELLO, Passed(n) PROVE Passed(n + 1) /\ f[n + 1] >= f[n]
  <2>1. n \in 0 .. HELLO + 1 /\ n + 1 \in 0 .. HELLO + 1 /\ n + 1 # 0 /\ (n + 1) - 1 = n /\ n \in Nat
    BY ONLY <1>0, n \in 0 .. HELLO, SMT
  <2>2. f[n + 1] = Extended(f[n], w, n)  BY <1>1, <2>1, Zenon DEF Lengthened
  <2>3. f[n] \in 0 .. HELLO  BY <1>3, Zenon
  <2>4. /\ f[n + 1] >= f[n] /\ f[n + 1] \in 0 .. HELLO
        /\ \A i \in DOMAIN w : w[i].kind = "crypto" /\ w[i].from = n => w[i].to <= f[n + 1]
    <3>1. n <= f[n]  BY <1>2, <1>3, Zenon
    <3>. QED  BY <2>1, <2>2, <2>3, <3>1, ExtendedGrows, Zenon
  <2>5. ASSUME NEW i \in DOMAIN w, w[i].kind = "crypto", w[i].from < n + 1
        PROVE  w[i].to <= f[n + 1]
    <3>1. w[i].from \in 0 .. HELLO /\ w[i].to \in 0 .. HELLO  BY <2>5, FrameFields, Zenon
    <3>2. w[i].from < n \/ w[i].from = n
      BY ONLY <3>1, <2>5, n \in 0 .. HELLO, <1>0, SMT
    <3>3. w[i].from < n => w[i].to <= f[n]  BY <1>3, <2>5, Zenon
    <3>4. w[i].from = n => w[i].to <= f[n + 1]  BY <2>4, <2>5, Zenon
    <3>5. w[i].to \in Int /\ f[n] \in Int /\ f[n + 1] \in Int  BY <1>a, <2>3, <2>4, <3>1, Zenon
    <3>. QED  BY <2>4, <3>2, <3>3, <3>4, <3>5, Outgrown, Zenon
  <2>. QED  BY <2>4, <2>5, Zenon
<1>4. Bad = {}
  <2>1. SUFFICES ASSUME Bad # {} PROVE FALSE  BY Zenon
  <2>2. Bad \in SUBSET Nat  BY <1>0
  <2>3. PICK b \in Bad : \A m \in Bad : b <= m
    <3>. HIDE DEF Bad
    <3>. QED  BY <2>1, <2>2, LeastNatural, Zenon
  <2>4. b \in 0 .. HELLO + 1 /\ ~Passed(b)  BY <2>3, Zenon
  <2>5. b # 0
    <3>1. \A i \in DOMAIN w : w[i].kind = "crypto" => ~(w[i].from < 0)
      <4>1. ASSUME NEW i \in DOMAIN w, w[i].kind = "crypto" PROVE ~(w[i].from < 0)
        <5>1. w[i].from \in 0 .. HELLO  BY <4>1, FrameFields, Zenon
        <5>. QED  BY ONLY <5>1, <1>0, SMT
      <4>. QED  BY <4>1, Zenon
    <3>2. f[0] = 0  BY <1>1, <1>a, Zenon DEF Lengthened
    <3>3. Passed(0)  BY <1>a, <3>1, <3>2, Zenon
    <3>. QED  BY <2>4, <3>3, Zenon
  <2>. HIDE DEF Passed
  <2>6. b - 1 \in 0 .. HELLO + 1 /\ b - 1 \in 0 .. HELLO /\ ~(b <= b - 1) /\ (b - 1) + 1 = b
    BY ONLY <1>0, <2>4, <2>5, SMT
  <2>7. Passed(b - 1)  BY <2>3, <2>6, Zenon
  <2>8. Passed((b - 1) + 1)  BY <1>3, <2>6, <2>7, Zenon
  <2>. QED  BY <2>4, <2>6, <2>8, Zenon
<1>5. HELLO \in 0 .. HELLO /\ HELLO \in 0 .. HELLO + 1 /\ HELLO + 1 \in 0 .. HELLO + 1  BY <1>0
<1>6. Passed(HELLO) /\ Passed(HELLO + 1)
  <2>. HIDE DEF Passed
  <2>. QED  BY <1>4, <1>5, Zenon
<1>7. HELLO <= f[HELLO] /\ f[HELLO + 1] >= f[HELLO]
  <2>. HIDE DEF Passed
  <2>. QED  BY <1>2, <1>3, <1>5, <1>6, Zenon
<1>8. f[HELLO + 1] \in 0 .. HELLO /\ f[HELLO] \in 0 .. HELLO  BY <1>6, Zenon
<1>9. HELLO <= f[HELLO + 1]  BY <1>5, <1>7, <1>8, <1>a, Outgrown, Zenon
<1>. QED  BY <1>0, <1>8, <1>9

\* A packet that carries the whole message is read as the whole of it, in any order
\* of its frames, doubled or overlapping (crypto_stream_prefix).
LEMMA WholeIsRead ==
  ASSUME NEW w, Framed(w), Carries(w)
  PROVE  crypto_stream_prefix(w) = HELLO
<1>1. {i \in DOMAIN w : w[i].kind = "alien"} = {}
  <2>1. \A i \in DOMAIN w : w[i].kind # "alien"
    <3>1. \A i \in DOMAIN w : w[i].kind \in {"crypto", "passed"}  BY Zenon DEF Carries
    <3>. QED  BY <3>1
  <2>. QED  BY <2>1, Zenon
<1>2. Walked(w) = w  BY <1>1, Zenon DEF Walked
<1>3. ~ \E i \in DOMAIN w : w[i].kind = "cut"
  <2>1. \A i \in DOMAIN w : w[i].kind \in {"crypto", "passed"}  BY Zenon DEF Carries
  <2>. QED  BY <2>1
<1>. DEFINE T == CHOOSE f : IsLengths(w, f)
<1>4. IsLengths(w, T)  BY LengthsExist, Zenon
<1>5. crypto_stream_prefix(w) = T[HELLO + 1]
  BY <1>2, <1>3, Zenon DEF crypto_stream_prefix, IsLengths, Lengthened
<1>. HIDE DEF T
<1>6. T[HELLO + 1] = HELLO  BY <1>4, NoGap, Zenon
<1>. QED  BY <1>5, <1>6, Zenon

(* The name that is read is the one that is asked for.                         *)

Listed(list) ==
    /\ IsSequence(list)
    /\ \A i \in DOMAIN list :
          /\ IsSequence(list[i].entries)
          /\ \A j \in DOMAIN list[i].entries : list[i].entries[j].name.dots \in Nat

\* The places of a sequence are numbered from one.
LEMMA Numbered ==
  ASSUME NEW s, IsSequence(s)
  PROVE  \E n \in Nat : DOMAIN s = 1 .. n
  BY DEF IsSequence

\* The first place that is in a set is the least of the set.
LEMMA FirstIsLeast ==
  ASSUME NEW n \in Nat, NEW P \in SUBSET (1 .. n), NEW i \in P
  PROVE  (\A j \in 1 .. i - 1 : j \notin P) <=> i = Min(P)
<1>1. P \in SUBSET Nat /\ P # {}  OBVIOUS
<1>2. Min(P) \in P /\ \A y \in P : Min(P) <= y  BY <1>1, MinOf, Zenon
<1>. DEFINE m == Min(P)
<1>3. m \in 1 .. n /\ i \in 1 .. n /\ m <= i  BY <1>2, Zenon
<1>. HIDE DEF m
<1>4. ASSUME \A j \in 1 .. i - 1 : j \notin P PROVE i = m
  <2>1. m \notin 1 .. i - 1  BY <1>2, <1>4, Zenon DEF m
  <2>. QED  BY <1>3, <2>1
<1>5. ASSUME i = m, NEW j \in 1 .. i - 1 PROVE j \notin P
  <2>1. ~(i <= j)  BY <1>3
  <2>2. j \in P => i <= j  BY <1>2, <1>5, Zenon DEF m
  <2>. QED  BY <2>1, <2>2, Zenon
<1>. QED  BY <1>4, <1>5, Zenon DEF m

\* host_name reads the first host of the entries.
LEMMA HostIsRead ==
  ASSUME NEW E, IsSequence(E), NEW host
  PROVE  (\E k \in DOMAIN E : /\ E[k].host /\ SameHost(E[k].name, host)
                              /\ \A l \in 1 .. k - 1 : ~E[l].host)
           <=> host_name(E).kind = "Named" /\ SameHost(host_name(E).name, host)
<1>. DEFINE hosts == {k \in DOMAIN E : E[k].host}
            m == Min(hosts)
<1>1. PICK n \in Nat : DOMAIN E = 1 .. n  BY Numbered, Zenon
<1>2. hosts \in SUBSET (1 .. n)  BY <1>1, Zenon
<1>3. ASSUME NEW k \in DOMAIN E
      PROVE  (E[k].host /\ \A l \in 1 .. k - 1 : ~E[l].host) <=> (hosts # {} /\ k = m)
  <2>1. \A l \in 1 .. k - 1 : l \in DOMAIN E  BY <1>1
  <2>2. (\A l \in 1 .. k - 1 : ~E[l].host) <=> (\A l \in 1 .. k - 1 : l \notin hosts)
    BY <2>1, Zenon
  <2>3. E[k].host <=> k \in hosts  BY Zenon
  <2>. HIDE DEF hosts
  <2>4. k \in hosts => ((\A l \in 1 .. k - 1 : l \notin hosts) <=> k = m)
    BY <1>2, FirstIsLeast, Zenon
  <2>5. hosts # {} => m \in hosts
    <3>1. hosts \in SUBSET Nat  BY <1>2
    <3>. QED  BY <3>1, MinOf, Zenon
  <2>. QED  BY <2>2, <2>3, <2>4, <2>5, Zenon
<1>4. CASE hosts = {}
  <2>1. host_name(E) = Nobody  BY <1>4, Zenon DEF host_name
  <2>2. Nobody.kind # "Named"  BY DEF Nobody
  <2>. HIDE DEF hosts
  <2>. QED  BY <1>3, <1>4, <2>1, <2>2, Zenon
<1>5. CASE hosts # {}
  <2>1. host_name(E) = Named(E[m].name)  BY <1>5, Zenon DEF host_name
  <2>2. Named(E[m].name).kind = "Named" /\ Named(E[m].name).name = E[m].name  BY DEF Named
  <2>3. m \in DOMAIN E
    <3>1. hosts \in SUBSET Nat  BY <1>2
    <3>. HIDE DEF hosts
    <3>2. m \in hosts  BY <1>5, <3>1, MinOf, Zenon
    <3>. QED  BY <1>1, <1>2, <3>2, Zenon
  <2>. HIDE DEF hosts, m
  <2>. QED  BY <1>3, <1>5, <2>1, <2>2, <2>3, Zenon
<1>. QED  BY <1>4, <1>5, Zenon

\* server_name reads the name the client asks for.
LEMMA NameIsRead ==
  ASSUME Listed(message.extensions), NEW host
  PROVE  AsksFor(host) <=> /\ server_name(message.extensions).kind = "Named"
                           /\ SameHost(server_name(message.extensions).name, host)
<1>. DEFINE X == message.extensions
            found == {i \in DOMAIN X : X[i].kind = "server_name"}
            m == Min(found)
<1>0. IsSequence(X) /\ \A i \in DOMAIN X : IsSequence(X[i].entries)  BY Zenon DEF Listed
<1>1. PICK n \in Nat : DOMAIN X = 1 .. n  BY <1>0, Numbered, Zenon
<1>2. found \in SUBSET (1 .. n)  BY <1>1, Zenon
<1>3. ASSUME NEW i \in DOMAIN X
      PROVE  (X[i].kind = "server_name" /\ \A j \in 1 .. i - 1 : X[j].kind # "server_name")
               <=> (found # {} /\ i = m)
  <2>1. \A j \in 1 .. i - 1 : j \in DOMAIN X
    <3>1. i \in 1 .. n  BY <1>1, Zenon
    <3>2. \A j \in 1 .. i - 1 : j \in 1 .. n  BY ONLY <3>1, n \in Nat, SMT
    <3>. QED  BY <1>1, <3>2, Zenon
  <2>2. (\A j \in 1 .. i - 1 : X[j].kind # "server_name") <=> (\A j \in 1 .. i - 1 : j \notin found)
    BY <2>1, Zenon
  <2>3. X[i].kind = "server_name" <=> i \in found  BY Zenon
  <2>. HIDE DEF found
  <2>4. i \in found => ((\A j \in 1 .. i - 1 : j \notin found) <=> i = m)
    BY <1>2, FirstIsLeast, Zenon
  <2>5. found # {} => m \in found
    <3>1. found \in SUBSET Nat  BY <1>2
    <3>. QED  BY <3>1, MinOf, Zenon
  <2>. QED  BY <2>2, <2>3, <2>4, <2>5, Zenon
<1>. DEFINE Entries(E) == \E k \in DOMAIN E : /\ E[k].host /\ SameHost(E[k].name, host)
                                              /\ \A l \in 1 .. k - 1 : ~E[l].host
<1>4. AsksFor(host) <=> \E i \in DOMAIN X : found # {} /\ i = m /\ Entries(X[i].entries)
  <2>1. AsksFor(host) <=>
          \E i \in DOMAIN X :
             /\ X[i].kind = "server_name" /\ \A j \in 1 .. i - 1 : X[j].kind # "server_name"
             /\ Entries(X[i].entries)
    BY Zenon DEF AsksFor
  <2>. HIDE DEF Entries, found, m
  <2>. QED  BY <1>3, <2>1, Zenon
<1>5. CASE found = {}
  <2>1. server_name(X) = Nobody  BY <1>5, Zenon DEF server_name
  <2>2. Nobody.kind # "Named"  BY DEF Nobody
  <2>. HIDE DEF Entries, found
  <2>. QED  BY <1>4, <1>5, <2>1, <2>2, Zenon
<1>6. CASE found # {}
  <2>1. server_name(X) = host_name(X[m].entries)  BY <1>6, Zenon DEF server_name
  <2>2. m \in DOMAIN X
    <3>1. found \in SUBSET Nat  BY <1>2
    <3>. HIDE DEF found
    <3>2. m \in found  BY <1>6, <3>1, MinOf, Zenon
    <3>. QED  BY <1>1, <1>2, <3>2, Zenon
  <2>3. Entries(X[m].entries) <=> /\ host_name(X[m].entries).kind = "Named"
                                  /\ SameHost(host_name(X[m].entries).name, host)
    BY <1>0, <2>2, HostIsRead, Zenon
  <2>. HIDE DEF Entries, found, m
  <2>. QED  BY <1>4, <1>6, <2>1, <2>2, <2>3, Zenon
<1>. QED  BY <1>5, <1>6, Zenon

\* A name that is read is one of the client's.
LEMMA NameIsTyped ==
  ASSUME NEW list, Listed(list), server_name(list).kind = "Named"
  PROVE  server_name(list).name.dots \in Nat
<1>. DEFINE found == {i \in DOMAIN list : list[i].kind = "server_name"}
            m == Min(found)
            E == list[m].entries
            hosts == {k \in DOMAIN E : E[k].host}
            k == Min(hosts)
<1>0. Nobody.kind # "Named"  BY DEF Nobody
<1>1. found # {}  BY <1>0, Zenon DEF server_name
<1>2. server_name(list) = host_name(E)  BY <1>1, Zenon DEF server_name
<1>3. hosts # {}  BY <1>0, <1>2, Zenon DEF host_name
<1>4. host_name(E) = Named(E[k].name)  BY <1>3, Zenon DEF host_name
<1>5. m \in DOMAIN list
  <2>1. PICK n \in Nat : DOMAIN list = 1 .. n  BY Numbered, Zenon DEF Listed
  <2>2. found \in SUBSET Nat  BY <2>1
  <2>3. m \in found
    <3>. HIDE DEF found
    <3>. QED  BY <1>1, <2>2, MinOf, Zenon
  <2>. QED  BY <2>3, Zenon
<1>6. k \in DOMAIN E
  <2>1. PICK n \in Nat : DOMAIN E = 1 .. n  BY <1>5, Numbered, Zenon DEF Listed
  <2>2. hosts \in SUBSET Nat
    <3>. HIDE DEF E
    <3>. QED  BY <2>1
  <2>3. k \in hosts
    <3>. HIDE DEF hosts
    <3>. QED  BY <1>3, <2>2, MinOf, Zenon
  <2>. QED  BY <2>3, Zenon
<1>7. E[k].name.dots \in Nat  BY <1>5, <1>6, Zenon DEF Listed
<1>8. Named(E[k].name).name = E[k].name  BY DEF Named
<1>. QED  BY <1>2, <1>4, <1>7, <1>8, Zenon

\* The case of a name and the root's dot make no difference, and nothing else does
\* (Names::accepts).
LEMMA AcceptsTheSame ==
  ASSUME names \in Configurations, NEW x, x.dots \in Nat
  PROVE  accepts(x) <=> \E i \in DOMAIN names : SameHost(x, names[i])
<1>1. ASSUME NEW i \in DOMAIN names
      PROVE  eq_ignore_ascii_case(normalise(names[i]), root_relative(x)) <=> SameHost(x, names[i])
  <2>1. names[i].dots \in {0, 1}  BY GateAssumption, Zenon
  <2>2. /\ root_relative(x).label = x.label
        /\ root_relative(x).dots = IF x.dots > 0 THEN x.dots - 1 ELSE 0
        /\ normalise(names[i]).label = names[i].label
        /\ normalise(names[i]).dots = IF names[i].dots > 0 THEN names[i].dots - 1 ELSE 0
    BY DEF normalise, root_relative, Host
  <2>3. normalise(names[i]).dots = 0  BY <2>1, <2>2
  <2>4. root_relative(x).dots = 0 <=> x.dots \in {0, 1}  BY <2>2
  <2>. QED  BY <2>1, <2>2, <2>3, <2>4, Zenon DEF eq_ignore_ascii_case, SameHost
<1>. QED  BY <1>1, Zenon DEF accepts

\* A client is welcome when its ClientHello is read as asking for a name that is
\* accepted.
LEMMA WelcomeIsRead ==
  ASSUME names \in Configurations, message \in Messages
  PROVE  Welcome <=> /\ message.client_hello
                     /\ server_name(message.extensions).kind = "Named"
                     /\ accepts(server_name(message.extensions).name)
<1>1. CASE message = NoHello
  <2>1. ~message.client_hello  BY <1>1 DEF NoHello
  <2>. QED  BY <2>1, Zenon DEF Welcome
<1>2. CASE message # NoHello
  <2>1. message.extensions \in ExtensionLists
    <3>1. message \in [client_hello : {TRUE}, extensions : ExtensionLists]
      BY <1>2, Zenon DEF Messages
    <3>. QED  BY <3>1, Zenon
  <2>2. Listed(message.extensions)  BY <2>1, GateAssumption, Zenon DEF Listed
  <2>. DEFINE asked == server_name(message.extensions)
  <2>3. \A i : AsksFor(names[i]) <=> asked.kind = "Named" /\ SameHost(asked.name, names[i])
    BY <2>2, NameIsRead, Zenon
  <2>4. asked.kind = "Named" =>
          (accepts(asked.name) <=> \E i \in DOMAIN names : SameHost(asked.name, names[i]))
    BY <2>2, NameIsTyped, AcceptsTheSame, Zenon
  <2>. HIDE DEF asked
  <2>5. Welcome <=> message.client_hello /\ \E i \in DOMAIN names : AsksFor(names[i])
    BY Zenon DEF Welcome
  <2>6. Welcome <=> message.client_hello /\ asked.kind = "Named" /\ accepts(asked.name)
    BY <2>3, <2>4, <2>5, Zenon
  <2>. QED  BY <2>6, Zenon DEF asked
<1>. QED  BY <1>1, <1>2, Zenon

(* The verdict on a datagram whose Initial opens.                              *)

\* Its first flight decides.
LEMMA OpenIsJudged ==
  ASSUME NEW d, d.tests = Opening, NEW flight,
         flight = first_flight(crypto_stream_prefix(d.frames))
  PROVE  /\ flight.kind = "Truncated" => judge(d) = "Pass"
         /\ flight.kind \in {"NotAClientHello", "Anonymous"} => judge(d) = "Refuse"
         /\ flight.kind = "Named" =>
               judge(d) = IF accepts(flight.name) THEN "Pass" ELSE "Refuse"
<1>1. {i \in DOMAIN Tests : ~d.tests[Tests[i]]} = {}
  <2>1. \A i \in DOMAIN Tests : Opening[Tests[i]]
    <3>1. \A i \in DOMAIN Tests : Tests[i] \in {Tests[j] : j \in DOMAIN Tests}  BY Zenon
    <3>. QED  BY <3>1, Zenon DEF Opening
  <2>. QED  BY <2>1, Zenon
<1>2. judge(d) =
        CASE flight.kind = "Truncated" -> "Pass"
          [] flight.kind \in {"NotAClientHello", "Anonymous"} -> "Refuse"
          [] flight.kind = "Named" -> IF accepts(flight.name) THEN "Pass" ELSE "Refuse"
  BY <1>1, Zenon DEF judge
<1>3. CASE flight.kind = "Truncated"  BY <1>2, <1>3
<1>4. CASE flight.kind \in {"NotAClientHello", "Anonymous"}  BY <1>2, <1>4
<1>5. CASE flight.kind = "Named"  BY <1>2, <1>5
<1>. QED  BY <1>3, <1>4, <1>5, Zenon

\* Nothing of a welcome client's first flight is refused.
LEMMA WelcomePasses ==
  ASSUME names \in Configurations, message \in Messages, Welcome,
         NEW d, d.tests = Opening
  PROVE  judge(d) # "Refuse"
<1>. DEFINE octets == crypto_stream_prefix(d.frames)
            flight == first_flight(octets)
<1>. HIDE DEF octets
<1>1. /\ message.client_hello /\ server_name(message.extensions).kind = "Named"
      /\ accepts(server_name(message.extensions).name)
  BY WelcomeIsRead, Zenon
<1>2. flight = [kind |-> "Truncated"] \/ flight = server_name(message.extensions)
  BY <1>1, Zenon DEF first_flight
<1>3. [kind |-> "Truncated"].kind = "Truncated"  OBVIOUS
<1>4. judge(d) = "Pass"
  <2>1. /\ flight.kind = "Truncated" => judge(d) = "Pass"
        /\ flight.kind = "Named" =>
              judge(d) = IF accepts(flight.name) THEN "Pass" ELSE "Refuse"
    BY OpenIsJudged, Zenon DEF octets
  <2>. HIDE DEF flight
  <2>. QED  BY <1>1, <1>2, <1>3, <2>1, Zenon
<1>. QED  BY <1>4

\* A whole first flight of anybody else is.
LEMMA StrangerRefused ==
  ASSUME names \in Configurations, message \in Messages, ~Welcome,
         NEW d, d.tests = Opening, Framed(d.frames), Carries(d.frames)
  PROVE  judge(d) = "Refuse"
<1>. DEFINE asked == server_name(message.extensions)
            flight == first_flight(HELLO)
<1>1. crypto_stream_prefix(d.frames) = HELLO  BY WholeIsRead, Zenon
<1>2. HELLO # 0 /\ ~(HELLO < HELLO)  BY GateConstants
<1>3. flight = IF message.client_hello THEN asked ELSE [kind |-> "NotAClientHello"]
  BY <1>2, Zenon DEF first_flight
<1>4. /\ flight.kind \in {"NotAClientHello", "Anonymous"} => judge(d) = "Refuse"
      /\ flight.kind = "Named" => judge(d) = IF accepts(flight.name) THEN "Pass" ELSE "Refuse"
  BY <1>1, OpenIsJudged, Zenon
<1>5. asked.kind \in {"Anonymous", "Named"}
  <2>1. asked = Nobody \/ \E name : asked = Named(name)  BY Zenon DEF server_name, host_name
  <2>. HIDE DEF asked
  <2>. QED  BY <2>1 DEF Nobody, Named
<1>6. [kind |-> "NotAClientHello"].kind = "NotAClientHello"  OBVIOUS
<1>7. message.client_hello /\ asked.kind = "Named" => ~accepts(asked.name)
  BY WelcomeIsRead, Zenon
<1>. HIDE DEF asked, flight
<1>. QED  BY <1>3, <1>4, <1>5, <1>6, <1>7, Zenon

(* The walk over a buffer.                                                     *)

\* Of the n datagrams of the buffer the first k have been judged, and those of them
\* that were refused are the ones made unreadable.
Walk(n, k) ==
    /\ batch \in [1 .. n -> Datagrams]
    /\ IF n = 0 THEN len = 0 ELSE (n - 1) * STRIDE < len /\ len <= n * STRIDE
    /\ k <= n /\ at = IF k = n THEN len ELSE k * STRIDE
    /\ names = <<>> => k = n /\ blinded = {}
    /\ names # <<>> => blinded = {i \in 1 .. k : judge(batch[i]) = "Refuse"}

GateInv ==
    /\ names \in Configurations /\ message \in Messages /\ len \in Nat
    /\ \E n \in Nat, k \in Nat : Walk(n, k)

\* Datagrams of one stride stand one after the other.
LEMMA StrideIsExact ==
  ASSUME NEW k \in Nat, NEW s \in Nat \ {0}
  PROVE  (k * s) \div s = k /\ k * s \in Nat /\ (k + 1) * s = k * s + s
  OBVIOUS

\* A later datagram begins no earlier.
LEMMA StrideIsMonotone ==
  ASSUME NEW i \in Nat, NEW j \in Nat, NEW s \in Nat, i <= j
  PROVE  i * s <= j * s
  OBVIOUS

\* The verdict depends on the names and the message only.
LEMMA JudgedAlike ==
  ASSUME names' = names, message' = message, batch' = batch, NEW i
  PROVE  judge(batch[i])' = judge(batch[i])
  BY SMT DEF judge, first_flight, accepts

\* Before the end of the buffer there is a datagram left to judge.
LEMMA MoreToJudge ==
  ASSUME NEW n \in Nat, NEW k \in Nat, Walk(n, k), len \in Nat
  PROVE  k # n => /\ at < len /\ k + 1 <= n /\ at = k * STRIDE
                  /\ IF k + 1 = n THEN len <= at + STRIDE
                     ELSE (k + 1) * STRIDE < len /\ (k + 1) * STRIDE = at + STRIDE
<1>. SUFFICES ASSUME k # n PROVE /\ at < len /\ k + 1 <= n /\ at = k * STRIDE
                  /\ IF k + 1 = n THEN len <= at + STRIDE
                     ELSE (k + 1) * STRIDE < len /\ (k + 1) * STRIDE = at + STRIDE
  BY Zenon
<1>0. STRIDE \in Nat \ {0} /\ STRIDE \in Nat  BY GateConstants
<1>1. k <= n /\ at = k * STRIDE  BY Zenon DEF Walk
<1>2. k + 1 <= n /\ n # 0 /\ n - 1 \in Nat /\ k <= n - 1 /\ (k + 1 # n => k + 1 <= n - 1)
      /\ k + 1 \in Nat
  BY ONLY <1>1, k \in Nat, n \in Nat, k # n, SMT
<1>3. (n - 1) * STRIDE < len /\ len <= n * STRIDE  BY <1>2, Zenon DEF Walk
<1>4. k * STRIDE <= (n - 1) * STRIDE  BY <1>0, <1>2, StrideIsMonotone, Zenon
<1>5. k + 1 # n => (k + 1) * STRIDE <= (n - 1) * STRIDE  BY <1>0, <1>2, StrideIsMonotone, Zenon
<1>6. (k + 1) * STRIDE = k * STRIDE + STRIDE /\ k * STRIDE \in Nat  BY <1>0, StrideIsExact, Zenon
<1>7. (n - 1) * STRIDE \in Nat /\ n * STRIDE \in Nat /\ (k + 1) * STRIDE \in Nat
  BY <1>0, <1>2, StrideIsExact, Zenon
<1>8. at < len
  <2>. DEFINE a == k * STRIDE
              b == (n - 1) * STRIDE
  <2>1. a <= b /\ b < len /\ a \in Nat /\ b \in Nat /\ at = a  BY <1>1, <1>3, <1>4, <1>6, <1>7, Zenon
  <2>. HIDE DEF a, b
  <2>. QED  BY ONLY <2>1, len \in Nat, SMT
<1>9. k + 1 = n => len <= at + STRIDE  BY <1>1, <1>3, <1>6, Zenon
<1>10. k + 1 # n => (k + 1) * STRIDE < len
  <2>. DEFINE a == (k + 1) * STRIDE
              b == (n - 1) * STRIDE
  <2>1. k + 1 # n => a <= b /\ b < len /\ a \in Nat /\ b \in Nat  BY <1>3, <1>5, <1>7, Zenon
  <2>. HIDE DEF a, b
  <2>2. k + 1 # n => a < len  BY ONLY <2>1, len \in Nat, SMT
  <2>. QED  BY <2>2, Zenon DEF a
<1>. QED  BY <1>1, <1>2, <1>6, <1>8, <1>9, <1>10, Zenon

\* A gate starts with no buffer.
LEMMA GateStarts == GateInit => GateInv
<1>. SUFFICES ASSUME GateInit PROVE GateInv  BY Zenon
<1>1. batch \in [1 .. 0 -> Datagrams] /\ at = len /\ len = 0 /\ blinded = {}  BY DEF GateInit
<1>2. {i \in 1 .. 0 : judge(batch[i]) = "Refuse"} = {}  OBVIOUS
<1>3. 0 \in Nat /\ 0 <= 0  OBVIOUS
<1>4. Walk(0, 0)  BY <1>1, <1>2, <1>3, Zenon DEF Walk
<1>. QED  BY <1>1, <1>3, <1>4, Zenon DEF GateInv, GateInit

\* A buffer that arrives is walked from its start, or not at all.
LEMMA ReceiveStep ==
  ASSUME GateInv, Receive
  PROVE  GateInv'
<1>0. STRIDE \in Nat \ {0} /\ MaxDatagrams \in Nat  BY GateConstants
<1>1. PICK d \in Datagrams, n \in 1 .. MaxDatagrams, short \in 1 .. STRIDE :
        batch' = [i \in 1 .. n |-> d] /\ len' = (n - 1) * STRIDE + short
  BY Zenon DEF Receive
<1>2. /\ at' = (IF names = <<>> THEN len' ELSE 0) /\ names' = names /\ message' = message
      /\ blinded' = blinded
  BY Zenon DEF Receive
<1>3. blinded = {}
  <2>1. batch = <<>>  BY Zenon DEF Receive
  <2>2. PICK m \in Nat, k \in Nat : Walk(m, k)  BY Zenon DEF GateInv
  <2>3. DOMAIN batch = 1 .. m /\ k <= m  BY <2>2, Zenon DEF Walk
  <2>4. 1 .. m = {}  BY <2>1, <2>3
  <2>5. 1 .. k = {}  BY <2>3, <2>4
  <2>. QED  BY <2>2, <2>5, Zenon DEF Walk
<1>4. /\ n \in Nat /\ n # 0 /\ 0 \in Nat /\ 0 <= n /\ n <= n /\ n - 1 \in Nat
      /\ (n - 1) + 1 = n
  BY <1>0
<1>5. (n - 1) * STRIDE \in Nat /\ n * STRIDE = (n - 1) * STRIDE + STRIDE
  BY <1>0, <1>4, StrideIsExact, Zenon
<1>6. len' \in Nat /\ (n - 1) * STRIDE < len' /\ len' <= n * STRIDE
  <2>. DEFINE a == (n - 1) * STRIDE
              b == n * STRIDE
  <2>1. a \in Nat /\ b = a + STRIDE /\ len' = a + short  BY <1>1, <1>5, Zenon
  <2>. HIDE DEF a, b
  <2>2. len' \in Nat /\ a < len' /\ len' <= b
    BY ONLY <2>1, <1>0, short \in 1 .. STRIDE, SMT
  <2>. QED  BY <2>2, Zenon DEF a, b
<1>7. batch' \in [1 .. n -> Datagrams]  BY <1>1, Zenon
<1>8. CASE names = <<>>
  <2>1. Walk(n, n)'  BY <1>2, <1>3, <1>4, <1>6, <1>7, <1>8, Zenon DEF Walk
  <2>. QED  BY <1>2, <1>4, <1>6, <2>1, Zenon DEF GateInv
<1>9. CASE names # <<>>
  <2>1. 0 * STRIDE = 0 /\ 1 .. 0 = {} /\ 0 # n  BY <1>0, <1>4
  <2>2. Walk(n, 0)'  BY <1>2, <1>3, <1>4, <1>6, <1>7, <1>9, <2>1, Zenon DEF Walk
  <2>. QED  BY <1>2, <1>4, <1>6, <2>2, Zenon DEF GateInv
<1>. QED  BY <1>8, <1>9, Zenon

\* One more datagram is judged.
LEMMA ScreenStep ==
  ASSUME GateInv, Screen
  PROVE  GateInv'
<1>0. STRIDE \in Nat \ {0}  BY GateConstants
<1>1. PICK n \in Nat, k \in Nat : Walk(n, k)  BY Zenon DEF GateInv
<1>2. /\ at < len /\ at' = Min({at + STRIDE, len}) /\ screen(at \div STRIDE + 1)
      /\ names' = names /\ message' = message /\ batch' = batch /\ len' = len
  BY Zenon DEF Screen
<1>3. len \in Nat  BY Zenon DEF GateInv
<1>4. k # n
  <2>1. k = n => at = len  BY <1>1, Zenon DEF Walk
  <2>. QED  BY <1>2, <1>3, <2>1
<1>5. /\ k + 1 <= n /\ at = k * STRIDE
      /\ IF k + 1 = n THEN len <= at + STRIDE
         ELSE (k + 1) * STRIDE < len /\ (k + 1) * STRIDE = at + STRIDE
  BY <1>1, <1>3, <1>4, MoreToJudge, Zenon
<1>6. at \div STRIDE = k /\ at \in Nat  BY <1>0, <1>5, StrideIsExact, Zenon
<1>7. at' = IF k + 1 = n THEN len ELSE (k + 1) * STRIDE
  <2>. DEFINE P == {at + STRIDE, len}
              m == Min(P)
  <2>1. P \in SUBSET Nat /\ P # {}  BY <1>0, <1>3, <1>6
  <2>2. m \in P /\ m <= len /\ m <= at + STRIDE
    <3>1. at + STRIDE \in P /\ len \in P  BY Zenon
    <3>. HIDE DEF P
    <3>. QED  BY <2>1, <3>1, MinOf, Zenon
  <2>3. m = len \/ m = at + STRIDE  BY <2>2, Zenon
  <2>4. at' = m  BY <1>2, Zenon
  <2>. HIDE DEF m
  <2>5. CASE k + 1 = n
    <3>1. len <= at + STRIDE  BY <1>5, <2>5, Zenon
    <3>2. m = len  BY ONLY <1>0, <1>3, <1>6, <2>2, <2>3, <3>1, SMT
    <3>. QED  BY <2>4, <2>5, <3>2, Zenon
  <2>6. CASE k + 1 # n
    <3>1. at + STRIDE < len /\ (k + 1) * STRIDE = at + STRIDE  BY <1>5, <2>6, Zenon
    <3>2. m = at + STRIDE  BY ONLY <1>0, <1>3, <1>6, <2>2, <2>3, <3>1, SMT
    <3>. QED  BY <2>4, <2>6, <3>1, <3>2, Zenon
  <2>. QED  BY <2>5, <2>6, Zenon
<1>8. names # <<>>  BY <1>1, <1>4, Zenon DEF Walk
<1>9. blinded' = {i \in 1 .. k + 1 : judge(batch[i])' = "Refuse"}
  <2>1. blinded' = IF judge(batch[k + 1]) = "Refuse" THEN blinded \union {k + 1} ELSE blinded
    BY <1>2, <1>6, Zenon DEF screen
  <2>2. blinded = {i \in 1 .. k : judge(batch[i]) = "Refuse"}  BY <1>1, <1>8, Zenon DEF Walk
  <2>3. \A i : i \in 1 .. k + 1 <=> i \in 1 .. k \/ i = k + 1  OBVIOUS
  <2>4. \A i : judge(batch[i])' = judge(batch[i])  BY <1>2, JudgedAlike, Zenon
  <2>. DEFINE V(i) == judge(batch[i])
  <2>5. blinded' = {i \in 1 .. k + 1 : V(i) = "Refuse"}
    <3>. HIDE DEF V
    <3>1. blinded = {i \in 1 .. k : V(i) = "Refuse"}  BY <2>2, Zenon DEF V
    <3>2. blinded' = IF V(k + 1) = "Refuse" THEN blinded \union {k + 1} ELSE blinded
      BY <2>1, Zenon DEF V
    <3>. QED  BY <2>3, <3>1, <3>2, Zenon
  <2>6. {i \in 1 .. k + 1 : V(i) = "Refuse"} = {i \in 1 .. k + 1 : judge(batch[i])' = "Refuse"}
    <3>. DEFINE W(i) == judge(batch[i])'
    <3>1. \A i : W(i) = V(i)  BY <2>4, Zenon
    <3>. HIDE DEF V, W
    <3>2. {i \in 1 .. k + 1 : V(i) = "Refuse"} = {i \in 1 .. k + 1 : W(i) = "Refuse"}
      BY <3>1, Zenon
    <3>. QED  BY <3>2, Zenon DEF W
  <2>. QED  BY <2>5, <2>6, Zenon
<1>10. k + 1 \in Nat  OBVIOUS
<1>11. Walk(n, k + 1)'  BY <1>1, <1>2, <1>5, <1>7, <1>8, <1>9, Zenon DEF Walk
<1>. QED  BY <1>2, <1>10, <1>11, Zenon DEF GateInv

\* The buffer is handed on.
LEMMA ReadyStep ==
  ASSUME GateInv, Ready
  PROVE  GateInv'
<1>1. /\ batch' = <<>> /\ at' = len' /\ len' = 0 /\ blinded' = {}
      /\ names' = names /\ message' = message
  BY Zenon DEF Ready
<1>2. batch' \in [1 .. 0 -> Datagrams] /\ 1 .. 0 = {} /\ 0 \in Nat /\ 0 <= 0  BY <1>1
<1>3. Walk(0, 0)'  BY <1>1, <1>2, Zenon DEF Walk
<1>. QED  BY <1>1, <1>2, <1>3, Zenon DEF GateInv

\* What is unreadable is what was refused, up to where the walk has come.
THEOREM GateInvariance == GateSpec => []GateInv
<1>1. GateInit => GateInv  BY GateStarts, Zenon
<1>2. GateInv /\ [GateNext]_GateVars => GateInv'
  <2>. SUFFICES ASSUME GateInv, [GateNext]_GateVars PROVE GateInv'  BY Zenon
  <2>1. CASE UNCHANGED GateVars
    <3>1. names' = names /\ message' = message /\ batch' = batch /\ len' = len /\ at' = at
          /\ blinded' = blinded
      BY <2>1, Zenon DEF GateVars
    <3>2. \A i : judge(batch[i])' = judge(batch[i])  BY <3>1, JudgedAlike, Zenon
    <3>3. PICK n \in Nat, k \in Nat : Walk(n, k)  BY Zenon DEF GateInv
    <3>4. Walk(n, k)'  BY <3>1, <3>2, <3>3, Zenon DEF Walk
    <3>. QED  BY <3>1, <3>4, Zenon DEF GateInv
  <2>. QED  BY <2>1, ReceiveStep, ScreenStep, ReadyStep, Zenon DEF GateNext
<1>. QED  BY <1>1, <1>2, PTL DEF GateSpec

\* The gate is exact, for any configured names, any ClientHello in any number of
\* frames and any run of datagrams: a client that asks for a name of this server
\* loses none of them, and one that carries the whole of any other first flight is
\* dropped (Gate::poll_recv, Judge::judge, crypto_stream_prefix).
THEOREM GateIsAlwaysExact == GateSpec => []GateIsExact
<1>1. ASSUME GateInv PROVE GateIsExact
  <2>0. names \in Configurations /\ message \in Messages /\ len \in Nat  BY <1>1, Zenon DEF GateInv
  <2>1. PICK n \in Nat, k \in Nat : Walk(n, k)  BY <1>1, Zenon DEF GateInv
  <2>2. Welcome <=> /\ message.client_hello
                    /\ server_name(message.extensions).kind = "Named"
                    /\ accepts(server_name(message.extensions).name)
    BY <2>0, WelcomeIsRead, Zenon
  <2>3. WelcomeIsHeard
    <3>1. Welcome \/ names = <<>> => resolve  BY <2>2, Zenon DEF resolve
    <3>2. ASSUME Welcome \/ names = <<>>, NEW i \in blinded
          PROVE  names # <<>> /\ batch[i].tests # Opening
      <4>1. names # <<>>  BY <2>1, <3>2, Zenon DEF Walk
      <4>2. judge(batch[i]) = "Refuse"  BY <2>1, <3>2, <4>1, Zenon DEF Walk
      <4>. QED  BY <2>0, <3>2, <4>1, <4>2, WelcomePasses, Zenon
    <3>. QED  BY <3>1, <3>2, Zenon DEF WelcomeIsHeard
  <2>4. StrangerIsDropped
    <3>1. ~Welcome /\ names # <<>> /\ message.client_hello => ~resolve  BY <2>2, Zenon DEF resolve
    <3>2. ASSUME ~Welcome, names # <<>>, at = len, NEW i \in DOMAIN batch,
                 batch[i].tests = Opening, Carries(batch[i].frames)
          PROVE  i \in blinded
      <4>1. k = n
        <5>1. k # n => at < len  BY <2>0, <2>1, MoreToJudge, Zenon
        <5>. QED  BY <2>0, <3>2, <5>1
      <4>2. i \in 1 .. n /\ batch[i] \in Datagrams  BY <2>1, <3>2, Zenon DEF Walk
      <4>3. Framed(batch[i].frames)
        <5>1. CASE batch[i] \in [tests : {Opening},
                                 frames : UNION {[1 .. m -> Frames] : m \in 0 .. MaxFrames}]
          <6>1. PICK m \in 0 .. MaxFrames : batch[i].frames \in [1 .. m -> Frames]
            BY <5>1, Zenon
          <6>2. m \in Nat  BY GateAssumption
          <6>. QED  BY <6>1, <6>2, Zenon DEF Framed
        <5>2. CASE batch[i] \in [tests : Others, frames : {<<>>}]
          <6>1. batch[i].frames = <<>>  BY <5>2, Zenon
          <6>2. <<>> \in [1 .. 0 -> Frames] /\ 0 \in Nat  OBVIOUS
          <6>. QED  BY <6>1, <6>2, Zenon DEF Framed
        <5>. QED  BY <4>2, <5>1, <5>2, Zenon DEF Datagrams
      <4>4. judge(batch[i]) = "Refuse"  BY <2>0, <3>2, <4>3, StrangerRefused, Zenon
      <4>. QED  BY <2>1, <3>2, <4>1, <4>2, <4>4, Zenon DEF Walk
    <3>. QED  BY <3>1, <3>2, Zenon DEF StrangerIsDropped
  <2>. QED  BY <2>3, <2>4, Zenon DEF GateIsExact
<1>. QED  BY <1>1, GateInvariance, PTL

-------------------------------------------------------------------------------
(* The tunnel and its budget.                                                  *)

\* Nothing ends either half of a stream before its session is over.
Undecided ==
    \A s \in Sessions : pc[s] # "ended" => send[s] = "open" /\ recv[s] = "open"

ControlTypes ==
    /\ pc \in [Sessions -> Running \union {"new", "admit", "ended"}]
    /\ routes \subseteq Sessions
    /\ queue \in [Sessions -> 0 .. INBOUND_QUEUE_DEPTH]
    /\ expired \in [Sessions -> BOOLEAN]
    /\ send \in [Sessions -> Codes \union {"open", "lost", "fin", "refused"}]
    /\ recv \in [Sessions -> Codes \union {"open", "NO_ERROR", "refused"}]

PeerTypes ==
    /\ left \in [Sessions -> 0 .. MaxCapsules]
    /\ mid \in [Sessions -> BOOLEAN]
    /\ client \in [Sessions -> {"open", "fin", "reset"}]
    /\ reply \in [Sessions -> BOOLEAN] /\ settings \in BOOLEAN

MoneyTypes ==
    /\ answered \in [Sessions -> BOOLEAN]
    /\ charged \in [Sessions -> 0 .. unanswered_packet_budget]
    /\ budget \in 0 .. total
    /\ attempts \in [Sessions -> Nat] /\ forfeited \in Nat

ControlOK == ControlTypes /\ RoutesExact /\ Undecided /\ SameVerdict

IInv == ControlOK /\ PeerTypes /\ MoneyTypes

control == <<pc, routes, queue, expired, ends>>

\* The ways a step of an established session leaves it.
Outcome(s) ==
    \/ Stop(s)
    \/ \E code \in Codes : Aborted(s, code)
    \/ \E next \in Running : Continue(s, next) \/ touch(s, next)

-------------------------------------------------------------------------------
(* The control of a session.                                                 *)

\* The control of the sessions is known while it does not change.
LEMMA ControlStutter ==
  ASSUME ControlOK, UNCHANGED control
  PROVE  ControlOK'
BY Zenon DEF ControlOK, ControlTypes, RoutesExact, Undecided, SameVerdict, control, ends, Running, Codes

\* A session that is dropped with a verdict on both halves gives up its claim.
LEMMA DropStep ==
  ASSUME ControlOK, NEW s \in Sessions, Drop(s), Dequeue(s, 0),
         NEW out \in Codes \union {"lost", "fin", "refused"},
         NEW in \in Codes \union {"NO_ERROR", "refused"},
         \/ out \in {"fin", "lost"} /\ in = "NO_ERROR"
         \/ out \in Codes \union {"refused"} /\ in = out,
         send' = [send EXCEPT ![s] = out], recv' = [recv EXCEPT ![s] = in]
  PROVE  ControlOK'
<1>1. /\ pc' = [pc EXCEPT ![s] = "ended"] /\ routes' = routes \ {s}
      /\ queue' = [queue EXCEPT ![s] = 0] /\ expired' = expired
  BY Zenon DEF Drop, Goto, Dequeue
<1>2. ControlTypes'
  BY <1>1, BudgetAssumption DEF ControlOK, ControlTypes
<1>3. RoutesExact'
  BY <1>1, Zenon DEF ControlOK, ControlTypes, RoutesExact, Running
<1>4. Undecided'
  BY <1>1, Zenon DEF ControlOK, ControlTypes, Undecided
<1>5. SameVerdict'
  BY <1>1, Zenon DEF ControlOK, ControlTypes, SameVerdict
<1>. QED  BY <1>2, <1>3, <1>4, <1>5, Zenon DEF ControlOK

\* A step that keeps the session, taking payloads from its queue, keeps its claim.
LEMMA KeepStep ==
  ASSUME ControlOK, NEW s \in Sessions, pc[s] \in Running \union {"admit"},
         NEW next \in Running, Continue(s, next) \/ touch(s, next),
         queue' \in [Sessions -> 0 .. INBOUND_QUEUE_DEPTH],
         \A t \in Sessions \ {s} : queue'[t] = queue[t]
  PROVE  ControlOK'
<1>1. pc' = [pc EXCEPT ![s] = next] /\ routes' = routes /\ send' = send /\ recv' = recv
  BY Zenon DEF Continue, touch, Goto, ends
<1>2. expired' \in [Sessions -> BOOLEAN]
  BY Zenon DEF ControlOK, ControlTypes, Continue, touch
<1>3. ControlTypes'
  BY <1>1, <1>2, Zenon DEF ControlOK, ControlTypes
<1>4. RoutesExact'
  BY <1>1, Zenon DEF ControlOK, ControlTypes, RoutesExact, Running
<1>5. Undecided' /\ SameVerdict'
  BY <1>1 DEF ControlOK, ControlTypes, Undecided, SameVerdict, Running
<1>. QED  BY <1>3, <1>4, <1>5, Zenon DEF ControlOK

\* Whatever relaying a datagram comes to, the control of the session stays sound.
LEMMA OutcomeStep ==
  ASSUME ControlOK, NEW s \in Sessions, pc[s] \in Running,
         Outcome(s), NEW n \in {0, 1}, n <= queue[s], Dequeue(s, n)
  PROVE  ControlOK'
<1>0. s \in routes /\ queue[s] \in 0 .. INBOUND_QUEUE_DEPTH /\ send[s] = "open"
  BY Zenon DEF ControlOK, ControlTypes, RoutesExact, Undecided, Running
<1>1. CASE Stop(s)
  <2>1. /\ Drop(s)
        /\ send' = [send EXCEPT ![s] = "fin"] /\ recv' = [recv EXCEPT ![s] = "NO_ERROR"]
    BY <1>0, <1>1, Zenon DEF Stop
  <2>2. Dequeue(s, 0)
    BY <2>1, Zenon DEF Dequeue, Drop
  <2>. QED  BY <2>1, <2>2, DropStep, Zenon
<1>2. ASSUME NEW code \in Codes, Aborted(s, code)  PROVE ControlOK'
  <2>1. /\ Drop(s)
        /\ send' = [send EXCEPT ![s] = code] /\ recv' = [recv EXCEPT ![s] = code]
    BY <1>2, Zenon DEF Aborted
  <2>2. Dequeue(s, 0)
    BY <2>1, Zenon DEF Dequeue, Drop
  <2>. QED  BY <2>1, <2>2, DropStep, Zenon
<1>3. ASSUME NEW next \in Running, Continue(s, next) \/ touch(s, next)  PROVE ControlOK'
  <2>1. queue' = [queue EXCEPT ![s] = @ - n]
    BY <1>0, <1>3, Zenon DEF Dequeue, Continue, touch
  <2>2. /\ queue' \in [Sessions -> 0 .. INBOUND_QUEUE_DEPTH]
        /\ \A t \in Sessions \ {s} : queue'[t] = queue[t]
    BY <1>0, <2>1, BudgetAssumption DEF ControlOK, ControlTypes
  <2>. QED  BY <1>3, <2>2, KeepStep, Zenon
<1>. QED  BY <1>1, <1>2, <1>3, Zenon DEF Outcome

-------------------------------------------------------------------------------
(* The allowance.                                                            *)

\* The allowance is a number.
LEMMA TotalIsNat == total \in Nat
BY BudgetAssumption, SaturationAssumption DEF total, saturating_mul

\* A charge takes no more than is left.
LEMMA ChargeStep ==
  ASSUME MoneyTypes, NEW s \in Sessions, ~Unlimited(s), ~Muted(s), charge_unanswered(s)
  PROVE  MoneyTypes'
<1>0. total \in Nat /\ unanswered_packet_budget \in Nat
  BY TotalIsNat, BudgetAssumption, Zenon
<1>1. charged[s] \in 0 .. unanswered_packet_budget /\ charged[s] # unanswered_packet_budget
  BY Zenon DEF MoneyTypes, Muted
<1>2. charged' \in [Sessions -> 0 .. unanswered_packet_budget]
  BY <1>0, <1>1 DEF MoneyTypes, charge_unanswered
<1>3. budget' \in 0 .. total /\ attempts' \in [Sessions -> Nat] /\ forfeited' \in Nat
  BY <1>0 DEF MoneyTypes, charge_unanswered
<1>4. answered' \in [Sessions -> BOOLEAN]
  BY Zenon DEF MoneyTypes, charge_unanswered
<1>. QED  BY <1>2, <1>3, <1>4, Zenon DEF MoneyTypes

\* The accounts are sound while nothing is charged.
LEMMA MoneyStutter ==
  ASSUME MoneyTypes, UNCHANGED money
  PROVE  MoneyTypes'
BY Zenon DEF MoneyTypes, money

\* What is given back never takes the allowance past its total.
LEMMA RefundStep ==
  ASSUME budget \in 0 .. total, NEW n \in Nat
  PROVE  refund_unanswered(n) \in 0 .. total
<1>0. total \in Nat
  BY TotalIsNat, Zenon
<1>. DEFINE m == IF budget + n <= total THEN budget + n ELSE total
<1>1. m \in {budget + n, total} /\ \A y \in {budget + n, total} : m <= y
  BY <1>0
<1>2. \A x \in {budget + n, total} :
         (\A y \in {budget + n, total} : x <= y) => x \in 0 .. total
  BY <1>0
<1>. QED  BY <1>1, <1>2, Zenon DEF refund_unanswered, Min

\* A payload for the target leaves the session in one of the ordinary ways.
LEMMA ForwardStep ==
  ASSUME MoneyTypes, NEW s \in Sessions, NEW next \in Running, forward_to_target(s, next)
  PROVE  Outcome(s) /\ MoneyTypes'
<1>0. {"DATAGRAM_ERROR", "REQUEST_CANCELLED"} \subseteq Codes
  BY Zenon DEF Codes
<1>1. CASE Aborted(s, "DATAGRAM_ERROR") /\ UNCHANGED money
  BY <1>0, <1>1, MoneyStutter, Zenon DEF Outcome
<1>2. CASE Muted(s) /\ Continue(s, next) /\ UNCHANGED money
  BY <1>2, MoneyStutter, Zenon DEF Outcome
<1>3. CASE Unlimited(s) /\ SendToTarget(s, next) /\ UNCHANGED money
  BY <1>3, MoneyStutter, Zenon DEF Outcome, SendToTarget
<1>4. CASE ~Unlimited(s) /\ ~Muted(s) /\ charge_unanswered(s) /\ SendToTarget(s, next)
  BY <1>4, ChargeStep, Zenon DEF Outcome, SendToTarget
<1>5. CASE budget = 0 /\ Aborted(s, "REQUEST_CANCELLED") /\ UNCHANGED money
  BY <1>0, <1>5, MoneyStutter, Zenon DEF Outcome
<1>. QED  BY <1>1, <1>2, <1>3, <1>4, <1>5, Zenon DEF forward_to_target

-------------------------------------------------------------------------------
(* The invariant.                                                            *)

\* The inductive invariant holds at first.
LEMMA Initially == Init => IInv
<1>. SUFFICES ASSUME Init PROVE IInv
  BY Zenon
<1>1. ControlTypes
  BY BudgetAssumption DEF Init, ControlTypes
<1>2. RoutesExact /\ Undecided /\ SameVerdict
  BY Zenon DEF Init, RoutesExact, Undecided, SameVerdict, Running
<1>3. PeerTypes
  BY BudgetAssumption DEF Init, PeerTypes
<1>4. MoneyTypes
  BY BudgetAssumption, TotalIsNat DEF Init, MoneyTypes
<1>. QED  BY <1>1, <1>2, <1>3, <1>4, Zenon DEF IInv, ControlOK

PeerVars == <<decoding, peers>>

\* What the peers sent and have decoded is well typed while it does not change.
LEMMA PeerStutter ==
  ASSUME PeerTypes, UNCHANGED PeerVars
  PROVE  PeerTypes'
BY Zenon DEF PeerTypes, PeerVars, decoding, peers

\* Every step of the sessions, the router and the peers keeps the invariant.
LEMMA Inductive == IInv /\ [Next]_vars => IInv'
<1>. SUFFICES ASSUME IInv, [Next]_vars PROVE IInv'
  BY Zenon
<1>. ControlOK /\ PeerTypes /\ MoneyTypes
  BY Zenon DEF IInv
<1>1. ASSUME NEW s \in Sessions, NewRequest(s)  PROVE IInv'
  <2>1. ControlTypes'
    BY <1>1, Zenon DEF NewRequest, Goto, ControlOK, ControlTypes, ends
  <2>2. RoutesExact'
    BY <1>1, Zenon DEF NewRequest, Goto, ControlOK, ControlTypes, RoutesExact, ends, Running
  <2>3. Undecided' /\ SameVerdict'
    BY <1>1, Zenon DEF NewRequest, Goto, ControlOK, ControlTypes, Undecided, SameVerdict, ends, Running
  <2>7. ControlOK'
    BY <2>1, <2>2, <2>3, Zenon DEF ControlOK
  <2>8. PeerTypes'
    BY <1>1, BudgetAssumption DEF NewRequest, PeerTypes, decoding, peers
  <2>6. answered' \in [Sessions -> BOOLEAN]
    BY <1>1, Zenon DEF NewRequest, MoneyTypes
  <2>9. MoneyTypes'
    BY <1>1, <2>6, BudgetAssumption DEF NewRequest, MoneyTypes
  <2>. QED  BY <2>7, <2>8, <2>9, Zenon DEF IInv
<1>2. ASSUME NEW s \in Sessions, Claim(s)  PROVE IInv'
  <2>1. ControlTypes'
    BY <1>2, Zenon DEF Claim, Goto, ControlOK, ControlTypes, ends
  <2>2. RoutesExact'
    BY <1>2, Zenon DEF Claim, Goto, ControlOK, ControlTypes, RoutesExact, ends, Running
  <2>3. Undecided' /\ SameVerdict'
    BY <1>2, Zenon DEF Claim, Goto, ControlOK, ControlTypes, Undecided, SameVerdict, ends, Running
  <2>7. ControlOK'
    BY <2>1, <2>2, <2>3 DEF ControlOK
  <2>8. PeerTypes'
    BY <1>2, PeerStutter, Zenon DEF Claim, PeerVars
  <2>9. MoneyTypes'
    BY <1>2, MoneyStutter, Zenon DEF Claim
  <2>. QED  BY <2>7, <2>8, <2>9 DEF IInv
<1>3. ASSUME NEW s \in Sessions, Refused(s)  PROVE IInv'
  <2>1. /\ Drop(s) /\ Dequeue(s, 0)
        /\ send' = [send EXCEPT ![s] = "refused"] /\ recv' = [recv EXCEPT ![s] = "refused"]
    BY <1>3, Zenon DEF Refused
  <2>7. ControlOK'
    BY <2>1, DropStep, Zenon
  <2>8. PeerTypes'
    BY <1>3, PeerStutter, Zenon DEF Refused, PeerVars
  <2>9. MoneyTypes'
    BY <1>3, MoneyStutter, Zenon DEF Refused
  <2>. QED  BY <2>7, <2>8, <2>9 DEF IInv
<1>4. ASSUME NEW s \in Sessions, Establish(s)  PROVE IInv'
  <2>1. pc[s] \in Running \union {"admit"}
    BY <1>4, Zenon DEF Establish, Running
  <2>2. \E next \in Running : Continue(s, next) \/ touch(s, next)
    BY <1>4, Zenon DEF Establish, Running
  <2>3. queue' = queue /\ queue \in [Sessions -> 0 .. INBOUND_QUEUE_DEPTH]
    BY <1>4, Zenon DEF Establish, ControlOK, ControlTypes
  <2>7. ControlOK'
    BY <2>1, <2>2, <2>3, KeepStep, Zenon
  <2>8. PeerTypes'
    BY <1>4, PeerStutter, Zenon DEF Establish, PeerVars
  <2>9. MoneyTypes'
    BY <1>4, MoneyStutter, Zenon DEF Establish
  <2>. QED  BY <2>7, <2>8, <2>9 DEF IInv
<1>5. ASSUME NEW s \in Sessions, ReadClock(s)  PROVE IInv'
  <2>1. Outcome(s)
    BY <1>5, Zenon DEF ReadClock, Outcome, Codes, Running
  <2>2. pc[s] \in Running /\ Dequeue(s, 0) /\ 0 <= queue[s]
    BY <1>5 DEF ReadClock, Running, IInv, ControlOK, ControlTypes
  <2>7. ControlOK'
    BY <2>1, <2>2, OutcomeStep, Zenon
  <2>8. PeerTypes'
    BY <1>5, PeerStutter, Zenon DEF ReadClock, PeerVars
  <2>9. MoneyTypes'
    BY <1>5, MoneyStutter, Zenon DEF ReadClock
  <2>. QED  BY <2>7, <2>8, <2>9 DEF IInv
<1>6. ASSUME NEW s \in Sessions, WaitExpires(s)  PROVE IInv'
  <2>1. Outcome(s)
    BY <1>6, Zenon DEF WaitExpires, Outcome, Codes, Running
  <2>2. pc[s] \in Running /\ Dequeue(s, 0) /\ 0 <= queue[s]
    BY <1>6 DEF WaitExpires, Running, IInv, ControlOK, ControlTypes
  <2>7. ControlOK'
    BY <2>1, <2>2, OutcomeStep
  <2>8. PeerTypes'
    BY <1>6, PeerStutter, Zenon DEF WaitExpires, PeerVars
  <2>9. MoneyTypes'
    BY <1>6, MoneyStutter, Zenon DEF WaitExpires
  <2>. QED  BY <2>7, <2>8, <2>9 DEF IInv
<1>7. ASSUME NEW s \in Sessions, Inbound(s)  PROVE IInv'
  <2>1. Outcome(s) /\ MoneyTypes'
    BY <1>7, ForwardStep, Zenon DEF Inbound, Running
  <2>2. pc[s] \in Running /\ Dequeue(s, 1) /\ 1 <= queue[s]
    BY <1>7 DEF Inbound, Running, ControlOK, ControlTypes
  <2>7. ControlOK'
    BY <2>1, <2>2, OutcomeStep, Zenon
  <2>8. PeerTypes'
    BY <1>7, PeerStutter, Zenon DEF Inbound, PeerVars
  <2>9. MoneyTypes'
    BY <2>1, Zenon
  <2>. QED  BY <2>7, <2>8, <2>9 DEF IInv
<1>8. ASSUME NEW s \in Sessions, FromTarget(s)  PROVE IInv'
  <2>1. pc[s] \in Running \union {"admit"}
    BY <1>8, Zenon DEF FromTarget, Running
  <2>2. \E next \in Running : Continue(s, next) \/ touch(s, next)
    BY <1>8, Zenon DEF FromTarget, Running
  <2>3. queue' = queue /\ queue \in [Sessions -> 0 .. INBOUND_QUEUE_DEPTH]
    BY <1>8, Zenon DEF FromTarget, ControlOK, ControlTypes
  <2>7. ControlOK'
    BY <2>1, <2>2, <2>3, KeepStep
  <2>8. PeerTypes'
    BY <1>8, BudgetAssumption, Zenon DEF FromTarget, PeerTypes, decoding, peers
  <2>4. charged[s] \in Nat /\ budget \in 0 .. total
    BY BudgetAssumption DEF MoneyTypes
  <2>5. budget' \in 0 .. total
    BY <1>8, <2>4, RefundStep, Zenon DEF FromTarget
  <2>6. answered' \in [Sessions -> BOOLEAN]
    BY <1>8, Zenon DEF FromTarget, MoneyTypes
  <2>9. MoneyTypes'
    BY <1>8, <2>5, <2>6, BudgetAssumption DEF FromTarget, MoneyTypes
  <2>. QED  BY <2>7, <2>8, <2>9 DEF IInv
<1>9. ASSUME NEW s \in Sessions, SocketFails(s)  PROVE IInv'
  <2>1. Outcome(s)
    BY <1>9, Zenon DEF SocketFails, Outcome, Codes, Running
  <2>2. pc[s] \in Running /\ Dequeue(s, 0) /\ 0 <= queue[s]
    BY <1>9 DEF SocketFails, Running, IInv, ControlOK, ControlTypes
  <2>7. ControlOK'
    BY <2>1, <2>2, OutcomeStep
  <2>8. PeerTypes'
    BY <1>9, PeerStutter, Zenon DEF SocketFails, PeerVars
  <2>9. MoneyTypes'
    BY <1>9, MoneyStutter, Zenon DEF SocketFails
  <2>. QED  BY <2>7, <2>8, <2>9 DEF IInv
<1>10. ASSUME NEW s \in Sessions, Written(s)  PROVE IInv'
  <2>1. pc[s] \in Running \union {"admit"}
    BY <1>10, Zenon DEF Written, Running
  <2>2. \E next \in Running : Continue(s, next) \/ touch(s, next)
    BY <1>10, Zenon DEF Written, Running
  <2>3. queue' = queue /\ queue \in [Sessions -> 0 .. INBOUND_QUEUE_DEPTH]
    BY <1>10, Zenon DEF Written, ControlOK, ControlTypes
  <2>7. ControlOK'
    BY <2>1, <2>2, <2>3, KeepStep
  <2>8. PeerTypes'
    BY <1>10, PeerStutter, Zenon DEF Written, PeerVars
  <2>9. MoneyTypes'
    BY <1>10, MoneyStutter, Zenon DEF Written
  <2>. QED  BY <2>7, <2>8, <2>9 DEF IInv
<1>11. ASSUME NEW s \in Sessions, WriteFails(s)  PROVE IInv'
  <2>1. /\ Drop(s) /\ Dequeue(s, 0)
        /\ send' = [send EXCEPT ![s] = "lost"] /\ recv' = [recv EXCEPT ![s] = "NO_ERROR"]
    BY <1>11, Zenon DEF WriteFails
  <2>7. ControlOK'
    BY <2>1, DropStep, Zenon
  <2>8. PeerTypes'
    BY <1>11, PeerStutter, Zenon DEF WriteFails, PeerVars
  <2>9. MoneyTypes'
    BY <1>11, MoneyStutter, Zenon DEF WriteFails
  <2>. QED  BY <2>7, <2>8, <2>9 DEF IInv
<1>12. ASSUME NEW s \in Sessions, WriteStalled(s)  PROVE IInv'
  <2>1. Outcome(s)
    BY <1>12, Zenon DEF WriteStalled, Outcome, Codes, Running
  <2>2. pc[s] \in Running /\ Dequeue(s, 0) /\ 0 <= queue[s]
    BY <1>12 DEF WriteStalled, Running, IInv, ControlOK, ControlTypes
  <2>7. ControlOK'
    BY <2>1, <2>2, OutcomeStep
  <2>8. PeerTypes'
    BY <1>12, PeerStutter, Zenon DEF WriteStalled, PeerVars
  <2>9. MoneyTypes'
    BY <1>12, MoneyStutter, Zenon DEF WriteStalled
  <2>. QED  BY <2>7, <2>8, <2>9 DEF IInv
<1>13. ASSUME NEW s \in Sessions, ReadChunk(s)  PROVE IInv'
  <2>1. pc[s] \in Running \union {"admit"}
    BY <1>13, Zenon DEF ReadChunk, Running
  <2>2. \E next \in Running : Continue(s, next) \/ touch(s, next)
    BY <1>13, Zenon DEF ReadChunk, Running
  <2>3. queue' = queue /\ queue \in [Sessions -> 0 .. INBOUND_QUEUE_DEPTH]
    BY <1>13, Zenon DEF ReadChunk, ControlOK, ControlTypes
  <2>7. ControlOK'
    BY <2>1, <2>2, <2>3, KeepStep
  <2>8. PeerTypes'
    BY <1>13, BudgetAssumption DEF ReadChunk, PeerTypes, decoding, peers
  <2>9. MoneyTypes'
    BY <1>13, MoneyStutter, Zenon DEF ReadChunk
  <2>. QED  BY <2>7, <2>8, <2>9 DEF IInv
<1>14. ASSUME NEW s \in Sessions, NextCapsule(s)  PROVE IInv'
  <2>0. "decode" \in Running
    BY Zenon DEF Running
  <2>1. Outcome(s) /\ MoneyTypes'
    <3>1. CASE forward_to_target(s, "decode")
      BY <2>0, <3>1, ForwardStep, Zenon
    <3>2. CASE Continue(s, "decode") /\ UNCHANGED money
      BY <2>0, <3>2, MoneyStutter, Zenon DEF Outcome
    <3>. QED  BY <1>14, <3>1, <3>2, Zenon DEF NextCapsule
  <2>2. pc[s] \in Running /\ Dequeue(s, 0) /\ 0 <= queue[s]
    BY <1>14 DEF NextCapsule, Running, ControlOK, ControlTypes
  <2>7. ControlOK'
    BY <2>1, <2>2, OutcomeStep, Zenon
  <2>8. PeerTypes'
    BY <1>14, BudgetAssumption DEF NextCapsule, PeerTypes, decoding, peers
  <2>9. MoneyTypes'
    BY <2>1
  <2>. QED  BY <2>7, <2>8, <2>9 DEF IInv
<1>15. ASSUME NEW s \in Sessions, MoreNeeded(s)  PROVE IInv'
  <2>1. pc[s] \in Running \union {"admit"}
    BY <1>15, Zenon DEF MoreNeeded, Running
  <2>2. \E next \in Running : Continue(s, next) \/ touch(s, next)
    BY <1>15, Zenon DEF MoreNeeded, Running
  <2>3. queue' = queue /\ queue \in [Sessions -> 0 .. INBOUND_QUEUE_DEPTH]
    BY <1>15, Zenon DEF MoreNeeded, ControlOK, ControlTypes
  <2>7. ControlOK'
    BY <2>1, <2>2, <2>3, KeepStep
  <2>8. PeerTypes'
    BY <1>15, BudgetAssumption DEF MoreNeeded, PeerTypes, decoding, peers
  <2>9. MoneyTypes'
    BY <1>15, MoneyStutter, Zenon DEF MoreNeeded
  <2>. QED  BY <2>7, <2>8, <2>9 DEF IInv
<1>16. ASSUME NEW s \in Sessions, Malformed(s)  PROVE IInv'
  <2>1. Outcome(s)
    BY <1>16, Zenon DEF Malformed, Outcome, Codes, Running
  <2>2. pc[s] \in Running /\ Dequeue(s, 0) /\ 0 <= queue[s]
    BY <1>16 DEF Malformed, Running, IInv, ControlOK, ControlTypes
  <2>7. ControlOK'
    BY <2>1, <2>2, OutcomeStep
  <2>8. PeerTypes'
    BY <1>16, PeerStutter, Zenon DEF Malformed, PeerVars
  <2>9. MoneyTypes'
    BY <1>16, MoneyStutter, Zenon DEF Malformed
  <2>. QED  BY <2>7, <2>8, <2>9 DEF IInv
<1>17. ASSUME NEW s \in Sessions, StreamEnds(s)  PROVE IInv'
  <2>1. Outcome(s)
    BY <1>17, Zenon DEF StreamEnds, Outcome, Codes, Running
  <2>2. pc[s] \in Running /\ Dequeue(s, 0) /\ 0 <= queue[s]
    BY <1>17 DEF StreamEnds, Running, IInv, ControlOK, ControlTypes
  <2>7. ControlOK'
    BY <2>1, <2>2, OutcomeStep
  <2>8. PeerTypes'
    BY <1>17, PeerStutter, Zenon DEF StreamEnds, PeerVars
  <2>9. MoneyTypes'
    BY <1>17, MoneyStutter, Zenon DEF StreamEnds
  <2>. QED  BY <2>7, <2>8, <2>9 DEF IInv
<1>18. ASSUME NEW s \in Sessions, deliver(s)  PROVE IInv'
  <2>1. ControlTypes'
    <3>1. queue[s] \in 0 .. INBOUND_QUEUE_DEPTH /\ queue[s] < INBOUND_QUEUE_DEPTH
      BY <1>18, Zenon DEF deliver, ControlOK, ControlTypes
    <3>2. queue' \in [Sessions -> 0 .. INBOUND_QUEUE_DEPTH]
      BY <1>18, <3>1, BudgetAssumption DEF deliver, ControlOK, ControlTypes
    <3>. QED  BY <1>18, <3>2, Zenon DEF deliver, ControlOK, ControlTypes, ends
  <2>2. RoutesExact'
    BY <1>18, Zenon DEF deliver, Goto, ControlOK, ControlTypes, RoutesExact, ends, Running
  <2>3. Undecided' /\ SameVerdict'
    BY <1>18, Zenon DEF deliver, Goto, ControlOK, ControlTypes, Undecided, SameVerdict, ends, Running
  <2>7. ControlOK'
    BY <2>1, <2>2, <2>3 DEF ControlOK
  <2>8. PeerTypes'
    BY <1>18, PeerStutter, Zenon DEF deliver, PeerVars
  <2>9. MoneyTypes'
    BY <1>18, MoneyStutter, Zenon DEF deliver
  <2>. QED  BY <2>7, <2>8, <2>9 DEF IInv
<1>19. ASSUME NEW s \in Sessions, TargetAnswers(s)  PROVE IInv'
  <2>7. ControlOK'
    BY <1>19, ControlStutter, Zenon DEF TargetAnswers, control
  <2>8. PeerTypes'
    BY <1>19, BudgetAssumption, Zenon DEF TargetAnswers, PeerTypes, decoding, peers
  <2>9. MoneyTypes'
    BY <1>19, MoneyStutter, Zenon DEF TargetAnswers
  <2>. QED  BY <2>7, <2>8, <2>9 DEF IInv
<1>20. ASSUME NEW s \in Sessions, ClientEnds(s)  PROVE IInv'
  <2>7. ControlOK'
    BY <1>20, ControlStutter, Zenon DEF ClientEnds, control
  <2>8. PeerTypes'
    BY <1>20, BudgetAssumption DEF ClientEnds, PeerTypes, decoding, peers
  <2>9. MoneyTypes'
    BY <1>20, MoneyStutter, Zenon DEF ClientEnds
  <2>. QED  BY <2>7, <2>8, <2>9 DEF IInv
<1>21. ASSUME NEW s \in Sessions, DeadlinePasses(s)  PROVE IInv'
  <2>1. ControlTypes'
    BY <1>21, Zenon DEF DeadlinePasses, Goto, ControlOK, ControlTypes, ends
  <2>2. RoutesExact'
    BY <1>21, Zenon DEF DeadlinePasses, Goto, ControlOK, ControlTypes, RoutesExact, ends, Running
  <2>3. Undecided' /\ SameVerdict'
    BY <1>21, Zenon DEF DeadlinePasses, Goto, ControlOK, ControlTypes, Undecided, SameVerdict, ends,
       Running
  <2>7. ControlOK'
    BY <2>1, <2>2, <2>3 DEF ControlOK
  <2>8. PeerTypes'
    BY <1>21, PeerStutter, Zenon DEF DeadlinePasses, PeerVars
  <2>9. MoneyTypes'
    BY <1>21, MoneyStutter, Zenon DEF DeadlinePasses
  <2>. QED  BY <2>7, <2>8, <2>9 DEF IInv
<1>22. ASSUME SettingsArrive  PROVE IInv'
  <2>1. ControlOK' /\ MoneyTypes'
    BY <1>22, ControlStutter, MoneyStutter, Zenon DEF SettingsArrive, control
  <2>2. PeerTypes'
    BY <1>22, Zenon DEF SettingsArrive, PeerTypes, decoding
  <2>. QED  BY <2>1, <2>2, Zenon DEF IInv
<1>23. CASE UNCHANGED vars
  BY <1>23, ControlStutter, PeerStutter, MoneyStutter, Zenon DEF vars, control, PeerVars, IInv
<1>. QED
  BY <1>1, <1>2, <1>3, <1>4, <1>5, <1>6, <1>7, <1>8, <1>9, <1>10, <1>11,
     <1>12, <1>13, <1>14, <1>15, <1>16, <1>17, <1>18, <1>19, <1>20, <1>21, <1>22,
     <1>23, ZenonT(40) DEF Next, Run

\* The inductive invariant of the UDP sessions.
LEMMA Invariance == Spec => []IInv
BY Initially, Inductive, PTL DEF Spec

-------------------------------------------------------------------------------

\* The state of the sessions stays within its types: no queue outgrows its depth,
\* no session charges past its budget, and no refund takes the connection's
\* allowance past its total.
THEOREM TypeCorrect == Spec => []TypeOK
<1>1. IInv => TypeOK
  BY Zenon DEF IInv, ControlOK, ControlTypes, PeerTypes, MoneyTypes, TypeOK
<1>. QED  BY Invariance, <1>1, PTL

\* The routing table of h3/connection.rs has a claim for exactly the requests
\* being admitted and the sessions running (DatagramReceiver's Drop).
THEOREM RoutesAreExact == Spec => []RoutesExact
<1>1. IInv => RoutesExact
  BY Zenon DEF IInv, ControlOK
<1>. QED  BY Invariance, <1>1, PTL

\* Both halves of a session's stream are ended, and with one verdict.
THEOREM OneVerdict == Spec => []SameVerdict
<1>1. IInv => SameVerdict
  BY Zenon DEF IInv, ControlOK
<1>. QED  BY Invariance, <1>1, PTL

-------------------------------------------------------------------------------
(* How the sending half of a stream may end, by what its session is doing.    *)

Verdicts(s) ==
    CASE pc[s] = "ended" -> {"open"}
      [] pc[s] \in {"new", "admit"} -> {"refused"}
      [] pc[s] = "write" -> {"lost", "REQUEST_CANCELLED"}
      [] OTHER -> {"fin", "DATAGRAM_ERROR", "MESSAGE_ERROR"}
                  \union (IF answered[s] THEN {} ELSE {"REQUEST_CANCELLED"})

SendMoves(s) ==
    send' = send \/ \E v \in Verdicts(s) : send' = [send EXCEPT ![s] = v]

\* A payload for the target ends a stream with REQUEST_CANCELLED only where the
\* target has not answered.
LEMMA ForwardSends ==
  ASSUME NEW s \in Sessions, NEW next, pc[s] \in {"wait", "decode"}, send[s] = "open",
         forward_to_target(s, next)
  PROVE  SendMoves(s)
BY DEF forward_to_target, SendToTarget, Unlimited, Stop, Aborted, Continue, touch, ends,
       SendMoves, Verdicts

\* Every step ends the sending half of at most its own session's stream, and in
\* one of the ways its place allows.
LEMMA SendStep ==
  ASSUME IInv, Next
  PROVE  send' = send \/ \E s \in Sessions : SendMoves(s)
<1>. Undecided
  BY Zenon DEF IInv, ControlOK
<1>1. ASSUME NEW s \in Sessions, NewRequest(s)  PROVE SendMoves(s)
  BY <1>1, Zenon DEF NewRequest, ends, SendMoves, Verdicts
<1>2. ASSUME NEW s \in Sessions, Claim(s)  PROVE SendMoves(s)
  BY <1>2, Zenon DEF Claim, ends, SendMoves, Verdicts
<1>3. ASSUME NEW s \in Sessions, Refused(s)  PROVE SendMoves(s)
  BY <1>3, Zenon DEF Refused, ends, SendMoves, Verdicts
<1>4. ASSUME NEW s \in Sessions, Establish(s)  PROVE SendMoves(s)
  BY <1>4, Zenon DEF Establish, Continue, ends, SendMoves, Verdicts
<1>5. ASSUME NEW s \in Sessions, ReadClock(s)  PROVE SendMoves(s)
  BY <1>5, Zenon DEF ReadClock, Stop, Continue, Undecided, ends, SendMoves, Verdicts
<1>6. ASSUME NEW s \in Sessions, WaitExpires(s)  PROVE SendMoves(s)
  BY <1>6, Zenon DEF WaitExpires, Stop, Undecided, ends, SendMoves, Verdicts
<1>7. ASSUME NEW s \in Sessions, Inbound(s)  PROVE SendMoves(s)
  <2>1. pc[s] \in {"wait", "decode"} /\ send[s] = "open"
    BY <1>7, Zenon DEF Inbound, Undecided
  <2>2. ASSUME forward_to_target(s, "top")  PROVE SendMoves(s)
    BY <2>1, <2>2, ForwardSends
  <2>. QED  BY <1>7, <2>2, Zenon DEF Inbound
<1>8. ASSUME NEW s \in Sessions, FromTarget(s)  PROVE SendMoves(s)
  BY <1>8, Zenon DEF FromTarget, touch, ends, SendMoves, Verdicts
<1>9. ASSUME NEW s \in Sessions, SocketFails(s)  PROVE SendMoves(s)
  BY <1>9, Zenon DEF SocketFails, Stop, Continue, Undecided, ends, SendMoves, Verdicts
<1>10. ASSUME NEW s \in Sessions, Written(s)  PROVE SendMoves(s)
  BY <1>10, Zenon DEF Written, Continue, ends, SendMoves, Verdicts
<1>11. ASSUME NEW s \in Sessions, WriteFails(s)  PROVE SendMoves(s)
  BY <1>11, Zenon DEF WriteFails, ends, SendMoves, Verdicts
<1>12. ASSUME NEW s \in Sessions, WriteStalled(s)  PROVE SendMoves(s)
  BY <1>12, Zenon DEF WriteStalled, Aborted, ends, SendMoves, Verdicts
<1>13. ASSUME NEW s \in Sessions, ReadChunk(s)  PROVE SendMoves(s)
  BY <1>13, Zenon DEF ReadChunk, Continue, ends, SendMoves, Verdicts
<1>14. ASSUME NEW s \in Sessions, NextCapsule(s)  PROVE SendMoves(s)
  <2>1. pc[s] \in {"wait", "decode"} /\ send[s] = "open"
    BY <1>14, Zenon DEF NextCapsule, Undecided
  <2>2. ASSUME forward_to_target(s, "decode")  PROVE SendMoves(s)
    BY <2>1, <2>2, ForwardSends, Zenon
  <2>. QED  BY <1>14, <2>2, Zenon DEF NextCapsule, Continue, ends, SendMoves
<1>15. ASSUME NEW s \in Sessions, MoreNeeded(s)  PROVE SendMoves(s)
  BY <1>15, Zenon DEF MoreNeeded, Continue, ends, SendMoves, Verdicts
<1>16. ASSUME NEW s \in Sessions, Malformed(s)  PROVE SendMoves(s)
  BY <1>16, Zenon DEF Malformed, Aborted, ends, SendMoves, Verdicts
<1>17. ASSUME NEW s \in Sessions, StreamEnds(s)  PROVE SendMoves(s)
  BY <1>17, Zenon DEF StreamEnds, Stop, Aborted, Undecided, ends, SendMoves, Verdicts
<1>18. ASSUME NEW s \in Sessions, deliver(s)  PROVE SendMoves(s)
  BY <1>18, Zenon DEF deliver, ends, SendMoves, Verdicts
<1>19. ASSUME NEW s \in Sessions, TargetAnswers(s)  PROVE SendMoves(s)
  BY <1>19, Zenon DEF TargetAnswers, ends, SendMoves, Verdicts
<1>20. ASSUME NEW s \in Sessions, ClientEnds(s)  PROVE SendMoves(s)
  BY <1>20, Zenon DEF ClientEnds, ends, SendMoves, Verdicts
<1>21. ASSUME NEW s \in Sessions, DeadlinePasses(s)  PROVE SendMoves(s)
  BY <1>21, Zenon DEF DeadlinePasses, ends, SendMoves, Verdicts
<1>22. ASSUME SettingsArrive  PROVE send' = send
  BY <1>22, Zenon DEF SettingsArrive, ends
<1>. QED
  BY <1>1, <1>2, <1>3, <1>4, <1>5, <1>6, <1>7, <1>8, <1>9, <1>10, <1>11,
     <1>12, <1>13, <1>14, <1>15, <1>16, <1>17, <1>18, <1>19, <1>20, <1>21, <1>22, ZenonT(40) DEF Next, Run

-------------------------------------------------------------------------------

\* A capsule cut short is never followed by a FIN (Session::forward_to_client).
THEOREM FinFollowsWhole == Spec => FinIsWhole
<1>1. IInv /\ [Next]_vars =>
        [\A s \in Sessions : pc[s] = "write" => send'[s] # "fin"]_vars
  <2>. SUFFICES ASSUME IInv, Next, NEW s \in Sessions, pc[s] = "write"
                PROVE  send'[s] # "fin"
    BY Zenon
  <2>1. send[s] = "open" /\ send \in [Sessions -> Codes \union {"open", "lost", "fin", "refused"}]
    BY Zenon DEF IInv, ControlOK, ControlTypes, Undecided
  <2>2. ASSUME NEW t \in Sessions, SendMoves(t)  PROVE send'[s] # "fin"
    BY <2>1, <2>2, Zenon DEF SendMoves, Verdicts
  <2>. QED  BY <2>1, <2>2, SendStep, Zenon
<1>. QED  BY Invariance, <1>1, PTL DEF Spec, FinIsWhole

\* A session whose target has answered is past both budgets
\* (Session::forward_to_target and charge_unanswered).
THEOREM AnswerEndsTheLimit == Spec => AnsweredIsFree
<1>1. IInv /\ [Next]_vars =>
        [\A s \in Sessions :
            answered[s] /\ send'[s] = "REQUEST_CANCELLED" =>
                send[s] = "REQUEST_CANCELLED" \/ pc[s] = "write"]_vars
  <2>. SUFFICES ASSUME IInv, Next, NEW s \in Sessions, answered[s],
                       send'[s] = "REQUEST_CANCELLED"
                PROVE  send[s] = "REQUEST_CANCELLED" \/ pc[s] = "write"
    BY Zenon
  <2>1. send \in [Sessions -> Codes \union {"open", "lost", "fin", "refused"}]
    BY Zenon DEF IInv, ControlOK, ControlTypes
  <2>2. ASSUME NEW t \in Sessions, SendMoves(t)
        PROVE  send[s] = "REQUEST_CANCELLED" \/ pc[s] = "write"
    BY <2>1, <2>2, Zenon DEF SendMoves, Verdicts
  <2>. QED  BY <2>2, SendStep, Zenon
<1>. QED  BY Invariance, <1>1, PTL DEF Spec, AnsweredIsFree

\* A session past its deadline comes to its end unless a packet crosses the proxy:
\* each step of its task that leaves it overdue brings it nearer to the reading of
\* the clock, where it stops (before_deadline).
THEOREM OverdueIsBounded == Spec => IdleEnds
<1>1. IInv /\ [Next]_vars =>
        [\A s \in Sessions :
            Overdue(s) /\ Overdue(s)' /\ Run(s) => StepsLeft(s)' < StepsLeft(s)]_vars
  <2>. SUFFICES ASSUME IInv, NEW s \in Sessions, Overdue(s), Overdue(s)', Run(s)
                PROVE  StepsLeft(s)' < StepsLeft(s)
    BY Zenon
  <2>1. /\ pc \in [Sessions -> Running \union {"new", "admit", "ended"}]
        /\ expired \in [Sessions -> BOOLEAN] /\ left \in [Sessions -> 0 .. MaxCapsules]
        /\ left[s] \in 0 .. MaxCapsules /\ MaxCapsules \in Nat
    BY BudgetAssumption, ZenonT(40) DEF IInv, ControlOK, ControlTypes, PeerTypes
  <2>2. expired[s] /\ expired'[s] = TRUE /\ pc'[s] \in Running
    BY Zenon DEF Overdue
  <2>3. ~Drop(s)
    BY <2>1, <2>2, Zenon DEF Drop, Goto, Running
  <2>4. \A next \in Running : ~touch(s, next)
    BY <2>1, <2>2, Zenon DEF touch
  <2>5. \A next \in Running : forward_to_target(s, next) => Continue(s, next)
    BY <2>3, <2>4, Zenon DEF forward_to_target, SendToTarget, Stop, Aborted
  <2>6. \A next \in Running : Continue(s, next) => pc'[s] = next
    BY <2>1, Zenon DEF Continue, Goto
  <2>7. CASE pc[s] = "top"
    <3>1. ReadClock(s)
      BY <2>7, Zenon DEF Run, ReadClock, WaitExpires, Inbound, FromTarget, SocketFails, Written,
                  WriteFails, WriteStalled, ReadChunk, NextCapsule, MoreNeeded, Malformed,
                  StreamEnds
    <3>. QED  BY <2>2, <2>3, <3>1, Zenon DEF ReadClock, Stop
  <2>8. CASE pc[s] = "write"
    <3>1. Written(s)
      BY <2>3, <2>8, Zenon DEF Run, ReadClock, WaitExpires, Inbound, FromTarget, SocketFails, Written,
                        WriteFails, WriteStalled, ReadChunk, NextCapsule, MoreNeeded,
                        Malformed, StreamEnds, Aborted
    <3>2. pc'[s] = "top"
      BY <2>6, <3>1, Zenon DEF Written, Running
    <3>. QED  BY <2>8, <3>2 DEF StepsLeft
  <2>9. CASE pc[s] = "decode"
    <3>1. NextCapsule(s) \/ MoreNeeded(s)
      BY <2>3, <2>9, Zenon DEF Run, ReadClock, WaitExpires, Inbound, FromTarget, SocketFails, Written,
                        WriteFails, WriteStalled, ReadChunk, Malformed, StreamEnds, Aborted
    <3>2. CASE NextCapsule(s)
      <4>1. pc'[s] = "decode"
        BY <2>5, <2>6, <3>2, Zenon DEF NextCapsule, Running
      <4>2. left'[s] = left[s] - 1
        BY <2>1, <3>2, Zenon DEF NextCapsule
      <4>. QED  BY <2>1, <2>9, <4>1, <4>2 DEF StepsLeft
    <3>3. CASE MoreNeeded(s)
      <4>1. pc'[s] = "top"
        BY <2>6, <3>3, Zenon DEF MoreNeeded, Running
      <4>. QED  BY <2>1, <2>9, <4>1 DEF StepsLeft
    <3>. QED  BY <3>1, <3>2, <3>3, Zenon
  <2>10. CASE pc[s] = "wait"
    <3>1. Inbound(s) \/ SocketFails(s) \/ ReadChunk(s)
      <4>1. ~FromTarget(s)
        BY <2>4, Zenon DEF FromTarget, Running
      <4>2. ~WaitExpires(s) /\ ~StreamEnds(s)
        BY <2>3, Zenon DEF WaitExpires, StreamEnds, Stop, Aborted
      <4>. QED  BY <2>10, <4>1, <4>2, Zenon DEF Run, ReadClock, Written, WriteFails, WriteStalled,
                                         NextCapsule, MoreNeeded, Malformed
    <3>2. CASE Inbound(s) \/ SocketFails(s)
      <4>1. pc'[s] = "top"
        BY <2>3, <2>5, <2>6, <3>2, Zenon DEF Inbound, SocketFails, Stop, Running
      <4>. QED  BY <2>1, <2>10, <4>1 DEF StepsLeft
    <3>3. CASE ReadChunk(s)
      <4>1. pc'[s] = "decode"
        BY <2>6, <3>3, Zenon DEF ReadChunk, Running
      <4>2. left'[s] = MaxCapsules
        BY <2>1, <3>3 DEF ReadChunk
      <4>. QED  BY <2>1, <2>10, <4>1, <4>2 DEF StepsLeft
    <3>. QED  BY <3>1, <3>2, <3>3, Zenon
  <2>. QED  BY <2>7, <2>8, <2>9, <2>10, Zenon DEF Overdue, Running
<1>. QED  BY Invariance, <1>1, PTL DEF Spec, IdleEnds

-------------------------------------------------------------------------------
(* The allowance, exactly: what a session has charged is what it has tried       *)
(* while its target is silent, and nothing once it has answered.               *)

Silent == {s \in Sessions : ~answered[s]}

Accounts(s) ==
    /\ ~answered[s] => charged[s] = attempts[s]
    /\ answered[s] => charged[s] = 0

BudgetInv ==
    /\ budget = total - forfeited - SumOver(attempts, Silent)
    /\ \A s \in Sessions : Accounts(s)

\* The sum is over a finite set, and of natural numbers.
LEMMA SilentSums ==
  ASSUME MoneyTypes
  PROVE  /\ IsFiniteSet(Silent) /\ \A s \in Silent : attempts[s] \in Nat
         /\ SumOver(attempts, Silent) \in Nat
<1>1. IsFiniteSet(Silent)
  BY BudgetAssumption, FS_Subset, Zenon DEF Silent
<1>2. \A s \in Silent : attempts[s] \in Nat
  BY Zenon DEF Silent, MoneyTypes
<1>. QED  BY <1>1, <1>2, SumIsNatural, Zenon

\* Only a charge, an answer and a new request touch the allowance's account.
LEMMA MoneyMoves ==
  ASSUME Next
  PROVE  \/ UNCHANGED money
         \/ \E s \in Sessions :
               \/ ~Unlimited(s) /\ ~Muted(s) /\ charge_unanswered(s)
               \/ FromTarget(s) \/ NewRequest(s)
<1>1. ASSUME NEW s \in Sessions, NEW next, forward_to_target(s, next)
      PROVE  UNCHANGED money \/ (~Unlimited(s) /\ ~Muted(s) /\ charge_unanswered(s))
  BY <1>1, Zenon DEF forward_to_target
<1>2. ASSUME NEW s \in Sessions, Run(s), ~FromTarget(s)
      PROVE  UNCHANGED money \/ (~Unlimited(s) /\ ~Muted(s) /\ charge_unanswered(s))
  BY <1>1, <1>2, Zenon DEF Run, ReadClock, WaitExpires, Inbound, SocketFails, Written,
     WriteFails, WriteStalled, ReadChunk, NextCapsule, MoreNeeded, Malformed, StreamEnds
<1>. QED
  BY <1>2, Zenon DEF Next, SettingsArrive, Claim, Refused, Establish, deliver, TargetAnswers,
     ClientEnds, DeadlinePasses

\* A charge takes one from the allowance for one more that was tried.
LEMMA BudgetCharge ==
  ASSUME MoneyTypes, BudgetInv, NEW s \in Sessions, ~Unlimited(s), charge_unanswered(s)
  PROVE  BudgetInv'
<1>1. s \in Silent /\ Silent' = Silent
  BY Zenon DEF Silent, Unlimited, charge_unanswered
<1>2. /\ budget' = budget - 1 /\ forfeited' = forfeited /\ answered' = answered
      /\ attempts' = [attempts EXCEPT ![s] = @ + 1] /\ charged' = [charged EXCEPT ![s] = @ + 1]
  BY Zenon DEF charge_unanswered
<1>3. attempts'[s] = attempts[s] + 1 /\ \A t \in Sessions \ {s} : attempts'[t] = attempts[t]
  BY <1>2, Zenon DEF MoneyTypes
<1>4. charged'[s] = charged[s] + 1 /\ \A t \in Sessions \ {s} : charged'[t] = charged[t]
  BY <1>2, Zenon DEF MoneyTypes
<1>5. \A t \in Silent : attempts[t] \in Int /\ attempts'[t] \in Int
  <2>1. \A t \in Silent : attempts[t] \in Nat
    BY SilentSums, Zenon
  <2>2. ASSUME NEW t \in Silent PROVE attempts'[t] \in Int
    <3>1. t \in Sessions
      BY Zenon DEF Silent
    <3>2. CASE t = s
      BY <2>1, <3>2, <1>3, SMT
    <3>3. CASE t # s
      BY <2>1, <3>1, <3>3, <1>3, SMT
    <3>. QED  BY <3>2, <3>3, Zenon
  <2>. QED  BY <2>1, <2>2, SMT
<1>6. \A t \in Silent \ {s} : attempts'[t] = attempts[t]
  BY <1>3, Zenon DEF Silent
<1>7. SumOver(attempts', Silent) = SumOver(attempts, Silent) + attempts'[s] - attempts[s]
  BY <1>1, <1>5, <1>6, SilentSums, SumUpdate, ZenonT(40)
<1>8. budget' = total' - forfeited' - SumOver(attempts, Silent)'
  <2>1. budget = total - forfeited - SumOver(attempts, Silent)
    BY Zenon DEF BudgetInv
  <2>2. SumOver(attempts, Silent)' = SumOver(attempts', Silent)
    BY <1>1, Zenon
  <2>3. attempts[s] \in Nat /\ SumOver(attempts, Silent) \in Nat /\ forfeited \in Nat /\ total \in Nat
    BY <1>1, SilentSums, TotalIsNat, Zenon DEF MoneyTypes
  <2>4. SumOver(attempts', Silent) = SumOver(attempts, Silent) + 1
    BY <1>3, <1>7, <2>3, SMT
  <2>5. total' = total
    BY Zenon DEF total
  <2>6. total' - forfeited' - (SumOver(attempts, Silent) + 1) = budget - 1
    BY <1>2, <2>1, <2>3, <2>5, SMT
  <2>. QED  BY <1>2, <2>2, <2>4, <2>6, Zenon
<1>9. \A t \in Sessions : Accounts(t)'
  <2>1. \A t \in Sessions : Accounts(t)
    BY Zenon DEF BudgetInv
  <2>2. ASSUME NEW t \in Sessions PROVE Accounts(t)'
    <3>1. CASE t = s
      BY <1>1, <1>2, <1>3, <1>4, <2>1, <3>1, Zenon DEF Accounts, Silent
    <3>2. CASE t # s
      BY <1>2, <1>3, <1>4, <2>1, <3>2, Zenon DEF Accounts
    <3>. QED  BY <3>1, <3>2, Zenon
  <2>. QED  BY <2>2, Zenon
<1>. QED  BY <1>8, <1>9, Zenon DEF BudgetInv

\* The first answer gives back what its session tried, and a later one nothing:
\* the allowance is never short of room for it.
LEMMA BudgetRefund ==
  ASSUME MoneyTypes, BudgetInv, NEW s \in Sessions, FromTarget(s)
  PROVE  BudgetInv'
<1>1. /\ answered' = [answered EXCEPT ![s] = TRUE] /\ charged' = [charged EXCEPT ![s] = 0]
      /\ budget' = refund_unanswered(charged[s])
      /\ attempts' = attempts /\ forfeited' = forfeited
  BY Zenon DEF FromTarget
<1>2. Silent' = Silent \ {s}
  BY <1>1, Zenon DEF Silent, MoneyTypes
<1>3. \A t \in Sessions : Accounts(t)'
  <2>1. \A t \in Sessions : Accounts(t)
    BY Zenon DEF BudgetInv
  <2>2. ASSUME NEW t \in Sessions PROVE Accounts(t)'
    <3>1. CASE t = s
      BY <1>1, <3>1, Zenon DEF Accounts, MoneyTypes
    <3>2. CASE t # s
      <4>1. answered'[t] = answered[t] /\ charged'[t] = charged[t]
        BY <1>1, <3>2, Zenon DEF MoneyTypes
      <4>. QED  BY <1>1, <2>1, <4>1, Zenon DEF Accounts
    <3>. QED  BY <3>1, <3>2, Zenon
  <2>. QED  BY <2>2, Zenon
<1>4. /\ forfeited \in Nat /\ total \in Nat /\ attempts[s] \in Nat /\ charged[s] \in Nat
      /\ SumOver(attempts, Silent) \in Nat
  <2>1. charged[s] \in 0 .. unanswered_packet_budget /\ forfeited \in Nat /\ attempts[s] \in Nat
    BY Zenon DEF MoneyTypes
  <2>2. charged[s] \in Nat
    BY <2>1, BudgetAssumption, SMT
  <2>. QED  BY <2>1, <2>2, SilentSums, TotalIsNat, Zenon
<1>5. SumOver(attempts, Silent) = charged[s] + SumOver(attempts, Silent')
  <2>1. CASE s \in Silent
    <3>1. \A t \in Silent : attempts[t] \in Int
      BY SilentSums, SMT
    <3>2. SumOver(attempts, Silent) = attempts[s] + SumOver(attempts, Silent \ {s})
      BY <2>1, <3>1, SilentSums, SumRemove
    <3>3. charged[s] = attempts[s]
      BY <2>1, Zenon DEF BudgetInv, Accounts, Silent
    <3>. QED  BY <1>2, <3>2, <3>3, Zenon
  <2>2. CASE s \notin Silent
    <3>1. charged[s] = 0
      BY <2>2, Zenon DEF BudgetInv, Accounts, Silent
    <3>2. Silent' = Silent
      BY <1>2, <2>2, Zenon
    <3>. QED  BY <1>4, <3>1, <3>2, SMT
  <2>. QED  BY <2>1, <2>2, Zenon
<1>6. SumOver(attempts, Silent') \in Nat
  <2>1. IsFiniteSet(Silent') /\ \A t \in Silent' : attempts[t] \in Nat
    BY <1>2, SilentSums, FS_Subset, Zenon
  <2>. QED  BY <2>1, SumIsNatural, Zenon
<1>7. budget + charged[s] = total - forfeited - SumOver(attempts, Silent')
  <2>1. budget = total - forfeited - SumOver(attempts, Silent)
    BY Zenon DEF BudgetInv
  <2>. QED  BY <1>4, <1>5, <1>6, <2>1, SMT
<1>8. budget + charged[s] \in Int /\ budget + charged[s] <= total
  BY <1>4, <1>6, <1>7, SMT
<1>9. refund_unanswered(charged[s]) = budget + charged[s]
  <2> DEFINE m == budget + charged[s]
  <2>1. m \in {m, total} /\ \A y \in {m, total} : m <= y
    BY <1>4, <1>8, SMT
  <2>2. \A x \in {m, total} : (\A y \in {m, total} : x <= y) => x = m
    BY <1>4, <1>8, SMT
  <2>. QED  BY <2>1, <2>2 DEF refund_unanswered, Min
<1>10. budget' = total' - forfeited' - SumOver(attempts, Silent)'
  <2>1. total' = total
    BY Zenon DEF total
  <2>2. SumOver(attempts, Silent)' = SumOver(attempts, Silent')
    BY <1>1, Zenon
  <2>. QED  BY <1>1, <1>7, <1>9, <2>1, <2>2, Zenon
<1>. QED  BY <1>3, <1>10, Zenon DEF BudgetInv

\* A new request starts an account of its own; what its predecessor tried in vain
\* stays missing.
LEMMA BudgetRenew ==
  ASSUME MoneyTypes, BudgetInv, NEW s \in Sessions, NewRequest(s)
  PROVE  BudgetInv'
<1>1. /\ answered' = [answered EXCEPT ![s] = FALSE] /\ charged' = [charged EXCEPT ![s] = 0]
      /\ attempts' = [attempts EXCEPT ![s] = 0] /\ budget' = budget
      /\ forfeited' = IF answered[s] THEN forfeited ELSE forfeited + attempts[s]
  BY Zenon DEF NewRequest
<1>2. Silent' = Silent \union {s}
  BY <1>1, Zenon DEF Silent, MoneyTypes
<1>3. attempts'[s] = 0 /\ \A t \in Sessions \ {s} : attempts'[t] = attempts[t]
  BY <1>1, Zenon DEF MoneyTypes
<1>4. \A t \in Sessions : Accounts(t)'
  <2>1. \A t \in Sessions : Accounts(t)
    BY Zenon DEF BudgetInv
  <2>2. ASSUME NEW t \in Sessions PROVE Accounts(t)'
    <3>1. CASE t = s
      <4>1. ~answered'[s] /\ charged'[s] = 0
        BY <1>1, Zenon DEF MoneyTypes
      <4>. QED  BY <1>3, <3>1, <4>1, Zenon DEF Accounts
    <3>2. CASE t # s
      <4>1. answered'[t] = answered[t] /\ charged'[t] = charged[t]
        BY <1>1, <3>2, Zenon DEF MoneyTypes
      <4>. QED  BY <1>3, <2>1, <3>2, <4>1, Zenon DEF Accounts
    <3>. QED  BY <3>1, <3>2, Zenon
  <2>. QED  BY <2>2, Zenon
<1> DEFINE Rest == Silent \ {s}
<1>5. /\ IsFiniteSet(Rest) /\ SumOver(attempts, Rest) \in Nat
      /\ SumOver(attempts', Rest) = SumOver(attempts, Rest)
  <2>1. IsFiniteSet(Rest) /\ \A t \in Rest : attempts[t] \in Nat
    BY SilentSums, FS_Subset, Zenon
  <2>2. \A t \in Rest : attempts'[t] = attempts[t]
    BY <1>3, Zenon DEF Silent
  <2> HIDE DEF Rest
  <2>3. SumOver(attempts, Rest) \in Nat
    BY <2>1, SumIsNatural, Zenon
  <2>4. SumOver(attempts', Rest) = SumOver(attempts, Rest)
    BY <2>1, <2>2, SumSame, Zenon
  <2>. QED  BY <2>1, <2>3, <2>4, Zenon
<1>6. SumOver(attempts', Silent') = SumOver(attempts, Rest)
  <2>1. IsFiniteSet(Silent') /\ s \in Silent' /\ Silent' \ {s} = Rest
    BY <1>2, SilentSums, FS_AddElement, Zenon
  <2>2. \A t \in Silent' : attempts'[t] \in Int
    <3>1. \A t \in Silent : attempts[t] \in Nat
      BY SilentSums, Zenon
    <3>2. \A t \in Silent' : t = s \/ (t \in Silent /\ attempts'[t] = attempts[t])
      BY <1>2, <1>3, Zenon DEF Silent
    <3>. QED  BY <1>3, <3>1, <3>2, SMT
  <2> HIDE DEF Rest
  <2>3. SumOver(attempts', Silent') = attempts'[s] + SumOver(attempts', Silent' \ {s})
    BY <2>1, <2>2, SumRemove
  <2>. QED  BY <1>3, <1>5, <2>1, <2>3, SMT
<1>7. SumOver(attempts, Silent) + forfeited = SumOver(attempts, Rest) + forfeited'
  <2>0. forfeited \in Nat /\ attempts[s] \in Nat
    BY Zenon DEF MoneyTypes
  <2>1. CASE s \in Silent
    <3>1. \A t \in Silent : attempts[t] \in Int
      BY SilentSums, SMT
    <3>2. SumOver(attempts, Silent) = attempts[s] + SumOver(attempts, Rest)
      BY <2>1, <3>1, SilentSums, SumRemove
    <3>3. forfeited' = forfeited + attempts[s]
      BY <1>1, <2>1, Zenon DEF Silent
    <3> HIDE DEF Rest
    <3>. QED  BY <1>5, <2>0, <3>2, <3>3, SMT
  <2>2. CASE s \notin Silent
    <3>1. Rest = Silent
      BY <2>2, Zenon
    <3>2. forfeited' = forfeited
      BY <1>1, <2>2, Zenon DEF Silent
    <3> HIDE DEF Rest
    <3>. QED  BY <3>1, <3>2, Zenon
  <2>. QED  BY <2>1, <2>2, Zenon
<1> HIDE DEF Rest
<1>8. budget' = total' - forfeited' - SumOver(attempts, Silent)'
  <2>1. total' = total /\ total \in Nat /\ forfeited \in Nat
    BY TotalIsNat, Zenon DEF total, MoneyTypes
  <2>2. SumOver(attempts, Silent)' = SumOver(attempts', Silent')
    BY Zenon
  <2>3. budget = total - forfeited - SumOver(attempts, Silent) /\ SumOver(attempts, Silent) \in Nat
    BY SilentSums, Zenon DEF BudgetInv
  <2>4. forfeited' \in Int
    BY <1>1, SMT DEF MoneyTypes
  <2>5. budget = total - forfeited' - SumOver(attempts, Rest)
    BY <1>5, <1>7, <2>1, <2>3, <2>4, SMT
  <2>. QED  BY <1>1, <1>6, <2>1, <2>2, <2>5, Zenon
<1>. QED  BY <1>4, <1>8, Zenon DEF BudgetInv

\* The allowance is exact in every state.
LEMMA BudgetHeld == Spec => []BudgetInv
<1>1. Init => BudgetInv
  <2>. SUFFICES ASSUME Init PROVE BudgetInv
    OBVIOUS
  <2>1. MoneyTypes
    BY Initially, Zenon DEF IInv
  <2>2. /\ budget = total /\ forfeited = 0 /\ \A s \in Sessions : attempts[s] = 0
        /\ \A s \in Sessions : charged[s] = 0 /\ ~answered[s]
    BY Zenon DEF Init
  <2>3. SumOver(attempts, Silent) = 0
    BY <2>1, <2>2, SilentSums, SumOfZeros, Zenon DEF Silent
  <2>4. budget = total - forfeited - SumOver(attempts, Silent)
    BY <2>2, <2>3, TotalIsNat, SMT
  <2>5. \A s \in Sessions : Accounts(s)
    BY <2>2, Zenon DEF Accounts
  <2>. QED  BY <2>4, <2>5, Zenon DEF BudgetInv
<1>2. IInv /\ BudgetInv /\ [Next]_vars => BudgetInv'
  <2>. SUFFICES ASSUME IInv, BudgetInv, [Next]_vars PROVE BudgetInv'
    OBVIOUS
  <2>1. MoneyTypes
    BY Zenon DEF IInv
  <2>2. CASE UNCHANGED money
    <3>1. UNCHANGED <<answered, charged, budget, attempts, forfeited>>
      BY <2>2, Zenon DEF money
    <3>2. Silent' = Silent /\ \A s \in Sessions : Accounts(s)' <=> Accounts(s)
      BY <3>1, Zenon DEF Silent, Accounts
    <3>3. SumOver(attempts, Silent)' = SumOver(attempts, Silent) /\ total' = total
      BY <3>1, <3>2, Zenon DEF total
    <3>. QED  BY <3>1, <3>2, <3>3, Zenon DEF BudgetInv
  <2>3. CASE UNCHANGED vars
    BY <2>2, <2>3, Zenon DEF vars
  <2>4. CASE Next
    BY <2>1, <2>2, <2>4, MoneyMoves, BudgetCharge, BudgetRefund, BudgetRenew, Zenon
  <2>. QED  BY <2>3, <2>4, Zenon
<1>. QED  BY <1>1, <1>2, Invariance, PTL DEF Spec

\* The connection's allowance (charge_unanswered and refund_unanswered) is short of
\* its total by exactly what silent targets were sent, over any number of sessions
\* and requests: a refund never pays twice, and none is lost or cut off by the cap.
THEOREM AllowanceIsExact == Spec => []BudgetExact
<1>1. IInv /\ BudgetInv => BudgetExact
  <2>. SUFFICES ASSUME IInv, BudgetInv PROVE BudgetExact
    BY Zenon
  <2>1. budget = total - forfeited - MapThenSumSet(LAMBDA s : attempts[s], Silent)
    BY Zenon DEF BudgetInv, SumOver
  <2>2. ASSUME NEW s \in Silent PROVE attempts[s] <= unanswered_packet_budget
    <3>1. charged[s] = attempts[s] /\ charged[s] \in 0 .. unanswered_packet_budget
      BY Zenon DEF BudgetInv, Accounts, Silent, IInv, MoneyTypes
    <3>. QED  BY <3>1, BudgetAssumption, SMT
  <2>. QED  BY <2>1, <2>2, Zenon DEF BudgetExact, Silent
<1>. QED  BY <1>1, BudgetHeld, Invariance, PTL
===============================================================================
