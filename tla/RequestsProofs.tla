---------------------------- MODULE RequestsProofs -----------------------------
(***************************************************************************)
(* Proofs about Requests and the policy it dials by.                         *)
(***************************************************************************)
EXTENDS Requests, Sums

(***************************************************************************)
(* What Kept keeps.                                                          *)
(***************************************************************************)
\* One unfolding of the recursion of Kept, up to n.
KeptStep(s, T, g, n) ==
    [i \in 0 .. n |->
        IF i = 0 THEN <<>>
        ELSE IF s[i] \in T THEN Append(g[i - 1], s[i]) ELSE g[i - 1]]

\* The recursion of Kept has a solution on every prefix.
LEMMA KeptExists ==
    ASSUME NEW s, NEW T, NEW N \in Nat
    PROVE  \E g : g = KeptStep(s, T, g, N)
<1> DEFINE Bad == {n \in Nat : ~ \E g : g = KeptStep(s, T, g, n)}
<1>1. SUFFICES ASSUME Bad # {} PROVE FALSE
  BY Zenon
<1>2. PICK n \in Bad : \A m \in Bad : n <= m
  <2>1. Bad \in SUBSET Nat
    BY Zenon
  <2> HIDE DEF Bad
  <2>. QED
    BY <1>1, <2>1, LeastNatural, Zenon
<1>3. CASE n = 0
  <2> DEFINE g == [i \in 0 .. 0 |-> <<>>]
  <2>1. g = KeptStep(s, T, g, 0)
    BY DEF KeptStep
  <2>. QED
    BY <1>2, <1>3, <2>1, Zenon
<1>4. CASE n # 0
  <2>1. n - 1 \in Nat /\ n - 1 \notin Bad
    BY <1>2, <1>4
  <2>2. PICK g : g = KeptStep(s, T, g, n - 1)
    BY <2>1, Zenon
  <2> DEFINE Value(i) == IF i = 0 THEN <<>>
                         ELSE IF s[i] \in T THEN Append(g[i - 1], s[i]) ELSE g[i - 1]
             h == [i \in 0 .. n |-> Value(i)]
  <2>3. \A i \in 0 .. n - 1 : g[i] = Value(i)
    BY <2>1, <2>2, Zenon DEF KeptStep
  <2>4. \A i \in 0 .. n - 1 : h[i] = g[i]
    BY <2>1, <2>3
  <2>5. \A i \in 0 .. n : i # 0 => i - 1 \in 0 .. n - 1
    BY <2>1
  <2>6. h = KeptStep(s, T, h, n)
    BY <2>4, <2>5, Zenon DEF KeptStep
  <2> HIDE DEF h
  <2>. QED
    BY <1>2, <2>6, Zenon
<1>. QED
  BY <1>3, <1>4, Zenon

\* Kept returns elements of the list that are in the set.
LEMMA KeptIsIn ==
    ASSUME NEW S, NEW s \in Seq(S), NEW T
    PROVE  Kept(s, T) \in Seq(S \cap T)
<1> DEFINE kept == CHOOSE g : g = KeptStep(s, T, g, Len(s))
<1>1. Kept(s, T) = kept[Len(s)]
  BY Zenon DEF Kept, KeptStep
<1>2. kept = KeptStep(s, T, kept, Len(s))
  BY KeptExists
<1> HIDE DEF kept
<1> DEFINE Bad == {n \in 0 .. Len(s) : kept[n] \notin Seq(S \cap T)}
<1>3. SUFFICES ASSUME Bad # {} PROVE FALSE
  BY <1>1
<1>4. PICK n \in Bad : \A m \in Bad : n <= m
  <2>1. Bad \in SUBSET Nat
    OBVIOUS
  <2> HIDE DEF Bad
  <2>. QED
    BY <1>3, <2>1, LeastNatural, Zenon
<1>5. n # 0
  BY <1>2, <1>4 DEF KeptStep
<1>6. n - 1 \in 0 .. Len(s) /\ n - 1 \notin Bad /\ n \in 1 .. Len(s)
  BY <1>4, <1>5
<1>7. kept[n - 1] \in Seq(S \cap T)
  BY <1>6, Zenon
<1>8. s[n] \in S
  BY <1>6
<1>9. kept[n] = IF s[n] \in T THEN Append(kept[n - 1], s[n]) ELSE kept[n - 1]
  <2>1. n \in 0 .. Len(s)
    BY <1>6, Zenon
  <2>2. KeptStep(s, T, kept, Len(s))[n]
            = IF s[n] \in T THEN Append(kept[n - 1], s[n]) ELSE kept[n - 1]
    BY <1>5, <2>1, Zenon DEF KeptStep
  <2>. QED
    BY <1>2, <2>2, Zenon
<1>10. kept[n] \in Seq(S \cap T)
  BY <1>7, <1>8, <1>9
<1>. QED
  BY <1>4, <1>10, Zenon

(***************************************************************************)
(* The policy.                                                               *)
(***************************************************************************)
LEMMA Prefixes ==
    ASSUME NEW ip, NEW prefix
    PROVE  /\ In(ip, prefix, 96) <=> \A i \in 1 .. 12 : ip[i] = prefix[i]
           /\ In(ip, prefix, 32) <=> \A i \in 1 .. 4 : ip[i] = prefix[i]
           /\ In(ip, prefix, 16) <=> \A i \in 1 .. 2 : ip[i] = prefix[i]
<1>1. /\ 96 \div 8 = 12 /\ 96 % 8 = 0
      /\ 32 \div 8 = 4 /\ 32 % 8 = 0
      /\ 16 \div 8 = 2 /\ 16 % 8 = 0
  OBVIOUS
<1>. QED
  BY <1>1, Zenon DEF In

\* An address that starts otherwise is not a mapped one.
LEMMA NotMapped ==
    ASSUME NEW ip, ip[1] # 0 \/ ip[2] # 0
    PROVE  canonical(ip) = ip
<1>1. ~In(ip, V4Mapped, 96)
  BY Prefixes DEF V4Mapped
<1>. QED
  BY <1>1, Zenon DEF canonical

\* What is written into an address is cut out of it again.
LEMMA WrittenIsCut ==
    ASSUME NEW v4 \in V4, NEW prefix, NEW n \in Nat, DOMAIN prefix = 1 .. n,
           NEW at \in n .. 12
    PROVE  /\ IsV6(Written(prefix, at, v4)) /\ Cut(Written(prefix, at, v4), at) = v4
           /\ \A i \in 1 .. n : Written(prefix, at, v4)[i] = prefix[i]
<1> DEFINE ip == Written(prefix, at, v4)
<1>1. IsV6(ip) /\ \A i \in 1 .. n : ip[i] = prefix[i]
  BY DEF Written, IsV6
<1>2. \A i \in 1 .. 4 : ip[at + i] = v4[i]
  BY DEF Written
<1>3. Cut(ip, at) = v4
  BY <1>2, Zenon DEF Cut, V4
<1>. QED
  BY <1>1, <1>3, Zenon

\* The IPv4 address is found in its IPv4-mapped form,
LEMMA MappedAlias ==
    ASSUME NEW v4 \in V4
    PROVE  canonical(Mapped(v4)) = v4
<1>1. DOMAIN V4Mapped = 1 .. 12
  BY DEF V4Mapped
<1>2. /\ IsV6(Mapped(v4)) /\ Cut(Mapped(v4), 12) = v4
      /\ \A i \in 1 .. 12 : Mapped(v4)[i] = V4Mapped[i]
  <2>1. 12 \in Nat /\ 12 \in 12 .. 12
    OBVIOUS
  <2>. QED
    BY <1>1, <2>1, WrittenIsCut, Zenon DEF Mapped
<1>. QED
  BY <1>2, Prefixes, Zenon DEF canonical

\* in its NAT64 form,
LEMMA Nat64Alias ==
    ASSUME NEW v4 \in V4
    PROVE  embedded_ipv4(canonical(Nat64(v4))) = v4
<1>0. DOMAIN WellKnownNat64 = 1 .. 12
  BY DEF WellKnownNat64
<1>1. WellKnownNat64[1] = 0 /\ WellKnownNat64[2] = 100
  BY Zenon DEF WellKnownNat64
<1>2. /\ IsV6(Nat64(v4)) /\ Cut(Nat64(v4), 12) = v4
      /\ \A i \in 1 .. 12 : Nat64(v4)[i] = WellKnownNat64[i]
  <2>1. 12 \in Nat /\ 12 \in 12 .. 12
    OBVIOUS
  <2>. QED
    BY <1>0, <2>1, WrittenIsCut, Zenon DEF Nat64
<1>3. canonical(Nat64(v4)) = Nat64(v4)
  BY <1>1, <1>2, NotMapped
<1>4. /\ In(Nat64(v4), WellKnownNat64, 96)
      /\ ~In(Nat64(v4), SixToFour, 16) /\ ~In(Nat64(v4), Teredo, 32)
  BY <1>1, <1>2, Prefixes DEF SixToFour, Teredo
<1>. QED
  BY <1>2, <1>3, <1>4 DEF embedded_ipv4

\* in its 6to4 form,
LEMMA SixToFourAlias ==
    ASSUME NEW v4 \in V4
    PROVE  embedded_ipv4(canonical(SixToFourOf(v4))) = v4
<1> DEFINE ip == SixToFourOf(v4)
<1>0. DOMAIN SixToFour = 1 .. 2
  BY DEF SixToFour
<1>1. SixToFour[1] = 32 /\ SixToFour[2] = 2
  BY Zenon DEF SixToFour
<1>2. IsV6(ip) /\ Cut(ip, 2) = v4 /\ \A i \in 1 .. 2 : ip[i] = SixToFour[i]
  <2>1. 2 \in Nat /\ 2 \in 2 .. 12
    OBVIOUS
  <2>. QED
    BY <1>0, <2>1, WrittenIsCut, Zenon DEF SixToFourOf
<1>3. canonical(ip) = ip
  BY <1>1, <1>2, NotMapped
<1>4. In(ip, SixToFour, 16) /\ ~In(ip, WellKnownNat64, 96) /\ ~In(ip, Teredo, 32)
  BY <1>1, <1>2, Prefixes DEF WellKnownNat64, Teredo
<1> HIDE DEF ip
<1>5. embedded_ipv4(ip) = v4
  BY <1>2, <1>4, Zenon DEF embedded_ipv4
<1>. QED
  BY <1>3, <1>5, Zenon DEF ip

\* and in its Teredo form.
LEMMA TeredoAlias ==
    ASSUME NEW v4 \in V4
    PROVE  embedded_ipv4(canonical(TeredoOf(v4))) = v4
<1> DEFINE ip == TeredoOf(v4)
           w4 == Inverted(v4)
<1>1. w4 \in V4 /\ Inverted(w4) = v4
  BY DEF V4, Inverted, Octet
<1>0. DOMAIN Teredo = 1 .. 4
  BY DEF Teredo
<1>2. Teredo[1] = 32 /\ Teredo[2] = 1
  BY Zenon DEF Teredo
<1>3. IsV6(ip) /\ Cut(ip, 12) = w4 /\ \A i \in 1 .. 4 : ip[i] = Teredo[i]
  <2>1. 4 \in Nat /\ 12 \in 4 .. 12
    OBVIOUS
  <2>. QED
    BY <1>0, <1>1, <2>1, WrittenIsCut, Zenon DEF TeredoOf
<1>4. canonical(ip) = ip
  BY <1>2, <1>3, NotMapped
<1>5. In(ip, Teredo, 32) /\ ~In(ip, WellKnownNat64, 96) /\ ~In(ip, SixToFour, 16)
  BY <1>2, <1>3, Prefixes DEF WellKnownNat64, SixToFour
<1> HIDE DEF ip, w4
<1>6. embedded_ipv4(ip) = v4
  BY <1>1, <1>3, <1>5, Zenon DEF embedded_ipv4
<1>. QED
  BY <1>4, <1>6, Zenon DEF ip

\* Whichever way an IPv4 host is written, the policy judges the host itself.
THEOREM AliasIsJudgedAsHost ==
    ASSUME NEW v4 \in V4, NEW ip \in Aliases(v4)
    PROVE  embedded_ipv4(canonical(ip)) = v4
<1>1. DOMAIN v4 = 1 .. 4 /\ 16 \notin 1 .. 4
  BY DEF V4
<1>2. ~IsV6(v4)
  BY <1>1 DEF IsV6
<1>3. canonical(v4) = v4 /\ embedded_ipv4(v4) = v4
  BY <1>2, Zenon DEF canonical, embedded_ipv4
<1>. QED
  BY <1>3, MappedAlias, Nat64Alias, SixToFourAlias, TeredoAlias, Zenon DEF Aliases

\* An address that is allowed leads to no barred host, however it is written.
THEOREM AllowedLeadsNowhereBarred ==
    ASSUME NEW v4 \in V4, NEW ip \in Aliases(v4), allows_address(ip)
    PROVE  ~Barred(v4)
<1>1. embedded_ipv4(canonical(ip)) = v4
  BY AliasIsJudgedAsHost, Zenon
<1>2. ~is_never_allowed(v4) /\ (is_private(v4) => allow_private_networks)
  BY <1>1, Zenon DEF allows_address
<1>. QED
  BY <1>2, Zenon DEF Barred

(***************************************************************************)
(* The invariant of a request, and that of the failure counters.             *)
(***************************************************************************)
Early == {"idle", "charge", "route", "lookup"}

\* A request owes or has spent its guesses only while it is charged for them; it
\* is answered, given addresses and allowed to dial in that order; it holds a slot
\* as long as there is anything to relay to.
Charged(r) == owed[r] # <<>> \/ spent[r] => pc[r] = "charge"
Unanswered(r) == pc[r] \in Early \union {"dial"} => answer[r] = no_answer
Undialled(r) == pc[r] \in Early => todo[r] = <<>> /\ dialled[r] = {}
Permitted(r) == pc[r] \in {"lookup", "dial"} \/ dialled[r] # {} => port[r]
Holding(r) == pc[r] \in {"lookup", "dial", "relay"} \/ todo[r] # <<>> => r \in slots

\* The deadline is set once and the clock never passes it.
Timed(r) == clock[r] <= connect_timeout /\ deadline[r] <= connect_timeout

\* The addresses it was given may be dialled, and so might those it tried, the
\* last failure being one of them.
Listed(r) == \A i \in DOMAIN todo[r] : Dialable(todo[r][i])
Tested(r) == \A a \in dialled[r] : Dialable(a)
Failed(r) == last[r].hop = None \/ last[r].hop \in dialled[r]

\* What the answer says of the target is so.
TargetFault == {502, 503, 504}
Truthful(r) ==
    answer[r].status = 200 =>
        \/ todo[r] # <<>> /\ Head(todo[r]) \in dialled[r]
        \/ /\ found[r] # <<>> /\ dialled[r] = {}
           /\ \A i \in DOMAIN found[r] : is_unspecified(canonical(found[r][i].ip))
Disclosed(r) ==
    answer[r].hop # None =>
        answer[r].hop \in dialled[r] /\ answer[r].status \in TargetFault

RequestInv(r) ==
    /\ Charged(r) /\ Unanswered(r) /\ Undialled(r) /\ Permitted(r) /\ Holding(r)
    /\ Timed(r) /\ Listed(r) /\ Tested(r) /\ Failed(r) /\ Truthful(r) /\ Disclosed(r)

\* Each bucket counts the unforgiven failures of its own claims, the total counts
\* them all, and a total at the limit has been noticed.
Bucket(claim) == {i \in Unforgiven : log[i].claim = claim}
CountersInv ==
    /\ \A u \in Users : failures.configured[u] = Cardinality(Bucket(u))
    /\ failures.unconfigured = Cardinality(Bucket(Stranger))
    /\ failures.anonymous = Cardinality(Bucket(None))
    /\ total(failures) = Cardinality(Unforgiven)
    /\ Reached(failures) => closed \/ \E r \in Requests : spent[r]

IInv == TypeOK /\ (\A r \in Requests : RequestInv(r)) /\ CountersInv

(***************************************************************************)
(* Types.                                                                    *)
(***************************************************************************)
LEMMA AnswersAreLists == Answers \subseteq Seq(Addresses)
<1>1. ASSUME NEW a \in Answers PROVE a \in Seq(Addresses)
  <2>1. a \in Seq([ip : V4 \union V6, own : BOOLEAN])
    BY RequestsAssumption, Zenon
  <2>2. \A i \in 1 .. Len(a) : a[i] \in Addresses
    BY <2>1 DEF Addresses
  <2>. QED
    BY <2>1, <2>2
<1>. QED
  BY <1>1, Zenon

\* prefer_family reorders a list and adds nothing.
LEMMA PreferFamilyIsList ==
    ASSUME NEW a \in Answers
    PROVE  prefer_family(a) \in Seq(Addresses)
<1> DEFINE preferred == {x \in Addresses : IsV6(x.ip) = (ip_family_preference = "ipv6")}
<1>1. a \in Seq(Addresses)
  BY AnswersAreLists, Zenon
<1>2. \A T : Kept(a, T) \in Seq(Addresses)
  <2>1. ASSUME NEW T PROVE Kept(a, T) \in Seq(Addresses)
    <3>1. Kept(a, T) \in Seq(Addresses \cap T)
      BY <1>1, KeptIsIn, Zenon
    <3>. QED
      BY <3>1
  <2>. QED
    BY <2>1, Zenon
<1>3. Kept(a, preferred) \o Kept(a, Addresses \ preferred) \in Seq(Addresses)
  <2>1. Kept(a, preferred) \in Seq(Addresses) /\ Kept(a, Addresses \ preferred) \in Seq(Addresses)
    BY <1>2, Zenon
  <2> HIDE DEF preferred
  <2>. QED
    BY <2>1
<1>. QED
  BY <1>1, <1>3, Zenon DEF prefer_family

\* What the policy allows of a resolved list may be dialled.
LEMMA AllowedAreDialable ==
    ASSUME NEW s \in Seq(Addresses)
    PROVE  /\ Kept(s, {a \in Addresses : Dialable(a)}) \in Seq(Addresses)
           /\ \A i \in DOMAIN Kept(s, {a \in Addresses : Dialable(a)}) :
                 Dialable(Kept(s, {a \in Addresses : Dialable(a)})[i])
<1> DEFINE T == {a \in Addresses : Dialable(a)}
           k == Kept(s, T)
<1>1. k \in Seq(Addresses \cap T)
  BY KeptIsIn, Zenon
<1>2. \A x \in Addresses \cap T : x \in Addresses /\ Dialable(x)
  BY Zenon
<1> HIDE DEF k, T
<1>3. k \in Seq(Addresses) /\ \A i \in DOMAIN k : Dialable(k[i])
  BY <1>1, <1>2
<1>. QED
  BY <1>3, Zenon DEF k, T

\* The status each error recommends.
LEMMA StatusOf ==
    /\ \A e \in {"HttpRequestDenied", "DestinationIpProhibited"} : recommended_status(e) = 403
    /\ recommended_status("ProxyInternalError") = 500
    /\ \A e \in {"ConnectionRefused", "DnsError"} : recommended_status(e) = 502
    /\ \A e \in {"DestinationUnavailable", "ConnectionLimitReached"} : recommended_status(e) = 503
    /\ \A e \in {"ConnectionTimeout", "DnsTimeout"} : recommended_status(e) = 504
  BY DEF recommended_status

\* An error of the connect is answered with a status that is not 200, and with a
\* hop only when it is the target's.
LEMMA UnreachableStatus ==
    ASSUME NEW e
    PROVE  LET error == from_connect_error(e) IN
           /\ recommended_status(error) \in {500, 502, 503, 504}
           /\ discloses_next_hop(error) => recommended_status(error) \in {502, 503, 504}
<1>1. from_connect_error(e) \in {"ProxyInternalError", "ConnectionRefused",
                                 "ConnectionTimeout", "DestinationUnavailable"}
  BY Zenon DEF from_connect_error
<1>. QED
  BY <1>1, StatusOf DEF discloses_next_hop

\* The claims a request is charged with, and the user it is let in as.
LEMMA ClaimsAreClaims ==
    ASSUME NEW n \in 0 .. MAX_CREDENTIAL_VALUES, NEW values \in [1 .. n -> Values]
    PROVE  /\ Refused(values) \in Seq(Claims)
           /\ RightOnes(values) # {} => values[Min(RightOnes(values))].claim \in Users
<1>1. values \in Seq(Values) /\ Len(values) = n /\ DOMAIN values = 1 .. n
  BY DEF MAX_CREDENTIAL_VALUES
<1>2. \A i \in 1 .. n : values[i].claim \in Claims /\ (values[i].right => values[i].claim \in Users)
  BY Zenon DEF Values
<1>3. Refused(values) \in Seq(Claims)
  <2>1. None \in Claims /\ n \in Nat
    BY DEF Claims, MAX_CREDENTIAL_VALUES
  <2>2. <<None>> \in Seq(Claims)
    BY <2>1
  <2>3. [i \in 1 .. n |-> values[i].claim] \in Seq(Claims)
    BY <1>2, <2>1
  <2>. QED
    BY <1>1, <2>2, <2>3, Zenon DEF Refused
<1>4. ASSUME RightOnes(values) # {}
      PROVE  values[Min(RightOnes(values))].claim \in Users
  <2>1. RightOnes(values) \in SUBSET Nat
    BY <1>1 DEF RightOnes
  <2>2. \E m \in RightOnes(values) : \A y \in RightOnes(values) : m <= y
    BY <1>4, <2>1, LeastNatural, Zenon
  <2>3. Min(RightOnes(values)) \in RightOnes(values)
    BY <2>2, Zenon DEF Min
  <2>. QED
    BY <2>3, <1>1, <1>2, Zenon DEF RightOnes
<1>. QED
  BY <1>3, <1>4, Zenon

Places == {"idle", "charge", "route", "lookup", "dial", "answer", "relay"}

\* What answers and lists start from is well typed.
LEMMA Vocabulary ==
    /\ None \in Hops /\ no_answer \in [status : Nat, hop : Hops]
    /\ no_addresses \in [hop : Hops, error : Errors]
    /\ <<>> \in Seq(Addresses) /\ <<>> \in Seq(Claims)
  BY DEF Hops, no_answer, no_addresses, Errors

\* What every answer and every return leaves well typed.
LEMMA AnswerType ==
    ASSUME TypeOK, NEW r \in Requests, NEW code \in Nat, NEW hop \in Hops,
           refuse_with(r, code, hop)
    PROVE  /\ pc' = [pc EXCEPT ![r] = "answer"]
           /\ answer' \in [Requests -> [status : Nat, hop : Hops]]
           /\ pc' \in [Requests -> Places]
  BY Zenon DEF TypeOK, refuse_with, Goto, Places

Codes == {200, 400, 403, 407, 500, 501, 502, 503, 504}

\* The statuses are among those an answer may have.
LEMMA KnownCodes ==
    /\ Codes \subseteq Nat /\ 200 \in Codes
    /\ 400 \in Codes /\ 403 \in Codes /\ 407 \in Codes
    /\ 500 \in Codes /\ 501 \in Codes /\ 502 \in Codes /\ 503 \in Codes /\ 504 \in Codes
  BY SMT DEF Codes

\* A refusal leaves the answer well typed.
LEMMA RefusalType ==
    ASSUME TypeOK, NEW r \in Requests, NEW code \in Codes, refuse_with(r, code, None)
    PROVE  /\ pc' \in [Requests -> Places]
           /\ answer' \in [Requests -> [status : Nat, hop : Hops]]
<1>1. code \in Nat /\ None \in Hops
  BY KnownCodes, Vocabulary
<1>. QED
  BY <1>1, AnswerType, Zenon

\* A request that returns leaves everything well typed.
LEMMA ReturnType ==
    ASSUME TypeOK, NEW r \in Requests, Return(r), UNCHANGED <<failures, arrived, log>>,
           closed' \in BOOLEAN
    PROVE  TypeOK'
  BY Vocabulary, Zenon DEF TypeOK, Return, Goto

\* Types, at first,
LEMMA TypeInit == Init => TypeOK
<1>1. 0 \in 0 .. MaxRequests /\ <<>> \in Seq([claim : Claims, right : BOOLEAN])
  BY RequestsAssumption
<1>2. SUFFICES ASSUME Init PROVE TypeOK
  BY Zenon
<1>3. /\ owed \in [Requests -> Seq(Claims)] /\ spent \in [Requests -> BOOLEAN]
      /\ port \in [Requests -> BOOLEAN] /\ kind \in [Requests -> {"tcp", "udp", None}]
      /\ found \in [Requests -> Seq(Addresses)] /\ todo \in [Requests -> Seq(Addresses)]
      /\ closed \in BOOLEAN /\ dialled \in [Requests -> SUBSET Addresses]
  BY <1>2, Vocabulary, Zenon DEF Init
<1>4. /\ last \in [Requests -> [hop : Hops, error : Errors]]
      /\ answer \in [Requests -> [status : Nat, hop : Hops]]
  BY <1>2, Vocabulary, Zenon DEF Init
<1>5. /\ pc \in [Requests -> {"idle", "charge", "route", "lookup", "dial",
                               "answer", "relay"}]
      /\ clock \in [Requests -> Nat] /\ deadline \in [Requests -> Nat]
      /\ failures \in [configured : [Users -> Nat], unconfigured : Nat, anonymous : Nat]
      /\ slots \subseteq Requests /\ arrived \in 0 .. MaxRequests
      /\ log \in Seq([claim : Claims, right : BOOLEAN])
  BY <1>1, <1>2, Zenon DEF Init
<1>. QED
  BY <1>3, <1>4, <1>5, Zenon DEF TypeOK

Counters == [configured : [Users -> Nat], unconfigured : Nat, anonymous : Nat]

\* when a failure is counted,
LEMMA CountedType ==
    ASSUME NEW f \in Counters, NEW claim \in Claims
    PROVE  Counted(f, claim) \in Counters
<1>1. CASE claim \in Users
  <2>1. [f.configured EXCEPT ![claim] = @ + 1] \in [Users -> Nat]
    BY <1>1 DEF Counters
  <2>2. Counted(f, claim) = [f EXCEPT !.configured = [f.configured EXCEPT ![claim] = @ + 1]]
    BY <1>1, Zenon DEF Counted, Counters
  <2>. QED
    BY <2>1, <2>2, Zenon DEF Counters
<1>2. CASE claim \notin Users
  BY <1>2 DEF Counted, Counters
<1>. QED
  BY <1>1, <1>2, Zenon

\* in the steps that check credentials,
LEMMA TypeGuess ==
    ASSUME TypeOK, NEW r \in Requests,
           Malformed(r) \/ handle_request(r) \/ record_auth_failure(r) \/ Denied(r)
    PROVE  TypeOK'
<1>1. ASSUME Arrives(r) PROVE arrived' \in 0 .. MaxRequests
  BY <1>1, RequestsAssumption DEF Arrives, TypeOK
<1>2. CASE Malformed(r)
  <2>1. refuse_with(r, 400, None)
    BY <1>2, Zenon DEF Malformed, refuse
  <2>2. pc' \in [Requests -> Places] /\ answer' \in [Requests -> [status : Nat, hop : Hops]]
    BY <2>1, RefusalType, KnownCodes, SMT
  <2>3. arrived' \in 0 .. MaxRequests
    BY <1>1, <1>2, Zenon DEF Malformed
  <2>. QED
    BY <1>2, <2>2, <2>3, Zenon DEF TypeOK, Places, Malformed, guess, target, dial
<1>3. CASE handle_request(r)
  <2>1. PICK n \in 0 .. MAX_CREDENTIAL_VALUES : \E values \in [1 .. n -> Values] :
            authenticate(r, values)
    BY <1>3, Zenon DEF handle_request
  <2>2. PICK values \in [1 .. n -> Values] : authenticate(r, values)
    BY <2>1, Zenon
  <2>3. Refused(values) \in Seq(Claims)
    BY ClaimsAreClaims, Zenon
  <2>4. /\ arrived' \in 0 .. MaxRequests
        /\ UNCHANGED <<spent, kind, port, found, todo, clock, deadline, last, dialled,
                       answer, slots, closed>>
    BY <1>1, <1>3, Zenon DEF handle_request, target, dial
  <2>5. CASE Users = {} \/ RightOnes(values) # {}
    <3>1. PICK user \in Claims : mark_authenticated(user)
      BY <2>2, <2>5, ClaimsAreClaims, Zenon DEF authenticate, Claims
    <3>2. failures' \in [configured : [Users -> Nat], unconfigured : Nat, anonymous : Nat]
      BY <3>1, Zenon DEF mark_authenticated, Forgiven, TypeOK
    <3>3. log' \in Seq([claim : Claims, right : BOOLEAN])
      BY <3>1 DEF mark_authenticated, TypeOK
    <3>4. pc' = [pc EXCEPT ![r] = "route"] /\ owed' = owed
      BY <2>2, <2>5, Zenon DEF authenticate, Goto
    <3>. QED
      BY <2>4, <3>2, <3>3, <3>4, Zenon DEF TypeOK
  <2>6. CASE ~(Users = {} \/ RightOnes(values) # {})
    <3>1. /\ owed' = [owed EXCEPT ![r] = Refused(values)]
          /\ pc' = [pc EXCEPT ![r] = "charge"]
          /\ UNCHANGED <<failures, log>>
      BY <2>2, <2>6, Zenon DEF authenticate, Goto
    <3>. QED
      BY <2>3, <2>4, <3>1, Zenon DEF TypeOK
  <2>. QED
    BY <2>5, <2>6, Zenon
<1>4. CASE record_auth_failure(r)
  <2>1. Head(owed[r]) \in Claims /\ Tail(owed[r]) \in Seq(Claims)
    BY <1>4 DEF record_auth_failure, TypeOK
  <2>2. failures' \in [configured : [Users -> Nat], unconfigured : Nat, anonymous : Nat]
    BY <1>4, <2>1, CountedType, Zenon DEF record_auth_failure, TypeOK, Counters
  <2>3. log' \in Seq([claim : Claims, right : BOOLEAN])
    BY <1>4, <2>1 DEF record_auth_failure, TypeOK
  <2>4. owed' \in [Requests -> Seq(Claims)]
    BY <1>4, <2>1, Zenon DEF record_auth_failure, TypeOK
  <2>5. spent' \in [Requests -> BOOLEAN]
    BY <1>4, Zenon DEF record_auth_failure, TypeOK, Reached
  <2>. QED
    BY <1>4, <2>2, <2>3, <2>4, <2>5, Zenon DEF record_auth_failure, TypeOK, target, dial
<1>5. CASE Denied(r)
  <2>1. CASE spent[r]
    BY <1>5, <2>1, ReturnType, Zenon DEF Denied
  <2>2. CASE ~spent[r]
    <3>1. refuse_with(r, 407, None)
      BY <1>5, <2>2, Zenon DEF Denied, refuse
    <3>2. UNCHANGED <<owed, spent, kind, port, found, todo, clock, deadline, last, dialled,
                      slots, closed, failures, arrived, log>>
      BY <1>5, <2>2 DEF Denied, guess, target, dial
    <3>3. pc' \in [Requests -> Places] /\ answer' \in [Requests -> [status : Nat, hop : Hops]]
      BY <3>1, RefusalType, KnownCodes, SMT
    <3>. QED
      BY <3>2, <3>3, Zenon DEF TypeOK, Places
  <2>. QED
    BY <2>1, <2>2, Zenon
<1>. QED
  BY <1>2, <1>3, <1>4, <1>5, Zenon

\* in those that judge the target,
LEMMA TypeRoute ==
    ASSUME TypeOK, NEW r \in Requests,
           LimitReached(r) \/ route(r) \/ Lookup(r) \/ LookupFails(r)
    PROVE  TypeOK'
<1>1. CASE LimitReached(r)
  <2>1. refuse_with(r, 503, None)
    BY <1>1, StatusOf DEF LimitReached, refuse_because, refuse
  <2>2. pc' \in [Requests -> Places] /\ answer' \in [Requests -> [status : Nat, hop : Hops]]
    BY <2>1, RefusalType, KnownCodes, SMT
  <2>. QED
    BY <1>1, <2>2, Zenon DEF TypeOK, Places, LimitReached, guess, target, dial, shared
<1>2. CASE route(r)
  <2>1. UNCHANGED <<owed, spent, found, todo, clock, deadline, last, dialled,
                    failures, arrived, closed, log>>
    BY <1>2, Zenon DEF route, guess, dial
  <2>2. slots' \subseteq Requests
    BY <1>2, Zenon DEF route, TypeOK
  <2>3. ASSUME NEW k \in {"tcp", "udp"}, allows_port(r, k) PROVE TypeOK'
    <3>1. PICK allowed \in BOOLEAN :
            /\ kind' = [kind EXCEPT ![r] = k]
            /\ port' = [port EXCEPT ![r] = allowed]
            /\ IF allowed THEN Goto(r, "lookup") /\ UNCHANGED answer
               ELSE refuse_because(r, "HttpRequestDenied")
      BY <2>3, Zenon DEF allows_port
    <3>2. kind' \in [Requests -> {"tcp", "udp", None}] /\ port' \in [Requests -> BOOLEAN]
      BY <3>1, Zenon DEF TypeOK
    <3>3. CASE allowed
      <4>1. pc' = [pc EXCEPT ![r] = "lookup"] /\ UNCHANGED answer
        BY <3>1, <3>3, Zenon DEF Goto
      <4>2. pc' \in [Requests -> Places]
        BY <4>1, Zenon DEF TypeOK, Places
      <4>. QED
        BY <2>1, <2>2, <3>2, <4>1, <4>2, Zenon DEF TypeOK, Places
    <3>4. CASE ~allowed
      <4>1. refuse_with(r, 403, None)
        BY <3>1, <3>4, StatusOf DEF refuse_because, refuse
      <4>2. pc' \in [Requests -> Places]
            /\ answer' \in [Requests -> [status : Nat, hop : Hops]]
        BY <4>1, RefusalType, KnownCodes, SMT
      <4>. QED
        BY <2>1, <2>2, <3>2, <4>2, Zenon DEF TypeOK, Places
    <3>. QED
      BY <3>3, <3>4, Zenon
  <2>4. ASSUME NEW code \in Codes, refuse(r, code), UNCHANGED <<kind, port>>
        PROVE  TypeOK'
    <3>1. refuse_with(r, code, None)
      BY <2>4, Zenon DEF refuse
    <3>2. pc' \in [Requests -> Places] /\ answer' \in [Requests -> [status : Nat, hop : Hops]]
      BY <3>1, RefusalType, KnownCodes, SMT
    <3>. QED
      BY <2>1, <2>2, <2>4, <3>2, Zenon DEF TypeOK, Places
  <2>. QED
    <3>1. \/ \E k \in {"tcp", "udp"} : allows_port(r, k)
          \/ \E code \in {400, 500, 501} : refuse(r, code) /\ UNCHANGED <<kind, port>>
      BY <1>2 DEF route, tcp_run, udp_run
    <3>2. CASE \E k \in {"tcp", "udp"} : allows_port(r, k)
      BY <2>3, <3>2, Zenon
    <3>3. CASE \E code \in {400, 500, 501} : refuse(r, code) /\ UNCHANGED <<kind, port>>
      BY <2>4, <3>3, KnownCodes, SMT
    <3>. QED
      BY <3>1, <3>2, <3>3, ZenonT(40)
<1>3. CASE Lookup(r)
  <2>1. PICK answers \in Answers : admit_target(r, prefer_family(answers))
    BY <1>3, Zenon DEF Lookup
  <2> DEFINE addresses == prefer_family(answers)
             allowed == Kept(addresses, {a \in Addresses : Dialable(a)})
  <2>2. addresses \in Seq(Addresses)
    BY PreferFamilyIsList, Zenon
  <2>3. allowed \in Seq(Addresses)
    BY <2>2, AllowedAreDialable, Zenon
  <2>4. UNCHANGED <<owed, spent, kind, port, clock, last, dialled,
                    failures, slots, arrived, closed, log>>
    BY <1>3, Zenon DEF Lookup, guess, shared
  <2>5. found' = [found EXCEPT ![r] = addresses]
    BY <2>1, Zenon DEF admit_target
  <2>6. CASE allowed # <<>>
    <3>1. /\ todo' = [todo EXCEPT ![r] = allowed]
          /\ deadline' = [deadline EXCEPT ![r] = connect_timeout]
          /\ pc' = [pc EXCEPT ![r] = "dial"]
          /\ UNCHANGED answer
      BY <2>1, <2>6, Zenon DEF admit_target, Goto
    <3> HIDE DEF addresses, allowed
    <3>2. /\ found' \in [Requests -> Seq(Addresses)] /\ todo' \in [Requests -> Seq(Addresses)]
          /\ deadline' \in [Requests -> Nat] /\ pc' \in [Requests -> Places]
      BY <2>2, <2>3, <2>5, <3>1, RequestsAssumption, Zenon DEF TypeOK, Places
    <3>. QED
      BY <2>4, <3>1, <3>2, Zenon DEF TypeOK, Places
  <2>7. CASE allowed = <<>>
    <3>1. UNCHANGED <<todo, deadline>>
      BY <2>1, <2>7, Zenon DEF admit_target
    <3>2. refuse_with(r, 200, None) \/ refuse_with(r, 403, None)
      BY <2>1, <2>7, StatusOf DEF admit_target, accept_then_close, refuse_because, refuse
    <3> HIDE DEF addresses, allowed
    <3>3. found' \in [Requests -> Seq(Addresses)]
      BY <2>2, <2>5, Zenon DEF TypeOK
    <3>4. pc' \in [Requests -> Places] /\ answer' \in [Requests -> [status : Nat, hop : Hops]]
      BY <3>2, RefusalType, KnownCodes, SMT
    <3>. QED
      BY <2>4, <3>1, <3>3, <3>4, Zenon DEF TypeOK, Places
  <2>. QED
    BY <2>6, <2>7, Zenon
<1>4. CASE LookupFails(r)
  <2>1. refuse_with(r, 502, None) \/ refuse_with(r, 504, None)
    BY <1>4, StatusOf DEF LookupFails, refuse_because, refuse
  <2>2. pc' \in [Requests -> Places] /\ answer' \in [Requests -> [status : Nat, hop : Hops]]
    BY <2>1, RefusalType, KnownCodes, SMT
  <2>. QED
    BY <1>4, <2>2, Zenon DEF TypeOK, Places, LookupFails, guess, target, dial, shared
<1>. QED
  BY <1>1, <1>2, <1>3, <1>4, Zenon

\* in those that dial,
LEMMA TypeDial ==
    ASSUME TypeOK, NEW r \in Requests,
           \/ Connected(r) \/ Tick(r) \/ DialTimesOut(r) \/ Unreachable(r)
           \/ \E error \in Errors : AttemptFails(r, error)
    PROVE  TypeOK'
<1>0. None \in Hops
  BY Vocabulary, Zenon
<1>1. ASSUME todo[r] # <<>>
      PROVE  /\ Head(todo[r]) \in Addresses /\ Head(todo[r]) \in Hops
             /\ Tail(todo[r]) \in Seq(Addresses)
  BY <1>1 DEF TypeOK, Hops
<1>2. ASSUME todo[r] # <<>>, Tried(r) PROVE dialled' \in [Requests -> SUBSET Addresses]
  BY <1>1, <1>2, Zenon DEF Tried, TypeOK
<1>3. ASSUME NEW failure \in [hop : Hops, error : Errors], refuse_unreachable(r, failure)
      PROVE  \E code \in Nat, hop \in Hops : refuse_with(r, code, hop)
  <2>1. recommended_status(from_connect_error(failure.error)) \in Nat
    BY UnreachableStatus
  <2>. QED
    BY <1>0, <1>3, <2>1, Zenon DEF refuse_unreachable
<1>4. CASE Connected(r)
  <2>1. pc' \in [Requests -> Places] /\ answer' \in [Requests -> [status : Nat, hop : Hops]]
    BY <1>4, RefusalType, KnownCodes, SMT DEF Connected
  <2>2. dialled' \in [Requests -> SUBSET Addresses]
    BY <1>2, <1>4, Zenon DEF Connected
  <2>. QED
    BY <1>4, <2>1, <2>2, ZenonT(40) DEF TypeOK, Places, Connected, guess, target, shared
<1>5. CASE Tick(r)
  <2>1. clock' \in [Requests -> Nat]
    <3>1. clock \in [Requests -> Nat] /\ clock' = [clock EXCEPT ![r] = clock[r] + 1]
      BY <1>5, Zenon DEF TypeOK, Tick
    <3>2. \A n \in Nat : n + 1 \in Nat
      BY ONLY SMT
    <3>. QED  BY <3>1, <3>2, Zenon
  <2>. QED
    BY <1>5, <2>1, Zenon DEF TypeOK, Tick, guess, target, shared
<1>6. CASE DialTimesOut(r)
  <2>1. [hop |-> Head(todo[r]), error |-> "timed out"] \in [hop : Hops, error : Errors]
    BY <1>1, <1>6, Zenon DEF DialTimesOut, Errors
  <2>2. PICK code \in Nat, hop \in Hops : refuse_with(r, code, hop)
    BY <1>3, <1>6, <2>1, Zenon DEF DialTimesOut
  <2>3. pc' \in [Requests -> Places] /\ answer' \in [Requests -> [status : Nat, hop : Hops]]
    BY <2>2, AnswerType, Zenon
  <2>4. dialled' \in [Requests -> SUBSET Addresses]
    BY <1>2, <1>6, Zenon DEF DialTimesOut
  <2>. QED
    BY <1>6, <2>3, <2>4, Zenon
    DEF TypeOK, Places, DialTimesOut, guess, target, shared
<1>7. CASE Unreachable(r)
  <2>1. last[r] \in [hop : Hops, error : Errors]
    BY Zenon DEF TypeOK
  <2>2. PICK code \in Nat, hop \in Hops : refuse_with(r, code, hop)
    BY <1>3, <1>7, <2>1, Zenon DEF Unreachable
  <2>3. pc' \in [Requests -> Places] /\ answer' \in [Requests -> [status : Nat, hop : Hops]]
    BY <2>2, AnswerType, Zenon
  <2>. QED
    BY <1>7, <2>3, Zenon DEF TypeOK, Places, Unreachable, guess, target, dial, shared
<1>8. ASSUME NEW error \in Errors, AttemptFails(r, error) PROVE TypeOK'
  BY <1>1, <1>2, <1>8, Zenon DEF TypeOK, AttemptFails, NextAddress, guess, target, shared
<1>. QED
  BY <1>4, <1>5, <1>6, <1>7, <1>8, Zenon

\* and in those that answer.
LEMMA TypeAnswer ==
    ASSUME TypeOK, NEW r \in Requests, Sent(r) \/ NotLanded(r) \/ TunnelEnds(r)
    PROVE  TypeOK'
<1>1. CASE Return(r) /\ UNCHANGED <<failures, arrived, closed, log>>
  <2>1. closed' \in BOOLEAN
    BY <1>1, Zenon DEF TypeOK
  <2>. QED
    BY <1>1, <2>1, ReturnType, Zenon
<1>2. CASE /\ Goto(r, "relay") /\ UNCHANGED <<guess, target, dial, answer, slots>>
           /\ UNCHANGED <<failures, arrived, closed, log>>
  <2>1. pc' \in [Requests -> Places]
    BY <1>2, Zenon DEF TypeOK, Goto, Places
  <2>. QED
    BY <1>2, <2>1, Zenon DEF TypeOK, Places, guess, target, dial
<1>. QED
  BY <1>1, <1>2, Zenon DEF Sent, NotLanded, TunnelEnds

\* Every step keeps every variable in its type.
LEMMA TypeStep == TypeOK /\ [Next]_vars => TypeOK'
<1>1. ASSUME TypeOK, NEW r \in Requests, Handle(r) PROVE TypeOK'
  BY <1>1, TypeGuess, TypeRoute, TypeDial, TypeAnswer, Zenon DEF Handle
<1>2. ASSUME TypeOK, UNCHANGED vars PROVE TypeOK'
  BY <1>2, Zenon DEF TypeOK, vars, guess, target, dial, shared
<1>. QED
  BY <1>1, <1>2, Zenon DEF Next

\* Every variable of the requests keeps its type: the counters of failed guesses, the
\* lists of addresses, the budget of a dial and the answer.
THEOREM TypeCorrect == Spec => []TypeOK
  BY TypeInit, TypeStep, PTL DEF Spec

(***************************************************************************)
(* A request keeps its own invariant, and the others do not disturb it.      *)
(***************************************************************************)
Untouched(q) ==
    /\ pc'[q] = pc[q] /\ owed'[q] = owed[q] /\ spent'[q] = spent[q]
    /\ port'[q] = port[q] /\ found'[q] = found[q] /\ todo'[q] = todo[q]
    /\ clock'[q] = clock[q] /\ deadline'[q] = deadline[q] /\ last'[q] = last[q]
    /\ answer'[q] = answer[q] /\ dialled'[q] = dialled[q]
    /\ q \in slots' <=> q \in slots

\* What is known of a request is known while nothing of it changes.
LEMMA UntouchedKeeps ==
    ASSUME NEW r \in Requests, RequestInv(r), Untouched(r)
    PROVE  RequestInv(r)'
<1>1. Charged(r)'
  BY Zenon DEF RequestInv, Untouched, Charged
<1>2. Unanswered(r)'
  BY Zenon DEF RequestInv, Untouched, Unanswered
<1>3. Undialled(r)'
  BY Zenon DEF RequestInv, Untouched, Undialled
<1>4. Permitted(r)'
  BY Zenon DEF RequestInv, Untouched, Permitted
<1>5. Holding(r)'
  BY Zenon DEF RequestInv, Untouched, Holding
<1>6. Timed(r)'
  BY Zenon DEF RequestInv, Untouched, Timed
<1>7. Listed(r)'
  BY Zenon DEF RequestInv, Untouched, Listed
<1>8. Tested(r)'
  BY Zenon DEF RequestInv, Untouched, Tested
<1>9. Failed(r)'
  BY Zenon DEF RequestInv, Untouched, Failed
<1>10. Truthful(r)'
  BY Zenon DEF RequestInv, Untouched, Truthful
<1>11. Disclosed(r)'
  BY Zenon DEF RequestInv, Untouched, Disclosed
<1>. QED
  BY <1>1, <1>2, <1>3, <1>4, <1>5, <1>6, <1>7, <1>8, <1>9, <1>10, <1>11, Zenon
  DEF RequestInv

\* The return of one request leaves the others untouched.
LEMMA OthersReturn ==
    ASSUME TypeOK, NEW r \in Requests, NEW q \in Requests, q # r, Return(r)
    PROVE  Untouched(q)
  BY Zenon DEF TypeOK, Return, Goto, Untouched

\* A step of one request leaves the others untouched.
LEMMA OthersUntouched ==
    ASSUME TypeOK, NEW r \in Requests, NEW q \in Requests, q # r, Handle(r)
    PROVE  Untouched(q)
<1> USE DEF Untouched, refuse_because, refuse, refuse_with, Goto, Arrives,
            guess, target, dial, shared
<1>1. CASE Malformed(r)
  BY <1>1 DEF TypeOK, Malformed
<1>2. CASE handle_request(r)
  <2>1. PICK n \in 0 .. MAX_CREDENTIAL_VALUES : \E values \in [1 .. n -> Values] :
            authenticate(r, values)
    BY <1>2, Zenon DEF handle_request
  <2>2. PICK values \in [1 .. n -> Values] : authenticate(r, values)
    BY <2>1, Zenon
  <2>3. pc'[q] = pc[q] /\ owed'[q] = owed[q]
    BY <2>2, Zenon DEF authenticate, TypeOK
  <2>. QED
    BY <1>2, <2>3, Zenon DEF handle_request
<1>3. CASE record_auth_failure(r)
  BY <1>3, Zenon DEF TypeOK, record_auth_failure
<1>4. CASE Denied(r)
  <2>1. CASE spent[r]
    BY <1>4, <2>1, OthersReturn, Zenon DEF Denied
  <2>2. CASE ~spent[r]
    BY <1>4, <2>2 DEF Denied, TypeOK
  <2>. QED
    BY <2>1, <2>2, Zenon
<1>5. CASE LimitReached(r)
  BY <1>5, Zenon DEF TypeOK, LimitReached
<1>6. CASE route(r)
  <2>1. /\ pc'[q] = pc[q] /\ port'[q] = port[q] /\ answer'[q] = answer[q]
    <3>1. ASSUME NEW k \in {"tcp", "udp"}, allows_port(r, k)
          PROVE  pc'[q] = pc[q] /\ port'[q] = port[q] /\ answer'[q] = answer[q]
      <4>1. PICK allowed \in BOOLEAN :
              /\ port' = [port EXCEPT ![r] = allowed]
              /\ IF allowed THEN Goto(r, "lookup") /\ UNCHANGED answer
                 ELSE refuse_because(r, "HttpRequestDenied")
        BY <3>1, Zenon DEF allows_port
      <4>2. port'[q] = port[q]
        BY <4>1, Zenon DEF TypeOK
      <4>3. pc'[q] = pc[q] /\ answer'[q] = answer[q]
        BY <4>1, Zenon DEF TypeOK
      <4>. QED
        BY <4>2, <4>3, Zenon
    <3>2. \/ \E k \in {"tcp", "udp"} : allows_port(r, k)
          \/ \E code \in {400, 500, 501} : refuse(r, code) /\ UNCHANGED <<kind, port>>
      BY <1>6 DEF route, tcp_run, udp_run
    <3>3. CASE \E k \in {"tcp", "udp"} : allows_port(r, k)
      BY <3>1, <3>3, ZenonT(40)
    <3>4. CASE \E code \in {400, 500, 501} : refuse(r, code) /\ UNCHANGED <<kind, port>>
      BY <3>4, SMT DEF TypeOK
    <3>. QED
      BY <3>2, <3>3, <3>4
  <2>2. q \in slots' <=> q \in slots
    BY <1>6, Zenon DEF route
  <2>. QED
    BY <1>6, <2>1, <2>2, Zenon DEF route
<1>7. CASE Lookup(r)
  <2>1. PICK answers \in Answers : admit_target(r, prefer_family(answers))
    BY <1>7, Zenon DEF Lookup
  <2>2. /\ pc'[q] = pc[q] /\ found'[q] = found[q] /\ todo'[q] = todo[q]
        /\ deadline'[q] = deadline[q] /\ answer'[q] = answer[q]
    <3> DEFINE addresses == prefer_family(answers)
               allowed == Kept(addresses, {a \in Addresses : Dialable(a)})
    <3>1. /\ found' = [found EXCEPT ![r] = addresses]
          /\ \/ /\ todo' = [todo EXCEPT ![r] = allowed]
                /\ deadline' = [deadline EXCEPT ![r] = connect_timeout]
                /\ Goto(r, "dial") /\ UNCHANGED answer
             \/ /\ accept_then_close(r) \/ refuse_because(r, "DestinationIpProhibited")
                /\ UNCHANGED <<todo, deadline>>
      BY <2>1, Zenon DEF admit_target
    <3> HIDE DEF addresses, allowed
    <3>2. CASE /\ todo' = [todo EXCEPT ![r] = allowed]
               /\ deadline' = [deadline EXCEPT ![r] = connect_timeout]
               /\ Goto(r, "dial") /\ UNCHANGED answer
      BY <3>1, <3>2, Zenon DEF TypeOK
    <3>3. CASE /\ accept_then_close(r) \/ refuse_because(r, "DestinationIpProhibited")
               /\ UNCHANGED <<todo, deadline>>
      <4>1. PICK code : refuse_with(r, code, None)
        BY <3>3, Zenon DEF accept_then_close
      <4>2. pc'[q] = pc[q] /\ answer'[q] = answer[q] /\ found'[q] = found[q]
        BY <3>1, <4>1, Zenon DEF TypeOK
      <4>. QED
        BY <3>3, <4>2, Zenon
    <3>. QED
      BY <3>1, <3>2, <3>3, Zenon
  <2>. QED
    BY <1>7, <2>2, Zenon DEF Lookup
<1>8. CASE LookupFails(r)
  BY <1>8, Zenon DEF TypeOK, LookupFails
<1>9. CASE Connected(r)
  BY <1>9, Zenon DEF TypeOK, Connected, Tried
<1>10. CASE Tick(r)
  BY <1>10, Zenon DEF TypeOK, Tick
<1>11. CASE DialTimesOut(r)
  BY <1>11, Zenon DEF TypeOK, DialTimesOut, Tried, refuse_unreachable
<1>12. CASE Unreachable(r)
  BY <1>12, Zenon DEF TypeOK, Unreachable, refuse_unreachable
<1>13. ASSUME NEW error \in Errors, AttemptFails(r, error) PROVE Untouched(q)
  BY <1>13, Zenon DEF TypeOK, AttemptFails, Tried, NextAddress
<1>14. CASE Sent(r)
  <2>1. CASE HasTarget(r)
    BY <1>14, <2>1, Zenon DEF Sent, TypeOK
  <2>2. CASE ~HasTarget(r)
    BY <1>14, <2>2, OthersReturn, Zenon DEF Sent
  <2>. QED
    BY <2>1, <2>2, Zenon
<1>15. CASE NotLanded(r) \/ TunnelEnds(r)
  BY <1>15, OthersReturn, Zenon DEF NotLanded, TunnelEnds
<1>. QED
  BY ZenonT(40), <1>1, <1>2, <1>3, <1>4, <1>5, <1>6, <1>7, <1>8, <1>9, <1>10, <1>11, <1>12, <1>13,
     <1>14, <1>15 DEF Handle

\* A request that has returned.
LEMMA ReturnKeeps ==
    ASSUME TypeOK, NEW r \in Requests, Return(r)
    PROVE  RequestInv(r)'
<1>1. pc'[r] = "idle" /\ owed'[r] = <<>> /\ spent'[r] = FALSE /\ r \notin slots'
  BY Zenon DEF Return, Goto, TypeOK
<1>2. todo'[r] = <<>> /\ dialled'[r] = {} /\ clock'[r] = 0 /\ deadline'[r] = 0
  BY Zenon DEF Return, TypeOK
<1>3. last'[r] = no_addresses /\ answer'[r] = no_answer
  BY Zenon DEF Return, TypeOK
<1>4. answer'[r].status # 200 /\ answer'[r].hop = None /\ last'[r].hop = None
  <2>1. no_answer.status # 200 /\ no_answer.hop = None /\ no_addresses.hop = None
    BY SMT DEF no_answer, no_addresses
  <2>. QED
    BY <1>3, <2>1, Zenon
<1>5. connect_timeout \in Nat
  BY RequestsAssumption, Zenon
<1>6. Charged(r)'
  BY <1>1, <1>2, Zenon DEF Charged
<1>7. Unanswered(r)'
  BY <1>3, Zenon DEF Unanswered, Early
<1>8. Undialled(r)'
  BY <1>1, <1>2, Zenon DEF Undialled, Early
<1>9. Permitted(r)'
  BY <1>1, <1>2, Zenon DEF Permitted
<1>10. Holding(r)'
  BY <1>1, <1>2, Zenon DEF Holding
<1>11. Timed(r)'
  BY <1>2, <1>5, SMT DEF Timed
<1>12. Listed(r)'
  BY <1>2, SMT DEF Listed
<1>13. Tested(r)'
  BY <1>1, <1>2, Zenon DEF Tested
<1>14. Failed(r)'
  BY <1>4, Zenon DEF Failed
<1>15. Truthful(r)'
  BY <1>4, Zenon DEF Truthful
<1>16. Disclosed(r)'
  BY <1>4, Zenon DEF Disclosed
<1>. QED
  BY <1>6, <1>7, <1>8, <1>9, <1>10, <1>11, <1>12, <1>13, <1>14, <1>15, <1>16, ZenonT(40)
  DEF RequestInv

\* One that is refused with no next hop.
LEMMA RefusalKeeps ==
    ASSUME TypeOK, NEW r \in Requests, RequestInv(r),
           NEW code \in Codes \ {200}, refuse_with(r, code, None),
           owed'[r] = <<>>, ~spent'[r],
           UNCHANGED <<todo, clock, deadline, last, dialled>>,
           dialled[r] # {} => port'[r], r \in slots => r \in slots'
    PROVE  RequestInv(r)'
<1>1. pc'[r] = "answer" /\ answer'[r] = [status |-> code, hop |-> None]
  BY SMT DEF refuse_with, Goto, TypeOK
<1>2. answer'[r].status # 200 /\ answer'[r].hop = None
  BY <1>1, SMT
<1>3. Charged(r)'
  BY Zenon DEF Charged
<1>4. Unanswered(r)'
  BY <1>1, Zenon DEF Unanswered, Early
<1>5. Undialled(r)'
  BY <1>1, Zenon DEF Undialled, Early
<1>6. Permitted(r)'
  BY <1>1, Zenon DEF RequestInv, Permitted
<1>7. Holding(r)'
  BY <1>1, Zenon DEF RequestInv, Holding
<1>8. Timed(r)'
  BY SMT DEF RequestInv, Timed
<1>9. Listed(r)'
  BY Zenon DEF RequestInv, Listed
<1>10. Tested(r)'
  BY Zenon DEF RequestInv, Tested
<1>11. Failed(r)'
  BY Zenon DEF RequestInv, Failed
<1>12. Truthful(r)'
  BY <1>2, Zenon DEF Truthful
<1>13. Disclosed(r)'
  BY <1>2, Zenon DEF Disclosed
<1>. QED
  BY <1>3, <1>4, <1>5, <1>6, <1>7, <1>8, <1>9, <1>10, <1>11, <1>12, <1>13, ZenonT(40)
  DEF RequestInv

\* What is known of a request, in the steps that check its credentials,
LEMMA RequestGuess ==
    ASSUME TypeOK, NEW r \in Requests, RequestInv(r),
           Malformed(r) \/ handle_request(r) \/ record_auth_failure(r) \/ Denied(r)
    PROVE  RequestInv(r)'
<1>1. CASE Malformed(r)
  <2>1. pc[r] = "idle"
    BY <1>1, Zenon DEF Malformed, Arrives
  <2>2. owed[r] = <<>> /\ ~spent[r] /\ dialled[r] = {}
    BY <2>1, Zenon DEF RequestInv, Charged, Undialled, Early
  <2>3. /\ refuse_with(r, 400, None)
        /\ UNCHANGED <<owed, spent, todo, clock, deadline, last, dialled, slots>>
    BY <1>1, Zenon DEF Malformed, refuse, guess, dial
  <2>4. 400 \in Codes \ {200}
    BY SMT DEF Codes
  <2>. QED
    BY <2>2, <2>3, <2>4, RefusalKeeps, SMT
<1>2. CASE handle_request(r)
  <2>1. pc'[r] \in {"charge", "route"} /\ (pc'[r] = "route" => owed'[r] = owed[r])
    <3>1. PICK n \in 0 .. MAX_CREDENTIAL_VALUES : \E values \in [1 .. n -> Values] :
              authenticate(r, values)
      BY <1>2, Zenon DEF handle_request
    <3>2. PICK values \in [1 .. n -> Values] : authenticate(r, values)
      BY <3>1, Zenon
    <3>3. \/ pc' = [pc EXCEPT ![r] = "route"] /\ owed' = owed
          \/ pc' = [pc EXCEPT ![r] = "charge"]
      BY <3>2, Zenon DEF authenticate, Goto
    <3>. QED
      BY <3>3, Zenon DEF TypeOK
  <2>2. pc[r] = "idle"
    BY <1>2, Zenon DEF handle_request, Arrives
  <2>3. owed[r] = <<>> /\ ~spent[r] /\ todo[r] = <<>> /\ dialled[r] = {} /\ answer[r] = no_answer
    BY <2>2, Zenon DEF RequestInv, Charged, Unanswered, Undialled, Early
  <2>4. UNCHANGED <<spent, todo, clock, deadline, last, dialled, answer, slots, found, port>>
    BY <1>2, Zenon DEF handle_request, target, dial
  <2>5. Charged(r)'
    BY <2>1, <2>3, <2>4, Zenon DEF Charged
  <2>6. Unanswered(r)'
    BY <2>1, <2>3, <2>4, Zenon DEF Unanswered, Early
  <2>7. Undialled(r)'
    BY <2>1, <2>3, <2>4, Zenon DEF Undialled, Early
  <2>8. Permitted(r)'
    BY <2>1, <2>3, <2>4, ZenonT(40) DEF Permitted
  <2>9. Holding(r)'
    BY <2>1, <2>3, <2>4, SMT DEF Holding
  <2>10. Timed(r)'
    BY <2>4, SMT DEF RequestInv, Timed
  <2>11. Listed(r)'
    BY <2>4, Zenon DEF RequestInv, Listed
  <2>12. Tested(r)'
    BY <2>4, Zenon DEF RequestInv, Tested
  <2>13. Failed(r)'
    BY <2>4, Zenon DEF RequestInv, Failed
  <2>14. Truthful(r)'
    BY <2>4, ZenonT(40) DEF RequestInv, Truthful
  <2>15. Disclosed(r)'
    BY <2>4, Zenon DEF RequestInv, Disclosed
  <2>. QED
    BY <2>5, <2>6, <2>7, <2>8, <2>9, <2>10, <2>11, <2>12, <2>13, <2>14, <2>15, ZenonT(40)
    DEF RequestInv
<1>3. CASE record_auth_failure(r)
  <2>1. pc[r] = "charge"
    BY <1>3, Zenon DEF record_auth_failure
  <2>2. UNCHANGED <<pc, todo, clock, deadline, last, dialled, answer, slots, found, port>>
    BY <1>3, Zenon DEF record_auth_failure, target, dial
  <2>3. Charged(r)'
    BY <2>1, <2>2, Zenon DEF Charged
  <2>4. Unanswered(r)'
    BY <2>2, Zenon DEF RequestInv, Unanswered, Early
  <2>5. Undialled(r)'
    BY <2>2, Zenon DEF RequestInv, Undialled, Early
  <2>6. Permitted(r)'
    BY <2>2, Zenon DEF RequestInv, Permitted
  <2>7. Holding(r)'
    BY <2>2, ZenonT(40) DEF RequestInv, Holding
  <2>8. Timed(r)'
    BY <2>2, SMT DEF RequestInv, Timed
  <2>9. Listed(r)'
    BY <2>2, Zenon DEF RequestInv, Listed
  <2>10. Tested(r)'
    BY <2>2, Zenon DEF RequestInv, Tested
  <2>11. Failed(r)'
    BY <2>2, Zenon DEF RequestInv, Failed
  <2>12. Truthful(r)'
    BY <2>2, Zenon DEF RequestInv, Truthful
  <2>13. Disclosed(r)'
    BY <2>2, Zenon DEF RequestInv, Disclosed
  <2>. QED
    BY <2>3, <2>4, <2>5, <2>6, <2>7, <2>8, <2>9, <2>10, <2>11, <2>12, <2>13, Zenon
    DEF RequestInv
<1>4. CASE Denied(r)
  <2>1. CASE spent[r]
    <3>1. Return(r)
      BY <1>4, <2>1, SMT DEF Denied
    <3>. QED
      BY <3>1, ReturnKeeps, Zenon
  <2>2. CASE ~spent[r]
    <3>1. pc[r] = "charge" /\ owed[r] = <<>>
      BY <1>4, Zenon DEF Denied
    <3>2. dialled[r] = {}
      BY <3>1, Zenon DEF RequestInv, Undialled, Early
    <3>3. /\ refuse_with(r, 407, None)
          /\ UNCHANGED <<owed, spent, todo, clock, deadline, last, dialled, slots>>
      BY <1>4, <2>2, SMT DEF Denied, refuse, guess, dial
    <3>4. 407 \in Codes \ {200}
      BY SMT DEF Codes
    <3>. QED
      BY <2>2, <3>1, <3>2, <3>3, <3>4, RefusalKeeps, SMT
  <2>. QED
    BY <2>1, <2>2, Zenon
<1>. QED
  BY <1>1, <1>2, <1>3, <1>4, ZenonT(40)

\* in those that judge its target,
LEMMA RequestRoute ==
    ASSUME TypeOK, NEW r \in Requests, RequestInv(r),
           LimitReached(r) \/ route(r) \/ Lookup(r) \/ LookupFails(r)
    PROVE  RequestInv(r)'
<1>1. /\ pc[r] \in {"route", "lookup"}
      /\ UNCHANGED <<owed, spent, clock, last, dialled>>
  BY Zenon DEF LimitReached, route, Lookup, LookupFails, guess, dial
<1>2. owed[r] = <<>> /\ ~spent[r] /\ todo[r] = <<>> /\ dialled[r] = {} /\ answer[r] = no_answer
  BY <1>1, Zenon DEF RequestInv, Charged, Unanswered, Undialled, Early
<1>3. ASSUME NEW code \in Codes \ {200}, refuse(r, code),
             UNCHANGED <<todo, deadline>>, r \in slots => r \in slots'
      PROVE  RequestInv(r)'
  <2>1. refuse_with(r, code, None)
    BY <1>3, Zenon DEF refuse
  <2>2. owed'[r] = <<>> /\ ~spent'[r] /\ UNCHANGED <<todo, clock, deadline, last, dialled>>
    BY <1>1, <1>2, <1>3, Zenon
  <2>. QED
    BY <1>2, <1>3, <2>1, <2>2, RefusalKeeps, Zenon
<1>4. no_answer.status # 200 /\ no_answer.hop = None
  BY SMT DEF no_answer
<1>5. connect_timeout \in Nat
  BY RequestsAssumption, Zenon
<1>6. {400, 403, 500, 501, 502, 503, 504} \subseteq Codes \ {200}
  BY SMT DEF Codes
<1>7. CASE LimitReached(r)
  <2>1. refuse(r, 503) /\ UNCHANGED <<todo, deadline, slots>>
    BY <1>7, StatusOf, SMT DEF LimitReached, refuse_because, dial, shared
  <2>. QED
    BY <1>3, <1>6, <2>1, SMT
<1>8. CASE route(r)
  <2>1. r \in slots' /\ UNCHANGED <<todo, deadline, found>>
    BY <1>8, Zenon DEF route, dial
  <2>2. ASSUME NEW k \in {"tcp", "udp"}, allows_port(r, k) PROVE RequestInv(r)'
    <3>1. PICK allowed \in BOOLEAN :
            /\ port' = [port EXCEPT ![r] = allowed]
            /\ IF allowed THEN Goto(r, "lookup") /\ UNCHANGED answer
               ELSE refuse_because(r, "HttpRequestDenied")
      BY <2>2, Zenon DEF allows_port
    <3>2. CASE allowed
      <4>1. pc' = [pc EXCEPT ![r] = "lookup"] /\ UNCHANGED answer
        BY <3>1, <3>2, Zenon DEF Goto
      <4>2. pc'[r] = "lookup"
        BY <4>1, Zenon DEF TypeOK
      <4>3. port'[r]
        BY <3>1, <3>2, Zenon DEF TypeOK
      <4>4. Charged(r)'
        BY <1>1, <1>2, <2>1, <4>1, <4>2, <4>3, Zenon DEF Charged
      <4>5. Unanswered(r)'
        BY <1>1, <1>2, <2>1, <4>1, <4>2, <4>3, Zenon DEF Unanswered, Early
      <4>6. Undialled(r)'
        BY <1>1, <1>2, <2>1, <4>1, <4>2, <4>3, Zenon DEF Undialled, Early
      <4>7. Permitted(r)'
        BY <4>3, Zenon DEF Permitted
      <4>8. Holding(r)'
        BY <2>1, ZenonT(40) DEF Holding
      <4>9. Timed(r)'
        BY <1>1, <2>1, <4>1, SMT DEF RequestInv, Timed
      <4>10. Listed(r)'
        BY <1>1, <2>1, <4>1, Zenon DEF RequestInv, Listed
      <4>11. Tested(r)'
        BY <1>1, <2>1, <4>1, Zenon DEF RequestInv, Tested
      <4>12. Failed(r)'
        BY <1>1, <2>1, <4>1, Zenon DEF RequestInv, Failed
      <4>13. Truthful(r)'
        BY <1>1, <2>1, <4>1, ZenonT(40) DEF RequestInv, Truthful
      <4>14. Disclosed(r)'
        BY <1>1, <2>1, <4>1, Zenon DEF RequestInv, Disclosed
      <4>. QED
        BY <4>4, <4>5, <4>6, <4>7, <4>8, <4>9, <4>10, <4>11, <4>12, <4>13, <4>14, ZenonT(40)
        DEF RequestInv
    <3>3. CASE ~allowed
      <4>1. refuse_because(r, "HttpRequestDenied")
        BY <3>1, <3>3, Zenon
      <4>2. refuse(r, 403)
        BY <4>1, StatusOf, SMT DEF refuse_because
      <4>. QED
        BY <1>3, <1>6, <2>1, <4>2, SMT
    <3>. QED
      BY <3>2, <3>3, Zenon
  <2>3. ASSUME NEW code \in {400, 500, 501}, refuse(r, code) PROVE RequestInv(r)'
    BY <1>3, <1>6, <2>1, <2>3, SMT
  <2>4. ASSUME tcp_run(r) \/ udp_run(r) PROVE RequestInv(r)'
    <3>1. \/ \E k \in {"tcp", "udp"} : allows_port(r, k)
          \/ refuse(r, 400) \/ \E code \in {400, 500} : refuse(r, code)
      BY <2>4, SMT DEF tcp_run, udp_run
    <3>. QED
      BY <2>2, <2>3, <3>1, SMT
  <2>5. tcp_run(r) \/ udp_run(r) \/ refuse(r, 501)
    BY <1>8, Zenon DEF route
  <2>. QED
    BY <2>3, <2>4, <2>5, SMT
<1>9. CASE Lookup(r)
  <2>1. PICK answers \in Answers : admit_target(r, prefer_family(answers))
    BY <1>9, Zenon DEF Lookup
  <2> DEFINE addresses == prefer_family(answers)
             allowed == Kept(addresses, {a \in Addresses : Dialable(a)})
  <2>2. addresses \in Seq(Addresses)
    BY PreferFamilyIsList, Zenon
  <2>3. \A i \in DOMAIN allowed : Dialable(allowed[i])
    BY <2>2, AllowedAreDialable, Zenon
  <2>4. found' = [found EXCEPT ![r] = addresses] /\ UNCHANGED <<port, slots>> /\ pc[r] = "lookup"
    BY <1>9, <2>1, Zenon DEF Lookup, admit_target, shared
  <2>5. found'[r] = addresses
    BY <2>4, Zenon DEF TypeOK
  <2>6. port'[r] /\ r \in slots'
    BY <2>4, Zenon DEF RequestInv, Permitted, Holding
  <2>7. CASE allowed # <<>>
    <3>1. /\ todo' = [todo EXCEPT ![r] = allowed]
          /\ deadline' = [deadline EXCEPT ![r] = connect_timeout]
          /\ pc' = [pc EXCEPT ![r] = "dial"]
          /\ UNCHANGED answer
      BY <2>1, <2>7, Zenon DEF admit_target, Goto
    <3> HIDE DEF addresses, allowed
    <3>2. todo'[r] = allowed /\ deadline'[r] = connect_timeout /\ pc'[r] = "dial"
      BY <3>1, Zenon DEF TypeOK
    <3>3. answer'[r] = no_answer /\ answer'[r].status # 200 /\ answer'[r].hop = None
      BY <1>2, <1>4, <3>1, Zenon
    <3>4. pc'[r] \notin Early
      BY <3>2, Zenon DEF Early
    <3>5. Charged(r)'
      BY <1>1, <1>2, Zenon DEF Charged
    <3>6. Unanswered(r)'
      BY <3>3, Zenon DEF Unanswered, Early
    <3>7. Undialled(r)'
      BY <3>4, Zenon DEF Undialled, Early
    <3>8. Permitted(r)'
      BY <2>6, Zenon DEF Permitted
    <3>9. Holding(r)'
      BY <2>6, Zenon DEF Holding
    <3>10. Timed(r)'
      BY <1>1, <1>5, <3>2, SMT DEF RequestInv, Timed
    <3>11. Listed(r)'
      BY <2>3, <3>2, Zenon DEF Listed
    <3>12. Tested(r)'
      BY <1>1, Zenon DEF RequestInv, Tested
    <3>13. Failed(r)'
      BY <1>1, Zenon DEF RequestInv, Failed
    <3>14. Truthful(r)'
      BY <3>3, Zenon DEF Truthful
    <3>15. Disclosed(r)'
      BY <3>3, Zenon DEF Disclosed
    <3>. QED
      BY <3>5, <3>6, <3>7, <3>8, <3>9, <3>10, <3>11, <3>12, <3>13, <3>14, <3>15, ZenonT(40)
      DEF RequestInv
  <2>8. CASE allowed = <<>>
    <3>1. UNCHANGED <<todo, deadline>>
      BY <2>1, <2>8, ZenonT(40) DEF admit_target
    <3>2. CASE is_dns_blackhole(addresses)
      <4>1. refuse_with(r, 200, None)
        BY <2>1, <2>8, <3>2, Zenon DEF admit_target, accept_then_close
      <4>2. /\ found'[r] # <<>>
            /\ \A i \in DOMAIN found'[r] : is_unspecified(canonical(found'[r][i].ip))
        BY <2>5, <3>2, Zenon DEF is_dns_blackhole
      <4> HIDE DEF addresses, allowed
      <4>3. pc'[r] = "answer" /\ answer'[r] = [status |-> 200, hop |-> None]
        BY <4>1, Zenon DEF refuse_with, Goto, TypeOK
      <4>4. answer'[r].hop = None
        BY <4>3, SMT
      <4>5. dialled'[r] = {}
        BY <1>1, <1>2, Zenon
      <4>6. Charged(r)'
        BY <1>1, <1>2, Zenon DEF Charged
      <4>7. Unanswered(r)'
        BY <4>3, Zenon DEF Unanswered, Early
      <4>8. Undialled(r)'
        BY <4>3, ZenonT(40) DEF Undialled, Early
      <4>9. Permitted(r)'
        BY <2>6, Zenon DEF Permitted
      <4>10. Holding(r)'
        BY <2>6, Zenon DEF Holding
      <4>11. Timed(r)'
        BY <1>1, <3>1, SMT DEF RequestInv, Timed
      <4>12. Listed(r)'
        BY <1>1, <3>1, Zenon DEF RequestInv, Listed
      <4>13. Tested(r)'
        BY <1>1, <3>1, Zenon DEF RequestInv, Tested
      <4>14. Failed(r)'
        BY <1>1, <3>1, Zenon DEF RequestInv, Failed
      <4>15. Truthful(r)'
        BY <4>2, <4>5, Zenon DEF Truthful
      <4>16. Disclosed(r)'
        BY <4>4, Zenon DEF Disclosed
      <4>. QED
        BY <4>6, <4>7, <4>8, <4>9, <4>10, <4>11, <4>12, <4>13, <4>14, <4>15, <4>16, Zenon
        DEF RequestInv
    <3>3. CASE ~is_dns_blackhole(addresses)
      <4>1. refuse_because(r, "DestinationIpProhibited")
        BY <2>1, <2>8, <3>3, Zenon DEF admit_target
      <4> HIDE DEF addresses, allowed
      <4>2. refuse(r, 403)
        BY <4>1, StatusOf, SMT DEF refuse_because
      <4>. QED
        BY <1>3, <1>6, <2>6, <3>1, <4>2, SMT
    <3>. QED
      BY <3>2, <3>3, Zenon
  <2>. QED
    BY <2>7, <2>8, Zenon
<1>10. CASE LookupFails(r)
  <2>1. (refuse(r, 502) \/ refuse(r, 504)) /\ UNCHANGED <<todo, deadline, slots>>
    <3>1. PICK error \in {"DnsError", "DnsTimeout"} : refuse_because(r, error)
      BY <1>10, Zenon DEF LookupFails
    <3>2. refuse(r, 502) \/ refuse(r, 504)
      BY <3>1, StatusOf, SMT DEF refuse_because
    <3>3. UNCHANGED <<todo, deadline, slots>>
      BY <1>10, Zenon DEF LookupFails, dial, shared
    <3>. QED
      BY <3>2, <3>3, Zenon
  <2>. QED
    BY <1>3, <1>6, <2>1, SMT
<1>. QED
  BY <1>7, <1>8, <1>9, <1>10, Zenon

\* in those that dial,
LEMMA RequestDial ==
    ASSUME TypeOK, NEW r \in Requests, RequestInv(r),
           \/ Connected(r) \/ Tick(r) \/ DialTimesOut(r) \/ Unreachable(r)
           \/ \E error \in Errors : AttemptFails(r, error)
    PROVE  RequestInv(r)'
<1>1. pc[r] = "dial" /\ UNCHANGED <<owed, spent, port, found, slots>>
  BY Zenon DEF Connected, Tick, DialTimesOut, Unreachable, AttemptFails, guess, target, shared
<1>2. port'[r] /\ r \in slots' /\ owed'[r] = <<>> /\ ~spent'[r]
  BY <1>1, Zenon DEF RequestInv, Charged, Permitted, Holding
<1>3. answer[r] = no_answer /\ no_answer.status # 200 /\ no_answer.hop = None
  <2>1. answer[r] = no_answer
    BY <1>1, Zenon DEF RequestInv, Unanswered
  <2>2. no_answer.status # 200 /\ no_answer.hop = None
    BY SMT DEF no_answer
  <2>. QED
    BY <2>1, <2>2, Zenon
<1>4. ASSUME todo[r] # <<>>
      PROVE  Head(todo[r]) \in Addresses /\ Dialable(Head(todo[r]))
  <2>1. todo[r] \in Seq(Addresses) /\ \A i \in DOMAIN todo[r] : Dialable(todo[r][i])
    BY Zenon DEF TypeOK, RequestInv, Listed
  <2>2. 1 \in DOMAIN todo[r] /\ Head(todo[r]) = todo[r][1] /\ todo[r][1] \in Addresses
    BY <1>4, <2>1, SMT
  <2>. QED
    BY <2>1, <2>2, Zenon
<1>5. ASSUME todo[r] # <<>>, Tried(r)
      PROVE  /\ dialled'[r] = dialled[r] \union {Head(todo[r])}
             /\ Tested(r)'
             /\ Failed(r) /\ UNCHANGED last => Failed(r)'
  <2>1. dialled'[r] = dialled[r] \union {Head(todo[r])}
    BY <1>5, Zenon DEF Tried, TypeOK
  <2>2. Tested(r)'
    BY <1>4, <1>5, <2>1, Zenon DEF RequestInv, Tested
  <2>3. Failed(r) /\ UNCHANGED last => Failed(r)'
    BY <2>1, Zenon DEF Failed
  <2>. QED
    BY <2>1, <2>2, <2>3, Zenon
<1>6. ASSUME NEW failure, refuse_unreachable(r, failure)
      PROVE  /\ pc'[r] = "answer" /\ answer'[r].status # 200
             /\ \/ answer'[r].hop = None
                \/ answer'[r].hop = failure.hop /\ answer'[r].status \in TargetFault
  <2> DEFINE error == from_connect_error(failure.error)
             code == recommended_status(error)
             hop == IF discloses_next_hop(error) THEN failure.hop ELSE None
  <2>1. /\ code \in {500, 502, 503, 504}
        /\ discloses_next_hop(error) => code \in {502, 503, 504}
    BY UnreachableStatus
  <2>2. refuse_with(r, code, hop)
    BY <1>6, Zenon DEF refuse_unreachable
  <2>3. hop = None \/ (hop = failure.hop /\ code \in TargetFault)
    BY <2>1, SMT DEF TargetFault
  <2> HIDE DEF error, code, hop
  <2>4. pc'[r] = "answer" /\ answer'[r] = [status |-> code, hop |-> hop]
    BY <2>2, Zenon DEF refuse_with, Goto, TypeOK
  <2>5. answer'[r].status = code /\ answer'[r].hop = hop
    BY <2>4, SMT
  <2>6. code # 200
    BY <2>1, SMT
  <2>. QED
    BY <2>3, <2>4, <2>5, <2>6, Zenon
<1>7. CASE Connected(r)
  <2>1. todo[r] # <<>> /\ Tried(r) /\ UNCHANGED <<todo, clock, deadline, last>>
    BY <1>7, Zenon DEF Connected
  <2>2. pc'[r] = "answer" /\ answer'[r] = [status |-> 200, hop |-> None]
    BY <1>7, Zenon DEF Connected, refuse_with, Goto, TypeOK
  <2>3. answer'[r].hop = None
    BY <2>2, SMT
  <2>4. Head(todo'[r]) \in dialled'[r] /\ todo'[r] # <<>>
    BY <1>5, <2>1, Zenon
  <2>5. Charged(r)'
    BY <1>2, Zenon DEF Charged
  <2>6. Unanswered(r)'
    BY <2>2, Zenon DEF Unanswered, Early
  <2>7. Undialled(r)'
    BY <2>2, Zenon DEF Undialled, Early
  <2>8. Permitted(r)'
    BY <1>2, Zenon DEF Permitted
  <2>9. Holding(r)'
    BY <1>2, Zenon DEF Holding
  <2>10. Timed(r)'
    BY <2>1, Zenon DEF RequestInv, Timed
  <2>11. Listed(r)'
    BY <2>1, Zenon DEF RequestInv, Listed
  <2>12. Tested(r)'
    BY <1>5, <2>1, Zenon DEF Tested
  <2>13. Failed(r)'
    BY <1>5, <2>1, Zenon DEF RequestInv, Failed
  <2>14. Truthful(r)'
    BY <2>4, Zenon DEF Truthful
  <2>15. Disclosed(r)'
    BY <2>3, ZenonT(40) DEF Disclosed
  <2>. QED
    BY <2>5, <2>6, <2>7, <2>8, <2>9, <2>10, <2>11, <2>12, <2>13, <2>14, <2>15, ZenonT(40)
    DEF RequestInv
<1>8. CASE Tick(r)
  <2>1. /\ clock'[r] = clock[r] + 1 /\ clock[r] < deadline[r]
        /\ UNCHANGED <<pc, todo, deadline, last, dialled, answer>>
    BY <1>8, Zenon DEF Tick, TypeOK
  <2>2. clock[r] \in Nat /\ deadline[r] \in Nat /\ connect_timeout \in Nat
    BY RequestsAssumption, Zenon DEF TypeOK
  <2>3. Charged(r)'
    BY <1>1, <2>1, Zenon DEF RequestInv, Charged
  <2>4. Unanswered(r)'
    BY <1>1, <2>1, Zenon DEF RequestInv, Unanswered, Early
  <2>5. Undialled(r)'
    BY <1>1, <2>1, Zenon DEF RequestInv, Undialled, Early
  <2>6. Permitted(r)'
    BY <1>1, <2>1, Zenon DEF RequestInv, Permitted
  <2>7. Holding(r)'
    BY <1>1, <2>1, ZenonT(40) DEF RequestInv, Holding
  <2>8. Timed(r)'
    BY <2>1, <2>2, SMT DEF RequestInv, Timed
  <2>9. Listed(r)'
    BY <1>1, <2>1, Zenon DEF RequestInv, Listed
  <2>10. Tested(r)'
    BY <1>1, <2>1, Zenon DEF RequestInv, Tested
  <2>11. Failed(r)'
    BY <1>1, <2>1, Zenon DEF RequestInv, Failed
  <2>12. Truthful(r)'
    BY <1>1, <2>1, ZenonT(40) DEF RequestInv, Truthful
  <2>13. Disclosed(r)'
    BY <1>1, <2>1, Zenon DEF RequestInv, Disclosed
  <2>. QED
    BY <2>3, <2>4, <2>5, <2>6, <2>7, <2>8, <2>9, <2>10, <2>11, <2>12, <2>13, Zenon
    DEF RequestInv
<1>9. CASE DialTimesOut(r)
  <2>1. /\ todo[r] # <<>> /\ Tried(r) /\ UNCHANGED <<todo, clock, deadline, last>>
        /\ refuse_unreachable(r, [hop |-> Head(todo[r]), error |-> "timed out"])
    BY <1>9, Zenon DEF DialTimesOut
  <2>2. /\ pc'[r] = "answer" /\ answer'[r].status # 200
        /\ \/ answer'[r].hop = None
           \/ answer'[r].hop = Head(todo[r]) /\ answer'[r].status \in TargetFault
    <3> DEFINE failure == [hop |-> Head(todo[r]), error |-> "timed out"]
    <3>1. failure.hop = Head(todo[r]) /\ refuse_unreachable(r, failure)
      BY <2>1, Zenon
    <3> HIDE DEF failure
    <3>. QED
      BY <1>6, <3>1, Zenon
  <2>3. Head(todo[r]) \in dialled'[r]
    BY <1>5, <2>1, Zenon
  <2>4. Charged(r)'
    BY <1>2, Zenon DEF Charged
  <2>5. Unanswered(r)'
    BY <2>2, Zenon DEF Unanswered, Early
  <2>6. Undialled(r)'
    BY <2>2, Zenon DEF Undialled, Early
  <2>7. Permitted(r)'
    BY <1>2, Zenon DEF Permitted
  <2>8. Holding(r)'
    BY <1>2, Zenon DEF Holding
  <2>9. Timed(r)'
    BY <2>1, Zenon DEF RequestInv, Timed
  <2>10. Listed(r)'
    BY <2>1, Zenon DEF RequestInv, Listed
  <2>11. Tested(r)'
    BY <1>5, <2>1, Zenon DEF Tested
  <2>12. Failed(r)'
    BY <1>5, <2>1, Zenon DEF RequestInv, Failed
  <2>13. Truthful(r)'
    BY <2>2, Zenon DEF Truthful
  <2>14. Disclosed(r)'
    BY <2>2, <2>3, ZenonT(40) DEF Disclosed
  <2>. QED
    BY <2>4, <2>5, <2>6, <2>7, <2>8, <2>9, <2>10, <2>11, <2>12, <2>13, <2>14, Zenon
    DEF RequestInv
<1>10. CASE Unreachable(r)
  <2>1. /\ refuse_unreachable(r, last[r])
        /\ UNCHANGED <<todo, clock, deadline, last, dialled>>
    BY <1>10, Zenon DEF Unreachable, dial
  <2>2. /\ pc'[r] = "answer" /\ answer'[r].status # 200
        /\ \/ answer'[r].hop = None
           \/ answer'[r].hop = last[r].hop /\ answer'[r].status \in TargetFault
    BY <1>6, <2>1, Zenon
  <2>3. Charged(r)'
    BY <1>2, Zenon DEF Charged
  <2>4. Unanswered(r)'
    BY <2>2, Zenon DEF Unanswered, Early
  <2>5. Undialled(r)'
    BY <2>2, Zenon DEF Undialled, Early
  <2>6. Permitted(r)'
    BY <1>2, Zenon DEF Permitted
  <2>7. Holding(r)'
    BY <1>2, Zenon DEF Holding
  <2>8. Timed(r)'
    BY <2>1, Zenon DEF RequestInv, Timed
  <2>9. Listed(r)'
    BY <2>1, Zenon DEF RequestInv, Listed
  <2>10. Tested(r)'
    BY <2>1, Zenon DEF RequestInv, Tested
  <2>11. Failed(r)'
    BY <2>1, Zenon DEF RequestInv, Failed
  <2>12. Truthful(r)'
    BY <2>2, Zenon DEF Truthful
  <2>13. Disclosed(r)'
    BY <2>1, <2>2, Zenon DEF RequestInv, Failed, Disclosed
  <2>. QED
    BY <2>3, <2>4, <2>5, <2>6, <2>7, <2>8, <2>9, <2>10, <2>11, <2>12, <2>13, Zenon
    DEF RequestInv
<1>11. ASSUME NEW error \in Errors, AttemptFails(r, error) PROVE RequestInv(r)'
  <2>1. /\ todo[r] # <<>> /\ Tried(r) /\ UNCHANGED <<pc, clock, deadline, answer>>
        /\ last' = [last EXCEPT ![r] = [hop |-> Head(todo[r]), error |-> error]]
        /\ todo' = [todo EXCEPT ![r] = Tail(@)]
    BY <1>11, Zenon DEF AttemptFails, NextAddress
  <2>2. todo'[r] = Tail(todo[r]) /\ last'[r] = [hop |-> Head(todo[r]), error |-> error]
    BY <2>1, Zenon DEF TypeOK
  <2>3. last'[r].hop = Head(todo[r])
    BY <2>2, SMT
  <2>4. Head(todo[r]) \in dialled'[r]
    BY <1>5, <2>1, Zenon
  <2>5. \A i \in DOMAIN todo'[r] : Dialable(todo'[r][i])
    <3>1. todo[r] \in Seq(Addresses) /\ \A i \in DOMAIN todo[r] : Dialable(todo[r][i])
      BY Zenon DEF TypeOK, RequestInv, Listed
    <3>2. \A i \in DOMAIN Tail(todo[r]) : i + 1 \in DOMAIN todo[r] /\ Tail(todo[r])[i] = todo[r][i + 1]
      BY <2>1, <3>1, SMT
    <3>. QED
      BY <2>2, <3>1, <3>2, Zenon
  <2>6. pc'[r] \notin Early
    BY <1>1, <2>1, Zenon DEF Early
  <2>7. Charged(r)'
    BY <1>2, Zenon DEF Charged
  <2>8. Unanswered(r)'
    BY <1>3, <2>1, Zenon DEF Unanswered, Early
  <2>9. Undialled(r)'
    BY <2>6, Zenon DEF Undialled, Early
  <2>10. Permitted(r)'
    BY <1>2, Zenon DEF Permitted
  <2>11. Holding(r)'
    BY <1>2, Zenon DEF Holding
  <2>12. Timed(r)'
    BY <2>1, Zenon DEF RequestInv, Timed
  <2>13. Listed(r)'
    BY <2>5, Zenon DEF Listed
  <2>14. Tested(r)'
    BY <1>5, <2>1, Zenon DEF Tested
  <2>15. Failed(r)'
    BY <2>3, <2>4, Zenon DEF Failed
  <2>16. Truthful(r)'
    BY <1>3, <2>1, Zenon DEF Truthful
  <2>17. Disclosed(r)'
    BY <1>3, <2>1, Zenon DEF Disclosed
  <2>. QED
    BY <2>7, <2>8, <2>9, <2>10, <2>11, <2>12, <2>13, <2>14, <2>15, <2>16, <2>17, ZenonT(40)
    DEF RequestInv
<1>. QED
  BY <1>7, <1>8, <1>9, <1>10, <1>11, Zenon

\* and in those that answer.
LEMMA RequestAnswer ==
    ASSUME TypeOK, NEW r \in Requests, RequestInv(r),
           Sent(r) \/ NotLanded(r) \/ TunnelEnds(r)
    PROVE  RequestInv(r)'
<1>1. CASE Return(r)
  BY <1>1, ReturnKeeps, Zenon
<1>2. CASE Sent(r) /\ HasTarget(r)
  <2>1. /\ pc[r] = "answer" /\ pc' = [pc EXCEPT ![r] = "relay"] /\ todo[r] # <<>>
        /\ UNCHANGED <<owed, spent, port, found, todo, clock, deadline, last, dialled,
                       answer, slots>>
    BY <1>2, Zenon DEF Sent, Goto, HasTarget, guess, target, dial
  <2>2. pc'[r] = "relay"
    BY <2>1, Zenon DEF TypeOK
  <2>3. Charged(r)'
    BY <2>1, <2>2, Zenon DEF RequestInv, Charged
  <2>4. Unanswered(r)'
    BY <2>1, <2>2, Zenon DEF RequestInv, Unanswered, Early
  <2>5. Undialled(r)'
    BY <2>1, <2>2, Zenon DEF RequestInv, Undialled, Early
  <2>6. Permitted(r)'
    BY <2>1, <2>2, Zenon DEF RequestInv, Permitted
  <2>7. Holding(r)'
    BY <2>1, <2>2, ZenonT(40) DEF RequestInv, Holding
  <2>8. Timed(r)'
    BY <2>1, <2>2, SMT DEF RequestInv, Timed
  <2>9. Listed(r)'
    BY <2>1, <2>2, Zenon DEF RequestInv, Listed
  <2>10. Tested(r)'
    BY <2>1, <2>2, Zenon DEF RequestInv, Tested
  <2>11. Failed(r)'
    BY <2>1, <2>2, Zenon DEF RequestInv, Failed
  <2>12. Truthful(r)'
    BY <2>1, <2>2, Zenon DEF RequestInv, Truthful
  <2>13. Disclosed(r)'
    BY <2>1, <2>2, Zenon DEF RequestInv, Disclosed
  <2>. QED
    BY <2>3, <2>4, <2>5, <2>6, <2>7, <2>8, <2>9, <2>10, <2>11, <2>12, <2>13, ZenonT(40)
    DEF RequestInv
<1>. QED
  BY <1>1, <1>2, Zenon DEF Sent, NotLanded, TunnelEnds

\* So it is known after every step.
LEMMA RequestStep ==
    ASSUME TypeOK, \A r \in Requests : RequestInv(r), [Next]_vars
    PROVE  \A r \in Requests : RequestInv(r)'
<1>1. ASSUME NEW r \in Requests, NEW q \in Requests, Handle(r) PROVE RequestInv(q)'
  <2>1. CASE q = r
    BY <1>1, <2>1, RequestGuess, RequestRoute, RequestDial, RequestAnswer, Zenon DEF Handle
  <2>2. CASE q # r
    BY <1>1, <2>2, OthersUntouched, UntouchedKeeps, Zenon
  <2>. QED
    BY <2>1, <2>2, Zenon
<1>2. ASSUME NEW q \in Requests, UNCHANGED vars PROVE RequestInv(q)'
  <2>1. Untouched(q)
    BY <1>2, Zenon DEF vars, guess, target, dial, shared, Untouched
  <2>. QED
    BY <2>1, UntouchedKeeps, Zenon
<1>. QED
  BY <1>1, <1>2, Zenon DEF Next

(***************************************************************************)
(* The failure counters.                                                     *)
(***************************************************************************)
LEMMA TotalIsSum ==
    ASSUME NEW f
    PROVE  total(f) = SumOver(f.configured, Users) + f.unconfigured + f.anonymous
  BY Zenon DEF total, SumOver

\* A failure counts for one, in whichever bucket.
LEMMA CountedTotal ==
    ASSUME NEW f \in Counters, NEW claim \in Claims
    PROVE  total(Counted(f, claim)) = total(f) + 1
<1> DEFINE g == Counted(f, claim)
<1>1. g \in Counters /\ IsFiniteSet(Users)
  BY CountedType, RequestsAssumption, Zenon
<1>2. SumOver(f.configured, Users) \in Int
  BY <1>1, SumIsInteger DEF Counters
<1>3. CASE claim \in Users
  <2>1. /\ g.unconfigured = f.unconfigured /\ g.anonymous = f.anonymous
        /\ g.configured[claim] = f.configured[claim] + 1
        /\ \A u \in Users \ {claim} : g.configured[u] = f.configured[u]
    BY <1>3, Zenon DEF Counted, Counters
  <2>2. \A u \in Users : f.configured[u] \in Int /\ g.configured[u] \in Int
    BY <1>1 DEF Counters
  <2> HIDE DEF g
  <2>3. SumOver(g.configured, Users)
            = SumOver(f.configured, Users) + g.configured[claim] - f.configured[claim]
    BY <1>1, <1>3, <2>1, <2>2, SumUpdate
  <2>4. total(g) = total(f) + 1
    BY <1>2, <1>3, <2>1, <2>2, <2>3, TotalIsSum DEF Counters
  <2>. QED
    BY <2>4, Zenon DEF g
<1>4. CASE claim \notin Users
  <2>1. /\ g.configured = f.configured
        /\ g.unconfigured + g.anonymous = f.unconfigured + f.anonymous + 1
    BY <1>4 DEF Counted, Counters
  <2> HIDE DEF g
  <2>2. total(g) = total(f) + 1
    BY <1>1, <1>2, <2>1, TotalIsSum DEF Counters
  <2>. QED
    BY <2>2, Zenon DEF g
<1>. QED
  BY <1>3, <1>4, Zenon

\* A success takes back the anonymous failures and the user's own.
LEMMA ForgivenTotal ==
    ASSUME NEW f \in Counters, NEW user \in Users \union {None}
    PROVE  total(Forgiven(f, user))
               = total(f) - f.anonymous - (IF user \in Users THEN f.configured[user] ELSE 0)
<1> DEFINE g == Forgiven(f, user)
<1>1. IsFiniteSet(Users) /\ None \notin Users
  BY RequestsAssumption, Zenon
<1>2. /\ g.anonymous = 0 /\ g.unconfigured = f.unconfigured
      /\ \A u \in Users : g.configured[u] = IF u = user THEN 0 ELSE f.configured[u]
  BY Zenon DEF Forgiven, Counters
<1>3. SumOver(f.configured, Users) \in Int /\ \A u \in Users : f.configured[u] \in Int
  BY <1>1, SumIsInteger DEF Counters
<1> HIDE DEF g
<1>4. CASE user \in Users
  <2>1. SumOver(g.configured, Users)
            = SumOver(f.configured, Users) + g.configured[user] - f.configured[user]
    BY <1>1, <1>2, <1>3, <1>4, SumUpdate
  <2>2. total(g) = total(f) - f.anonymous - f.configured[user]
    BY <1>2, <1>3, <1>4, <2>1, TotalIsSum DEF Counters
  <2>. QED
    BY <1>4, <2>2, Zenon DEF g
<1>5. CASE user \notin Users
  <2>1. SumOver(g.configured, Users) = SumOver(f.configured, Users)
    BY <1>1, <1>2, <1>5, SumSame
  <2>2. total(g) = total(f) - f.anonymous
    BY <1>2, <1>3, <2>1, TotalIsSum DEF Counters
  <2>3. total(f) \in Int
    BY <1>3, TotalIsSum DEF Counters
  <2>. QED
    BY <1>5, <2>2, <2>3 DEF g, Counters
<1>. QED
  BY <1>4, <1>5, Zenon

\* Finitely many guesses were logged.
LEMMA UnforgivenIsFinite ==
    ASSUME TypeOK
    PROVE  /\ Unforgiven \subseteq 1 .. Len(log) /\ IsFiniteSet(Unforgiven)
           /\ Cardinality(Unforgiven) \in Nat
           /\ \A claim : Bucket(claim) \subseteq Unforgiven /\ IsFiniteSet(Bucket(claim))
           /\ \A claim : Cardinality(Bucket(claim)) \in Nat
<1>1. DOMAIN log = 1 .. Len(log) /\ Len(log) \in Nat
  BY DEF TypeOK
<1>2. Unforgiven \subseteq 1 .. Len(log)
  BY <1>1, Zenon DEF Unforgiven
<1>3. IsFiniteSet(1 .. Len(log))
  BY <1>1, FS_Interval
<1>4. IsFiniteSet(Unforgiven)
  BY <1>2, <1>3, FS_Subset, Zenon
<1>5. ASSUME NEW claim PROVE Bucket(claim) \in SUBSET Unforgiven
  BY Zenon DEF Bucket
<1>6. ASSUME NEW claim PROVE IsFiniteSet(Bucket(claim))
  BY <1>4, <1>5, FS_Subset, Zenon
<1>7. ASSUME NEW claim PROVE Cardinality(Bucket(claim)) \in Nat
  BY <1>6, FS_CardinalityType, Zenon
<1>8. Cardinality(Unforgiven) \in Nat
  BY <1>4, FS_CardinalityType, Zenon
<1>. QED
  BY <1>2, <1>4, <1>5, <1>6, <1>7, <1>8, ZenonT(40)

\* What a failure adds to the history.
LEMMA FailureIsUnforgiven ==
    ASSUME TypeOK, NEW claim \in Claims,
           log' = Append(log, [claim |-> claim, right |-> FALSE])
    PROVE  /\ Unforgiven' = Unforgiven \union {Len(log) + 1}
           /\ Bucket(claim)' = Bucket(claim) \union {Len(log) + 1}
           /\ \A other : other # claim => Bucket(other)' = Bucket(other)
<1> DEFINE n == Len(log)
<1>1. n \in Nat /\ DOMAIN log = 1 .. n /\ DOMAIN log' = 1 .. n + 1 /\ Len(log') = n + 1
  BY DEF TypeOK
<1>2. \A i \in 1 .. n : log'[i] = log[i]
  BY DEF TypeOK
<1>3. log'[n + 1] = [claim |-> claim, right |-> FALSE]
  BY DEF TypeOK
<1>4. log'[n + 1].claim = claim /\ log'[n + 1].right = FALSE
  BY <1>3
<1> HIDE DEF n
<1>5. ASSUME NEW i \in 1 .. n PROVE i \in Unforgiven' <=> i \in Unforgiven
  <2>1. i + 1 .. n + 1 = (i + 1 .. n) \union {n + 1}
    BY <1>1
  <2>2. \A j \in i + 1 .. n : j \in 1 .. n
    BY <1>1
  <2>. QED
    BY <1>1, <1>2, <1>4, <2>1, <2>2 DEF Unforgiven, n
<1>6. n + 1 \in Unforgiven'
  <2>1. n + 1 + 1 .. n + 1 = {} /\ n + 1 \in 1 .. n + 1
    BY <1>1
  <2>. QED
    BY <1>1, <1>4, <2>1, Zenon DEF Unforgiven
<1>7. Unforgiven' \subseteq 1 .. n + 1 /\ Unforgiven \subseteq 1 .. n
  BY <1>1, Zenon DEF Unforgiven
<1>8. Unforgiven' = Unforgiven \union {n + 1} /\ n + 1 \notin Unforgiven
  <2>1. 1 .. n + 1 = (1 .. n) \union {n + 1} /\ n + 1 \notin 1 .. n
    BY <1>1
  <2>2. \A i : i \in Unforgiven' <=> i \in Unforgiven \/ i = n + 1
    BY <1>5, <1>6, <1>7, <2>1, Zenon
  <2>. QED
    BY <1>7, <2>1, <2>2, Zenon
<1>9. ASSUME NEW other
      PROVE  Bucket(other)' = IF other = claim THEN Bucket(other) \union {n + 1} ELSE Bucket(other)
  BY <1>2, <1>4, <1>7, <1>8, Zenon DEF Bucket
<1>. QED
  BY <1>8, <1>9, Zenon DEF n

\* What a success takes from it.
LEMMA SuccessForgives ==
    ASSUME TypeOK, NEW user \in Claims,
           log' = Append(log, [claim |-> user, right |-> TRUE])
    PROVE  /\ Unforgiven' = Unforgiven \ (Bucket(None) \union Bucket(user))
           /\ Bucket(None)' = {} /\ Bucket(user)' = {}
           /\ \A other : other # None /\ other # user => Bucket(other)' = Bucket(other)
<1> DEFINE n == Len(log)
<1>1. n \in Nat /\ DOMAIN log = 1 .. n /\ DOMAIN log' = 1 .. n + 1 /\ Len(log') = n + 1
  BY DEF TypeOK
<1>2. \A i \in 1 .. n : log'[i] = log[i]
  BY DEF TypeOK
<1>3. log'[n + 1] = [claim |-> user, right |-> TRUE]
  BY DEF TypeOK
<1>4. log'[n + 1].claim = user /\ log'[n + 1].right = TRUE
  BY <1>3
<1> HIDE DEF n
<1>5. ASSUME NEW i \in 1 .. n
      PROVE  i \in Unforgiven' <=> i \in Unforgiven /\ log[i].claim # None /\ log[i].claim # user
  <2>1. i + 1 .. n + 1 = (i + 1 .. n) \union {n + 1}
    BY <1>1
  <2>2. \A j \in i + 1 .. n : j \in 1 .. n
    BY <1>1
  <2>. QED
    BY <1>1, <1>2, <1>4, <2>1, <2>2 DEF Unforgiven, Forgives, n
<1>6. n + 1 \notin Unforgiven'
  BY <1>1, <1>4, Zenon DEF Unforgiven
<1>7. Unforgiven' \subseteq 1 .. n + 1 /\ Unforgiven \subseteq 1 .. n
  BY <1>1, Zenon DEF Unforgiven
<1>8. Unforgiven' \subseteq 1 .. n
  BY <1>1, <1>6, <1>7
<1>9. Unforgiven' = {i \in Unforgiven : log[i].claim # None /\ log[i].claim # user}
  BY <1>5, <1>7, <1>8, Zenon
<1>10. ASSUME NEW other
       PROVE  Bucket(other)' = IF other \in {None, user} THEN {} ELSE Bucket(other)
  BY <1>2, <1>7, <1>9, Zenon DEF Bucket
<1>11. Unforgiven' = Unforgiven \ (Bucket(None) \union Bucket(user))
  BY <1>9, Zenon DEF Bucket
<1>. QED
  BY <1>10, <1>11, Zenon

\* The counters agree with the log when a guess fails,
LEMMA CountersFailure ==
    ASSUME TypeOK, CountersInv, NEW r \in Requests, record_auth_failure(r)
    PROVE  CountersInv'
<1>1. PICK claim \in Claims :
          /\ failures' = Counted(failures, claim)
          /\ log' = Append(log, [claim |-> claim, right |-> FALSE])
  <2>1. Head(owed[r]) \in Claims
    BY DEF record_auth_failure, TypeOK
  <2>. QED
    BY <2>1, Zenon DEF record_auth_failure
<1>0. PICK n \in Nat : n = Len(log)
  BY DEF TypeOK
<1>2. failures \in Counters
  BY Zenon DEF TypeOK, Counters
<1>3. /\ Unforgiven' = Unforgiven \union {n + 1} /\ Bucket(claim)' = Bucket(claim) \union {n + 1}
      /\ \A other : other # claim => Bucket(other)' = Bucket(other)
  BY <1>0, <1>1, FailureIsUnforgiven, Zenon
<1>4. n + 1 \notin Unforgiven /\ n + 1 \notin Bucket(claim)
  <2>1. n + 1 \notin 1 .. n
    OBVIOUS
  <2>. QED
    BY <1>0, <2>1, UnforgivenIsFinite, Zenon
<1>5. Cardinality(Unforgiven') = Cardinality(Unforgiven) + 1
  BY <1>3, <1>4, UnforgivenIsFinite, FS_AddElement, Zenon
<1>6. Cardinality(Bucket(claim)') = Cardinality(Bucket(claim)) + 1
  <2>1. IsFiniteSet(Bucket(claim))
    BY UnforgivenIsFinite, Zenon
  <2>2. Cardinality(Bucket(claim) \union {n + 1}) = Cardinality(Bucket(claim)) + 1
    BY <1>4, <2>1, FS_AddElement, Zenon
  <2>. QED
    BY <1>3, <2>2, Zenon
<1>7. total(failures') = Cardinality(Unforgiven')
  BY <1>1, <1>2, <1>5, CountedTotal, Zenon DEF CountersInv
<1>8. ASSUME NEW u \in Users PROVE failures'.configured[u] = Cardinality(Bucket(u)')
  <2>1. failures.configured[u] = Cardinality(Bucket(u))
    BY Zenon DEF CountersInv
  <2>2. CASE u = claim
    <3>1. failures'.configured[u] = failures.configured[u] + 1
      BY <1>1, <1>2, <2>2, Zenon DEF Counted, Counters
    <3>. QED
      BY <1>6, <2>1, <2>2, <3>1, Zenon
  <2>3. CASE u # claim
    <3>1. failures'.configured[u] = failures.configured[u]
      BY <1>1, <1>2, <2>3, Zenon DEF Counted, Counters
    <3>. QED
      BY <1>3, <2>1, <2>3, <3>1, Zenon
  <2>. QED
    BY <2>2, <2>3, Zenon
<1>9. failures'.unconfigured = Cardinality(Bucket(Stranger)')
  <2>1. failures.unconfigured = Cardinality(Bucket(Stranger))
    BY Zenon DEF CountersInv
  <2>2. CASE claim = Stranger
    <3>1. failures'.unconfigured = failures.unconfigured + 1
      BY <1>1, <1>2, <2>2, RequestsAssumption, Zenon DEF Counted, Counters
    <3>. QED
      BY <1>6, <2>1, <2>2, <3>1, Zenon
  <2>3. CASE claim # Stranger
    <3>1. failures'.unconfigured = failures.unconfigured
      BY <1>1, <1>2, <2>3, Zenon DEF Counted, Counters
    <3>. QED
      BY <1>3, <2>1, <2>3, <3>1, Zenon
  <2>. QED
    BY <2>2, <2>3, Zenon
<1>10. failures'.anonymous = Cardinality(Bucket(None)')
  <2>1. failures.anonymous = Cardinality(Bucket(None))
    BY Zenon DEF CountersInv
  <2>2. CASE claim = None
    <3>1. failures'.anonymous = failures.anonymous + 1
      BY <1>1, <1>2, <2>2, RequestsAssumption, Zenon DEF Counted, Counters
    <3>. QED
      BY <1>6, <2>1, <2>2, <3>1, Zenon
  <2>3. CASE claim # None
    <3>1. claim \in Users \union {Stranger}
      BY <1>1, <2>3, Zenon DEF Claims
    <3>2. failures'.anonymous = failures.anonymous
      BY <1>1, <1>2, <3>1, Zenon DEF Counted, Counters
    <3>. QED
      BY <1>3, <2>1, <2>3, <3>2, Zenon
  <2>. QED
    BY <2>2, <2>3, Zenon
<1>11. Reached(failures)' => spent'[r]
  BY Zenon DEF record_auth_failure, TypeOK, Reached
<1>. QED
  BY <1>7, <1>8, <1>9, <1>10, <1>11, Zenon DEF CountersInv

\* when one is right and its user is forgiven,
LEMMA CountersSuccess ==
    ASSUME TypeOK, CountersInv, NEW user \in Users \union {None}, mark_authenticated(user),
           UNCHANGED <<closed, spent>>
    PROVE  CountersInv'
<1>1. /\ failures' = Forgiven(failures, user) /\ user \in Claims
      /\ log' = Append(log, [claim |-> user, right |-> TRUE])
  BY Zenon DEF mark_authenticated, Claims
<1>2. failures \in Counters /\ None \notin Users /\ Stranger \notin Users /\ Stranger # None
  BY RequestsAssumption, Zenon DEF TypeOK, Counters
<1>3. /\ Unforgiven' = Unforgiven \ (Bucket(None) \union Bucket(user))
      /\ Bucket(None)' = {} /\ Bucket(user)' = {}
      /\ \A other : other # None /\ other # user => Bucket(other)' = Bucket(other)
  BY <1>1, SuccessForgives, Zenon
<1>4. /\ failures'.anonymous = 0 /\ failures'.unconfigured = failures.unconfigured
      /\ \A u \in Users : failures'.configured[u] = IF u = user THEN 0 ELSE failures.configured[u]
  BY <1>1, <1>2, Zenon DEF Forgiven, Counters
<1> DEFINE Gone == Bucket(None) \union Bucket(user)
<1>5. /\ IsFiniteSet(Unforgiven) /\ IsFiniteSet(Bucket(None)) /\ IsFiniteSet(Bucket(user))
      /\ Unforgiven \cap Gone = Gone
  BY UnforgivenIsFinite, Zenon
<1>6. Cardinality(Unforgiven \ Gone) = Cardinality(Unforgiven) - Cardinality(Gone)
  <2> HIDE DEF Gone
  <2>1. Cardinality(Unforgiven \ Gone) = Cardinality(Unforgiven) - Cardinality(Unforgiven \cap Gone)
    BY <1>5, FS_Difference, Zenon
  <2>. QED
    BY <1>5, <2>1, Zenon
<1>7. Cardinality(Gone) = Cardinality(Bucket(None))
                          + (IF user \in Users THEN Cardinality(Bucket(user)) ELSE 0)
  <2>1. Cardinality(Bucket(None)) \in Nat
    BY UnforgivenIsFinite, Zenon
  <2>2. CASE user \in Users
    <3>1. Bucket(None) \cap Bucket(user) = {}
      BY <1>2, <2>2, Zenon DEF Bucket
    <3>2. Cardinality(Gone) = Cardinality(Bucket(None)) + Cardinality(Bucket(user))
                              - Cardinality(Bucket(None) \cap Bucket(user))
      BY <1>5, FS_Union, Zenon
    <3>3. Cardinality(Bucket(user)) \in Nat
      BY UnforgivenIsFinite, Zenon
    <3>4. Cardinality(Bucket(None) \cap Bucket(user)) = 0
      BY <3>1, FS_EmptySet, Zenon
    <3> HIDE DEF Gone
    <3>. QED
      BY <2>1, <2>2, <3>2, <3>3, <3>4
  <2>3. CASE user \notin Users
    <3>1. Gone = Bucket(None)
      BY <2>3, Zenon
    <3>. QED
      BY <2>1, <2>3, <3>1
  <2>. QED
    BY <2>2, <2>3, Zenon
<1>8. total(failures') = Cardinality(Unforgiven')
  <2>1. total(failures') = total(failures) - failures.anonymous
                           - (IF user \in Users THEN failures.configured[user] ELSE 0)
    BY <1>1, <1>2, ForgivenTotal, Zenon
  <2>2. /\ total(failures) = Cardinality(Unforgiven)
        /\ failures.anonymous = Cardinality(Bucket(None))
        /\ user \in Users => failures.configured[user] = Cardinality(Bucket(user))
    BY Zenon DEF CountersInv
  <2>3. /\ Cardinality(Unforgiven) \in Nat /\ Cardinality(Bucket(None)) \in Nat
        /\ Cardinality(Bucket(user)) \in Nat
    BY UnforgivenIsFinite, Zenon
  <2>4. Cardinality(Unforgiven') = Cardinality(Unforgiven) - Cardinality(Gone)
    BY <1>3, <1>6, Zenon
  <2> HIDE DEF Gone
  <2>. QED
    BY <1>7, <2>1, <2>2, <2>3, <2>4
<1>9. total(failures') <= total(failures)
  <2>1. Cardinality(Unforgiven') <= Cardinality(Unforgiven)
    BY <1>3, <1>5, FS_Subset, Zenon
  <2>. QED
    BY <1>8, <2>1, Zenon DEF CountersInv
<1>10. total(failures) \in Nat /\ total(failures') \in Nat /\ max_auth_failures \in Nat
  <2>1. Cardinality(Unforgiven') \in Nat
    BY <1>3, <1>5, FS_Difference, FS_CardinalityType, Zenon
  <2>. QED
    BY <1>8, <2>1, UnforgivenIsFinite, RequestsAssumption, Zenon DEF CountersInv
<1>11. Reached(failures)' => Reached(failures)
  BY <1>9, <1>10 DEF Reached
<1>12. \A u \in Users : failures'.configured[u] = Cardinality(Bucket(u)')
  BY <1>2, <1>3, <1>4, FS_EmptySet, Zenon DEF CountersInv
<1>13. failures'.unconfigured = Cardinality(Bucket(Stranger)')
  BY <1>2, <1>3, <1>4, Zenon DEF CountersInv
<1>14. failures'.anonymous = Cardinality(Bucket(None)')
  BY <1>3, <1>4, FS_EmptySet, Zenon
<1>. QED
  BY <1>8, <1>11, <1>12, <1>13, <1>14, Zenon DEF CountersInv

\* when no guess is made,
LEMMA CountersUntouched ==
    ASSUME CountersInv, UNCHANGED <<failures, log>>,
           (closed \/ \E r \in Requests : spent[r]) => (closed' \/ \E r \in Requests : spent'[r])
    PROVE  CountersInv'
<1>1. Unforgiven' = Unforgiven
  BY Zenon DEF Unforgiven
<1>2. \A claim : Bucket(claim)' = Bucket(claim)
  BY <1>1, Zenon DEF Bucket
<1>. QED
  BY <1>1, <1>2, Zenon DEF CountersInv

\* and so after every step.
LEMMA CountersStep ==
    ASSUME TypeOK, \A r \in Requests : RequestInv(r), CountersInv, [Next]_vars
    PROVE  CountersInv'
<1>1. CASE UNCHANGED vars
  BY <1>1, CountersUntouched, Zenon DEF vars, guess, shared
<1>2. ASSUME NEW r \in Requests, Handle(r) PROVE CountersInv'
  <2>1. CASE record_auth_failure(r)
    BY <2>1, CountersFailure, Zenon
  <2>2. CASE handle_request(r)
    <3>1. PICK n \in 0 .. MAX_CREDENTIAL_VALUES : \E values \in [1 .. n -> Values] :
              authenticate(r, values)
      BY <2>2, Zenon DEF handle_request
    <3>2. PICK values \in [1 .. n -> Values] : authenticate(r, values)
      BY <3>1, Zenon
    <3>3. UNCHANGED <<closed, spent>>
      BY <2>2, Zenon DEF handle_request
    <3>4. CASE Users = {} \/ RightOnes(values) # {}
      <4>1. PICK user \in Users \union {None} : mark_authenticated(user)
        BY <3>2, <3>4, ClaimsAreClaims, Zenon DEF authenticate
      <4>. QED
        BY <3>3, <4>1, CountersSuccess, Zenon
    <3>5. CASE ~(Users = {} \/ RightOnes(values) # {})
      <4>1. UNCHANGED <<failures, log>>
        BY <3>2, <3>5, Zenon DEF authenticate
      <4>. QED
        BY <3>3, <4>1, CountersUntouched, Zenon
    <3>. QED
      BY <3>4, <3>5, Zenon
  <2>3. CASE Denied(r)
    <3>1. UNCHANGED <<failures, log>>
      BY <2>3, Zenon DEF Denied
    <3>2. CASE spent[r]
      BY <2>3, <3>1, <3>2, CountersUntouched, Zenon DEF Denied
    <3>3. CASE ~spent[r]
      <4>1. UNCHANGED <<spent, closed>>
        BY <2>3, <3>3 DEF Denied, guess
      <4>. QED
        BY <3>1, <4>1, CountersUntouched, Zenon
    <3>. QED
      BY <3>2, <3>3, Zenon
  <2>4. CASE Sent(r) \/ NotLanded(r) \/ TunnelEnds(r)
    <3>1. UNCHANGED <<failures, closed, log>> /\ pc[r] \in {"answer", "relay"}
      BY <2>4, Zenon DEF Sent, NotLanded, TunnelEnds
    <3>2. ~spent[r]
      BY <3>1, Zenon DEF RequestInv, Charged
    <3>3. ASSUME NEW q \in Requests, spent[q] PROVE spent'[q]
      <4>1. q # r
        BY <3>2, <3>3, Zenon
      <4>. QED
        BY <1>2, <3>3, <4>1, OthersUntouched, Zenon DEF Untouched
    <3>. QED
      BY <3>1, <3>3, CountersUntouched, Zenon
  <2>5. CASE \/ Malformed(r) \/ LimitReached(r) \/ route(r) \/ Lookup(r) \/ LookupFails(r)
             \/ Connected(r) \/ Tick(r) \/ DialTimesOut(r) \/ Unreachable(r)
             \/ \E error \in Errors : AttemptFails(r, error)
    <3>1. UNCHANGED <<failures, closed, log, spent>>
      BY <2>5, Zenon DEF Malformed, LimitReached, route, Lookup, LookupFails, Connected, Tick,
                  DialTimesOut, Unreachable, AttemptFails, guess, shared
    <3>. QED
      BY <3>1, CountersUntouched, Zenon
  <2>. QED
    BY <1>2, <2>1, <2>2, <2>3, <2>4, <2>5, Zenon DEF Handle
<1>. QED
  BY <1>1, <1>2, Zenon DEF Next

\* The inductive invariant holds at first.
LEMMA RequestsInit == Init => IInv
<1>1. SUFFICES ASSUME Init PROVE IInv
  BY Zenon
<1>2. connect_timeout \in Nat /\ IsFiniteSet(Users) /\ max_auth_failures \in Nat
  BY RequestsAssumption, Zenon
<1>3. ASSUME NEW r \in Requests PROVE RequestInv(r)
  <2>1. /\ pc[r] = "idle" /\ owed[r] = <<>> /\ ~spent[r] /\ todo[r] = <<>>
        /\ dialled[r] = {} /\ clock[r] = 0 /\ deadline[r] = 0
        /\ last[r] = no_addresses /\ answer[r] = no_answer
    BY <1>1, Zenon DEF Init
  <2>2. no_answer.status # 200 /\ no_answer.hop = None /\ no_addresses.hop = None
    BY SMT DEF no_answer, no_addresses
  <2>3. answer[r].status # 200 /\ answer[r].hop = None /\ last[r].hop = None
    BY <2>1, <2>2, Zenon
  <2>4. Charged(r)
    BY <2>1, Zenon DEF Charged
  <2>5. Unanswered(r)
    BY <2>1, Zenon DEF Unanswered, Early
  <2>6. Undialled(r)
    BY <2>1, Zenon DEF Undialled, Early
  <2>7. Permitted(r)
    BY <2>1, Zenon DEF Permitted
  <2>8. Holding(r)
    BY <2>1, Zenon DEF Holding
  <2>9. Timed(r)
    BY <1>2, <2>1, SMT DEF Timed
  <2>10. Listed(r)
    <3>1. DOMAIN <<>> = {}
      BY ONLY SMT
    <3>. QED  BY <2>1, <3>1, Zenon DEF Listed
  <2>11. Tested(r)
    BY <2>1, Zenon DEF Tested
  <2>12. Failed(r)
    BY <2>3, Zenon DEF Failed
  <2>13. Truthful(r)
    BY <2>3, Zenon DEF Truthful
  <2>14. Disclosed(r)
    BY <2>3, Zenon DEF Disclosed
  <2>. QED
    BY <2>4, <2>5, <2>6, <2>7, <2>8, <2>9, <2>10, <2>11, <2>12, <2>13, <2>14, ZenonT(40)
    DEF RequestInv
<1>4. Unforgiven = {} /\ \A claim : Bucket(claim) = {}
  BY <1>1 DEF Init, Unforgiven, Bucket
<1>5. /\ failures.unconfigured = 0 /\ failures.anonymous = 0
      /\ \A u \in Users : failures.configured[u] = 0
  BY <1>1, Zenon DEF Init
<1>6. SumOver(failures.configured, Users) = 0
  BY <1>2, <1>5, SumOfZeros, Zenon
<1>7. total(failures) = 0
  BY <1>5, <1>6, TotalIsSum
<1>8. CountersInv
  <2>1. ~Reached(failures)
    BY <1>2, <1>7 DEF Reached
  <2>. QED
    BY <1>4, <1>5, <1>7, <2>1, FS_EmptySet, Zenon DEF CountersInv
<1>. QED
  BY <1>1, <1>3, <1>8, TypeInit, Zenon DEF IInv

\* The inductive invariant.
THEOREM RequestsInductive == Spec => []IInv
<1>1. IInv /\ [Next]_vars => IInv'
  BY TypeStep, RequestStep, CountersStep, Zenon DEF IInv
<1>. QED
  BY <1>1, RequestsInit, PTL DEF Spec

\* The failure counters hold exactly the failures nothing has forgiven, and a
\* connection never outlives its limit, for any users, any limit and any number
\* of requests in flight.
THEOREM GuessesCostAlways == Spec => []GuessesCost
<1>1. IInv => GuessesCost
  BY Zenon DEF IInv, CountersInv, GuessesCost, Reached
<1>. QED
  BY <1>1, RequestsInductive, PTL

\* Nothing is dialled that leads to a barred host, whatever a lookup answers.
THEOREM DialsOnlyAdmittedAlways == Spec => []DialsOnlyAdmitted
<1>1. IInv => DialsOnlyAdmitted
  <2>1. SUFFICES ASSUME IInv, NEW r \in Requests
                 PROVE  /\ \A a \in dialled[r] :
                              /\ \A v4 \in Hosts : a.ip \in Aliases(v4) => ~Barred(v4)
                              /\ a.own => is_loopback(canonical(a.ip))
                        /\ dialled[r] # {} => port[r] /\ owed[r] = <<>> /\ ~spent[r]
                        /\ pc[r] \in {"lookup", "dial", "relay"} => r \in slots
    BY Zenon DEF DialsOnlyAdmitted
  <2>2. RequestInv(r)
    BY <2>1, Zenon DEF IInv
  <2>3. ASSUME NEW a \in dialled[r], NEW v4 \in Hosts, a.ip \in Aliases(v4) PROVE ~Barred(v4)
    <3>1. allows_address(a.ip) /\ v4 \in V4
      BY <2>2, RequestsAssumption, Zenon DEF RequestInv, Tested, Dialable
    <3>. QED
      BY <2>3, <3>1, AllowedLeadsNowhereBarred, Zenon
  <2>4. ASSUME NEW a \in dialled[r], a.own PROVE is_loopback(canonical(a.ip))
    BY <2>2, <2>4, Zenon DEF RequestInv, Tested, Dialable, is_the_proxys_own
  <2>5. dialled[r] # {} => port[r] /\ owed[r] = <<>> /\ ~spent[r]
    BY <2>2, Zenon DEF RequestInv, Charged, Undialled, Permitted, Early
  <2>6. pc[r] \in {"lookup", "dial", "relay"} => r \in slots
    BY <2>2, Zenon DEF RequestInv, Holding
  <2>. QED
    BY <2>3, <2>4, <2>5, <2>6, Zenon
<1>. QED
  BY <1>1, RequestsInductive, PTL

\* Dialling never outlasts connect_timeout, however many addresses a name has.
THEOREM DialWithinBudgetAlways == Spec => []DialWithinBudget
<1>1. IInv => DialWithinBudget
  BY Zenon DEF IInv, RequestInv, Timed, DialWithinBudget
<1>. QED
  BY <1>1, RequestsInductive, PTL

\* What a client is told is true.
THEOREM AnswerIsTrueAlways == Spec => []AnswerIsTrue
<1>1. IInv => AnswerIsTrue
  <2>1. ASSUME IInv, NEW r \in Requests PROVE Truthful(r) /\ Disclosed(r)
    BY <2>1, Zenon DEF IInv, RequestInv
  <2>2. IInv => AcceptedMeansReached
    BY <2>1, Zenon DEF AcceptedMeansReached, Truthful
  <2>3. IInv => HopWasDialled
    BY <2>1, SMT DEF HopWasDialled, Disclosed, TargetFault
  <2>. QED
    BY <2>2, <2>3, Zenon DEF AnswerIsTrue
<1>. QED
  BY <1>1, RequestsInductive, PTL
===============================================================================
