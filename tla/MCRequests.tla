------------------------------ MODULE MCRequests -------------------------------
(* The run of Requests: requests and users interchangeable, and lookups that   *)
(* return lists of up to two addresses, IPv4 hosts behind every embedding.     *)
EXTENDS Requests, TLC

Public == <<1, 1, 1, 1>>
Loopback == <<127, 0, 0, 1>>
LinkLocal == <<169, 254, 0, 1>>
Nowhere == <<0, 0, 0, 0>>
MCHosts == {Public, Loopback, LinkLocal, Nowhere}

Away(ip) == [ip |-> ip, own |-> FALSE]
Own(ip) == [ip |-> ip, own |-> TRUE]

MCAnswers ==
    {<<Away(Nowhere)>>, <<Away(Mapped(Nowhere)), Away(LinkLocal)>>,
     <<Own(Public), Away(Nat64(Public))>>,
     <<Away(TeredoOf(Loopback)), Away(SixToFourOf(LinkLocal))>>,
     <<Away(Public), Away(Nat64(Public))>>}
Symmetry == Permutations(Requests) \union Permutations(Users)
===============================================================================
