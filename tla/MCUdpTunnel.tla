------------------------------ MODULE MCUdpTunnel ------------------------------
(* The run of UdpTunnel, with sessions interchangeable.                      *)
EXTENDS UdpTunnel, TLC

Symmetry == Permutations(Sessions)
===============================================================================
