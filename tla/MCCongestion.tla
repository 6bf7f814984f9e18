----------------------------- MODULE MCCongestion ------------------------------
(* Networks whose capacity falls and climbs back, or fails, under a steady RTT; *)
(* networks where the sender is busy only part of the time; and one whose RTT   *)
(* rises and falls.                                                            *)
EXTENDS Congestion

Busy(rtt, capacity) == [rtt |-> rtt, capacity |-> capacity, busy |-> TRUE]
Idle(rtt, capacity) == [rtt |-> rtt, capacity |-> capacity, busy |-> FALSE]

MCNetworks == {{Busy(1, 1), Busy(1, 2), Busy(1, 5)},
               {Busy(2, 0), Busy(2, 1)},
               {Busy(1, 2), Idle(1, 1)},
               {Busy(1, 1), Idle(1, 3)},
               {Busy(1, 2), Busy(2, 2)}}
===============================================================================
