------------------------------ MODULE Congestion --------------------------------
(***************************************************************************)
(* The congestion controller of congestion.rs: the delivery-rate estimate     *)
(* (DeliveryRate), the test that ends the startup gain and the rule that      *)
(* brings it back (Startup), and the minimum RTT with the probe that renews   *)
(* it (BbrCapped).                                                           *)
(*                                                                         *)
(* quinn calls the controller for one ACK frame at a time: on_ack for every   *)
(* packet, then on_end_acks.  The path delivers `capacity` bytes a tick and   *)
(* takes `rtt` ticks; both, and whether the application keeps the sender      *)
(* busy, may change at any time.  Instants are kept as ages.  An age that is   *)
(* only compared stops where no comparison tells it from a larger one; the    *)
(* two that a sample is divided by stop at MaxAge and Oldest, so an interval  *)
(* that lasts longer is measured as one of that length.                      *)
(***************************************************************************)
EXTENDS Naturals, Sequences, FiniteSets, FiniteSetsExt

CONSTANTS Networks,             \* sets of paths one connection may meet
          Settled,              \* intervals after which the startup is over
          Learned,              \* ticks after which the minimum is the path's
          MaxAge,               \* bound: the longest RTT
          InFlight,             \* what may be in flight after an ACK frame
          SAMPLES, SAMPLES_WITHOUT_GROWTH, RISES_TO_RESTART,
          MIN_RTT_LIFETIME, PROBE_TIME,     \* in ticks
          initial_window, probe_window,     \* the floors of the cap
          None

ASSUME CongestionAssumption ==
    /\ \A network \in Networks : network # {} /\ \A p \in network :
          p.rtt \in 1 .. MaxAge /\ p.capacity \in Nat /\ p.busy \in BOOLEAN
    /\ {Settled, Learned, MaxAge, MIN_RTT_LIFETIME, PROBE_TIME} \subseteq Nat
    /\ {SAMPLES, SAMPLES_WITHOUT_GROWTH, RISES_TO_RESTART} \subseteq Nat \ {0}
    /\ InFlight \subseteq Nat /\ 0 \in InFlight

GROWTH_PERCENT == 125
FALLEN_PERCENT == 50
CWND_GAIN_PERMILLE == 1250
PROBE_GAIN_PERMILLE == 500
STARTUP_GAIN_PERMILLE == 2885

VARIABLES
    network, path,              \* the environment: where the connection runs
    waiting,                    \* delivered, and not acknowledged yet
    in_flight,                  \* after the last ACK frame, kept for a probe
    rate,                       \* DeliveryRate
    startup,                    \* Startup
    min_rtt,                    \* the minimum and its age, or None
    probe,                      \* its minimum and the ticks it has left, or None
    srtt,
    kept,                       \* history: stored samples, oldest first, each with
                                \* the intervals from it to the next one
    calm,                       \* history: intervals of a busy sender with an
                                \* estimate, since the path changed or it was lost
    steady                      \* history: ticks at a higher RTT since the change
env == <<network, path>>
history == <<kept, calm, steady>>
congestionVars == <<env, waiting, in_flight, rate, startup, min_rtt, probe, srtt, history>>

Slots == 0 .. SAMPLES - 1
Rtts == {p.rtt : p \in network}
Oldest == 2 * MaxAge            \* where the age of a send time stops
Younger(a, b) == IF a = None \/ (b # None /\ b < a) THEN b ELSE a

CongestionTypeOK ==
    /\ network \in Networks /\ path \in network
    /\ waiting \in Nat /\ in_flight \in InFlight
    /\ rate \in [started : 0 .. MaxAge \union {None}, bytes : Nat,
                 app_limited : BOOLEAN, sent : 0 .. Oldest \union {None},
                 sent_at_start : 0 .. Oldest \union {None},
                 samples : [Slots -> Nat], age : [Slots -> 0 .. SAMPLES],
                 next : Slots]
    /\ startup \in [ended : BOOLEAN, grown_to : Nat,
                    flat : 0 .. SAMPLES_WITHOUT_GROWTH, congested : BOOLEAN,
                    peak : Nat, last : Nat, rises : 0 .. RISES_TO_RESTART - 1]
    /\ startup.ended \/ startup.flat < SAMPLES_WITHOUT_GROWTH
    /\ min_rtt \in [min : Nat, age : 0 .. MIN_RTT_LIFETIME + 1] \union {None}
    /\ probe \in [min : Nat, left : Nat \union {None}] \union {None}
    /\ srtt \in 0 .. MaxAge
    /\ kept \in Seq([rate : Nat, gap : 0 .. SAMPLES])
    /\ calm \in 0 .. Settled /\ steady \in 0 .. Learned

FreshStartup == [ended |-> FALSE, grown_to |-> 0, flat |-> 0,
                 congested |-> FALSE, peak |-> 0, last |-> 0, rises |-> 0]

CongestionInit ==
    /\ network \in Networks /\ path \in network
    /\ waiting = 0 /\ in_flight = 0
    /\ rate = [started |-> None, bytes |-> 0, app_limited |-> FALSE,
               sent |-> None, sent_at_start |-> None,
               samples |-> [s \in Slots |-> 0], age |-> [s \in Slots |-> 0],
               next |-> 0]
    /\ startup = FreshStartup
    /\ min_rtt = None /\ probe = None /\ srtt = 0
    /\ kept = <<>> /\ calm = 0 /\ steady = 0

(***************************************************************************)
(* DeliveryRate.                                                             *)
(***************************************************************************)
max(r) == Max({r.samples[s] : s \in Slots})

on_ack(r, rtt, bytes, app_limited) ==
    [r EXCEPT !.bytes = @ + bytes, !.app_limited = @ \/ app_limited,
              !.sent = Younger(@, rtt)]

restart(r) ==
    [r EXCEPT !.started = 0, !.sent_at_start = r.sent, !.bytes = 0,
              !.app_limited = FALSE]

\* Whether the open interval has lasted a round.
Closes(r, round) == r.started # None /\ r.started > 0 /\ r.started >= round

\* The bytes over the longer of the ACK interval and the send interval.
SampleRate(r) ==
    LET send_elapsed == IF r.sent_at_start = None \/ r.sent = None THEN 0
                        ELSE r.sent_at_start - r.sent
    IN  r.bytes \div Max({r.started, send_elapsed})

Stored(r) == ~r.app_limited \/ SampleRate(r) > max(r)

\* A sample above zero clears the slots that are SAMPLES intervals old, and any
\* stored sample takes the oldest slot.  An age of zero is the interval of the
\* store itself.
ExpireLate(r, s) == r.age[s] > SAMPLES
Expired(r, s) == r.age[s] >= SAMPLES

Store(r) ==
    LET sample == SampleRate(r) IN
    [r EXCEPT
        !.samples = [s \in Slots |->
            IF s = r.next THEN sample
            ELSE IF sample > 0 /\ Expired(r, s) THEN 0 ELSE @[s]],
        !.age[r.next] = 0,
        !.next = (@ + 1) % SAMPLES]

\* One more interval has closed.
Aged(r) == [r EXCEPT !.age = [s \in Slots |-> Min({@[s] + 1, SAMPLES})]]

\* on_end_acks, for an interval that closes.
CloseInterval(r) == restart(Aged(IF Stored(r) THEN Store(r) ELSE r))

(***************************************************************************)
(* Startup.                                                                  *)
(***************************************************************************)
\* A rise from below half the peak; RISES_TO_RESTART of them in a row bring the
\* startup back.
count_rise(s, estimate) ==
    LET fallen == s.last * 100 < s.peak * FALLEN_PERCENT
        rises == IF fallen /\ estimate > s.last THEN s.rises + 1 ELSE 0
    IN  IF rises >= RISES_TO_RESTART
        THEN [FreshStartup EXCEPT !.grown_to = estimate, !.peak = s.peak,
                                  !.last = estimate]
        ELSE [s EXCEPT !.rises = rises, !.last = estimate]

GrownAtAll(s, estimate) == estimate >= s.grown_to
Grown(s, estimate) == estimate * 100 >= s.grown_to * GROWTH_PERCENT

full_bandwidth_test(s, estimate, congested) ==
    IF Grown(s, estimate) THEN [s EXCEPT !.grown_to = estimate, !.flat = 0]
    ELSE IF congested THEN [s EXCEPT !.ended = TRUE]
    ELSE [s EXCEPT !.flat = @ + 1, !.ended = (s.flat + 1 >= SAMPLES_WITHOUT_GROWTH)]

on_interval(before, estimate, app_limited) ==
    LET s == [before EXCEPT !.congested = FALSE, !.peak = Max({@, estimate})]
        t == IF app_limited THEN s ELSE [s EXCEPT !.last = estimate]
    IN  IF s.ended THEN IF app_limited THEN s ELSE count_rise(s, estimate)
        ELSE IF app_limited /\ ~before.congested THEN t
        ELSE full_bandwidth_test(t, estimate, before.congested)

(***************************************************************************)
(* The minimum RTT and its probe.                                            *)
(***************************************************************************)
NewProbe(rtt) == [min |-> rtt, left |-> None]

\* record_ack: a sample at or below the minimum renews it; one above a minimum
\* that has expired starts a probe, unless the sender is app-limited.
record_ack(rtt, app_limited) ==
    CASE probe # None ->
            [probe |-> [probe EXCEPT !.min = Min({@, rtt})], min_rtt |-> min_rtt]
      [] probe = None /\ (min_rtt = None \/ rtt <= min_rtt.min) ->
            [probe |-> None, min_rtt |-> [min |-> rtt, age |-> 0]]
      [] OTHER ->
            [probe |-> IF ~app_limited /\ min_rtt.age > MIN_RTT_LIFETIME
                       THEN NewProbe(rtt) ELSE None,
             min_rtt |-> min_rtt]

\* The cap on the window, None without an estimate.
cap(bandwidth, m, ended) ==
    LET probing == m.probe # None
        gain == IF probing THEN PROBE_GAIN_PERMILLE
                ELSE IF ended THEN CWND_GAIN_PERMILLE ELSE STARTUP_GAIN_PERMILLE
        floor == IF probing THEN probe_window ELSE initial_window
    IN  IF bandwidth = 0 \/ m.min_rtt = None THEN None
        ELSE Max({(bandwidth * m.min_rtt.min * gain) \div 1000, floor})

\* A probe's time runs once no more is in flight than it allows, and at its end
\* the probe's minimum is the minimum.
RestartsItsClock(m, limit, flying, round) ==
    IF m.probe = None THEN m
    ELSE IF limit = None \/ flying <= limit
    THEN [m EXCEPT !.probe.left = Max({PROBE_TIME, round})]
    ELSE IF m.probe.left = 0
    THEN [probe |-> None, min_rtt |-> [min |-> m.probe.min, age |-> 0]]
    ELSE m
update_probe(m, limit, flying, round) ==
    IF m.probe = None THEN m
    ELSE IF m.probe.left = None
    THEN IF limit = None \/ flying <= limit
         THEN [m EXCEPT !.probe.left = Max({PROBE_TIME, round})] ELSE m
    ELSE IF m.probe.left = 0
    THEN [probe |-> None, min_rtt |-> [min |-> m.probe.min, age |-> 0]]
    ELSE m

(***************************************************************************)
(* The calls of quinn.                                                       *)
(***************************************************************************)
\* What the delivery rate is at the end of a batch, before an interval closes.
Batch(bytes, rtt, probing) ==
    LET acked == IF bytes = 0 THEN rate
                 ELSE on_ack(rate, rtt, bytes, ~path.busy \/ probing)
    IN  [acked EXCEPT !.app_limited = @ \/ ~path.busy]

\* The history of what is stored, by its definition: the last SAMPLES samples,
\* and how many intervals lie between one and the next.
Remembered(r, closes) ==
    LET n == Len(kept)
        older == IF n = 0 THEN kept ELSE [kept EXCEPT ![n].gap = Min({@ + 1, SAMPLES})]
        grown == Append(kept, [rate |-> SampleRate(r), gap |-> 1])
    IN  IF ~closes THEN kept
        ELSE IF ~Stored(r) THEN older
        ELSE SubSeq(grown, IF Len(grown) > SAMPLES THEN 2 ELSE 1, Len(grown))

\* An ACK frame: on_ack for each of its packets, which share an RTT, then
\* on_end_acks.  The packet that starts a probe is not app-limited yet, those
\* after it in the frame are.  A frame whose packets do not count only ends the
\* batch.
AckFrame(bytes, rtt, round, flying, several) ==
    LET m == IF bytes = 0 THEN [probe |-> probe, min_rtt |-> min_rtt]
             ELSE record_ack(rtt, ~path.busy)
        batch == Batch(bytes, rtt, probe # None \/ (several /\ m.probe # None))
        closes == Closes(batch, round)
        r == IF closes THEN CloseInterval(batch)
             ELSE IF batch.started = None THEN restart(batch) ELSE batch
        s == IF closes THEN on_interval(startup, max(r), batch.app_limited)
             ELSE startup
        u == update_probe(m, cap(max(r), m, s.ended), flying, round)
    IN  /\ waiting' = waiting - bytes
        /\ in_flight' = IF u.probe = None THEN 0 ELSE flying
        /\ rate' = r /\ startup' = s /\ srtt' = round
        /\ probe' = u.probe /\ min_rtt' = u.min_rtt
        /\ kept' = Remembered(batch, closes)
        /\ calm' = IF max(r) = 0 THEN 0
                   ELSE IF closes /\ ~batch.app_limited THEN Min({calm + 1, Settled})
                   ELSE calm
        /\ UNCHANGED <<env, steady>>

\* The smoothed RTT is one the connection has met.  With a probe on, more than
\* the window is in flight only until it has been acknowledged: quinn sends
\* nothing meanwhile.
Flying == IF probe = None THEN InFlight ELSE {n \in InFlight : n < Max({in_flight, 1})}
Acknowledged ==
    /\ waiting > 0
    /\ \E rtt, round \in Rtts, flying \in Flying, several \in {FALSE, waiting > 1} :
          rtt >= path.rtt /\ AckFrame(waiting, rtt, round, flying, several)
NothingCounts ==
    /\ waiting = 0
    /\ \E flying \in Flying : AckFrame(0, path.rtt, srtt, flying, FALSE)

on_congestion_event ==
    /\ startup' = [startup EXCEPT !.congested = TRUE]
    /\ UNCHANGED <<env, waiting, in_flight, rate, min_rtt, probe, srtt, history>>

\* A tick: every age grows, and the path delivers what it was given.  What is
\* delivered is acknowledged at least once in a round trip.
Older(age, bound) == IF age = None THEN None ELSE Min({age + 1, bound})
Tick ==
    /\ waiting = 0 \/ (rate.started # None /\ rate.started < path.rtt)
    /\ \E sent \in {path.capacity} \union (IF path.busy THEN {} ELSE {0}) :
          waiting' = waiting + sent
    /\ rate' = [rate EXCEPT !.started = Older(@, MaxAge), !.sent = Older(@, Oldest),
                            !.sent_at_start = Older(@, Oldest)]
    /\ min_rtt' = IF min_rtt = None THEN None
                  ELSE [min_rtt EXCEPT !.age = Older(@, MIN_RTT_LIFETIME + 1)]
    /\ probe' = IF probe = None \/ probe.left \in {None, 0} THEN probe
                ELSE [probe EXCEPT !.left = @ - 1]
    /\ steady' = IF path.rtt = Min(Rtts) THEN 0 ELSE Min({steady + 1, Learned})
    /\ UNCHANGED <<env, in_flight, startup, srtt, kept, calm>>

PathChanges ==
    /\ path' \in network \ {path}
    /\ calm' = 0 /\ steady' = 0
    /\ UNCHANGED <<network, waiting, in_flight, rate, startup, min_rtt, probe,
                   srtt, kept>>

CongestionNext ==
    \/ Acknowledged \/ NothingCounts \/ on_congestion_event \/ Tick \/ PathChanges

CongestionSpec == CongestionInit /\ [][CongestionNext]_congestionVars

-------------------------------------------------------------------------------
\* The ring of slots is a window: the estimate is the largest stored sample
\* that no later sample above zero, stored SAMPLES intervals or more after it,
\* has expired (DeliveryRate::on_end_acks and the comment on SAMPLES).
Gaps == [k \in DOMAIN kept |-> kept[k].gap]
Gap(i, j) == SumFunctionOnSet(Gaps, i .. j - 1)
Live == {i \in DOMAIN kept :
            ~\E j \in i + 1 .. Len(kept) : kept[j].rate > 0 /\ Gap(i, j) >= SAMPLES}
EstimateIsWindowMax == max(rate) = Max({0} \union {kept[i].rate : i \in Live})

\* A lasting rise of the RTT is learned: so many ticks after the path's last
\* change, if the sender is busy, the minimum is not below the path's RTT any
\* more, so the expiry, the drain and the probe have all happened in time and
\* the probe is not what keeps the old minimum in use (record_ack, update_probe).
RiseIsLearned ==
    steady = Learned /\ path.busy => min_rtt.min >= path.rtt

\* Neither the startup nor its return lasts: so many intervals of a busy sender
\* after the path's last change, or after the first estimate, the higher gain is
\* over (on_interval, count_rise).
StartupSettles == calm = Settled => startup.ended
===============================================================================
