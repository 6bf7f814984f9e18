---------------------------- MODULE CongestionProofs -----------------------------
(***************************************************************************)
(* Proofs about Congestion, for any networks, windows and limits.            *)
(***************************************************************************)
EXTENDS Congestion, Sums

-------------------------------------------------------------------------------
(* The delivery-rate window of Congestion: each slot holds what the history    *)
(* says it must, whichever intervals store a sample.                          *)

\* The constants, as the proofs use them.
LEMMA ConstantsOK ==
  /\ SAMPLES \in Nat \ {0} /\ MaxAge \in Nat /\ Oldest \in Nat /\ MaxAge <= Oldest
  /\ \A w \in Networks : \A x \in w : x.rtt \in 1 .. MaxAge /\ x.capacity \in Nat
<1>1. SAMPLES \in Nat \ {0} /\ MaxAge \in Nat  BY CongestionAssumption, Zenon
<1>. QED  BY <1>1, CongestionAssumption DEF Oldest

\* The history as an argument: its gaps, and the samples still in the window.
Sample == [rate : Nat, gap : 0 .. SAMPLES]
GapOf(q, i, j) == SumOver([k \in DOMAIN q |-> q[k].gap], i .. j - 1)
LiveOf(q) == {i \in DOMAIN q :
                ~\E j \in i + 1 .. Len(q) : q[j].rate > 0 /\ GapOf(q, i, j) >= SAMPLES}

\* The model's gaps and live samples are those of its history.
LEMMA HistoryIsArgument ==
  /\ \A i, j : Gap(i, j) = GapOf(kept, i, j)
  /\ Live = LiveOf(kept)
<1>1. \A i, j : Gap(i, j) = GapOf(kept, i, j)
  BY SumOfFunction, Zenon DEF Gap, Gaps, GapOf
<1>. QED  BY <1>1, Zenon DEF Live, LiveOf

\* From a sample to itself there is no interval.
LEMMA GapEmpty ==
  ASSUME NEW q, NEW i \in Nat
  PROVE  GapOf(q, i, i) = 0
<1>1. i .. i - 1 = {}  OBVIOUS
<1>. QED  BY <1>1, SumEmpty, Zenon DEF GapOf

\* One sample further, the gap grows by the one of that sample.
LEMMA GapStep ==
  ASSUME NEW q \in Seq(Sample), NEW i \in 1 .. Len(q), NEW j \in i .. Len(q)
  PROVE  /\ GapOf(q, i, j) \in Nat
         /\ GapOf(q, i, j + 1) = GapOf(q, i, j) + q[j].gap
<1>. DEFINE f == [k \in DOMAIN q |-> q[k].gap]
<1>1. IsFiniteSet(i .. j - 1)  BY FS_Interval
<1>2. \A x \in i .. j : f[x] \in Nat
  <2>. SUFFICES ASSUME NEW x \in i .. j PROVE f[x] \in Nat  BY Zenon
  <2>1. x \in DOMAIN q /\ q[x] \in Sample  OBVIOUS
  <2>. QED  BY <2>1 DEF Sample
<1>3. j \notin i .. j - 1 /\ (i .. j - 1) \union {j} = i .. j /\ (j + 1) - 1 = j  OBVIOUS
<1>4. f[j] = q[j].gap  OBVIOUS
<1>. HIDE DEF f
<1>5. SumOver(f, i .. j - 1) \in Nat  BY <1>1, <1>2, SumIsNatural
<1>7. \A x \in (i .. j - 1) \union {j} : f[x] \in Int  BY <1>2, <1>3
<1>6. SumOver(f, (i .. j - 1) \union {j}) = SumOver(f, i .. j - 1) + f[j]
  BY <1>1, <1>7, <1>3, SumAdd, Zenon
<1>. QED  BY <1>3, <1>4, <1>5, <1>6, Zenon DEF GapOf, f

\* Gaps over the same samples are the same.
LEMMA GapSame ==
  ASSUME NEW q, NEW p, NEW i \in Nat, NEW j \in Nat,
         \A k \in i .. j - 1 : k \in DOMAIN q /\ k \in DOMAIN p /\ q[k].gap = p[k].gap
  PROVE  GapOf(q, i, j) = GapOf(p, i, j)
<1>. DEFINE f == [k \in DOMAIN q |-> q[k].gap]
            g == [k \in DOMAIN p |-> p[k].gap]
<1>1. IsFiniteSet(i .. j - 1)  BY FS_Interval
<1>2. \A x \in i .. j - 1 : f[x] = g[x]  BY Zenon
<1>. HIDE DEF f, g
<1>3. SumOver(f, i .. j - 1) = SumOver(g, i .. j - 1)  BY <1>1, <1>2, SumSame
<1>. QED  BY <1>3, Zenon DEF GapOf, f, g

\* Histories that begin alike have the same gaps there.
LEMMA GapPrefix ==
  ASSUME NEW q \in Seq(Sample), NEW p \in Seq(Sample), NEW n \in Nat,
         n <= Len(q), n <= Len(p), \A k \in 1 .. n : q[k].gap = p[k].gap
  PROVE  \A i \in 1 .. n + 1 : \A j \in i .. n + 1 : GapOf(q, i, j) = GapOf(p, i, j)
<1>. SUFFICES ASSUME NEW i \in 1 .. n + 1, NEW j \in i .. n + 1
             PROVE  GapOf(q, i, j) = GapOf(p, i, j)
  BY Zenon
<1>1. \A k \in i .. j - 1 : k \in DOMAIN q /\ k \in DOMAIN p /\ q[k].gap = p[k].gap
  OBVIOUS
<1>2. i \in Nat /\ j \in Nat  OBVIOUS
<1>. QED  BY <1>1, <1>2, GapSame, ZenonT(40)

\* And so are the gaps of a history whose first sample is gone.
LEMMA GapShift ==
  ASSUME NEW q \in Seq(Sample), NEW p \in Seq(Sample), Len(q) = Len(p) + 1,
         \A k \in 1 .. Len(p) : p[k].gap = q[k + 1].gap,
         NEW i \in 1 .. Len(p), NEW j \in i .. Len(p) + 1
  PROVE  GapOf(p, i, j) = GapOf(q, i + 1, j + 1)
<1>. DEFINE Bad == {m \in i .. Len(p) + 1 : GapOf(p, i, m) # GapOf(q, i + 1, m + 1)}
<1>1. SUFFICES ASSUME Bad # {} PROVE FALSE  BY ZenonT(40)
<1>2. Bad \in SUBSET Nat  OBVIOUS
<1>3. PICK m \in Bad : \A n \in Bad : m <= n  BY <1>1, <1>2, LeastNatural, Zenon
<1>4. CASE m = i
  BY <1>4, <1>3, GapEmpty
<1>5. CASE m # i
  <2>1. m - 1 \in i .. Len(p) /\ m - 1 \notin Bad  BY <1>3, <1>5
  <2>2. GapOf(p, i, m - 1) = GapOf(q, i + 1, m)  BY <2>1
  <2>3. GapOf(p, i, (m - 1) + 1) = GapOf(p, i, m - 1) + p[m - 1].gap
    BY <2>1, GapStep, Zenon
  <2>4. i + 1 \in 1 .. Len(q) /\ m \in i + 1 .. Len(q)  BY <2>1
  <2>5. GapOf(q, i + 1, m + 1) = GapOf(q, i + 1, m) + q[m].gap
    BY <2>4, GapStep, Zenon
  <2>6. p[m - 1].gap = q[m].gap /\ (m - 1) + 1 = m  BY <2>1
  <2>. QED  BY <2>2, <2>3, <2>5, <2>6, <1>3
<1>. QED  BY <1>4, <1>5

-------------------------------------------------------------------------------
\* The smaller and the larger of two numbers.
LEMMA OfTwo ==
  ASSUME NEW a \in Int, NEW b \in Int
  PROVE  /\ Min({a, b}) = IF a <= b THEN a ELSE b
         /\ Max({a, b}) = IF a >= b THEN a ELSE b
<1>1. Min({a, b}) = CHOOSE x \in {a, b} : \A y \in {a, b} : x <= y  BY Zenon DEF Min
<1>2. Max({a, b}) = CHOOSE x \in {a, b} : \A y \in {a, b} : x >= y  BY Zenon DEF Max
<1>3. \E x \in {a, b} : \A y \in {a, b} : x <= y
  <2>1. CASE a <= b  BY <2>1
  <2>2. CASE b <= a  BY <2>2
  <2>. QED  BY <2>1, <2>2
<1>4. \E x \in {a, b} : \A y \in {a, b} : x >= y
  <2>1. CASE a >= b  BY <2>1
  <2>2. CASE b >= a  BY <2>2
  <2>. QED  BY <2>1, <2>2
<1>. QED  BY <1>1, <1>2, <1>3, <1>4

\* How far the slot s is behind the one to be written next, and which sample of
\* the history q it holds.
Back(next, s) == IF s < next THEN next - s ELSE next - s + SAMPLES
At(q, r, s) == Len(q) + 1 - Back(r.next, s)
Capped(n) == IF n < SAMPLES THEN n ELSE SAMPLES

\* A slot has the age of its sample, and the sample as long as it is live; a
\* slot that holds none is zero.
Holds(q, r, s) ==
    IF At(q, r, s) \in DOMAIN q
    THEN /\ r.age[s] = Capped(GapOf(q, At(q, r, s), Len(q) + 1))
         /\ r.samples[s] = IF At(q, r, s) \in LiveOf(q) THEN q[At(q, r, s)].rate ELSE 0
    ELSE r.samples[s] = 0
Holding(q, r) == \A s \in Slots : Holds(q, r, s)

\* What the proofs know of a DeliveryRate.
RateOK(r) ==
    r \in [started : 0 .. MaxAge \union {None}, bytes : Nat, app_limited : BOOLEAN,
           sent : 0 .. Oldest \union {None}, sent_at_start : 0 .. Oldest \union {None},
           samples : [Slots -> Nat], age : [Slots -> 0 .. SAMPLES], next : Slots]

\* An interval without a stored sample: the last gap and every age grow by one.
LEMMA HoldsOlder ==
  ASSUME NEW q \in Seq(Sample), NEW p \in Seq(Sample), NEW r, NEW t,
         RateOK(r), RateOK(t), Holding(q, r), SAMPLES \in Nat \ {0},
         Len(p) = Len(q),
         \A k \in 1 .. Len(q) : p[k].rate = q[k].rate,
         \A k \in 1 .. Len(q) - 1 : p[k].gap = q[k].gap,
         Len(q) > 0 => p[Len(q)].gap = Capped(q[Len(q)].gap + 1),
         t.next = r.next, t.samples = r.samples,
         \A s \in Slots : t.age[s] = Capped(r.age[s] + 1)
  PROVE  Holding(p, t)
<1>. DEFINE n == Len(q)
<1>1. \A i \in 1 .. n : \A j \in i .. n : GapOf(p, i, j) = GapOf(q, i, j)
  <2>. SUFFICES ASSUME NEW i \in 1 .. n, NEW j \in i .. n
               PROVE  GapOf(p, i, j) = GapOf(q, i, j)
    BY Zenon
  <2>1. \A k \in i .. j - 1 : k \in DOMAIN p /\ k \in DOMAIN q /\ p[k].gap = q[k].gap
    OBVIOUS
  <2>. QED  BY <2>1, GapSame
<1>2. LiveOf(p) = LiveOf(q)
  <2>1. DOMAIN p = 1 .. n /\ DOMAIN q = 1 .. n /\ Len(p) = n  OBVIOUS
  <2>2. \A i \in 1 .. n : \A j \in i + 1 .. n :
          p[j].rate = q[j].rate /\ GapOf(p, i, j) = GapOf(q, i, j)
    BY <1>1
  <2>. HIDE DEF n
  <2>3. LiveOf(q) = {i \in 1 .. n :
          ~\E j \in i + 1 .. n : q[j].rate > 0 /\ GapOf(q, i, j) >= SAMPLES}
    BY <2>1, Zenon DEF LiveOf, n
  <2>4. LiveOf(p) = {i \in 1 .. n :
          ~\E j \in i + 1 .. n : p[j].rate > 0 /\ GapOf(p, i, j) >= SAMPLES}
    BY <2>1, Zenon DEF LiveOf
  <2>. QED  BY <2>2, <2>3, <2>4, Zenon
<1>3. \A i \in 1 .. n : /\ GapOf(q, i, n + 1) \in Nat
                        /\ Capped(GapOf(p, i, n + 1)) = Capped(Capped(GapOf(q, i, n + 1)) + 1)
  <2>. SUFFICES ASSUME NEW i \in 1 .. n
               PROVE  /\ GapOf(q, i, n + 1) \in Nat
                      /\ Capped(GapOf(p, i, n + 1)) = Capped(Capped(GapOf(q, i, n + 1)) + 1)
    BY Zenon
  <2>5. i \in 1 .. Len(q) /\ n \in i .. Len(q) /\ i \in 1 .. Len(p) /\ n \in i .. Len(p)
    OBVIOUS
  <2>1. /\ GapOf(q, i, n) \in Nat
        /\ GapOf(q, i, n + 1) = GapOf(q, i, n) + q[n].gap
    BY <2>5, GapStep, Zenon
  <2>2. GapOf(p, i, n + 1) = GapOf(p, i, n) + p[n].gap
    BY <2>5, GapStep, Zenon
  <2>3. GapOf(p, i, n) = GapOf(q, i, n)  BY <1>1
  <2>4. q[n].gap \in Nat /\ p[n].gap = Capped(q[n].gap + 1)
    <3>1. q[n] \in Sample /\ n > 0  OBVIOUS
    <3>2. q[n].gap \in Nat  BY <3>1 DEF Sample
    <3>. QED  BY <3>1, <3>2, Zenon
  <2>. HIDE DEF n
  <2>6. \A a, b, c \in Nat : c = Capped(b + 1) => Capped(a + c) = Capped(Capped(a + b) + 1)
    BY DEF Capped
  <2>7. p[n].gap \in Nat  BY <2>4 DEF Capped
  <2>8. Capped(GapOf(q, i, n) + p[n].gap) = Capped(Capped(GapOf(q, i, n) + q[n].gap) + 1)
    BY <2>1, <2>4, <2>6, <2>7, Zenon
  <2>9. GapOf(q, i, n + 1) \in Nat  BY <2>1, <2>4
  <2>. QED  BY <2>1, <2>2, <2>3, <2>8, <2>9, Zenon
<1>. SUFFICES ASSUME NEW s \in Slots PROVE Holds(p, t, s)  BY DEF Holding
<1>4. Holds(q, r, s)  BY DEF Holding
<1>5. At(p, t, s) = At(q, r, s)  BY Zenon DEF At
<1>6. DOMAIN p = DOMAIN q /\ DOMAIN q = 1 .. n  OBVIOUS
<1>7. CASE At(q, r, s) \in 1 .. n
  BY <1>2, <1>3, <1>4, <1>5, <1>6, <1>7, Zenon DEF Holds
<1>8. CASE At(q, r, s) \notin 1 .. n
  BY <1>4, <1>5, <1>6, <1>8, Zenon DEF Holds
<1>. QED  BY <1>7, <1>8, Zenon

\* Where a slot is, before and after the next slot is written.
LEMMA SlotMoves ==
  ASSUME SAMPLES \in Nat \ {0}, NEW next \in Slots, NEW s \in Slots
  PROVE  /\ Back(next, s) \in 1 .. SAMPLES
         /\ (next + 1) % SAMPLES \in Slots
         /\ s # next => Back((next + 1) % SAMPLES, s) = Back(next, s) + 1
         /\ s = next => Back((next + 1) % SAMPLES, s) = 1
<1>1. next \in Nat /\ s \in Nat /\ next < SAMPLES /\ s < SAMPLES  BY DEF Slots
<1>2. CASE next + 1 < SAMPLES
  <2>1. (next + 1) % SAMPLES = next + 1  BY <1>1, <1>2
  <2>. QED  BY <1>1, <1>2, <2>1 DEF Back, Slots
<1>3. CASE next + 1 = SAMPLES
  <2>1. (next + 1) % SAMPLES = 0  BY <1>1, <1>3
  <2>. QED  BY <1>1, <1>3, <2>1 DEF Back, Slots
<1>. QED  BY <1>1, <1>2, <1>3

\* An interval with a stored sample: it takes the next slot, and if it is above
\* zero the samples SAMPLES intervals old are gone.
LEMMA HoldsStored ==
  ASSUME NEW q \in Seq(Sample), NEW p \in Seq(Sample), NEW r, NEW t, NEW v \in Nat,
         RateOK(r), RateOK(t), Holding(q, r), SAMPLES \in Nat \ {0},
         Len(p) = Len(q) + 1, \A k \in 1 .. Len(q) : p[k] = q[k],
         p[Len(q) + 1] = [rate |-> v, gap |-> 1],
         t.next = (r.next + 1) % SAMPLES,
         t.samples[r.next] = v, t.age[r.next] = 1,
         \A s \in Slots \ {r.next} :
            /\ t.samples[s] = IF v > 0 /\ Expired(r, s) THEN 0 ELSE r.samples[s]
            /\ t.age[s] = Capped(r.age[s] + 1)
  PROVE  Holding(p, t)
<1>. DEFINE n == Len(q)
<1>0. /\ n \in Nat /\ Len(p) = n + 1 /\ DOMAIN q = 1 .. n /\ DOMAIN p = 1 .. n + 1
      /\ \A k \in 1 .. n : p[k] = q[k]
      /\ p[n + 1].rate = v /\ p[n + 1].gap = 1
  OBVIOUS
<1>. HIDE DEF n
<1>1. \A i \in 1 .. n : \A j \in i .. n + 1 : GapOf(p, i, j) = GapOf(q, i, j)
  <2>1. \A k \in 1 .. n : q[k].gap = p[k].gap  BY <1>0, Zenon
  <2>2. n <= Len(q) /\ n <= Len(p)  BY <1>0 DEF n
  <2>3. \A i \in 1 .. n + 1 : \A j \in i .. n + 1 : GapOf(q, i, j) = GapOf(p, i, j)
    BY <1>0, <2>1, <2>2, GapPrefix, Zenon
  <2>. QED  BY <1>0, <2>3
<1>2. \A i \in 1 .. n : /\ GapOf(q, i, n + 1) \in Nat
                        /\ GapOf(p, i, (n + 1) + 1) = GapOf(q, i, n + 1) + 1
  <2>. SUFFICES ASSUME NEW i \in 1 .. n
               PROVE  /\ GapOf(q, i, n + 1) \in Nat
                      /\ GapOf(p, i, (n + 1) + 1) = GapOf(q, i, n + 1) + 1
    BY Zenon
  <2>1. i \in 1 .. Len(p) /\ n + 1 \in i .. Len(p)  BY <1>0
  <2>2. /\ GapOf(p, i, n + 1) \in Nat
        /\ GapOf(p, i, (n + 1) + 1) = GapOf(p, i, n + 1) + p[n + 1].gap
    BY <2>1, GapStep, Zenon
  <2>3. GapOf(p, i, n + 1) = GapOf(q, i, n + 1)  BY <1>0, <1>1
  <2>. QED  BY <1>0, <2>2, <2>3, Zenon
<1>3. GapOf(p, n + 1, (n + 1) + 1) = 1
  <2>1. n + 1 \in 1 .. Len(p) /\ n + 1 \in n + 1 .. Len(p)  BY <1>0
  <2>2. GapOf(p, n + 1, (n + 1) + 1) = GapOf(p, n + 1, n + 1) + p[n + 1].gap
    BY <2>1, GapStep, Zenon
  <2>3. GapOf(p, n + 1, n + 1) = 0  BY <1>0, GapEmpty
  <2>. QED  BY <1>0, <2>2, <2>3
<1>4. \A i \in 1 .. n :
        i \in LiveOf(p) <=> i \in LiveOf(q) /\ ~(v > 0 /\ GapOf(q, i, n + 1) >= SAMPLES)
  <2>. SUFFICES ASSUME NEW i \in 1 .. n
               PROVE  i \in LiveOf(p) <=>
                        i \in LiveOf(q) /\ ~(v > 0 /\ GapOf(q, i, n + 1) >= SAMPLES)
    BY Zenon
  <2>1. i \in LiveOf(q) <=>
          ~\E j \in i + 1 .. n : q[j].rate > 0 /\ GapOf(q, i, j) >= SAMPLES
    BY <1>0, Zenon DEF LiveOf, n
  <2>2. i \in LiveOf(p) <=>
          ~\E j \in i + 1 .. n + 1 : p[j].rate > 0 /\ GapOf(p, i, j) >= SAMPLES
    <3>1. i \in DOMAIN p  BY <1>0
    <3>. QED  BY <1>0, <3>1, Zenon DEF LiveOf
  <2>3. \A j \in i + 1 .. n : p[j].rate = q[j].rate /\ GapOf(p, i, j) = GapOf(q, i, j)
    BY <1>0, <1>1
  <2>4. GapOf(p, i, n + 1) = GapOf(q, i, n + 1)  BY <1>0, <1>1
  <2>5. i + 1 .. n + 1 = (i + 1 .. n) \union {n + 1}  BY <1>0
  <2>6. (\E j \in i + 1 .. n + 1 : p[j].rate > 0 /\ GapOf(p, i, j) >= SAMPLES)
        <=> \/ \E j \in i + 1 .. n : p[j].rate > 0 /\ GapOf(p, i, j) >= SAMPLES
            \/ p[n + 1].rate > 0 /\ GapOf(p, i, n + 1) >= SAMPLES
    BY <2>5, Zenon
  <2>7. (\E j \in i + 1 .. n : p[j].rate > 0 /\ GapOf(p, i, j) >= SAMPLES)
        <=> \E j \in i + 1 .. n : q[j].rate > 0 /\ GapOf(q, i, j) >= SAMPLES
    BY <2>3, Zenon
  <2>. QED  BY <1>0, <2>1, <2>2, <2>4, <2>6, <2>7, Zenon
<1>5. n + 1 \in LiveOf(p)
  <2>1. n + 1 \in DOMAIN p /\ (n + 1) + 1 .. Len(p) = {}  BY <1>0
  <2>. QED  BY <2>1, Zenon DEF LiveOf
<1>. SUFFICES ASSUME NEW s \in Slots PROVE Holds(p, t, s)  BY Zenon DEF Holding
<1>6. Holds(q, r, s)  BY Zenon DEF Holding
<1>7. r.next \in Slots /\ r.age \in [Slots -> 0 .. SAMPLES] /\ r.samples \in [Slots -> Nat]
  BY Zenon DEF RateOK
<1>8. CASE s = r.next
  <2>1. At(p, t, s) = n + 1  BY <1>0, <1>7, <1>8, SlotMoves DEF At
  <2>2. Capped(1) = 1  BY DEF Capped
  <2>. QED  BY <1>0, <1>3, <1>5, <1>8, <2>1, <2>2 DEF Holds
<1>9. CASE s # r.next
  <2>1. At(p, t, s) = At(q, r, s) /\ At(q, r, s) \in Int /\ At(q, r, s) <= n
    <3>1. Back(r.next, s) \in 1 .. SAMPLES /\ Back(t.next, s) = Back(r.next, s) + 1
      BY <1>7, <1>9, SlotMoves, ZenonT(40)
    <3>. QED  BY <1>0, <3>1 DEF At, n
  <2>2. CASE At(q, r, s) \in 1 .. n
    <3>. DEFINE i == At(q, r, s)
    <3>1. /\ r.age[s] = Capped(GapOf(q, i, n + 1))
          /\ r.samples[s] = IF i \in LiveOf(q) THEN q[i].rate ELSE 0
      BY <1>0, <1>6, <2>2, Zenon DEF Holds, n
    <3>2. i \in DOMAIN p /\ i \in 1 .. n /\ p[i] = q[i]  BY <1>0, <2>2
    <3>. HIDE DEF i
    <3>3. GapOf(q, i, n + 1) \in Nat /\ GapOf(p, i, Len(p) + 1) = GapOf(q, i, n + 1) + 1
      BY <1>0, <1>2, <3>2, Zenon
    <3>4. t.age[s] = Capped(GapOf(p, i, Len(p) + 1))
      BY <1>9, <3>1, <3>3 DEF Capped
    <3>5. Expired(r, s) <=> GapOf(q, i, n + 1) >= SAMPLES
      BY <3>1, <3>3 DEF Expired, Capped
    <3>6. t.samples[s] = IF i \in LiveOf(p) THEN p[i].rate ELSE 0
      BY <1>4, <1>9, <3>1, <3>2, <3>5, Zenon
    <3>. QED  BY <2>1, <3>2, <3>4, <3>6, Zenon DEF Holds, i
  <2>3. CASE At(q, r, s) \notin 1 .. n
    <3>1. At(p, t, s) \notin DOMAIN p  BY <1>0, <2>1, <2>3
    <3>2. r.samples[s] = 0  BY <1>0, <1>6, <2>3, Zenon DEF Holds
    <3>. QED  BY <1>9, <3>1, <3>2, Zenon DEF Holds
  <2>. QED  BY <2>2, <2>3, Zenon
<1>. QED  BY <1>8, <1>9, Zenon

\* A history of one sample too many loses its oldest, which no slot holds.
LEMMA HoldsDropped ==
  ASSUME NEW q \in Seq(Sample), NEW p \in Seq(Sample), NEW r,
         RateOK(r), Holding(q, r), SAMPLES \in Nat \ {0},
         Len(q) = SAMPLES + 1, Len(p) = SAMPLES,
         \A k \in 1 .. SAMPLES : p[k] = q[k + 1]
  PROVE  Holding(p, r)
<1>. DEFINE n == SAMPLES
<1>0. DOMAIN p = 1 .. n /\ DOMAIN q = 1 .. n + 1 /\ Len(p) = n /\ Len(q) = n + 1 /\ n \in Nat
  OBVIOUS
<1>1. \A i \in 1 .. n : \A j \in i .. n + 1 : GapOf(p, i, j) = GapOf(q, i + 1, j + 1)
  <2>. SUFFICES ASSUME NEW i \in 1 .. n, NEW j \in i .. n + 1
               PROVE  GapOf(p, i, j) = GapOf(q, i + 1, j + 1)
    BY Zenon
  <2>1. i \in 1 .. Len(p) /\ j \in i .. Len(p) + 1 /\ Len(q) = Len(p) + 1  BY <1>0, Zenon
  <2>2. \A k \in 1 .. Len(p) : p[k].gap = q[k + 1].gap  BY <1>0, Zenon
  <2>. QED  BY <2>1, <2>2, GapShift, Zenon
<1>2. \A i \in 1 .. n : i \in LiveOf(p) <=> i + 1 \in LiveOf(q)
  <2>. SUFFICES ASSUME NEW i \in 1 .. n PROVE i \in LiveOf(p) <=> i + 1 \in LiveOf(q)
    BY Zenon
  <2>1. i \in LiveOf(p) <=>
          ~\E j \in i + 1 .. n : p[j].rate > 0 /\ GapOf(p, i, j) >= SAMPLES
    BY <1>0, Zenon DEF LiveOf
  <2>2. i + 1 \in LiveOf(q) <=>
          ~\E j \in (i + 1) + 1 .. n + 1 : q[j].rate > 0 /\ GapOf(q, i + 1, j) >= SAMPLES
    <3>1. i + 1 \in DOMAIN q  BY <1>0
    <3>. QED  BY <1>0, <3>1, Zenon DEF LiveOf
  <2>3. ASSUME NEW j \in i + 1 .. n
        PROVE  /\ j + 1 \in (i + 1) + 1 .. n + 1 /\ p[j].rate = q[j + 1].rate
               /\ GapOf(p, i, j) = GapOf(q, i + 1, j + 1)
    <3>1. j \in i .. n + 1 /\ j \in 1 .. n  BY <1>0
    <3>. QED  BY <1>0, <1>1, <3>1
  <2>4. ASSUME NEW j \in (i + 1) + 1 .. n + 1
        PROVE  j - 1 \in i + 1 .. n /\ (j - 1) + 1 = j
    BY <1>0
  <2>5. ASSUME NEW j \in (i + 1) + 1 .. n + 1
        PROVE  /\ j - 1 \in i + 1 .. n /\ p[j - 1].rate = q[j].rate
               /\ GapOf(p, i, j - 1) = GapOf(q, i + 1, j)
    <3>1. j - 1 \in i + 1 .. n /\ (j - 1) + 1 = j  BY <2>4, Zenon
    <3>2. /\ p[j - 1].rate = q[(j - 1) + 1].rate
          /\ GapOf(p, i, j - 1) = GapOf(q, i + 1, (j - 1) + 1)
      BY <2>3, <3>1, Zenon
    <3>. QED  BY <3>1, <3>2, Zenon
  <2>. QED  BY <2>1, <2>2, <2>3, <2>5, Zenon
<1>. SUFFICES ASSUME NEW s \in Slots PROVE Holds(p, r, s)  BY Zenon DEF Holding
<1>3. Holds(q, r, s)  BY Zenon DEF Holding
<1>. DEFINE i == At(p, r, s)
<1>4. i \in 1 .. n /\ At(q, r, s) = i + 1
  <2>1. Back(r.next, s) \in 1 .. SAMPLES  BY SlotMoves, Zenon DEF RateOK
  <2>. QED  BY <1>0, <2>1 DEF At
<1>. HIDE DEF i
<1>5. i + 1 \in DOMAIN q /\ i \in DOMAIN p /\ p[i].rate = q[i + 1].rate /\ n + 1 \in i .. n + 1
  BY <1>0, <1>4
<1>6. GapOf(p, i, Len(p) + 1) = GapOf(q, i + 1, Len(q) + 1)
  BY <1>0, <1>1, <1>4, <1>5, Zenon
<1>. QED  BY <1>2, <1>3, <1>4, <1>5, <1>6, Zenon DEF Holds, i

-------------------------------------------------------------------------------
\* What has been delivered since an interval began, over its length, is a rate.
LEMMA SampleRateIsNatural ==
  ASSUME NEW r, RateOK(r), r.started # None, r.started > 0
  PROVE  SampleRate(r) \in Nat
<1>. DEFINE e == IF r.sent_at_start = None \/ r.sent = None THEN 0
                 ELSE r.sent_at_start - r.sent
<1>1. r.started \in Nat /\ r.bytes \in Nat  BY DEF RateOK
<1>2. e \in Int  BY DEF RateOK
<1>3. SampleRate(r) = r.bytes \div Max({r.started, e})  BY Zenon DEF SampleRate
<1>. HIDE DEF e
<1>4. Max({r.started, e}) \in Nat \ {0}
  <2>1. r.started \in Int  BY <1>1
  <2>2. Max({r.started, e}) = IF r.started >= e THEN r.started ELSE e
    BY <1>2, <2>1, OfTwo, Zenon
  <2>. QED  BY <1>1, <1>2, <2>2
<1>5. \A a \in Nat, b \in Nat \ {0} : a \div b \in Nat  OBVIOUS
<1>. QED  BY <1>1, <1>3, <1>4, <1>5, Zenon

\* The fields of a DeliveryRate, one by one.
LEMMA RateFields ==
  ASSUME NEW r, RateOK(r)
  PROVE  /\ r.started \in 0 .. MaxAge \union {None} /\ r.bytes \in Nat
         /\ r.sent \in 0 .. Oldest \union {None}
         /\ r.sent_at_start \in 0 .. Oldest \union {None}
         /\ r.samples \in [Slots -> Nat] /\ r.age \in [Slots -> 0 .. SAMPLES]
         /\ r.next \in Slots
  BY Zenon DEF RateOK

\* Closing an interval without a stored sample only ages the slots.
LEMMA AgedFields ==
  ASSUME NEW r, RateOK(r), SAMPLES \in Nat \ {0}, NEW t, t = restart(Aged(r))
  PROVE  /\ RateOK(t) /\ t.next = r.next /\ t.samples = r.samples
         /\ \A s \in Slots : t.age[s] = Capped(r.age[s] + 1)
<1>. DEFINE a == [s \in Slots |-> Min({r.age[s] + 1, SAMPLES})]
<1>0. \A s \in Slots : Min({r.age[s] + 1, SAMPLES}) = Capped(r.age[s] + 1)
  <2>. SUFFICES ASSUME NEW s \in Slots
               PROVE  Min({r.age[s] + 1, SAMPLES}) = Capped(r.age[s] + 1)
    BY Zenon
  <2>1. r.age[s] + 1 \in Nat  BY RateFields
  <2>. QED  BY <2>1, OfTwo DEF Capped
<1>1. \A s \in Slots : Capped(r.age[s] + 1) \in 0 .. SAMPLES  BY RateFields DEF Capped
<1>2. a \in [Slots -> 0 .. SAMPLES] /\ \A s \in Slots : a[s] = Capped(r.age[s] + 1)
  BY <1>0, <1>1, Zenon
<1>3. Aged(r) = [r EXCEPT !.age = a]  BY Zenon DEF Aged
<1>. HIDE DEF a
<1>4. t = [[r EXCEPT !.age = a] EXCEPT !.started = 0, !.sent_at_start = r.sent,
                                       !.bytes = 0, !.app_limited = FALSE]
  BY <1>3, Zenon DEF restart, RateOK
<1>5. t = [started |-> 0, bytes |-> 0, app_limited |-> FALSE, sent |-> r.sent,
           sent_at_start |-> r.sent, samples |-> r.samples, age |-> a, next |-> r.next]
  BY <1>4, Zenon DEF RateOK
<1>6. 0 \in 0 .. MaxAge /\ r.sent \in 0 .. Oldest \union {None}
  BY RateFields, ConstantsOK
<1>. QED  BY <1>2, <1>5, <1>6, RateFields DEF RateOK

\* What Store writes.
LEMMA StoreFields ==
  ASSUME NEW r, RateOK(r), SAMPLES \in Nat \ {0}, SampleRate(r) \in Nat,
         NEW t, t = Store(r)
  PROVE  /\ RateOK(t) /\ t.next = (r.next + 1) % SAMPLES
         /\ t.samples[r.next] = SampleRate(r) /\ t.age[r.next] = 0
         /\ \A s \in Slots \ {r.next} :
              /\ t.samples[s] = IF SampleRate(r) > 0 /\ Expired(r, s) THEN 0
                                ELSE r.samples[s]
              /\ t.age[s] = r.age[s]
<1>. DEFINE v == SampleRate(r)
            m == [s \in Slots |-> IF s = r.next THEN v
                                  ELSE IF v > 0 /\ Expired(r, s) THEN 0 ELSE r.samples[s]]
            a == [r.age EXCEPT ![r.next] = 0]
            x == (r.next + 1) % SAMPLES
<1>1. m \in [Slots -> Nat] /\ a \in [Slots -> 0 .. SAMPLES]  BY RateFields
<1>2. x \in Slots  BY RateFields, SlotMoves, Zenon
<1>3. t = [r EXCEPT !.samples = m, !.age = a, !.next = x]  BY Zenon DEF Store, RateOK
<1>4. /\ m[r.next] = v /\ a[r.next] = 0
      /\ \A s \in Slots \ {r.next} :
            /\ m[s] = IF v > 0 /\ Expired(r, s) THEN 0 ELSE r.samples[s]
            /\ a[s] = r.age[s]
  BY RateFields, Zenon
<1>. HIDE DEF v, m, a, x
<1>5. RateOK(t) /\ t.samples = m /\ t.age = a /\ t.next = x
  BY <1>1, <1>2, <1>3, Zenon DEF RateOK
<1>. QED  BY <1>4, <1>5, Zenon DEF v, x

\* The slots and the history say the same of an interval that closes.
LEMMA ClosingKeeps ==
  ASSUME NEW r, RateOK(r), kept \in Seq(Sample), Len(kept) <= SAMPLES,
         Holding(kept, r), SAMPLES \in Nat \ {0}, r.started # None, r.started > 0
  PROVE  /\ RateOK(CloseInterval(r))
         /\ Remembered(r, TRUE) \in Seq(Sample)
         /\ Len(Remembered(r, TRUE)) <= SAMPLES
         /\ Holding(Remembered(r, TRUE), CloseInterval(r))
<1>. DEFINE n == Len(kept)
            v == SampleRate(r)
            t == CloseInterval(r)
            p == Remembered(r, TRUE)
<1>1. v \in Nat  BY SampleRateIsNatural, Zenon
<1>0. SUFFICES RateOK(t) /\ p \in Seq(Sample) /\ Len(p) <= SAMPLES /\ Holding(p, t)
  BY Zenon
<1>2. CASE ~Stored(r)
  <2>1. t = restart(Aged(r))  BY <1>2, Zenon DEF CloseInterval
  <2>2. /\ RateOK(t) /\ t.next = r.next /\ t.samples = r.samples
        /\ \A s \in Slots : t.age[s] = Capped(r.age[s] + 1)
    <3>. HIDE DEF t
    <3>. QED  BY <2>1, AgedFields, Zenon
  <2>3. p = IF n = 0 THEN kept
            ELSE [kept EXCEPT ![n].gap = Min({kept[n].gap + 1, SAMPLES})]
    BY <1>2, Zenon DEF Remembered
  <2>. HIDE DEF p, t
  <2>4. CASE n = 0
    <3>1. p = kept  BY <2>3, <2>4, Zenon
    <3>2. /\ \A k \in 1 .. Len(kept) - 1 : kept[k].gap = kept[k].gap
          /\ Len(kept) > 0 => kept[Len(kept)].gap = Capped(kept[Len(kept)].gap + 1)
      BY <2>4
    <3>3. Holding(kept, t)  BY <2>2, <3>2, HoldsOlder, Zenon
    <3>. QED  BY <2>2, <3>1, <3>3, Zenon
  <2>5. CASE n # 0
    <3>1. n \in 1 .. n /\ kept[n] \in Sample  BY <2>5
    <3>2. kept[n].gap \in Nat  BY <3>1 DEF Sample
    <3>3. Min({kept[n].gap + 1, SAMPLES}) = Capped(kept[n].gap + 1)
      BY <3>2, OfTwo DEF Capped
    <3>4. Capped(kept[n].gap + 1) \in 0 .. SAMPLES  BY <3>2 DEF Capped
    <3>5. p = [kept EXCEPT ![n] = [kept[n] EXCEPT !.gap = Capped(kept[n].gap + 1)]]
      BY <2>3, <2>5, <3>3, Zenon
    <3>6. [kept[n] EXCEPT !.gap = Capped(kept[n].gap + 1)] \in Sample
      BY <3>1, <3>4, Zenon DEF Sample
    <3>7. p \in Seq(Sample) /\ Len(p) = n  BY <3>1, <3>5, <3>6
    <3>8. /\ \A k \in 1 .. n : p[k].rate = kept[k].rate
          /\ \A k \in 1 .. n - 1 : p[k].gap = kept[k].gap
          /\ p[n].gap = Capped(kept[n].gap + 1)
      BY <3>1, <3>5 DEF Sample
    <3>9. Holding(p, t)  BY <2>2, <3>7, <3>8, HoldsOlder, ZenonT(40)
    <3>. QED  BY <2>2, <3>7, <3>9, Zenon
  <2>. QED  BY <2>4, <2>5, Zenon
<1>3. CASE Stored(r)
  <2>. DEFINE g == Append(kept, [rate |-> v, gap |-> 1])
              u == Store(r)
  <2>1. t = restart(Aged(u))  BY <1>3, Zenon DEF CloseInterval
  <2>2. /\ RateOK(u) /\ u.next = (r.next + 1) % SAMPLES
        /\ u.samples[r.next] = v /\ u.age[r.next] = 0
        /\ \A s \in Slots \ {r.next} :
              /\ u.samples[s] = IF v > 0 /\ Expired(r, s) THEN 0 ELSE r.samples[s]
              /\ u.age[s] = r.age[s]
    BY <1>1, StoreFields, ZenonT(40)
  <2>. HIDE DEF u
  <2>3. /\ RateOK(t) /\ t.next = u.next /\ t.samples = u.samples
        /\ \A s \in Slots : t.age[s] = Capped(u.age[s] + 1)
    <3>. HIDE DEF t
    <3>1. RateOK(u)  BY <2>2, Zenon
    <3>. QED  BY <2>1, <3>1, AgedFields, Zenon
  <2>4. p = SubSeq(g, IF Len(g) > SAMPLES THEN 2 ELSE 1, Len(g))
    BY <1>3, Zenon DEF Remembered
  <2>. HIDE DEF t, v, p
  <2>5. [rate |-> v, gap |-> 1] \in Sample  BY <1>1 DEF Sample
  <2>6. /\ g \in Seq(Sample) /\ Len(g) = n + 1 /\ \A k \in 1 .. n : g[k] = kept[k]
        /\ g[n + 1] = [rate |-> v, gap |-> 1]
    BY <2>5
  <2>. HIDE DEF g
  <2>7. t.samples[r.next] = v /\ t.next = (r.next + 1) % SAMPLES /\ t.age[r.next] = 1
    <3>1. r.next \in Slots  BY RateFields, Zenon
    <3>2. Capped(0 + 1) = 1  BY DEF Capped
    <3>. QED  BY <2>2, <2>3, <3>1, <3>2, Zenon
  <2>8. \A s \in Slots \ {r.next} :
            /\ t.samples[s] = IF v > 0 /\ Expired(r, s) THEN 0 ELSE r.samples[s]
            /\ t.age[s] = Capped(r.age[s] + 1)
    BY <2>2, <2>3, Zenon
  <2>9. Holding(g, t)
    BY <1>1, <2>3, <2>6, <2>7, <2>8, HoldsStored, Zenon
  <2>10. CASE n < SAMPLES
    <3>1. (IF Len(g) > SAMPLES THEN 2 ELSE 1) = 1 /\ Len(g) <= SAMPLES  BY <2>6, <2>10
    <3>2. SubSeq(g, 1, Len(g)) = g  BY <2>6
    <3>3. p = g  BY <2>4, <3>1, <3>2, Zenon
    <3>. QED  BY <2>3, <2>6, <2>9, <3>1, <3>3, Zenon
  <2>11. CASE n = SAMPLES
    <3>1. (IF Len(g) > SAMPLES THEN 2 ELSE 1) = 2 /\ Len(g) = SAMPLES + 1  BY <2>6, <2>11
    <3>2. p = SubSeq(g, 2, Len(g))  BY <2>4, <3>1, Zenon
    <3>3. p \in Seq(Sample) /\ Len(p) = SAMPLES /\ \A k \in 1 .. SAMPLES : p[k] = g[k + 1]
      BY <2>6, <3>1, <3>2
    <3>4. Holding(p, t)  BY <2>3, <2>6, <2>9, <3>1, <3>3, HoldsDropped, Zenon
    <3>. QED  BY <2>3, <3>3, <3>4
  <2>. QED  BY <2>6, <2>10, <2>11
<1>. QED  BY <1>2, <1>3, Zenon

\* The ring keeps step with the history, between any two calls.
RingInv ==
    /\ network \in Networks /\ path \in network /\ waiting \in Nat
    /\ RateOK(rate) /\ kept \in Seq(Sample) /\ Len(kept) <= SAMPLES
    /\ Holding(kept, rate)

\* An ACK frame adds to the open interval and touches no slot.
LEMMA BatchFields ==
  ASSUME RingInv, NEW bytes \in Nat, NEW rtt \in 0 .. MaxAge,
         NEW probing, NEW b, b = Batch(bytes, rtt, probing)
  PROVE  /\ RateOK(b) /\ b.started = rate.started
         /\ b.samples = rate.samples /\ b.age = rate.age /\ b.next = rate.next
<1>. DEFINE acked == IF bytes = 0 THEN rate
                     ELSE on_ack(rate, rtt, bytes, ~path.busy \/ probing)
            lim == acked.app_limited \/ ~path.busy
<1>1. b = [acked EXCEPT !.app_limited = lim]  BY Zenon DEF Batch
<1>2. Younger(rate.sent, rtt) \in 0 .. Oldest \union {None}
  <2>1. rtt \in 0 .. Oldest  BY ConstantsOK
  <2>. QED  BY <2>1, RateFields, Zenon DEF Younger, RingInv
<1>3. rate.bytes + bytes \in Nat  BY RateFields DEF RingInv
<1>. DEFINE al == rate.app_limited \/ (~path.busy \/ probing)
            sn == Younger(rate.sent, rtt)
            by == rate.bytes + bytes
<1>4. on_ack(rate, rtt, bytes, ~path.busy \/ probing)
        = [rate EXCEPT !.bytes = by, !.app_limited = al, !.sent = sn]
  BY Zenon DEF on_ack, RingInv, RateOK
<1>5. al \in BOOLEAN /\ lim \in BOOLEAN  BY Zenon
<1>. HIDE DEF al, sn, by, lim
<1>6. RateOK([rate EXCEPT !.bytes = by, !.app_limited = al, !.sent = sn])
  BY <1>2, <1>3, <1>5, Zenon DEF RingInv, RateOK, sn, by
<1>7. /\ RateOK(acked) /\ acked.started = rate.started
      /\ acked.samples = rate.samples /\ acked.age = rate.age /\ acked.next = rate.next
  BY <1>4, <1>6, Zenon DEF RingInv, RateOK
<1>. HIDE DEF acked
<1>. QED  BY <1>1, <1>5, <1>7, Zenon DEF RateOK

\* Slots alike hold the same history.
LEMMA HoldingSame ==
  ASSUME NEW q, NEW r, NEW t, Holding(q, r),
         t.samples = r.samples, t.age = r.age, t.next = r.next
  PROVE  Holding(q, t)
  BY Zenon DEF Holding, Holds, At

\* An ACK frame keeps the ring in step.
LEMMA AckKeeps ==
  ASSUME RingInv, NEW bytes \in 0 .. waiting, NEW rtt \in 0 .. MaxAge, NEW round, NEW flying,
         NEW several,
         AckFrame(bytes, rtt, round, flying, several)
  PROVE  RingInv'
<1>. DEFINE m == IF bytes = 0 THEN [probe |-> probe, min_rtt |-> min_rtt]
                 ELSE record_ack(rtt, ~path.busy)
            probing == probe # None \/ (several /\ m.probe # None)
            b == Batch(bytes, rtt, probing)
<1>1. bytes \in Nat /\ waiting - bytes \in Nat  BY DEF RingInv
<1>2. /\ waiting' = waiting - bytes /\ network' = network /\ path' = path
      /\ rate' = IF Closes(b, round) THEN CloseInterval(b)
                 ELSE IF b.started = None THEN restart(b) ELSE b
      /\ kept' = Remembered(b, Closes(b, round))
  BY Zenon DEF AckFrame, env
<1>. HIDE DEF m, probing
<1>3. /\ RateOK(b) /\ b.started = rate.started
      /\ b.samples = rate.samples /\ b.age = rate.age /\ b.next = rate.next
  BY <1>1, BatchFields, Zenon
<1>. HIDE DEF b
<1>4. Holding(kept, b)  BY <1>3, HoldingSame, Zenon DEF RingInv
<1>5. network' \in Networks /\ path' \in network' /\ waiting' \in Nat
  BY <1>1, <1>2, ZenonT(40) DEF RingInv
<1>6. CASE Closes(b, round)
  <2>1. rate' = CloseInterval(b)  BY <1>2, <1>6, Zenon
  <2>2. kept' = Remembered(b, TRUE)  BY <1>2, <1>6, Zenon DEF Remembered
  <2>3. b.started # None /\ b.started > 0  BY <1>6, Zenon DEF Closes
  <2>4. kept \in Seq(Sample) /\ Len(kept) <= SAMPLES  BY Zenon DEF RingInv
  <2>5. /\ RateOK(CloseInterval(b)) /\ Remembered(b, TRUE) \in Seq(Sample)
        /\ Len(Remembered(b, TRUE)) <= SAMPLES
        /\ Holding(Remembered(b, TRUE), CloseInterval(b))
    BY <1>3, <1>4, <2>3, <2>4, ClosingKeeps, ConstantsOK, Zenon
  <2>6. /\ RateOK(rate') /\ kept' \in Seq(Sample) /\ Len(kept') <= SAMPLES
        /\ Holding(kept', rate')
    BY <2>1, <2>2, <2>5, Zenon
  <2>. QED  BY <1>5, <2>6, ZenonT(40) DEF RingInv, RateOK, Holding, Holds, At
<1>7. CASE ~Closes(b, round)
  <2>1. kept' = kept  BY <1>2, <1>7, Zenon DEF Remembered
  <2>2. RateOK(restart(b)) /\ restart(b).samples = b.samples
        /\ restart(b).age = b.age /\ restart(b).next = b.next
    <3>1. 0 \in 0 .. MaxAge /\ b.sent \in 0 .. Oldest \union {None}
      BY <1>3, ConstantsOK, RateFields
    <3>. QED  BY <1>3, <3>1, Zenon DEF restart, RateOK
  <2>3. Holding(kept, restart(b))  BY <1>4, <2>2, HoldingSame, Zenon
  <2>4. RateOK(rate') /\ Holding(kept, rate')  BY <1>2, <1>3, <1>4, <1>7, <2>2, <2>3, Zenon
  <2>. QED  BY <1>5, <2>1, <2>4, Zenon DEF RingInv
<1>. QED  BY <1>6, <1>7, Zenon

\* Of the numbers 0 to m, one has the largest value.
LEMMA LargestExists ==
  ASSUME NEW m \in Nat, NEW f \in [0 .. m -> Nat]
  PROVE  \E s \in 0 .. m : \A x \in 0 .. m : f[s] >= f[x]
<1>. DEFINE Bad == {k \in 0 .. m : ~\E s \in 0 .. k : \A x \in 0 .. k : f[s] >= f[x]}
<1>0. m \in 0 .. m  OBVIOUS
<1>1. SUFFICES ASSUME Bad # {} PROVE FALSE  BY <1>0, Zenon
<1>2. Bad \in SUBSET Nat  OBVIOUS
<1>. HIDE DEF Bad
<1>3. PICK k \in Bad : \A n \in Bad : k <= n  BY <1>1, <1>2, LeastNatural, Zenon
<1>6. k \in 0 .. m /\ ~\E s \in 0 .. k : \A x \in 0 .. k : f[s] >= f[x]
  BY <1>3, Zenon DEF Bad
<1>4. CASE k = 0
  BY <1>4, <1>6
<1>5. CASE k # 0
  <2>1. k - 1 \in 0 .. m /\ ~(k <= k - 1)  BY <1>5, <1>6
  <2>2. k - 1 \notin Bad  BY <1>3, <2>1, Zenon
  <2>3. PICK s \in 0 .. k - 1 : \A x \in 0 .. k - 1 : f[s] >= f[x]
    BY <2>1, <2>2, Zenon DEF Bad
  <2>4. CASE f[s] >= f[k]
    <3>1. s \in 0 .. k /\ \A x \in 0 .. k : f[s] >= f[x]  BY <1>6, <2>1, <2>3, <2>4
    <3>. QED  BY <1>6, <3>1, Zenon
  <2>5. CASE f[k] > f[s]
    <3>1. k \in 0 .. k /\ \A x \in 0 .. k : f[k] >= f[x]  BY <1>6, <2>1, <2>3, <2>5
    <3>. QED  BY <1>6, <3>1, Zenon
  <2>. QED  BY <1>6, <2>1, <2>3, <2>4, <2>5
<1>. QED  BY <1>4, <1>5, Zenon

\* An element that none exceeds is the largest.
LEMMA IsMax ==
  ASSUME NEW S \in SUBSET Nat, NEW m \in S, \A x \in S : m >= x
  PROVE  Max(S) = m
<1>1. Max(S) \in S /\ \A y \in S : Max(S) >= y  BY Zenon DEF Max
<1>2. Max(S) >= m /\ m >= Max(S) /\ Max(S) \in Nat /\ m \in Nat  BY <1>1, Zenon
<1>. QED  BY <1>2

\* Every sample of the history has its slot.
LEMMA SlotOfSample ==
  ASSUME RingInv, NEW i \in 1 .. Len(kept)
  PROVE  \E s \in Slots : At(kept, rate, s) = i
<1>. DEFINE b == Len(kept) + 1 - i
            s == IF b <= rate.next THEN rate.next - b ELSE rate.next - b + SAMPLES
<1>1. rate.next \in 0 .. SAMPLES - 1 /\ SAMPLES \in Nat \ {0}
  BY RateFields, ConstantsOK, Zenon DEF RingInv, Slots
<1>2. Len(kept) \in Nat /\ Len(kept) <= SAMPLES  BY DEF RingInv
<1>3. s \in 0 .. SAMPLES - 1 /\ Back(rate.next, s) = b
  BY ONLY <1>1, <1>2, i \in 1 .. Len(kept), SMT DEF Back
<1>. QED  BY <1>2, <1>3 DEF At, Slots

\* In step with the history, the largest slot is the window's largest sample.
LEMMA RingIsWindow ==
  ASSUME RingInv
  PROVE  EstimateIsWindowMax
<1>. DEFINE A == {rate.samples[s] : s \in Slots}
            B == {0} \union {kept[i].rate : i \in Live}
<1>1. /\ rate.samples \in [Slots -> Nat] /\ SAMPLES \in Nat \ {0} /\ SAMPLES - 1 \in Nat
      /\ Slots = 0 .. SAMPLES - 1
  BY RateFields, ConstantsOK DEF RingInv, Slots
<1>2. PICK w \in Slots : \A x \in Slots : rate.samples[w] >= rate.samples[x]
  BY <1>1, LargestExists, Zenon
<1>. DEFINE m == rate.samples[w]
<1>3. A \in SUBSET Nat /\ m \in A /\ \A x \in A : m >= x  BY <1>1, <1>2, Zenon
<1>4. Max(A) = m  BY <1>3, IsMax, Zenon
<1>5. /\ Live = LiveOf(kept) /\ LiveOf(kept) \subseteq DOMAIN kept
      /\ DOMAIN kept = 1 .. Len(kept) /\ \A i \in DOMAIN kept : kept[i].rate \in Nat
  <2>1. Live = LiveOf(kept)  BY HistoryIsArgument, Zenon
  <2>2. kept \in Seq(Sample)  BY Zenon DEF RingInv
  <2>3. DOMAIN kept = 1 .. Len(kept)  BY <2>2
  <2>4. \A i \in DOMAIN kept : kept[i] \in Sample  BY <2>2
  <2>. QED  BY <2>1, <2>3, <2>4, Zenon DEF LiveOf, Sample
<1>6. m \in B
  <2>1. Holds(kept, rate, w)  BY Zenon DEF RingInv, Holding
  <2>. QED  BY <1>5, <2>1, Zenon DEF Holds
<1>7. \A x \in B : m >= x /\ x \in Nat
  <2>. SUFFICES ASSUME NEW x \in B PROVE m >= x /\ x \in Nat  BY Zenon
  <2>1. CASE x = 0  BY <1>1, <2>1
  <2>2. ASSUME NEW i \in Live, x = kept[i].rate PROVE m >= x /\ x \in Nat
    <3>1. i \in 1 .. Len(kept) /\ i \in DOMAIN kept /\ i \in LiveOf(kept)  BY <1>5, Zenon
    <3>2. PICK s \in Slots : At(kept, rate, s) = i  BY <3>1, SlotOfSample, Zenon
    <3>3. Holds(kept, rate, s)  BY Zenon DEF RingInv, Holding
    <3>4. rate.samples[s] = kept[i].rate  BY <3>1, <3>2, <3>3, Zenon DEF Holds
    <3>5. m >= rate.samples[s]  BY <1>2, Zenon
    <3>. QED  BY <1>5, <2>2, <3>1, <3>4, <3>5, Zenon
  <2>. QED  BY <2>1, <2>2, Zenon
<1>8. Max(B) = m  BY <1>6, <1>7, IsMax, Zenon
<1>. QED  BY <1>4, <1>8, Zenon DEF EstimateIsWindowMax, max

\* The empty ring holds the empty history.
LEMMA InitRing == CongestionInit => RingInv
<1>. SUFFICES ASSUME CongestionInit PROVE RingInv  BY Zenon
<1>1. /\ 0 \in Slots /\ [s \in Slots |-> 0] \in [Slots -> Nat]
      /\ [s \in Slots |-> 0] \in [Slots -> 0 .. SAMPLES]
  BY ConstantsOK DEF Slots
<1>2. RateOK(rate) /\ \A s \in Slots : rate.samples[s] = 0
  BY <1>1, Zenon DEF CongestionInit, RateOK
<1>3. kept = <<>> /\ network \in Networks /\ path \in network /\ waiting = 0
  BY Zenon DEF CongestionInit
<1>4. kept \in Seq(Sample) /\ DOMAIN kept = {} /\ Len(kept) <= SAMPLES
  BY <1>3, ConstantsOK
<1>5. Holding(kept, rate)  BY <1>2, <1>4, Zenon DEF Holding, Holds
<1>. QED  BY <1>2, <1>3, <1>4, <1>5, Zenon DEF RingInv

\* A tick ages the open interval and no slot.
LEMMA TickKeeps ==
  ASSUME RingInv, Tick
  PROVE  RingInv'
<1>1. \A c \in Nat : \A a \in 0 .. c \union {None} : Older(a, c) \in 0 .. c \union {None}
  <2>. SUFFICES ASSUME NEW c \in Nat, NEW a \in 0 .. c \union {None}, a # None
               PROVE  Min({a + 1, c}) \in 0 .. c
    BY Zenon DEF Older
  <2>. QED  BY OfTwo
<1>. DEFINE x == Older(rate.started, MaxAge)
            y == Older(rate.sent, Oldest)
            z == Older(rate.sent_at_start, Oldest)
<1>2. x \in 0 .. MaxAge \union {None} /\ {y, z} \subseteq 0 .. Oldest \union {None}
  <2>1. MaxAge \in Nat /\ Oldest \in Nat  BY ConstantsOK, Zenon
  <2>2. /\ rate.started \in 0 .. MaxAge \union {None}
        /\ {rate.sent, rate.sent_at_start} \subseteq 0 .. Oldest \union {None}
    BY RateFields, Zenon DEF RingInv
  <2>. QED  BY <1>1, <2>1, <2>2, Zenon
<1>3. rate' = [rate EXCEPT !.started = x, !.sent = y, !.sent_at_start = z]
  BY Zenon DEF Tick, RingInv, RateOK
<1>. HIDE DEF x, y, z
<1>4. /\ RateOK(rate') /\ rate'.samples = rate.samples
      /\ rate'.age = rate.age /\ rate'.next = rate.next
  BY <1>2, <1>3, Zenon DEF RingInv, RateOK
<1>5. kept' = kept /\ network' = network /\ path' = path  BY Zenon DEF Tick, env
<1>6. waiting' \in Nat
  <2>1. path.capacity \in Nat /\ waiting \in Nat  BY ConstantsOK, Zenon DEF RingInv
  <2>2. waiting' = waiting + path.capacity \/ waiting' = waiting + 0  BY Zenon DEF Tick
  <2>. QED  BY <2>1, <2>2
<1>7. Holding(kept, rate')  BY <1>4, HoldingSame, Zenon DEF RingInv
<1>. QED  BY <1>4, <1>5, <1>6, <1>7, Zenon DEF RingInv

\* Every step keeps the ring in step with the history.
LEMMA NextRing == RingInv /\ [CongestionNext]_congestionVars => RingInv'
<1>. SUFFICES ASSUME RingInv, [CongestionNext]_congestionVars PROVE RingInv'  BY Zenon
<1>1. path.rtt \in 0 .. MaxAge /\ \A x \in Rtts : x \in 0 .. MaxAge
  BY ConstantsOK DEF RingInv, Rtts
<1>2. CASE Acknowledged
  <2>1. PICK rtt \in Rtts, round \in Rtts, flying \in Flying, several \in {FALSE, waiting > 1} :
          AckFrame(waiting, rtt, round, flying, several)
    BY <1>2, Zenon DEF Acknowledged
  <2>2. waiting \in 0 .. waiting  BY DEF RingInv
  <2>. QED  BY <1>1, <2>1, <2>2, AckKeeps, Zenon
<1>3. CASE NothingCounts
  <2>1. PICK flying \in Flying : AckFrame(0, path.rtt, srtt, flying, FALSE)
    BY <1>3, Zenon DEF NothingCounts
  <2>2. 0 \in 0 .. waiting  BY DEF RingInv
  <2>. QED  BY <1>1, <2>1, <2>2, AckKeeps, Zenon
<1>4. CASE on_congestion_event
  BY <1>4, Zenon DEF on_congestion_event, env, history, RingInv
<1>5. CASE Tick  BY <1>5, TickKeeps, Zenon
<1>6. CASE PathChanges
  BY <1>6, Zenon DEF PathChanges, RingInv
<1>7. CASE UNCHANGED congestionVars
  BY <1>7, Zenon DEF congestionVars, env, history, RingInv
<1>. QED  BY <1>2, <1>3, <1>4, <1>5, <1>6, <1>7, Zenon DEF CongestionNext

\* The slots of DeliveryRate are the window their comment describes, whatever the
\* path does and however many slots there are: the estimate is the largest stored
\* sample that no later one has expired.
THEOREM EstimateIsWindow == CongestionSpec => []EstimateIsWindowMax
<1>. QED  BY InitRing, NextRing, RingIsWindow, PTL DEF CongestionSpec

-------------------------------------------------------------------------------
(* The types of the rest: the startup, the minimum and its probe.             *)

\* The largest slot is a number.
LEMMA EstimateIsNatural ==
  ASSUME NEW r, RateOK(r)
  PROVE  max(r) \in Nat
<1>. DEFINE A == {r.samples[s] : s \in Slots}
<1>1. /\ r.samples \in [Slots -> Nat] /\ SAMPLES - 1 \in Nat /\ Slots = 0 .. SAMPLES - 1
  BY RateFields, ConstantsOK DEF Slots
<1>2. PICK w \in Slots : \A x \in Slots : r.samples[w] >= r.samples[x]
  BY <1>1, LargestExists, Zenon
<1>3. A \in SUBSET Nat /\ r.samples[w] \in A /\ \A x \in A : r.samples[w] >= x
  BY <1>1, <1>2, Zenon
<1>4. Max(A) = r.samples[w]  BY <1>3, IsMax, Zenon
<1>. QED  BY <1>1, <1>4, Zenon DEF max

\* What the proofs know of a Startup: one that has not ended has intervals left.
StartupOK(s) ==
    /\ s \in [ended : BOOLEAN, grown_to : Nat, flat : 0 .. SAMPLES_WITHOUT_GROWTH,
              congested : BOOLEAN, peak : Nat, last : Nat,
              rises : 0 .. RISES_TO_RESTART - 1]
    /\ s.ended \/ s.flat < SAMPLES_WITHOUT_GROWTH

\* A fresh startup, and a rise that is counted.
LEMMA CountRiseKeeps ==
  ASSUME NEW s, StartupOK(s), NEW e \in Nat
  PROVE  StartupOK(FreshStartup) /\ StartupOK(count_rise(s, e))
<1>1. SAMPLES_WITHOUT_GROWTH \in Nat \ {0} /\ RISES_TO_RESTART \in Nat \ {0}
  BY CongestionAssumption, Zenon
<1>2. StartupOK(FreshStartup)  BY <1>1 DEF StartupOK, FreshStartup
<1>. DEFINE rises == IF s.last * 100 < s.peak * FALLEN_PERCENT /\ e > s.last
                     THEN s.rises + 1 ELSE 0
<1>3. s.rises \in 0 .. RISES_TO_RESTART - 1 /\ s.peak \in Nat  BY Zenon DEF StartupOK
<1>4. rises \in Nat  BY <1>3
<1>5. count_rise(s, e) =
        IF rises >= RISES_TO_RESTART
        THEN [FreshStartup EXCEPT !.grown_to = e, !.peak = s.peak, !.last = e]
        ELSE [s EXCEPT !.rises = rises, !.last = e]
  BY Zenon DEF count_rise
<1>. HIDE DEF rises
<1>6. CASE rises >= RISES_TO_RESTART
  <2>1. StartupOK([FreshStartup EXCEPT !.grown_to = e, !.peak = s.peak, !.last = e])
    BY <1>2, <1>3, Zenon DEF StartupOK
  <2>. QED  BY <1>2, <1>5, <1>6, <2>1, Zenon
<1>7. CASE ~(rises >= RISES_TO_RESTART)
  <2>1. rises \in 0 .. RISES_TO_RESTART - 1  BY <1>1, <1>4, <1>7
  <2>2. StartupOK([s EXCEPT !.rises = rises, !.last = e])
    BY <2>1, Zenon DEF StartupOK
  <2>. QED  BY <1>2, <1>5, <1>7, <2>2, Zenon
<1>. QED  BY <1>6, <1>7, Zenon

\* The test of the full bandwidth.
LEMMA FullBandwidthKeeps ==
  ASSUME NEW s, StartupOK(s), ~s.ended, NEW e \in Nat, NEW congested
  PROVE  StartupOK(full_bandwidth_test(s, e, congested))
<1>1. SAMPLES_WITHOUT_GROWTH \in Nat \ {0}  BY CongestionAssumption, Zenon
<1>2. s.flat \in Nat /\ s.flat < SAMPLES_WITHOUT_GROWTH  BY DEF StartupOK
<1>3. StartupOK([s EXCEPT !.grown_to = e, !.flat = 0])
  <2>. DEFINE t == [s EXCEPT !.grown_to = e, !.flat = 0]
  <2>1. 0 \in 0 .. SAMPLES_WITHOUT_GROWTH /\ 0 < SAMPLES_WITHOUT_GROWTH  BY <1>1
  <2>2. t.flat = 0  BY Zenon DEF StartupOK
  <2>. QED  BY <2>1, <2>2, Zenon DEF StartupOK
<1>4. StartupOK([s EXCEPT !.ended = TRUE])  BY Zenon DEF StartupOK
<1>. DEFINE over == (s.flat + 1 >= SAMPLES_WITHOUT_GROWTH)
<1>5. /\ over \in BOOLEAN /\ s.flat + 1 \in 0 .. SAMPLES_WITHOUT_GROWTH
      /\ ~over => s.flat + 1 < SAMPLES_WITHOUT_GROWTH
  BY <1>1, <1>2
<1>. HIDE DEF over
<1>6. StartupOK([s EXCEPT !.flat = s.flat + 1, !.ended = over])  BY <1>5, Zenon DEF StartupOK
<1>7. [s EXCEPT !.flat = @ + 1, !.ended = (s.flat + 1 >= SAMPLES_WITHOUT_GROWTH)]
        = [s EXCEPT !.flat = s.flat + 1, !.ended = over]
  BY Zenon DEF over
<1>. QED  BY <1>3, <1>4, <1>6, <1>7, Zenon DEF full_bandwidth_test

\* An interval that closes leaves a startup.
LEMMA OnIntervalKeeps ==
  ASSUME NEW b, StartupOK(b), NEW e \in Nat, NEW limited
  PROVE  StartupOK(on_interval(b, e, limited))
<1>. DEFINE s == [b EXCEPT !.congested = FALSE, !.peak = Max({b.peak, e})]
            t == IF limited THEN s ELSE [s EXCEPT !.last = e]
<1>1. Max({b.peak, e}) \in Nat
  <2>1. b.peak \in Nat /\ b.peak \in Int /\ e \in Int  BY DEF StartupOK
  <2>2. Max({b.peak, e}) = IF b.peak >= e THEN b.peak ELSE e  BY <2>1, OfTwo, Zenon
  <2>. QED  BY <2>1, <2>2, Zenon
<1>2. StartupOK(s) /\ s.ended = b.ended  BY <1>1, Zenon DEF StartupOK
<1>3. s = [b EXCEPT !.congested = FALSE, !.peak = Max({@, e})]  BY Zenon
<1>. HIDE DEF s
<1>4. StartupOK(t) /\ t.ended = s.ended  BY <1>2, Zenon DEF StartupOK
<1>5. on_interval(b, e, limited) =
        IF s.ended THEN IF limited THEN s ELSE count_rise(s, e)
        ELSE IF limited /\ ~b.congested THEN t
        ELSE full_bandwidth_test(t, e, b.congested)
  BY <1>3, Zenon DEF on_interval
<1>. HIDE DEF t
<1>. QED  BY <1>2, <1>4, <1>5, CountRiseKeeps, FullBandwidthKeeps, Zenon

\* What the proofs know of the minimum and its probe.
MinimumOK(m) ==
    /\ m.min_rtt \in [min : Nat, age : 0 .. MIN_RTT_LIFETIME + 1] \union {None}
    /\ m.probe \in [min : Nat, left : Nat \union {None}] \union {None}

\* Recording an ACK keeps that.
LEMMA RecordKeeps ==
  ASSUME MinimumOK([probe |-> probe, min_rtt |-> min_rtt]), NEW rtt \in Nat, NEW limited
  PROVE  MinimumOK(record_ack(rtt, limited))
<1>1. MIN_RTT_LIFETIME \in Nat  BY CongestionAssumption, Zenon
<1>2. /\ min_rtt \in [min : Nat, age : 0 .. MIN_RTT_LIFETIME + 1] \union {None}
      /\ probe \in [min : Nat, left : Nat \union {None}] \union {None}
  BY Zenon DEF MinimumOK
<1>3. CASE probe # None
  <2>1. probe \in [min : Nat, left : Nat \union {None}]  BY <1>2, <1>3, Zenon
  <2>2. Min({probe.min, rtt}) \in Nat
    <3>1. probe.min \in Nat  BY <2>1, Zenon
    <3>2. probe.min \in Int /\ rtt \in Int  BY <3>1
    <3>3. Min({probe.min, rtt}) = IF probe.min <= rtt THEN probe.min ELSE rtt
      BY <3>2, OfTwo, Zenon
    <3>. QED  BY <3>1, <3>3, Zenon
  <2>3. [probe EXCEPT !.min = Min({@, rtt})] \in [min : Nat, left : Nat \union {None}]
    BY <2>1, <2>2, Zenon
  <2>4. record_ack(rtt, limited) =
          [probe |-> [probe EXCEPT !.min = Min({@, rtt})], min_rtt |-> min_rtt]
    BY <1>3, Zenon DEF record_ack
  <2>. QED  BY <1>2, <2>3, <2>4 DEF MinimumOK
<1>4. CASE probe = None /\ (min_rtt = None \/ rtt <= min_rtt.min)
  <2>1. record_ack(rtt, limited) =
          [probe |-> None, min_rtt |-> [min |-> rtt, age |-> 0]]
    BY <1>4, Zenon DEF record_ack
  <2>. QED  BY <1>1, <2>1 DEF MinimumOK
<1>5. CASE probe = None /\ ~(min_rtt = None \/ rtt <= min_rtt.min)
  <2>. DEFINE x == IF ~limited /\ min_rtt.age > MIN_RTT_LIFETIME THEN NewProbe(rtt) ELSE None
  <2>1. record_ack(rtt, limited) = [probe |-> x, min_rtt |-> min_rtt]
    BY <1>5, Zenon DEF record_ack
  <2>2. NewProbe(rtt) \in [min : Nat, left : Nat \union {None}]  BY Zenon DEF NewProbe
  <2>3. x \in [min : Nat, left : Nat \union {None}] \union {None}  BY <2>2, Zenon
  <2>. HIDE DEF x
  <2>. QED  BY <1>2, <2>1, <2>3 DEF MinimumOK
<1>. QED  BY <1>3, <1>4, <1>5, Zenon

\* And so does what a batch makes of the probe.
LEMMA UpdateKeeps ==
  ASSUME NEW p, NEW q, NEW m, m = [probe |-> p, min_rtt |-> q],
         MinimumOK(m), NEW limit, NEW flying, NEW round \in Nat
  PROVE  MinimumOK(update_probe(m, limit, flying, round))
<1>1. MIN_RTT_LIFETIME \in Nat /\ PROBE_TIME \in Nat  BY CongestionAssumption, Zenon
<1>2. /\ q \in [min : Nat, age : 0 .. MIN_RTT_LIFETIME + 1] \union {None}
      /\ p \in [min : Nat, left : Nat \union {None}] \union {None}
      /\ m.probe = p /\ m.min_rtt = q
  BY Zenon DEF MinimumOK
<1>3. CASE p = None
  BY <1>2, <1>3, Zenon DEF update_probe
<1>4. CASE p # None
  <2>1. p \in [min : Nat, left : Nat \union {None}]  BY <1>2, <1>4, Zenon
  <2>2. Max({PROBE_TIME, round}) \in Nat
    <3>1. PROBE_TIME \in Int /\ round \in Int  BY <1>1
    <3>2. Max({PROBE_TIME, round}) = IF PROBE_TIME >= round THEN PROBE_TIME ELSE round
      BY <3>1, OfTwo, Zenon
    <3>. QED  BY <1>1, <3>2, Zenon
  <2>. DEFINE x == Max({PROBE_TIME, round})
              begun == [m EXCEPT !.probe.left = x]
              ended == [probe |-> None, min_rtt |-> [min |-> p.min, age |-> 0]]
  <2>3. MinimumOK(begun)
    <3>. HIDE DEF x
    <3>1. begun = [probe |-> [p EXCEPT !.left = x], min_rtt |-> q]  OBVIOUS
    <3>2. [p EXCEPT !.left = x] \in [min : Nat, left : Nat \union {None}]
      BY <2>1, <2>2, Zenon DEF x
    <3>. QED  BY <1>2, <3>1, <3>2, Zenon DEF MinimumOK
  <2>4. MinimumOK(ended)
    <3>1. p.min \in Nat  BY <2>1, Zenon
    <3>. QED  BY <1>1, <3>1 DEF MinimumOK
  <2>5. update_probe(m, limit, flying, round) \in {m, begun, ended}
    BY <1>2, <1>4, Zenon DEF update_probe
  <2>. QED  BY <2>3, <2>4, <2>5, Zenon
<1>. QED  BY <1>3, <1>4, Zenon

\* The variables that RingInv leaves out.
RestOK ==
    /\ in_flight \in InFlight /\ StartupOK(startup)
    /\ MinimumOK([probe |-> probe, min_rtt |-> min_rtt])
    /\ srtt \in 0 .. MaxAge /\ calm \in 0 .. Settled /\ steady \in 0 .. Learned

\* The smaller of a counter's next value and its bound.
LEMMA Counted ==
  ASSUME NEW b \in Nat, NEW n \in 0 .. b
  PROVE  Min({n + 1, b}) \in 0 .. b
  BY OfTwo

\* An ACK frame keeps the types of the rest.
LEMMA AckTypes ==
  ASSUME RingInv, RestOK, RingInv', NEW bytes \in Nat, NEW rtt \in 0 .. MaxAge,
         NEW round \in 0 .. MaxAge, NEW flying \in InFlight, NEW several,
         AckFrame(bytes, rtt, round, flying, several)
  PROVE  RestOK'
<1>. DEFINE m == IF bytes = 0 THEN [probe |-> probe, min_rtt |-> min_rtt]
                 ELSE record_ack(rtt, ~path.busy)
            b == Batch(bytes, rtt, probe # None \/ (several /\ m.probe # None))
            closes == Closes(b, round)
            s == IF closes THEN on_interval(startup, max(rate'), b.app_limited) ELSE startup
            u == update_probe(m, cap(max(rate'), m, s.ended), flying, round)
<1>1. /\ in_flight' = IF u.probe = None THEN 0 ELSE flying
      /\ startup' = s /\ srtt' = round /\ probe' = u.probe /\ min_rtt' = u.min_rtt
      /\ calm' = IF max(rate') = 0 THEN 0
                 ELSE IF closes /\ ~b.app_limited THEN Min({calm + 1, Settled}) ELSE calm
      /\ steady' = steady
  BY Zenon DEF AckFrame
<1>2. StartupOK(s)
  <2>1. max(rate') \in Nat  BY EstimateIsNatural, Zenon DEF RingInv
  <2>. HIDE DEF b, closes
  <2>. QED  BY <2>1, OnIntervalKeeps, Zenon DEF RestOK
<1>3. MinimumOK(m) /\ \E p, q : m = [probe |-> p, min_rtt |-> q]
  <2>1. MinimumOK(record_ack(rtt, ~path.busy))
    BY RecordKeeps DEF RestOK
  <2>2. \E p, q : record_ack(rtt, ~path.busy) = [probe |-> p, min_rtt |-> q]
    <3>1. CASE probe # None  BY <3>1, Zenon DEF record_ack
    <3>2. CASE probe = None /\ (min_rtt = None \/ rtt <= min_rtt.min)
      BY <3>2, Zenon DEF record_ack
    <3>3. CASE probe = None /\ ~(min_rtt = None \/ rtt <= min_rtt.min)
      BY <3>3, Zenon DEF record_ack
    <3>. QED  BY <3>1, <3>2, <3>3, Zenon
  <2>. QED  BY <2>1, <2>2, Zenon DEF RestOK
<1>. HIDE DEF b, closes, s, m
<1>4. MinimumOK(u)
  <2>1. round \in Nat  OBVIOUS
  <2>. QED  BY <1>3, <2>1, UpdateKeeps, Zenon
<1>. HIDE DEF u
<1>5. MinimumOK([probe |-> probe', min_rtt |-> min_rtt'])  BY <1>1, <1>4, Zenon DEF MinimumOK
<1>6. in_flight' \in InFlight
  <2>1. 0 \in InFlight  BY CongestionAssumption, Zenon
  <2>. QED  BY <1>1, <2>1, Zenon
<1>7. calm' \in 0 .. Settled
  <2>1. Settled \in Nat  BY CongestionAssumption, Zenon
  <2>3. 0 \in 0 .. Settled  BY <2>1
  <2>2. Min({calm + 1, Settled}) \in 0 .. Settled  BY <2>1, Counted, Zenon DEF RestOK
  <2>. QED  BY <1>1, <2>2, <2>3, Zenon DEF RestOK
<1>8. StartupOK(startup')  BY <1>1, <1>2, Zenon
<1>9. srtt' \in 0 .. MaxAge /\ steady' \in 0 .. Learned  BY <1>1, Zenon DEF RestOK
<1>. QED  BY <1>5, <1>6, <1>7, <1>8, <1>9, Zenon DEF RestOK, StartupOK, MinimumOK

\* A tick keeps them too.
LEMMA TickTypes ==
  ASSUME RestOK, Tick
  PROVE  RestOK'
<1>1. in_flight' = in_flight /\ startup' = startup /\ srtt' = srtt /\ calm' = calm
  BY Zenon DEF Tick
<1>2. MIN_RTT_LIFETIME \in Nat /\ Learned \in Nat  BY CongestionAssumption, Zenon
<1>3. /\ min_rtt \in [min : Nat, age : 0 .. MIN_RTT_LIFETIME + 1] \union {None}
      /\ probe \in [min : Nat, left : Nat \union {None}] \union {None}
  BY Zenon DEF RestOK, MinimumOK
<1>4. steady' \in 0 .. Learned
  <2>1. Min({steady + 1, Learned}) \in 0 .. Learned  BY <1>2, Counted, Zenon DEF RestOK
  <2>2. 0 \in 0 .. Learned  BY <1>2
  <2>. QED  BY <2>1, <2>2, Zenon DEF Tick
<1>5. min_rtt' \in [min : Nat, age : 0 .. MIN_RTT_LIFETIME + 1] \union {None}
  <2>1. CASE min_rtt = None  BY <2>1, Zenon DEF Tick
  <2>2. CASE min_rtt # None
    <3>. DEFINE a == Older(min_rtt.age, MIN_RTT_LIFETIME + 1)
    <3>1. min_rtt \in [min : Nat, age : 0 .. MIN_RTT_LIFETIME + 1]  BY <1>3, <2>2, Zenon
    <3>2. min_rtt.age \in 0 .. MIN_RTT_LIFETIME + 1  BY <3>1, Zenon
    <3>3. Min({min_rtt.age + 1, MIN_RTT_LIFETIME + 1}) \in 0 .. MIN_RTT_LIFETIME + 1
      <4>1. MIN_RTT_LIFETIME + 1 \in Nat  BY <1>2
      <4>. QED  BY <3>2, <4>1, Counted, Zenon
    <3>4. a \in 0 .. MIN_RTT_LIFETIME + 1
      <4>1. CASE min_rtt.age = None  BY <3>2, <4>1, Zenon DEF Older
      <4>2. CASE min_rtt.age # None  BY <3>3, <4>2, Zenon DEF Older
      <4>. QED  BY <4>1, <4>2, Zenon
    <3>5. min_rtt' = [min_rtt EXCEPT !.age = a]  BY <2>2, Zenon DEF Tick
    <3>. HIDE DEF a
    <3>. QED  BY <3>1, <3>4, <3>5, Zenon
  <2>. QED  BY <2>1, <2>2, Zenon
<1>6. probe' \in [min : Nat, left : Nat \union {None}] \union {None}
  <2>1. CASE probe = None \/ probe.left \in {None, 0}  BY <1>3, <2>1, Zenon DEF Tick
  <2>2. CASE ~(probe = None \/ probe.left \in {None, 0})
    <3>1. probe \in [min : Nat, left : Nat \union {None}]  BY <1>3, <2>2, Zenon
    <3>2. probe.left - 1 \in Nat  BY <2>2, <3>1
    <3>3. probe' = [probe EXCEPT !.left = probe.left - 1]  BY <2>2, Zenon DEF Tick
    <3>. QED  BY <3>1, <3>2, <3>3, Zenon
  <2>. QED  BY <2>1, <2>2, Zenon
<1>. QED  BY <1>1, <1>4, <1>5, <1>6, Zenon DEF RestOK, StartupOK, MinimumOK

\* Every variable keeps its type, and a startup that goes on has seen fewer flat
\* intervals in a row than end it: on_interval never misses the last of them.
THEOREM CongestionTypeCorrect == CongestionSpec => []CongestionTypeOK
<1>1. CongestionInit => RestOK
  <2>. SUFFICES ASSUME CongestionInit PROVE RestOK  OBVIOUS
  <2>1. {Settled, Learned, MaxAge} \subseteq Nat /\ 0 \in InFlight
    BY CongestionAssumption, Zenon
  <2>2. StartupOK(FreshStartup)
    <3>1. SAMPLES_WITHOUT_GROWTH \in Nat \ {0} /\ RISES_TO_RESTART \in Nat \ {0}
      BY CongestionAssumption, Zenon
    <3>. QED  BY <3>1 DEF StartupOK, FreshStartup
  <2>3. StartupOK(startup)  BY <2>2, Zenon DEF CongestionInit
  <2>4. MinimumOK([probe |-> probe, min_rtt |-> min_rtt])  BY Zenon DEF CongestionInit, MinimumOK
  <2>. QED  BY <2>1, <2>3, <2>4 DEF CongestionInit, RestOK
<1>2. RingInv /\ RestOK /\ [CongestionNext]_congestionVars => RestOK'
  <2>. SUFFICES ASSUME RingInv, RestOK, [CongestionNext]_congestionVars PROVE RestOK'  BY Zenon
  <2>1. RingInv'  BY NextRing, Zenon
  <2>2. path.rtt \in 0 .. MaxAge /\ \A x \in Rtts : x \in 0 .. MaxAge
    BY ConstantsOK DEF RingInv, Rtts
  <2>3. waiting \in Nat /\ srtt \in 0 .. MaxAge /\ \A x \in Flying : x \in InFlight
    BY Zenon DEF RingInv, RestOK, Flying
  <2>4. CASE Acknowledged
    <3>1. PICK rtt \in Rtts, round \in Rtts, flying \in Flying, several \in {FALSE, waiting > 1} :
            AckFrame(waiting, rtt, round, flying, several)
      BY <2>4, Zenon DEF Acknowledged
    <3>. QED  BY <2>1, <2>2, <2>3, <3>1, AckTypes, Zenon
  <2>5. CASE NothingCounts
    <3>1. PICK flying \in Flying : AckFrame(0, path.rtt, srtt, flying, FALSE)
      BY <2>5, Zenon DEF NothingCounts
    <3>2. 0 \in Nat  BY ZenonT(40)
    <3>. QED  BY <2>1, <2>2, <2>3, <3>1, <3>2, AckTypes, Zenon
  <2>6. CASE on_congestion_event
    <3>1. StartupOK(startup')  BY <2>6, Zenon DEF on_congestion_event, RestOK, StartupOK
    <3>2. /\ in_flight' = in_flight /\ probe' = probe /\ min_rtt' = min_rtt
          /\ srtt' = srtt /\ calm' = calm /\ steady' = steady
      BY <2>6, Zenon DEF on_congestion_event, history
    <3>. QED  BY <3>1, <3>2, Zenon DEF RestOK, StartupOK, MinimumOK
  <2>7. CASE Tick  BY <2>7, TickTypes, ZenonT(40)
  <2>8. CASE PathChanges
    <3>1. Settled \in Nat /\ Learned \in Nat  BY CongestionAssumption, Zenon
    <3>2. calm' = 0 /\ steady' = 0  BY <2>8, Zenon DEF PathChanges
    <3>3. calm' \in 0 .. Settled /\ steady' \in 0 .. Learned  BY <3>1, <3>2
    <3>. QED  BY <2>8, <3>3, Zenon DEF PathChanges, RestOK, StartupOK, MinimumOK
  <2>9. CASE UNCHANGED congestionVars
    BY <2>9, Zenon DEF congestionVars, history, RestOK, StartupOK, MinimumOK
  <2>. QED  BY <2>4, <2>5, <2>6, <2>7, <2>8, <2>9, Zenon DEF CongestionNext
<1>3. RingInv /\ RestOK => CongestionTypeOK
  BY Zenon DEF RingInv, RestOK, RateOK, StartupOK, MinimumOK, Sample, CongestionTypeOK
<1>. QED  BY InitRing, NextRing, <1>1, <1>2, <1>3, PTL DEF CongestionSpec
===============================================================================
