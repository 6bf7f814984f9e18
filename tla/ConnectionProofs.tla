--------------------------- MODULE ConnectionProofs ---------------------------
(***************************************************************************)
(* The safety invariants of Connection, for any number of requests and any  *)
(* tunnel limit, and those of the TCP tunnel a request becomes, for any      *)
(* number of chunks in either direction.                                    *)
(***************************************************************************)
EXTENDS Connection, TcpTunnel, FiniteSetTheorems, TLAPS

\* accept_bi yields streams in order, and last_accepted is the newest.
AcceptedInOrder ==
    /\ \A i, j \in Reqs : i < j /\ req[j] \notin {"unopened", "queued"}
                             => req[i] \notin {"unopened", "queued"}
    /\ \A k \in Reqs : req[k] \notin {"unopened", "queued", "rejected"}
                             => last_accepted # None /\ Id(k) <= last_accepted

\* handle returns once, and an identifier exists just when it is going away.
LoopKnows ==
    /\ reason # "none" => pc = "ended"
    /\ goaway # None <=> going_away

\* NoLostWakeup as the drain approaches its wait: from the moment is_busy said
\* yes, whoever made it say so either is still in service or has signalled or
\* is about to.
WakeupComing ==
    pc \in {"arm", "flag", "clock", "waiting"} /\ going_away /\ InService = {}
        => idle \/ \E k \in Reqs : req[k] = "left"

\* One request at most is raising the allowance, and only if nobody has.
RaisingOnce ==
    /\ ~authenticated => raises = 0 /\ \A k \in Reqs : req[k] # "raising"
    /\ authenticated =>
          \/ raises = 1 /\ \A k \in Reqs : req[k] # "raising"
          \/ raises = 0 /\ \E k \in Reqs :
                              /\ req[k] = "raising"
                              /\ \A j \in Reqs \ {k} : req[j] # "raising"

\* After one late stream the next wait is an authenticated one.
LateOnce ==
    /\ late <= 1
    /\ late = 1 => lapsed /\ (authenticated \/ pc # "waiting")

IInv ==
    /\ TypeOK /\ QuotaExact /\ AcceptedInOrder /\ LoopKnows /\ DrainedMeansIdle
    /\ WakeupComing /\ GoawayKept /\ RaisingOnce /\ LateOnce

-------------------------------------------------------------------------------
(* The two counts, and what a request's step does to them.                   *)

\* The requests in service and those with a slot are finite sets.
LEMMA ReqsFinite ==
  /\ IsFiniteSet(Reqs)
  /\ \A S \in SUBSET Reqs : IsFiniteSet(S) /\ Cardinality(S) \in Nat
                            /\ Cardinality(S) <= MaxReq
<1>1. IsFiniteSet(Reqs) /\ Cardinality(Reqs) <= MaxReq
  <2>1. MaxReq - 1 \in Int
    BY MaxReqAssumption
  <2>2. IsFiniteSet(Reqs) /\ Cardinality(Reqs) = IF 0 > MaxReq - 1 THEN 0 ELSE MaxReq - 1 - 0 + 1
    BY <2>1, FS_Interval DEF Reqs
  <2>. QED  BY <2>2, MaxReqAssumption
<1>2. ASSUME NEW S \in SUBSET Reqs
      PROVE  IsFiniteSet(S) /\ Cardinality(S) \in Nat /\ Cardinality(S) <= MaxReq
  <2>1. IsFiniteSet(S) /\ Cardinality(S) <= Cardinality(Reqs)
    BY <1>1, FS_Subset, Zenon
  <2>2. Cardinality(S) \in Nat /\ Cardinality(Reqs) \in Nat
    BY <1>1, <2>1, FS_CardinalityType, Zenon
  <2>. QED  BY <1>1, <2>1, <2>2, MaxReqAssumption
<1>. QED  BY <1>1, <1>2, Zenon

One(P) == IF P THEN 1 ELSE 0

\* Putting an element into a finite set, or taking it out, moves the cardinality
\* by one or not at all.
LEMMA PutOrTake ==
  ASSUME NEW S, IsFiniteSet(S), NEW x
  PROVE  /\ Cardinality(S \union {x}) = Cardinality(S) + 1 - One(x \in S)
         /\ Cardinality(S \ {x}) = Cardinality(S) + 0 - One(x \in S)
<1>1. Cardinality(S) \in Nat
  BY FS_CardinalityType, Zenon
<1>2. Cardinality(S \union {x}) = IF x \in S THEN Cardinality(S) ELSE Cardinality(S) + 1
  BY FS_AddElement, Zenon
<1>3. Cardinality(S \ {x}) = IF x \in S THEN Cardinality(S) - 1 ELSE Cardinality(S)
  BY FS_RemoveElement, Zenon
<1>. QED  BY <1>1, <1>2, <1>3 DEF One

\* A request that moves between two states on the same side of a count leaves
\* the count alone; one that crosses changes it by one.
LEMMA CountStep ==
  ASSUME TypeOK, NEW k \in Reqs, NEW from, NEW to, Advance(k, from, to)
  PROVE  /\ Cardinality(InService') =
              Cardinality(InService) + One(to \in Serving) - One(from \in Serving)
         /\ Cardinality(Tunnels') =
              Cardinality(Tunnels) + One(to = "tunnel") - One(from = "tunnel")
<1>1. /\ IsFiniteSet(InService) /\ Cardinality(InService) \in Nat
      /\ IsFiniteSet(Tunnels) /\ Cardinality(Tunnels) \in Nat
  BY ReqsFinite, Zenon DEF InService, Tunnels
<1>2. req[k] = from /\ req'[k] = to /\ \A j \in Reqs \ {k} : req'[j] = req[j]
  BY Zenon DEF Advance, TypeOK
<1>3. InService' = IF to \in Serving THEN InService \union {k} ELSE InService \ {k}
  BY <1>2 DEF InService
<1>4. Tunnels' = IF to = "tunnel" THEN Tunnels \union {k} ELSE Tunnels \ {k}
  BY <1>2, Zenon DEF Tunnels
<1>5. (k \in InService <=> from \in Serving) /\ (k \in Tunnels <=> from = "tunnel")
  BY <1>2, Zenon DEF InService, Tunnels
<1>6. Cardinality(InService') =
        Cardinality(InService) + One(to \in Serving) - One(k \in InService)
  <2>1. CASE to \in Serving
    BY <1>1, <1>3, <2>1, PutOrTake, Zenon DEF One
  <2>2. CASE ~(to \in Serving)
    BY <1>1, <1>3, <2>2, PutOrTake, Zenon DEF One
  <2>. QED  BY <2>1, <2>2, Zenon
<1>7. Cardinality(Tunnels') =
        Cardinality(Tunnels) + One(to = "tunnel") - One(k \in Tunnels)
  <2>1. CASE to = "tunnel"
    BY <1>1, <1>4, <2>1, PutOrTake, Zenon DEF One
  <2>2. CASE ~(to = "tunnel")
    BY <1>1, <1>4, <2>2, PutOrTake, Zenon DEF One
  <2>. QED  BY <2>1, <2>2, Zenon
<1>. QED  BY <1>5, <1>6, <1>7, Zenon DEF One

-------------------------------------------------------------------------------
(* Every step keeps each conjunct.  A step is of one of six kinds, and most  *)
(* conjuncts mind only one or two of them.                                   *)

\* Steps of the loop that touch neither a request nor the quota.
LoopOnly ==
    \/ StartGoaway \/ GoawayWritten \/ GoawayFails \/ GoawayIsBusy \/ StartPass
    \/ DrainIsBusy \/ ReadFlag \/ ReadClock \/ Elapsed \/ AcceptFails

\* The initial states satisfy the inductive invariant.
LEMMA IInvInit == Init => IInv
<1>. SUFFICES ASSUME Init PROVE IInv
  BY Zenon
<1>1. TypeOK
  <2>1. req \in [Reqs -> ReqStates]
    BY Zenon DEF Init, ReqStates
  <2>2. permits \in 0 .. Limit /\ pending \in 0 .. MaxReq /\ pc \in LoopStates
        /\ raises \in Nat /\ late \in Nat
    BY MaxReqAssumption, LimitAssumption DEF Init, LoopStates
  <2>. QED  BY <2>1, <2>2, Zenon DEF Init, TypeOK
<1>2. QuotaExact
  <2>1. InService = {} /\ Tunnels = {}
    BY Zenon DEF Init, InService, Tunnels, Serving
  <2>. QED  BY <2>1, FS_EmptySet, LimitAssumption DEF Init, QuotaExact
<1>3. AcceptedInOrder /\ LoopKnows /\ DrainedMeansIdle /\ WakeupComing
      /\ GoawayKept /\ RaisingOnce /\ LateOnce
  BY DEF Init, AcceptedInOrder, LoopKnows, DrainedMeansIdle, WakeupComing, GoawayKept,
     RaisingOnce, LateOnce
<1>. QED  BY <1>1, <1>2, <1>3, Zenon DEF IInv

\* The six kinds of step.
LEMMA StepKinds ==
  ASSUME [Next]_vars
  PROVE  \/ LoopOnly \/ Arm \/ Woken
         \/ \E k \in Reqs : AcceptRequest(k) \/ RejectRequest(k)
         \/ \E k \in Reqs : Request(k)
         \/ (\E k \in Reqs : Open(k)) \/ DeadlinePasses \/ Fire \/ Lose
         \/ UNCHANGED vars
BY Zenon DEF Next, Loop, LoopOnly, Finished

\* The counts stay exact, and within their types.
LEMMA QuotaStep ==
  IInv /\ [Next]_vars => /\ QuotaExact'
                         /\ permits' \in 0 .. Limit
                         /\ pending' \in 0 .. MaxReq
<1>. SUFFICES ASSUME IInv, [Next]_vars
              PROVE  QuotaExact' /\ permits' \in 0 .. Limit /\ pending' \in 0 .. MaxReq
  BY Zenon
<1>a. TypeOK /\ QuotaExact
  BY Zenon DEF IInv
<1>b. /\ permits \in Nat /\ pending \in Nat
      /\ Cardinality(InService) \in Nat /\ Cardinality(Tunnels) \in Nat
      /\ Cardinality(InService') \in 0 .. MaxReq /\ Cardinality(Tunnels') \in Nat
  BY <1>a, ReqsFinite, LimitAssumption, MaxReqAssumption DEF TypeOK, InService, Tunnels
<1>. USE LimitAssumption, MaxReqAssumption DEF QuotaExact, quotaVars
<1>1. CASE UNCHANGED <<req, permits, pending>>
  BY <1>1, <1>a, ZenonT(40) DEF InService, Tunnels, TypeOK
<1>2. CASE LoopOnly \/ Arm \/ Woken \/ DeadlinePasses \/ Fire \/ Lose \/ UNCHANGED vars
  BY <1>1, <1>2, Zenon DEF LoopOnly, Arm, Woken, DeadlinePasses, Fire, Lose, vars, StartGoaway,
     GoawayWritten, GoawayFails, GoawayIsBusy, StartPass, DrainIsBusy, ReadFlag,
     ReadClock, Elapsed, AcceptFails
<1>3. ASSUME NEW k \in Reqs, AcceptRequest(k)
      PROVE  QuotaExact' /\ permits' \in 0 .. Limit /\ pending' \in 0 .. MaxReq
  <2>1. Advance(k, "queued", "entered")
    BY <1>3, Zenon DEF AcceptRequest, NextQueued, Advance
  <2>2. /\ Cardinality(InService') = Cardinality(InService) + 1
        /\ Cardinality(Tunnels') = Cardinality(Tunnels)
    BY <1>a, <1>b, <2>1, CountStep DEF One, Serving
  <2>. QED  BY <1>3, <1>a, <1>b, <2>2, Zenon DEF AcceptRequest, TypeOK
<1>4. ASSUME NEW k \in Reqs, NEW from, NEW to, Advance(k, from, to),
             from \in Serving <=> to \in Serving, from # "tunnel", to # "tunnel",
             UNCHANGED <<permits, pending>>
      PROVE  QuotaExact' /\ permits' \in 0 .. Limit /\ pending' \in 0 .. MaxReq
  <2>1. /\ Cardinality(InService') = Cardinality(InService)
        /\ Cardinality(Tunnels') = Cardinality(Tunnels)
    BY <1>4, <1>a, <1>b, CountStep DEF One
  <2>. QED  BY <1>4, <1>a, <2>1, Zenon DEF TypeOK
<1>5. ASSUME NEW k \in Reqs,
             \/ RejectRequest(k) \/ Open(k) \/ Refuse(k) \/ MarkAuthenticated(k)
             \/ RaiseStreams(k) \/ LimitReached(k) \/ NotifySlot(k) \/ NotifyPending(k)
      PROVE  QuotaExact' /\ permits' \in 0 .. Limit /\ pending' \in 0 .. MaxReq
  <2>1. UNCHANGED <<permits, pending>>
    BY <1>5, Zenon DEF RejectRequest, Open, Refuse, MarkAuthenticated, RaiseStreams,
       LimitReached, NotifySlot, NotifyPending
  <2>2. \/ Advance(k, "queued", "rejected") \/ Advance(k, "unopened", "queued")
        \/ Advance(k, "entered", "leaving") \/ Advance(k, "entered", "passed")
        \/ Advance(k, "entered", "raising") \/ Advance(k, "raising", "passed")
        \/ Advance(k, "passed", "leaving") \/ Advance(k, "released", "leaving")
        \/ Advance(k, "left", "done")
    BY <1>5, Zenon DEF RejectRequest, NextQueued, Open, Refuse, MarkAuthenticated,
       RaiseStreams, LimitReached, NotifySlot, NotifyPending, Advance
  <2>. QED  BY <2>1, <2>2, <1>4, Zenon DEF Serving
<1>6. ASSUME NEW k \in Reqs, Acquire(k)
      PROVE  QuotaExact' /\ permits' \in 0 .. Limit /\ pending' \in 0 .. MaxReq
  <2>1. /\ Cardinality(InService') = Cardinality(InService)
        /\ Cardinality(Tunnels') = Cardinality(Tunnels) + 1
    BY <1>6, <1>a, <1>b, CountStep DEF Acquire, One, Serving
  <2>. QED  BY <1>6, <1>a, <1>b, <2>1 DEF Acquire, TypeOK
<1>7. ASSUME NEW k \in Reqs, ReleasePermit(k)
      PROVE  QuotaExact' /\ permits' \in 0 .. Limit /\ pending' \in 0 .. MaxReq
  <2>1. /\ Cardinality(InService') = Cardinality(InService)
        /\ Cardinality(Tunnels') = Cardinality(Tunnels) - 1
    BY <1>7, <1>a, <1>b, CountStep DEF ReleasePermit, One, Serving
  <2>. QED  BY <1>7, <1>a, <1>b, <2>1 DEF ReleasePermit, TypeOK
<1>8. ASSUME NEW k \in Reqs, LeavePending(k)
      PROVE  QuotaExact' /\ permits' \in 0 .. Limit /\ pending' \in 0 .. MaxReq
  <2>1. /\ Cardinality(InService') = Cardinality(InService) - 1
        /\ Cardinality(Tunnels') = Cardinality(Tunnels)
    BY <1>8, <1>a, <1>b, CountStep DEF LeavePending, One, Serving
  <2>. QED  BY <1>8, <1>a, <1>b, <2>1, Zenon DEF LeavePending, TypeOK
<1>. QED
  BY <1>2, <1>3, <1>5, <1>6, <1>7, <1>8, StepKinds, Zenon DEF Request, Running

\* Every step keeps the types.
LEMMA TypeStep == IInv /\ [Next]_vars => TypeOK'
<1>. SUFFICES ASSUME IInv, [Next]_vars PROVE TypeOK'
  BY Zenon
<1>a. TypeOK /\ permits' \in 0 .. Limit /\ pending' \in 0 .. MaxReq
  BY QuotaStep, Zenon DEF IInv
<1>. USE <1>a DEF TypeOK, loopVars, quotaVars, authVars, envVars, MoveTo, Return
<1>1. CASE StartGoaway
  <2>1. next_request_id \in {Id(k) : k \in 0 .. MaxReq}
    <3>1. CASE last_accepted = None
      <4>1. 0 = Id(0) /\ 0 \in 0 .. MaxReq
        BY MaxReqAssumption DEF Id, REQUEST_STREAM_STEP
      <4>. QED  BY <3>1, <4>1, Zenon DEF next_request_id
    <3>2. CASE last_accepted # None
      <4>1. PICK k \in Reqs : last_accepted = Id(k)
        BY <3>2, Zenon
      <4>2. k \in Nat /\ k + 1 \in 0 .. MaxReq
        BY ONLY k \in Reqs, MaxReqAssumption, SMT DEF Reqs
      <4>3. Id(k) + REQUEST_STREAM_STEP = Id(k + 1)
        BY ONLY <4>2, SMT DEF Id, REQUEST_STREAM_STEP
      <4>4. next_request_id = Id(k + 1)
        BY <3>2, <4>1, <4>3, Zenon DEF next_request_id
      <4>. QED  BY <4>2, <4>4, Zenon
    <3>. QED  BY <3>1, <3>2, Zenon
  <2>. QED  BY <1>1, <2>1, Zenon DEF StartGoaway, LoopStates
<1>2. CASE LoopOnly /\ ~StartGoaway
  <2>1. CASE ReadFlag
    <3>1. bounded' \in BOOLEAN
      BY <2>1, Zenon DEF ReadFlag
    <3>. QED  BY <2>1, <3>1 DEF ReadFlag, LoopStates
  <2>2. CASE ~ReadFlag
    BY <1>2, <2>2 DEF LoopOnly, GoawayWritten, GoawayFails, GoawayIsBusy, StartPass,
       DrainIsBusy, ReadClock, Elapsed, AcceptFails, LoopStates
  <2>. QED  BY <2>1, <2>2, Zenon
<1>3. CASE Arm \/ Woken
  BY <1>3, ZenonT(60) DEF Arm, Woken, LoopStates
<1>4. ASSUME NEW k \in Reqs, AcceptRequest(k) \/ RejectRequest(k)
      PROVE  TypeOK'
  BY <1>4 DEF AcceptRequest, RejectRequest, ReqStates, LoopStates
<1>5. ASSUME NEW k \in Reqs, Request(k) \/ Open(k)
      PROVE  TypeOK'
  <2>1. CASE MarkAuthenticated(k)
    <3>1. req' \in [Reqs -> ReqStates]
      BY <2>1, Zenon DEF MarkAuthenticated, Advance, ReqStates
    <3>. QED  BY <2>1, <3>1 DEF MarkAuthenticated
  <2>2. CASE RaiseStreams(k)
    BY <2>2 DEF RaiseStreams, Advance, ReqStates
  <2>3. CASE Refuse(k) \/ Acquire(k) \/ LimitReached(k) \/ ReleasePermit(k)
    BY <2>3 DEF Refuse, Acquire, LimitReached, ReleasePermit, Advance, ReqStates
  <2>4. CASE NotifySlot(k) \/ LeavePending(k) \/ NotifyPending(k) \/ Open(k)
    <3>1. req' \in [Reqs -> ReqStates]
      BY <2>4, Zenon DEF NotifySlot, LeavePending, NotifyPending, Open, Advance, ReqStates
    <3>2. CASE NotifySlot(k) \/ NotifyPending(k)
      BY <3>1, <3>2, Zenon DEF NotifySlot, NotifyPending
    <3>3. CASE LeavePending(k) \/ Open(k)
      BY <3>1, <3>3 DEF LeavePending, Open
    <3>. QED  BY <2>4, <3>2, <3>3, Zenon
  <2>. QED  BY <1>5, <2>1, <2>2, <2>3, <2>4, Zenon DEF Request, Running
<1>6. CASE DeadlinePasses \/ Fire \/ Lose
  BY <1>6, ZenonT(60) DEF DeadlinePasses, Fire, Lose
<1>7. CASE UNCHANGED vars
  BY <1>7 DEF vars
<1>. QED
  BY <1>1, <1>2, <1>3, <1>4, <1>5, <1>6, <1>7, StepKinds, Zenon

\* Every step keeps the order of the streams and the meaning of the GOAWAY.
LEMMA GoawayStep ==
  IInv /\ [Next]_vars => AcceptedInOrder' /\ LoopKnows' /\ GoawayKept'
<1>. SUFFICES ASSUME IInv, [Next]_vars
              PROVE  AcceptedInOrder' /\ LoopKnows' /\ GoawayKept'
  BY Zenon
<1>a. TypeOK /\ AcceptedInOrder /\ LoopKnows /\ GoawayKept
  BY Zenon DEF IInv
<1>b. /\ last_accepted \in Int /\ goaway \in Int
      /\ \A k \in Reqs : k \in Nat /\ Id(k) \in Nat
  BY <1>a, MaxReqAssumption DEF TypeOK, None, Id, REQUEST_STREAM_STEP, Reqs
<1>. USE DEF AcceptedInOrder, LoopKnows, GoawayKept, MoveTo, Return
<1>1. CASE StartGoaway
  <2>1. next_request_id \in Nat /\ next_request_id # None
    BY <1>a, <1>b DEF next_request_id, None, REQUEST_STREAM_STEP, TypeOK
  <2>2. \A k \in Reqs : req[k] \notin {"unopened", "queued", "rejected"}
                            => Id(k) < next_request_id
    BY <1>a, <1>b DEF next_request_id, REQUEST_STREAM_STEP
  <2>3. goaway' = next_request_id /\ UNCHANGED <<req, last_accepted, reason>> /\ going_away'
        /\ reason = "none" /\ \A k \in Reqs : req[k] # "rejected"
    BY <1>1, <1>a, ZenonT(40) DEF StartGoaway, TypeOK
  <2>. QED  BY <1>a, <2>1, <2>2, <2>3, Zenon
<1>2. CASE LoopOnly /\ ~StartGoaway
  BY <1>2, <1>a DEF LoopOnly, GoawayWritten, GoawayFails, GoawayIsBusy, StartPass,
     DrainIsBusy, ReadFlag, ReadClock, Elapsed, AcceptFails
<1>3. CASE Arm \/ Woken
  BY <1>3, <1>a DEF Arm, Woken
<1>4. ASSUME NEW k \in Reqs, AcceptRequest(k)
      PROVE  AcceptedInOrder' /\ LoopKnows' /\ GoawayKept'
  <2>1. \A j \in Reqs : req[j] \notin {"unopened", "queued"} => j < k
    BY <1>4, <1>a, <1>b DEF AcceptRequest, NextQueued
  <2>2. \A j \in Reqs : j < k => Id(j) <= Id(k)
    BY <1>b DEF Id, REQUEST_STREAM_STEP
  <2>3. last_accepted' = Id(k) /\ Id(k) # None
    BY <1>4, <1>b DEF AcceptRequest, None
  <2>4. req' = [req EXCEPT ![k] = "entered"] /\ req[k] = "queued"
    BY <1>4, Zenon DEF AcceptRequest, NextQueued
  <2>5. \A j \in Reqs : j < k => req[j] \notin {"unopened", "queued"}
    BY <1>4, Zenon DEF AcceptRequest, NextQueued
  <2>6. AcceptedInOrder'
    <3>1. \A j \in Reqs : req'[j] = IF j = k THEN "entered" ELSE req[j]
      BY <2>4, <1>a, Zenon DEF TypeOK
    <3>. QED  BY ONLY <1>4, <1>b, <2>1, <2>2, <2>3, <2>4, <2>5, <3>1, SMT DEF AcceptedInOrder
  <2>7. LoopKnows' /\ GoawayKept'
    BY <1>4, <2>4, <1>a, ZenonT(40) DEF AcceptRequest, TypeOK
  <2>. QED  BY <2>6, <2>7, Zenon
<1>5. ASSUME NEW k \in Reqs, RejectRequest(k)
      PROVE  AcceptedInOrder' /\ LoopKnows' /\ GoawayKept'
  BY <1>5, <1>a, Zenon DEF RejectRequest, NextQueued, TypeOK, loopVars
<1>6. ASSUME NEW k \in Reqs, Request(k)
      PROVE  AcceptedInOrder' /\ LoopKnows' /\ GoawayKept'
  <2>1. /\ req[k] \notin {"unopened", "queued", "rejected"}
        /\ req'[k] \notin {"unopened", "queued", "rejected"}
        /\ \A j \in Reqs \ {k} : req'[j] = req[j]
        /\ UNCHANGED loopVars
    BY <1>6, <1>a, ZenonT(40) DEF Request, Running, Advance, TypeOK, Refuse, MarkAuthenticated,
       RaiseStreams, Acquire, LimitReached, ReleasePermit, NotifySlot, LeavePending,
       NotifyPending
  <2>. QED  BY <2>1, <1>a, ZenonT(40) DEF loopVars
<1>7. ASSUME NEW k \in Reqs, Open(k)
      PROVE  AcceptedInOrder' /\ LoopKnows' /\ GoawayKept'
  BY <1>7, <1>a, ZenonT(40) DEF Open, Advance, TypeOK, loopVars
<1>8. CASE DeadlinePasses \/ Fire \/ Lose \/ UNCHANGED vars
  BY <1>8, <1>a DEF DeadlinePasses, Fire, Lose, vars, loopVars
<1>. QED
  BY <1>1, <1>2, <1>3, <1>4, <1>5, <1>6, <1>7, <1>8, StepKinds, Zenon

\* Every step keeps the two facts the drain rests on.
LEMMA DrainStep ==
  IInv /\ [Next]_vars => DrainedMeansIdle' /\ WakeupComing'
<1>. SUFFICES ASSUME IInv, [Next]_vars
              PROVE  DrainedMeansIdle' /\ WakeupComing'
  BY Zenon
<1>a. TypeOK /\ QuotaExact /\ LoopKnows /\ DrainedMeansIdle /\ WakeupComing
  BY Zenon DEF IInv
<1>b. /\ pending > 0 <=> InService # {}
      /\ permits < Limit => InService # {}
  <2>1. IsFiniteSet(InService) /\ IsFiniteSet(Tunnels)
    BY ReqsFinite, Zenon DEF InService, Tunnels
  <2>2. Cardinality(InService) \in Nat /\ Cardinality(Tunnels) \in Nat
    BY <2>1, FS_CardinalityType, Zenon
  <2>3. (Cardinality(InService) = 0 <=> InService = {})
        /\ (Cardinality(Tunnels) = 0 <=> Tunnels = {})
    BY <2>1, FS_EmptySet, Zenon
  <2>4. Tunnels \subseteq InService
    BY Zenon DEF Tunnels, InService, Serving
  <2>. QED  BY <2>2, <2>3, <2>4, <1>a, LimitAssumption DEF QuotaExact
<1>. USE DEF DrainedMeansIdle, WakeupComing, LoopKnows, MoveTo, Return
<1>1. CASE LoopOnly
  <2>1. UNCHANGED <<req, idle>> /\ InService' = InService
    BY <1>1, ZenonT(40) DEF LoopOnly, StartGoaway, GoawayWritten, GoawayFails, GoawayIsBusy,
       StartPass, DrainIsBusy, ReadFlag, ReadClock, Elapsed, AcceptFails, quotaVars,
       InService
  <2>2. DrainedMeansIdle'
    BY <1>1, <1>a, <1>b, <2>1, Zenon DEF LoopOnly, StartGoaway, GoawayWritten, GoawayFails,
       GoawayIsBusy, StartPass, DrainIsBusy, ReadFlag, ReadClock, Elapsed, AcceptFails,
       TypeOK
  <2>3. WakeupComing'
    BY <1>1, <1>a, <1>b, <2>1, Zenon DEF LoopOnly, StartGoaway, GoawayWritten, GoawayFails,
       GoawayIsBusy, StartPass, DrainIsBusy, ReadFlag, ReadClock, Elapsed, AcceptFails,
       TypeOK
  <2>. QED  BY <2>2, <2>3, ZenonT(40)
<1>2. CASE Arm \/ Woken
  <2>1. UNCHANGED req /\ InService' = InService
    BY <1>2, Zenon DEF Arm, Woken, InService
  <2>. QED  BY <1>2, <1>a, <2>1 DEF Arm, Woken
<1>3. ASSUME NEW k \in Reqs, AcceptRequest(k)
      PROVE  DrainedMeansIdle' /\ WakeupComing'
  BY <1>3, <1>a, Zenon DEF AcceptRequest
<1>4. ASSUME NEW k \in Reqs, RejectRequest(k)
      PROVE  DrainedMeansIdle' /\ WakeupComing'
  <2>1. InService' = InService
    BY <1>4, <1>a, ZenonT(40) DEF RejectRequest, NextQueued, InService, Serving, TypeOK
  <2>2. UNCHANGED <<pc, going_away, reason, idle>>
        /\ ((\E j \in Reqs : req[j] = "left") => \E j \in Reqs : req'[j] = "left")
    BY <1>4, <1>a, Zenon DEF RejectRequest, NextQueued, TypeOK, loopVars, quotaVars
  <2>. QED  BY <2>1, <2>2, <1>a, ZenonT(40)
<1>5. ASSUME NEW k \in Reqs, Request(k)
      PROVE  DrainedMeansIdle' /\ WakeupComing'
  <2>1. UNCHANGED <<pc, going_away, reason>>
    BY <1>5, ZenonT(40) DEF Request, Running, loopVars, Refuse, MarkAuthenticated, RaiseStreams,
       Acquire, LimitReached, ReleasePermit, NotifySlot, LeavePending, NotifyPending
  <2>2. InService = {} => InService' = {}
    BY <1>5, <1>a, ZenonT(40) DEF Request, Running, Advance, TypeOK, InService, Serving, Refuse,
       MarkAuthenticated, RaiseStreams, Acquire, LimitReached, ReleasePermit,
       NotifySlot, LeavePending, NotifyPending
  <2>3. InService' = {} =>
          \/ idle'
          \/ \E j \in Reqs : req'[j] = "left"
          \/ InService = {} /\ idle' = idle /\ ~\E j \in Reqs : req[j] = "left"
    <3>1. CASE \/ Refuse(k) \/ MarkAuthenticated(k) \/ RaiseStreams(k) \/ Acquire(k)
               \/ LimitReached(k) \/ ReleasePermit(k)
      <4>1. k \in InService'
        BY <3>1, <1>a, ZenonT(40) DEF Refuse, MarkAuthenticated, RaiseStreams, Acquire,
           LimitReached, ReleasePermit, Advance, TypeOK, InService, Serving
      <4>. QED  BY <4>1, ZenonT(40)
    <3>2. CASE NotifySlot(k) \/ NotifyPending(k)
      BY <3>2, Zenon DEF NotifySlot, NotifyPending
    <3>3. CASE LeavePending(k)
      BY <3>3, <1>a, ZenonT(40) DEF LeavePending, Advance, TypeOK
    <3>. QED  BY <1>5, <3>1, <3>2, <3>3, ZenonT(40) DEF Request, Running
  <2>. QED  BY <2>1, <2>2, <2>3, <1>a, ZenonT(40)
<1>6. ASSUME NEW k \in Reqs, Open(k)
      PROVE  DrainedMeansIdle' /\ WakeupComing'
  <2>1. InService' = InService
    BY <1>6, <1>a, Zenon DEF Open, Advance, InService, Serving, TypeOK
  <2>2. UNCHANGED <<pc, going_away, reason, idle>>
        /\ ((\E j \in Reqs : req[j] = "left") => \E j \in Reqs : req'[j] = "left")
    BY <1>6, <1>a, ZenonT(40) DEF Open, Advance, TypeOK, loopVars, quotaVars
  <2>. QED  BY <2>1, <2>2, <1>a, Zenon
<1>7. CASE DeadlinePasses \/ Fire \/ Lose \/ UNCHANGED vars
  BY <1>7, <1>a, SMTT(40) DEF DeadlinePasses, Fire, Lose, vars, loopVars, quotaVars, InService
<1>. QED
  BY <1>1, <1>2, <1>3, <1>4, <1>5, <1>6, <1>7, StepKinds, Zenon

\* Every step keeps the two facts about authentication.
LEMMA AuthStep ==
  IInv /\ [Next]_vars => RaisingOnce' /\ LateOnce'
<1>. SUFFICES ASSUME IInv, [Next]_vars
              PROVE  RaisingOnce' /\ LateOnce'
  OBVIOUS
<1>a. TypeOK /\ RaisingOnce /\ LateOnce
  BY Zenon DEF IInv
<1>. USE DEF MoveTo, Return
<1>1. CASE LoopOnly \/ Arm \/ Woken
  <2>1. UNCHANGED <<req, authenticated, raises, late, lapsed>>
    BY <1>1, Zenon DEF LoopOnly, Arm, Woken, StartGoaway, GoawayWritten, GoawayFails,
       GoawayIsBusy, StartPass, DrainIsBusy, ReadFlag, ReadClock, Elapsed, AcceptFails,
       authVars, envVars
  <2>2. RaisingOnce'
    BY <2>1, <1>a, ZenonT(40) DEF RaisingOnce
  <2>3. pc' = "waiting" => authenticated \/ ~lapsed \/ pc = "waiting"
    BY <1>1, <1>a, Zenon DEF LoopOnly, Arm, Woken, StartGoaway, GoawayWritten, GoawayFails,
       GoawayIsBusy, StartPass, DrainIsBusy, ReadFlag, ReadClock, Elapsed, AcceptFails
  <2>4. LateOnce'
    BY <2>1, <2>3, <1>a, Zenon DEF LateOnce
  <2>. QED  BY <2>2, <2>4, ZenonT(40)
<1>2. ASSUME NEW k \in Reqs, AcceptRequest(k)
      PROVE  RaisingOnce' /\ LateOnce'
  <2>1. RaisingOnce'
    BY <1>2, <1>a, ZenonT(40) DEF AcceptRequest, NextQueued, RaisingOnce, TypeOK, authVars
  <2>2. LateOnce'
    <3>1. late \in Nat /\ LateOnce
      BY <1>a, Zenon DEF TypeOK
    <3>2. /\ pc = "waiting" /\ pc' = "poll" /\ UNCHANGED <<authenticated, lapsed>>
          /\ late' = IF lapsed /\ ~authenticated THEN late + 1 ELSE late
      BY <1>2, Zenon DEF AcceptRequest, authVars, envVars
    <3>. QED  BY ONLY <3>1, <3>2, SMT DEF LateOnce
  <2>. QED  BY <2>1, <2>2, ZenonT(40)
<1>3. ASSUME NEW k \in Reqs, RejectRequest(k) \/ Open(k)
      PROVE  RaisingOnce' /\ LateOnce'
  BY <1>3, <1>a, SMTT(40) DEF RejectRequest, NextQueued, Open, Advance, RaisingOnce, LateOnce,
     TypeOK, loopVars, authVars, envVars
<1>4. ASSUME NEW k \in Reqs, Request(k)
      PROVE  RaisingOnce' /\ LateOnce'
  <2>1. LateOnce'
    BY <1>4, <1>a DEF Request, Running, LateOnce, loopVars, authVars, envVars, Refuse,
       MarkAuthenticated, RaiseStreams, Acquire, LimitReached, ReleasePermit,
       NotifySlot, LeavePending, NotifyPending
  <2>2. CASE MarkAuthenticated(k)
    <3>1. RaisingOnce'
      BY <2>2, <1>a, ZenonT(40) DEF MarkAuthenticated, Advance, RaisingOnce, TypeOK
    <3>. QED  BY <2>1, <3>1, ZenonT(40)
  <2>3. CASE RaiseStreams(k)
    <3>1. RaisingOnce'
      <4>1. /\ req[k] = "raising" /\ req' = [req EXCEPT ![k] = "passed"]
            /\ raises' = raises + 1 /\ authenticated' = authenticated
        BY <2>3, Zenon DEF RaiseStreams, Advance
      <4>2. req \in [Reqs -> ReqStates] /\ raises \in Nat
        BY <1>a, Zenon DEF TypeOK
      <4>. QED  BY ONLY <1>4, <1>a, <4>1, <4>2, SMT DEF RaisingOnce
    <3>. QED  BY <2>1, <3>1, Zenon
  <2>4. CASE ~MarkAuthenticated(k) /\ ~RaiseStreams(k)
    <3>1. /\ UNCHANGED <<authenticated, raises>>
          /\ \A j \in Reqs : req'[j] = "raising" <=> req[j] = "raising"
      BY <1>4, <2>4, <1>a, ZenonT(40) DEF Request, Running, Advance, TypeOK, authVars, Refuse,
         MarkAuthenticated, RaiseStreams, Acquire, LimitReached, ReleasePermit,
         NotifySlot, LeavePending, NotifyPending
    <3>2. RaisingOnce'
      BY <3>1, <1>a, ZenonT(40) DEF RaisingOnce
    <3>. QED  BY <2>1, <3>2, Zenon
  <2>. QED  BY <2>2, <2>3, <2>4, ZenonT(40)
<1>5. CASE DeadlinePasses \/ Fire \/ Lose \/ UNCHANGED vars
  BY <1>5, <1>a DEF DeadlinePasses, Fire, Lose, vars, loopVars, authVars, envVars,
     RaisingOnce, LateOnce
<1>. QED
  BY <1>1, <1>2, <1>3, <1>4, <1>5, StepKinds, Zenon

-------------------------------------------------------------------------------
\* IInv is an invariant of a connection and its requests.
THEOREM Invariance == Spec => []IInv
<1>1. IInv /\ [Next]_vars => IInv'
  BY TypeStep, QuotaStep, GoawayStep, DrainStep, AuthStep, Zenon DEF IInv
<1>. QED  BY IInvInit, <1>1, PTL DEF Spec

\* Every variable keeps its type: no permit is taken that is not there, and
\* neither count goes below zero.
THEOREM TypeCorrect == Spec => []TypeOK
<1>1. IInv => TypeOK
  BY Zenon DEF IInv
<1>. QED  BY Invariance, <1>1, PTL

\* The semaphore and the pending count are exact for any number of requests.
THEOREM QuotaIsExact == Spec => []QuotaExact
<1>1. IInv => QuotaExact
  BY Zenon DEF IInv
<1>. QED  BY Invariance, <1>1, PTL

\* The drain never closes the connection on a request it accepted.
THEOREM DrainIsGraceful == Spec => []DrainedMeansIdle
<1>1. IInv => DrainedMeansIdle
  BY Zenon DEF IInv
<1>. QED  BY Invariance, <1>1, PTL

\* The drain's wait is always going to be woken.
THEOREM WakeupsAreKept == Spec => []NoLostWakeup
<1>1. IInv => NoLostWakeup
  BY Zenon DEF IInv, WakeupComing, NoLostWakeup
<1>. QED  BY Invariance, <1>1, PTL

\* Requests are served below the GOAWAY identifier and rejected from it on.
THEOREM GoawayIsHonest == Spec => []GoawayKept
<1>1. IInv => GoawayKept
  BY ZenonT(40) DEF IInv
<1>. QED  BY Invariance, <1>1, PTL

\* The stream allowance is raised exactly once.
THEOREM AllowanceRaisedOnce == Spec => []RaisedOnce
<1>1. IInv => RaisedOnce
  BY DEF IInv, RaisingOnce, RaisedOnce, TypeOK
<1>. QED  BY Invariance, <1>1, PTL

\* At most one stream is accepted past the deadline of an unauthenticated peer.
THEOREM DeadlineIsKept == Spec => []DeadlineNotSteppedOver
<1>1. IInv => DeadlineNotSteppedOver
  BY Zenon DEF IInv, LateOnce, DeadlineNotSteppedOver
<1>. QED  BY Invariance, <1>1, PTL

\* A connection that is past its login, and not between next_request's reads.
PastTheGate == authenticated /\ pc # "clock" /\ reason # "silent"

\* It stays past it: only the first read leads to the second, and it saw the gate
\* closed.
LEMMA StaysPastTheGate ==
  PastTheGate /\ [Next]_vars => PastTheGate'
<1>. SUFFICES ASSUME PastTheGate, [Next]_vars
              PROVE  PastTheGate'
  BY Zenon
<1>. USE DEF PastTheGate, MoveTo, Return, authVars, loopVars
<1>1. CASE LoopOnly \/ Arm \/ Woken
  BY <1>1, Zenon DEF LoopOnly, Arm, Woken, StartGoaway, GoawayWritten, GoawayFails,
     GoawayIsBusy, StartPass, DrainIsBusy, ReadFlag, ReadClock, Elapsed, AcceptFails
<1>2. ASSUME NEW k \in Reqs, AcceptRequest(k) \/ RejectRequest(k) \/ Open(k)
      PROVE  PastTheGate'
  BY <1>2, Zenon DEF AcceptRequest, RejectRequest, Open
<1>3. ASSUME NEW k \in Reqs, Request(k)
      PROVE  PastTheGate'
  BY <1>3, Zenon DEF Request, Running, Refuse, MarkAuthenticated, RaiseStreams, Acquire,
     LimitReached, ReleasePermit, NotifySlot, LeavePending, NotifyPending
<1>4. CASE DeadlinePasses \/ Fire \/ Lose \/ UNCHANGED vars
  BY <1>4, Zenon DEF DeadlinePasses, Fire, Lose, vars
<1>. QED
  BY <1>1, <1>2, <1>3, <1>4, StepKinds, Zenon

\* Once the gate is open the deadline does not close the connection, unless it opened
\* between the two reads of next_request: the other half of DeadlineIsFair.
THEOREM LoginIsNoticed == Spec => AuthenticatedIsNotSilent
<1>1. IInv /\ authenticated /\ pc # "clock" /\ pc # "ended" => PastTheGate
  BY Zenon DEF IInv, LoopKnows, PastTheGate
<1>2. PastTheGate => reason # "silent"
  BY Zenon DEF PastTheGate
<1>. QED
  BY Invariance, StaysPastTheGate, <1>1, <1>2, PTL DEF Spec, AuthenticatedIsNotSilent

(***************************************************************************)
(* TcpTunnel, for any number of chunks in either direction.                  *)
(***************************************************************************)
\* Where client_to_target is says what became of the client's chunks, and its
\* clean ending is final: a stream that was read to its FIN cannot be reset.
UpInv ==
    /\ up.read <= up.sent
    /\ c2t \in {"responding", "reading"} => up.written = up.read
    /\ c2t = "writing" => up.written + 1 = up.read
    /\ c2t # "done" => recv = "open" /\ write_half = "open" /\ ~client_finished
    /\ client_finished =>
          c2t = "done" /\ client = "fin" /\ up.read = up.sent /\ up.written = up.sent
    /\ write_half = "fin" => target = "error" \/ client_finished

\* The same for target_to_client.
DownInv ==
    /\ down.read <= down.sent
    /\ t2c \in {"responding", "reading"} => down.written = down.read
    /\ t2c = "writing" => down.written + 1 = down.read
    /\ t2c # "done" => send = "open" /\ ~target_eof
    /\ target_eof => t2c = "done" /\ target # "open" /\ down.written = down.sent
    /\ send = "finished" => target_eof

\* What a pump that is done left behind: its clean ending, a teardown, or the
\* mark of an answer that never landed.
DoneInv ==
    /\ c2t = "responding" <=> t2c = "responding"
    /\ c2t = "responding" => teardown = "Running" /\ linger = "unset"
    /\ c2t = "done" => client_finished \/ teardown # "Running" \/ linger # "unset"
    /\ t2c = "done" => target_eof \/ teardown # "Running" \/ linger # "unset"
    /\ teardown = "ClientAbort" => linger # "unset"
    /\ teardown = "TargetError" => linger # "unset" \/ target = "error"
    /\ linger # "unset" /\ teardown = "Running" =>
          c2t = "done" /\ t2c = "done" /\ ~client_finished /\ ~target_eof
    /\ teardown # "Running" => ~(client_finished /\ target_eof)

\* How the socket can be closed, and when a target that was sent a FIN is aborted
\* nevertheless: only behind a client that finished, as a failed write is not.
CloseInv ==
    /\ socket # "open" => BothDone
    /\ socket = "closed" => linger # "armed"
    /\ socket = "silent" => linger = "armed" /\ write_half = "fin"
    /\ write_half = "fin" => client_finished \/ teardown = "TargetError"
    /\ write_half = "fin" /\ linger # "unset" => client_finished

\* The code on either half is the code of the one teardown there was.
VerdictInv ==
    /\ recv = "H3_CONNECT_ERROR" => teardown = "TargetError"
    /\ recv \in {"reset", "H3_REQUEST_CANCELLED"} => teardown = "ClientAbort"
    /\ send = "H3_CONNECT_ERROR" => teardown = "TargetError"
    /\ send = "H3_REQUEST_CANCELLED" =>
          teardown = "ClientAbort" \/ (teardown = "Running" /\ c2t = "done")
    /\ recv = "H3_REQUEST_CANCELLED" => send = "stopped"
    /\ c2t \in Pumping /\ teardown = "ClientAbort" => send = "stopped"

TcpInv == TcpTypeOK /\ UpInv /\ DownInv /\ DoneInv /\ CloseInv /\ VerdictInv

\* The invariant of a TCP tunnel holds at first.
LEMMA TcpInitially ==
    TcpInit => TcpInv
<1> SUFFICES ASSUME TcpInit
             PROVE  TcpInv
  OBVIOUS
<1>1. TcpTypeOK
  <2>1. up \in Chunks /\ down \in Chunks
    BY MaxChunksAssumption DEF TcpInit, Chunks
  <2>. QED
    BY <2>1, Zenon DEF TcpInit, TcpTypeOK, ClientSides, TargetSides, Pumps, Teardowns,
       WriteHalves, RecvHalves, SendHalves, Lingers, Sockets
<1>2. UpInv /\ DownInv
  BY DEF TcpInit, UpInv, DownInv
<1>3. DoneInv /\ CloseInv /\ VerdictInv
  BY DEF TcpInit, DoneInv, CloseInv, VerdictInv, Pumping
<1>. QED
  BY <1>1, <1>2, <1>3, Zenon DEF TcpInv

\* The steps of TcpTunnel, one by one.
LEMMA TcpSteps ==
    ASSUME TcpNext
    PROVE  \/ Respond \/ RespondFails
           \/ C2TTornDown \/ C2TRead \/ C2TWritten \/ C2TWriteFails
           \/ C2TStalled
           \/ ClientAborted \/ C2TFinished
           \/ T2CTornDown \/ T2CRead \/ T2CSent \/ T2CStopped \/ T2CStalled
           \/ T2CFinished \/ T2CReadFails
           \/ ClientSends \/ ClientEnds \/ ClientStops \/ TargetSends
           \/ TargetEnds \/ Release
           \/ UNCHANGED tcpVars
  BY Zenon DEF TcpNext, C2T, T2C, TunnelOver

\* Each action of client_to_target preserves the invariant.
LEMMA UpStep ==
    ASSUME TcpInv,
           \/ C2TTornDown \/ C2TRead \/ C2TWritten \/ C2TWriteFails
           \/ C2TStalled \/ ClientAborted \/ C2TFinished
    PROVE  TcpInv'
<1> USE DEF TcpInv, clientVars, downVars, sharedVars
<1>1. CASE C2TTornDown
  <2>. USE DEF C2TTornDown, code
  <2>0. up \in Chunks /\ down \in Chunks  BY Zenon DEF TcpTypeOK
  <2>1. TcpTypeOK'  BY <1>1, ZenonT(30) DEF TcpTypeOK, Pumps, Pumping, WriteHalves, RecvHalves
  <2>2. UpInv'  BY <1>1, Zenon DEF UpInv
  <2>3. DownInv'  BY <1>1, Zenon DEF DownInv
  <2>4. DoneInv'  BY <1>1, Zenon DEF DoneInv
  <2>b. \/ teardown = "TargetError" /\ recv' = "H3_CONNECT_ERROR"
        \/ teardown = "ClientAbort" /\ recv' = "H3_REQUEST_CANCELLED"
    BY <1>1, Zenon DEF TcpTypeOK, Teardowns
  <2>5. VerdictInv'  BY <1>1, <2>b, Zenon DEF VerdictInv, Pumping, UpInv
  <2>6. CloseInv'  BY <1>1, Zenon DEF CloseInv, BothDone, Pumping
  <2>. QED  BY ONLY <2>1, <2>2, <2>3, <2>4, <2>5, <2>6, Zenon DEF TcpInv
<1>2. CASE C2TRead
  <2>. USE DEF C2TRead
  <2>0. up \in Chunks /\ down \in Chunks  BY Zenon DEF TcpTypeOK
  <2>a. up' \in Chunks /\ down' \in Chunks
    BY <1>2, <2>0, MaxChunksAssumption, SMT DEF Chunks, UpInv, DownInv
  <2>1. TcpTypeOK'  BY <1>2, <2>a, ZenonT(30) DEF TcpTypeOK, Pumps, Pumping
  <2>2. UpInv'  BY <1>2, <2>0, SMT DEF UpInv, Chunks
  <2>3. DownInv'  BY <1>2, Zenon DEF DownInv
  <2>4. DoneInv'  BY <1>2, Zenon DEF DoneInv
  <2>5. VerdictInv'  BY <1>2, Zenon DEF VerdictInv, Pumping
  <2>6. CloseInv'  BY <1>2, Zenon DEF CloseInv, BothDone, Pumping
  <2>. QED  BY ONLY <2>1, <2>2, <2>3, <2>4, <2>5, <2>6, Zenon DEF TcpInv
<1>3. CASE C2TWritten
  <2>. USE DEF C2TWritten
  <2>0. up \in Chunks /\ down \in Chunks  BY Zenon DEF TcpTypeOK
  <2>a. up' \in Chunks /\ down' \in Chunks
    BY <1>3, <2>0, MaxChunksAssumption, SMT DEF Chunks, UpInv, DownInv
  <2>1. TcpTypeOK'  BY <1>3, <2>a, ZenonT(30) DEF TcpTypeOK, Pumps, Pumping
  <2>2. UpInv'  BY <1>3, <2>0, SMT DEF UpInv, Chunks
  <2>3. DownInv'  BY <1>3, Zenon DEF DownInv
  <2>4. DoneInv'  BY <1>3, Zenon DEF DoneInv
  <2>5. VerdictInv'  BY <1>3, Zenon DEF VerdictInv, Pumping
  <2>6. CloseInv'  BY <1>3, Zenon DEF CloseInv, BothDone, Pumping
  <2>. QED  BY ONLY <2>1, <2>2, <2>3, <2>4, <2>5, <2>6, Zenon DEF TcpInv
<1>4. CASE C2TWriteFails
  <2>. USE DEF C2TWriteFails
  <2>0. up \in Chunks /\ down \in Chunks  BY Zenon DEF TcpTypeOK
  <2>1. TcpTypeOK'  BY <1>4, ZenonT(30) DEF TcpTypeOK, Pumps, Pumping, Teardowns, WriteHalves, RecvHalves
  <2>2. UpInv'  BY <1>4, Zenon DEF UpInv
  <2>3. DownInv'  BY <1>4, Zenon DEF DownInv
  <2>4. DoneInv'  BY <1>4, SMT DEF DoneInv, UpInv, DownInv, TcpTypeOK
  <2>5. VerdictInv'  BY <1>4, Zenon DEF VerdictInv, Pumping
  <2>6. CloseInv'  BY <1>4, Zenon DEF CloseInv, BothDone, Pumping, DoneInv
  <2>. QED  BY ONLY <2>1, <2>2, <2>3, <2>4, <2>5, <2>6, Zenon DEF TcpInv
<1>5. CASE C2TStalled
  <2>. USE DEF C2TStalled, abort_target
  <2>0. up \in Chunks /\ down \in Chunks  BY Zenon DEF TcpTypeOK
  <2>1. TcpTypeOK'  BY <1>5, ZenonT(30) DEF TcpTypeOK, Pumps, Pumping, Teardowns, WriteHalves, RecvHalves, Lingers
  <2>2. UpInv'  BY <1>5, Zenon DEF UpInv
  <2>3. DownInv'  BY <1>5, Zenon DEF DownInv
  <2>4. DoneInv'  BY <1>5, SMT DEF DoneInv, UpInv, DownInv, TcpTypeOK
  <2>5. VerdictInv'  BY <1>5, Zenon DEF VerdictInv, Pumping
  <2>6. CloseInv'  BY <1>5, Zenon DEF CloseInv, BothDone, Pumping
  <2>. QED  BY ONLY <2>1, <2>2, <2>3, <2>4, <2>5, <2>6, Zenon DEF TcpInv
<1>6. CASE ClientAborted
  <2>. USE DEF ClientAborted, abort_target
  <2>0. up \in Chunks /\ down \in Chunks  BY Zenon DEF TcpTypeOK
  <2>1. TcpTypeOK'  BY <1>6, ZenonT(30) DEF TcpTypeOK, Pumps, Pumping, Teardowns, WriteHalves, RecvHalves, Lingers
  <2>2. UpInv'  BY <1>6, Zenon DEF UpInv
  <2>3. DownInv'  BY <1>6, Zenon DEF DownInv
  <2>4. DoneInv'  BY <1>6, SMT DEF DoneInv, UpInv, DownInv, TcpTypeOK
  <2>5. VerdictInv'  BY <1>6, Zenon DEF VerdictInv, Pumping
  <2>6. CloseInv'  BY <1>6, Zenon DEF CloseInv, BothDone, Pumping
  <2>. QED  BY ONLY <2>1, <2>2, <2>3, <2>4, <2>5, <2>6, Zenon DEF TcpInv
<1>7. CASE C2TFinished
  <2>. USE DEF C2TFinished
  <2>0. up \in Chunks /\ down \in Chunks  BY Zenon DEF TcpTypeOK
  <2>1. TcpTypeOK'  BY <1>7, ZenonT(30) DEF TcpTypeOK, Pumps, Pumping, WriteHalves, RecvHalves
  <2>2. UpInv'  BY <1>7, Zenon DEF UpInv
  <2>3. DownInv'  BY <1>7, Zenon DEF DownInv
  <2>4. DoneInv'  BY <1>7, Zenon DEF DoneInv
  <2>5. VerdictInv'  BY <1>7, Zenon DEF VerdictInv, Pumping
  <2>6. CloseInv'  BY <1>7, Zenon DEF CloseInv, BothDone, Pumping
  <2>. QED  BY ONLY <2>1, <2>2, <2>3, <2>4, <2>5, <2>6, Zenon DEF TcpInv
<1>. QED
  BY <1>1, <1>2, <1>3, <1>4, <1>5, <1>6, <1>7, Zenon

\* Each action of target_to_client does.
LEMMA DownStep ==
    ASSUME TcpInv,
           \/ T2CTornDown \/ T2CRead \/ T2CSent \/ T2CStopped
           \/ T2CStalled \/ T2CFinished \/ T2CReadFails
    PROVE  TcpInv'
<1> USE DEF TcpInv, clientVars, upVars, sharedVars
<1>1. CASE T2CTornDown
  <2>. USE DEF T2CTornDown, code
  <2>0. up \in Chunks /\ down \in Chunks  BY Zenon DEF TcpTypeOK
  <2>1. TcpTypeOK'  BY <1>1, ZenonT(30) DEF TcpTypeOK, Pumps, Pumping, SendHalves
  <2>2. UpInv'  BY <1>1, Zenon DEF UpInv
  <2>3. DownInv'  BY <1>1, Zenon DEF DownInv
  <2>4. DoneInv'  BY <1>1, Zenon DEF DoneInv
  <2>b. \/ teardown = "TargetError" /\ send' = "H3_CONNECT_ERROR"
        \/ teardown = "ClientAbort" /\ send' = "H3_REQUEST_CANCELLED"
    BY <1>1, Zenon DEF TcpTypeOK, Teardowns
  <2>5. VerdictInv'  BY <1>1, <2>b, Zenon DEF VerdictInv, Pumping, DownInv
  <2>6. CloseInv'  BY <1>1, Zenon DEF CloseInv, BothDone, Pumping
  <2>. QED  BY ONLY <2>1, <2>2, <2>3, <2>4, <2>5, <2>6, Zenon DEF TcpInv
<1>2. CASE T2CRead
  <2>. USE DEF T2CRead
  <2>0. up \in Chunks /\ down \in Chunks  BY Zenon DEF TcpTypeOK
  <2>a. up' \in Chunks /\ down' \in Chunks
    BY <1>2, <2>0, MaxChunksAssumption, SMT DEF Chunks, UpInv, DownInv
  <2>1. TcpTypeOK'  BY <1>2, <2>a, ZenonT(30) DEF TcpTypeOK, Pumps, Pumping
  <2>2. UpInv'  BY <1>2, Zenon DEF UpInv
  <2>3. DownInv'  BY <1>2, <2>0, SMT DEF DownInv, Chunks
  <2>4. DoneInv'  BY <1>2, Zenon DEF DoneInv
  <2>5. VerdictInv'  BY <1>2, Zenon DEF VerdictInv, Pumping
  <2>6. CloseInv'  BY <1>2, Zenon DEF CloseInv, BothDone, Pumping
  <2>. QED  BY ONLY <2>1, <2>2, <2>3, <2>4, <2>5, <2>6, Zenon DEF TcpInv
<1>3. CASE T2CSent
  <2>. USE DEF T2CSent
  <2>0. up \in Chunks /\ down \in Chunks  BY Zenon DEF TcpTypeOK
  <2>a. up' \in Chunks /\ down' \in Chunks
    BY <1>3, <2>0, MaxChunksAssumption, SMT DEF Chunks, UpInv, DownInv
  <2>1. TcpTypeOK'  BY <1>3, <2>a, ZenonT(30) DEF TcpTypeOK, Pumps, Pumping
  <2>2. UpInv'  BY <1>3, Zenon DEF UpInv
  <2>3. DownInv'  BY <1>3, <2>0, SMT DEF DownInv, Chunks
  <2>4. DoneInv'  BY <1>3, Zenon DEF DoneInv
  <2>5. VerdictInv'  BY <1>3, Zenon DEF VerdictInv, Pumping
  <2>6. CloseInv'  BY <1>3, Zenon DEF CloseInv, BothDone, Pumping
  <2>. QED  BY ONLY <2>1, <2>2, <2>3, <2>4, <2>5, <2>6, Zenon DEF TcpInv
<1>4. CASE T2CStopped
  <2>. USE DEF T2CStopped, abort_target
  <2>0. up \in Chunks /\ down \in Chunks  BY Zenon DEF TcpTypeOK
  <2>1. TcpTypeOK'  BY <1>4, ZenonT(30) DEF TcpTypeOK, Pumps, Pumping, Teardowns, SendHalves, Lingers
  <2>2. UpInv'  BY <1>4, Zenon DEF UpInv
  <2>3. DownInv'  BY <1>4, Zenon DEF DownInv
  <2>4. DoneInv'  BY <1>4, SMT DEF DoneInv, UpInv, DownInv, TcpTypeOK
  <2>5. VerdictInv'  BY <1>4, Zenon DEF VerdictInv, Pumping
  <2>6. CloseInv'  BY <1>4, Zenon DEF CloseInv, BothDone, Pumping
  <2>. QED  BY ONLY <2>1, <2>2, <2>3, <2>4, <2>5, <2>6, Zenon DEF TcpInv
<1>5. CASE T2CStalled
  <2>. USE DEF T2CStalled, abort_target
  <2>0. up \in Chunks /\ down \in Chunks  BY Zenon DEF TcpTypeOK
  <2>1. TcpTypeOK'  BY <1>5, ZenonT(30) DEF TcpTypeOK, Pumps, Pumping, Teardowns, SendHalves, Lingers
  <2>2. UpInv'  BY <1>5, Zenon DEF UpInv
  <2>3. DownInv'  BY <1>5, Zenon DEF DownInv
  <2>4. DoneInv'  BY <1>5, SMT DEF DoneInv, UpInv, DownInv, TcpTypeOK
  <2>5. VerdictInv'  BY <1>5, SMT DEF VerdictInv, Pumping, DoneInv, UpInv, TcpTypeOK
  <2>6. CloseInv'  BY <1>5, Zenon DEF CloseInv, BothDone, Pumping
  <2>. QED  BY ONLY <2>1, <2>2, <2>3, <2>4, <2>5, <2>6, Zenon DEF TcpInv
<1>6. CASE T2CFinished
  <2>. USE DEF T2CFinished
  <2>0. up \in Chunks /\ down \in Chunks  BY Zenon DEF TcpTypeOK
  <2>1. TcpTypeOK'  BY <1>6, ZenonT(30) DEF TcpTypeOK, Pumps, Pumping, SendHalves
  <2>2. UpInv'  BY <1>6, Zenon DEF UpInv
  <2>3. DownInv'  BY <1>6, Zenon DEF DownInv
  <2>4. DoneInv'  BY <1>6, Zenon DEF DoneInv
  <2>5. VerdictInv'  BY <1>6, Zenon DEF VerdictInv, Pumping
  <2>6. CloseInv'  BY <1>6, Zenon DEF CloseInv, BothDone, Pumping
  <2>. QED  BY ONLY <2>1, <2>2, <2>3, <2>4, <2>5, <2>6, Zenon DEF TcpInv
<1>7. CASE T2CReadFails
  <2>. USE DEF T2CReadFails
  <2>0. up \in Chunks /\ down \in Chunks  BY Zenon DEF TcpTypeOK
  <2>1. TcpTypeOK'  BY <1>7, ZenonT(30) DEF TcpTypeOK, Pumps, Pumping, Teardowns, SendHalves
  <2>2. UpInv'  BY <1>7, Zenon DEF UpInv
  <2>3. DownInv'  BY <1>7, Zenon DEF DownInv
  <2>4. DoneInv'  BY <1>7, SMT DEF DoneInv, UpInv, DownInv, TcpTypeOK
  <2>5. VerdictInv'  BY <1>7, Zenon DEF VerdictInv, Pumping
  <2>6. CloseInv'  BY <1>7, Zenon DEF CloseInv, BothDone, Pumping
  <2>. QED  BY ONLY <2>1, <2>2, <2>3, <2>4, <2>5, <2>6, Zenon DEF TcpInv
<1>. QED
  BY <1>1, <1>2, <1>3, <1>4, <1>5, <1>6, <1>7, Zenon

\* The answer, the close of the socket, and whatever the client and the target do, preserve it too.
LEMMA OutsideStep ==
    ASSUME TcpInv,
           \/ Respond \/ RespondFails \/ ClientSends \/ ClientEnds
           \/ ClientStops \/ TargetSends \/ TargetEnds \/ Release
    PROVE  TcpInv'
<1> USE DEF TcpInv, clientVars, upVars, downVars, sharedVars
<1>1. CASE Respond
  <2>. USE DEF Respond
  <2>0. up \in Chunks /\ down \in Chunks  BY Zenon DEF TcpTypeOK
  <2>1. TcpTypeOK'  BY <1>1, ZenonT(30) DEF TcpTypeOK, Pumps, Pumping
  <2>2. UpInv'  BY <1>1, Zenon DEF UpInv
  <2>3. DownInv'  BY <1>1, <2>0, SMT DEF DownInv, Chunks, DoneInv
  <2>4. DoneInv'  BY <1>1, Zenon DEF DoneInv
  <2>5. VerdictInv'  BY <1>1, SMT DEF VerdictInv, Pumping, DoneInv, UpInv, TcpTypeOK
  <2>6. CloseInv'  BY <1>1, Zenon DEF CloseInv, BothDone, Pumping
  <2>. QED  BY ONLY <2>1, <2>2, <2>3, <2>4, <2>5, <2>6, Zenon DEF TcpInv
<1>2. CASE RespondFails
  <2>. USE DEF RespondFails, abort_target
  <2>0. up \in Chunks /\ down \in Chunks  BY Zenon DEF TcpTypeOK
  <2>1. TcpTypeOK'  BY <1>2, ZenonT(30) DEF TcpTypeOK, Pumps, Pumping, RecvHalves, SendHalves, Lingers
  <2>2. UpInv'  BY <1>2, Zenon DEF UpInv
  <2>3. DownInv'  BY <1>2, Zenon DEF DownInv
  <2>4. DoneInv'  BY <1>2, SMT DEF DoneInv, UpInv, DownInv, TcpTypeOK
  <2>5. VerdictInv'  BY <1>2, SMT DEF VerdictInv, Pumping, DoneInv, UpInv, TcpTypeOK
  <2>6. CloseInv'  BY <1>2, Zenon DEF CloseInv, BothDone, Pumping, UpInv
  <2>. QED  BY ONLY <2>1, <2>2, <2>3, <2>4, <2>5, <2>6, Zenon DEF TcpInv
<1>3. CASE ClientSends
  <2>. USE DEF ClientSends
  <2>0. up \in Chunks /\ down \in Chunks  BY Zenon DEF TcpTypeOK
  <2>a. up' \in Chunks /\ down' \in Chunks
    BY <1>3, <2>0, MaxChunksAssumption, SMT DEF Chunks, UpInv, DownInv
  <2>1. TcpTypeOK'  BY <1>3, <2>a, ZenonT(30) DEF TcpTypeOK, Pumping
  <2>2. UpInv'  BY <1>3, <2>0, SMT DEF UpInv, Chunks
  <2>3. DownInv'  BY <1>3, Zenon DEF DownInv
  <2>4. DoneInv'  BY <1>3, Zenon DEF DoneInv
  <2>5. VerdictInv'  BY <1>3, Zenon DEF VerdictInv, Pumping
  <2>6. CloseInv'  BY <1>3, Zenon DEF CloseInv, BothDone, Pumping
  <2>. QED  BY ONLY <2>1, <2>2, <2>3, <2>4, <2>5, <2>6, Zenon DEF TcpInv
<1>4. CASE ClientEnds
  <2>. USE DEF ClientEnds, Resettable
  <2>0. up \in Chunks /\ down \in Chunks  BY Zenon DEF TcpTypeOK
  <2>1. TcpTypeOK'  BY <1>4, ZenonT(30) DEF TcpTypeOK, ClientSides
  <2>2. UpInv'  BY <1>4, <2>0, SMT DEF UpInv, Chunks
  <2>3. DownInv'  BY <1>4, Zenon DEF DownInv
  <2>4. DoneInv'  BY <1>4, Zenon DEF DoneInv
  <2>5. VerdictInv'  BY <1>4, Zenon DEF VerdictInv, Pumping
  <2>6. CloseInv'  BY <1>4, Zenon DEF CloseInv, BothDone, Pumping
  <2>. QED  BY ONLY <2>1, <2>2, <2>3, <2>4, <2>5, <2>6, Zenon DEF TcpInv
<1>5. CASE ClientStops
  <2>. USE DEF ClientStops, Resettable
  <2>0. up \in Chunks /\ down \in Chunks  BY Zenon DEF TcpTypeOK
  <2>1. TcpTypeOK'  BY <1>5, ZenonT(30) DEF TcpTypeOK, ClientSides
  <2>2. UpInv'  BY <1>5, <2>0, SMT DEF UpInv, Chunks
  <2>3. DownInv'  BY <1>5, Zenon DEF DownInv
  <2>4. DoneInv'  BY <1>5, Zenon DEF DoneInv
  <2>5. VerdictInv'  BY <1>5, Zenon DEF VerdictInv, Pumping
  <2>6. CloseInv'  BY <1>5, Zenon DEF CloseInv, BothDone, Pumping
  <2>. QED  BY ONLY <2>1, <2>2, <2>3, <2>4, <2>5, <2>6, Zenon DEF TcpInv
<1>6. CASE TargetSends
  <2>. USE DEF TargetSends
  <2>0. up \in Chunks /\ down \in Chunks  BY Zenon DEF TcpTypeOK
  <2>a. up' \in Chunks /\ down' \in Chunks
    BY <1>6, <2>0, MaxChunksAssumption, SMT DEF Chunks, UpInv, DownInv
  <2>1. TcpTypeOK'  BY <1>6, <2>a, ZenonT(30) DEF TcpTypeOK, Pumping
  <2>2. UpInv'  BY <1>6, Zenon DEF UpInv
  <2>3. DownInv'  BY <1>6, <2>0, SMT DEF DownInv, Chunks
  <2>4. DoneInv'  BY <1>6, Zenon DEF DoneInv
  <2>5. VerdictInv'  BY <1>6, Zenon DEF VerdictInv, Pumping
  <2>6. CloseInv'  BY <1>6, Zenon DEF CloseInv, BothDone, Pumping
  <2>. QED  BY ONLY <2>1, <2>2, <2>3, <2>4, <2>5, <2>6, Zenon DEF TcpInv
<1>7. CASE TargetEnds
  <2>. USE DEF TargetEnds
  <2>0. up \in Chunks /\ down \in Chunks  BY Zenon DEF TcpTypeOK
  <2>1. TcpTypeOK'  BY <1>7, ZenonT(30) DEF TcpTypeOK, TargetSides
  <2>2. UpInv'  BY <1>7, Zenon DEF UpInv
  <2>3. DownInv'  BY <1>7, Zenon DEF DownInv
  <2>4. DoneInv'  BY <1>7, Zenon DEF DoneInv
  <2>5. VerdictInv'  BY <1>7, Zenon DEF VerdictInv, Pumping
  <2>6. CloseInv'  BY <1>7, Zenon DEF CloseInv, BothDone, Pumping
  <2>. QED  BY ONLY <2>1, <2>2, <2>3, <2>4, <2>5, <2>6, Zenon DEF TcpInv
<1>8. CASE Release
  <2>. USE DEF Release, Closes
  <2>0. up \in Chunks /\ down \in Chunks  BY Zenon DEF TcpTypeOK
  <2>1. TcpTypeOK'  BY <1>8, ZenonT(30) DEF TcpTypeOK, Sockets
  <2>2. UpInv'  BY <1>8, Zenon DEF UpInv
  <2>3. DownInv'  BY <1>8, Zenon DEF DownInv
  <2>4. DoneInv'  BY <1>8, Zenon DEF DoneInv
  <2>5. VerdictInv'  BY <1>8, Zenon DEF VerdictInv, Pumping
  <2>6. CloseInv'  BY <1>8, Zenon DEF CloseInv, BothDone
  <2>. QED  BY ONLY <2>1, <2>2, <2>3, <2>4, <2>5, <2>6, Zenon DEF TcpInv
<1>. QED
  BY <1>1, <1>2, <1>3, <1>4, <1>5, <1>6, <1>7, <1>8, Zenon

\* The inductive invariant holds throughout.
THEOREM TcpInvariance ==
    TcpSpec => []TcpInv
<1>1. TcpInit => TcpInv
  BY TcpInitially, Zenon
<1>2. TcpInv /\ [TcpNext]_tcpVars => TcpInv'
  <2> SUFFICES ASSUME TcpInv, [TcpNext]_tcpVars
               PROVE  TcpInv'
    OBVIOUS
  <2>1. CASE UNCHANGED tcpVars
    <3>. USE <2>1 DEF tcpVars, clientVars, upVars, downVars, sharedVars, TcpInv
    <3>1. TcpTypeOK'  BY Zenon DEF TcpTypeOK
    <3>2. UpInv'  BY Zenon DEF UpInv
    <3>3. DownInv'  BY Zenon DEF DownInv
    <3>4. DoneInv'  BY Zenon DEF DoneInv
    <3>5. VerdictInv'  BY Zenon DEF VerdictInv
    <3>6. CloseInv'  BY Zenon DEF CloseInv, BothDone
    <3>. QED  BY ONLY <3>1, <3>2, <3>3, <3>4, <3>5, <3>6, Zenon DEF TcpInv
  <2>2. CASE TcpNext
    BY <2>1, <2>2, TcpSteps, UpStep, DownStep, OutsideStep, ZenonT(40)
  <2>. QED
    BY <2>1, <2>2
<1>. QED
  BY <1>1, <1>2, PTL DEF TcpSpec

\* The state of a tunnel stays within its types, however many chunks flow.
THEOREM TcpTypeCorrect ==
    TcpSpec => []TcpTypeOK
<1>1. TcpInv => TcpTypeOK
  BY Zenon DEF TcpInv
<1>. QED
  BY TcpInvariance, <1>1, PTL

\* target_to_client never finishes a truncated response.
THEOREM ResponseIsComplete ==
    TcpSpec => []CompleteResponse
<1>1. TcpInv => CompleteResponse
  BY ZenonT(40) DEF TcpInv, DownInv, CompleteResponse
<1>. QED
  BY TcpInvariance, <1>1, PTL

\* Where the kernel takes SO_LINGER, a socket closes with no more than a FIN only
\* after a tunnel seen through or a target that broke it; a close in silence follows
\* a FIN that was true; and abort_target is called on no tunnel seen through.
THEOREM CutIsReset ==
    TcpSpec => []SeenThroughOrReset
<1>1. ASSUME TcpInv
      PROVE  SeenThroughOrReset
  <2>. USE <1>1 DEF TcpInv
  <2>1. ASSUME socket = "closed", linger # "refused"
        PROVE  \/ target = "error"
               \/ /\ client_finished /\ up.written = up.sent
                  /\ target_eof /\ down.written = down.sent
    <3>1. linger = "unset" /\ BothDone
      BY <2>1, Zenon DEF CloseInv, TcpTypeOK, Lingers
    <3>. QED
      BY <3>1, Zenon DEF TcpTypeOK, Teardowns, UpInv, DownInv, DoneInv, BothDone
  <2>2. socket = "silent" => client_finished /\ up.written = up.sent
    BY Zenon DEF CloseInv, UpInv
  <2>3. linger # "unset" => ~(client_finished /\ target_eof)
    BY Zenon DEF DoneInv
  <2>. QED
    BY ONLY <2>1, <2>2, <2>3, Zenon DEF SeenThroughOrReset
<1>. QED
  BY TcpInvariance, <1>1, PTL

\* client_to_target never puts a FIN on a truncated request.
THEOREM FinIsHonest ==
    TcpSpec => []FinAfterEverything
<1>1. TcpInv => FinAfterEverything
  BY ZenonT(40) DEF TcpInv, UpInv, FinAfterEverything
<1>. QED
  BY TcpInvariance, <1>1, PTL

\* Both halves of the client's stream carry one verdict.
THEOREM OneTcpVerdict ==
    TcpSpec => []SameVerdict
<1>1. TcpInv => SameVerdict
  BY Zenon DEF TcpInv, TcpTypeOK, RecvHalves, SendHalves, UpInv, DownInv, VerdictInv, SameVerdict
<1>. QED
  BY TcpInvariance, <1>1, PTL

\* A teardown, once sent, is never overwritten by the other pump.
THEOREM TeardownIsSentOnce ==
    TcpSpec => TeardownOnce
<1>1. [TcpNext]_tcpVars => [teardown # "Running" => teardown' = teardown]_tcpVars
  <2> SUFFICES ASSUME TcpNext, teardown # "Running"
               PROVE  teardown' = teardown
    OBVIOUS
  <2>. QED
    BY TcpSteps, Zenon DEF Respond, RespondFails, C2TTornDown, C2TRead, C2TWritten,
       C2TWriteFails, C2TStalled, ClientAborted, C2TFinished, T2CTornDown, T2CRead,
       T2CSent, T2CStopped, T2CStalled, T2CFinished, T2CReadFails, ClientSends,
       ClientEnds, ClientStops, TargetSends, TargetEnds, Release, tcpVars, sharedVars
<1>. QED
  BY <1>1, PTL DEF TcpSpec, TeardownOnce
===============================================================================
