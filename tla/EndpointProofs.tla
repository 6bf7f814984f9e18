---------------------------- MODULE EndpointProofs ---------------------------
(***************************************************************************)
(* The safety properties of Endpoint for every number of connections and    *)
(* every set of caps.  One inductive invariant carries them all: it adds to *)
(* the type and the two roster invariants what the accept loop knows at     *)
(* each of its steps.  The second part is about Reload, for any number of    *)
(* generations and any lists, and the third about Resolver, whose threads    *)
(* are sized by the same cap, for any connections, names and limits.         *)
(***************************************************************************)
EXTENDS Endpoint, Reload, Resolver, FiniteSetTheorems, TLAPS

\* Sequence numbers are handed out in order and never reused: those from `next`
\* on have no task and no permit.
FreshUnused ==
    \A s \in Seqs : s >= next => task[s] = "none" /\ evict[s] = "none"

\* What the accept loop has established when it stands at each step of admit.
LoopKnows ==
    /\ pc \in {"counting", "evicting", "rechecking", "admitted"}
          => next < MaxSeq
    /\ pc \in {"evicting", "rechecking"} => validated
    /\ pc = "rechecking" /\ len >= ceiling => Candidates = {}
    /\ pc = "admitted" => ceiling = 0 \/ len < ceiling

IInv ==
    /\ TypeOK
    /\ FreshUnused
    /\ RosterExact
    /\ OldestFirst
    /\ LoopKnows

\* The roster is finite, its length a natural number, and a subset of it is no
\* longer than it is.
LEMMA RosterFinite ==
  ASSUME TypeOK
  PROVE  /\ IsFiniteSet(slots)
         /\ len \in Nat
         /\ \A T \in SUBSET slots : /\ IsFiniteSet(T)
                                    /\ Cardinality(T) \in Nat
                                    /\ Cardinality(T) <= len
<1>1. IsFiniteSet(Seqs)
  BY MaxSeqAssumption, FS_Interval DEF Seqs
<1>2. IsFiniteSet(slots)
  BY <1>1, FS_Subset, Zenon DEF TypeOK
<1>3. len \in Nat
  BY <1>2, FS_CardinalityType, Zenon DEF len
<1>4. ASSUME NEW T \in SUBSET slots
      PROVE  /\ IsFiniteSet(T)
             /\ Cardinality(T) \in Nat
             /\ Cardinality(T) <= len
  BY <1>2, FS_Subset, FS_CardinalityType, Zenon DEF len
<1>. QED  BY <1>2, <1>3, <1>4, Zenon

\* The initial states satisfy the inductive invariant.
LEMMA IInvInit == Init => IInv
<1>. SUFFICES ASSUME Init PROVE IInv
  BY Zenon
<1>1. TypeOK
  <2>1. gate \in [Seqs -> BOOLEAN]
    BY Zenon DEF Init
  <2>2. evict \in [Seqs -> {"none", "permit", "taken"}] /\ task \in [Seqs -> TaskStates]
    BY Zenon DEF Init, TaskStates
  <2>3. next \in 0 .. MaxSeq /\ pc \in LoopStates
    BY MaxSeqAssumption DEF Init, LoopStates
  <2>. QED
    BY <2>1, <2>2, <2>3, Zenon DEF Init, TypeOK
<1>2. FreshUnused /\ RosterExact /\ OldestFirst /\ LoopKnows
  BY Zenon DEF Init, FreshUnused, RosterExact, OldestFirst, LoopKnows, Live
<1>. QED  BY <1>1, <1>2, Zenon DEF IInv

\* Every step keeps the types.
LEMMA TypeStep == IInv /\ [Next]_vars => TypeOK'
<1>. SUFFICES ASSUME IInv, [Next]_vars PROVE TypeOK'
  BY Zenon
<1>. USE MaxSeqAssumption, CapsAssumption
     DEF IInv, TypeOK, LoopKnows, LoopStates, TaskStates, rosterVars, loopVars
<1>1. CASE Accept
  BY <1>1, Zenon DEF Accept
<1>2. CASE Admission
  <2>1. CASE AdmitBelowCap \/ TurnAwayUnvalidated \/ StartEvicting \/ StopEvicting \/ Recheck
    BY <2>1, Zenon DEF AdmitBelowCap, TurnAwayUnvalidated, StartEvicting, StopEvicting, Recheck
  <2>2. CASE EvictOldest
    BY <2>2, Zenon DEF EvictOldest, Candidates
  <2>3. CASE Register
    BY <2>3 DEF Register, Seqs
  <2>. QED  BY <1>2, <2>1, <2>2, <2>3, Zenon DEF Admission
<1>3. CASE Drain \/ EndpointClosed
  BY <1>3, Zenon DEF Drain, EndpointClosed, BeginDrain, CloseEndpoint, Flushed
<1>4. ASSUME NEW s \in Seqs,
             \/ HandshakeCompletes(s) \/ HandshakeFails(s) \/ HandleReturns(s)
             \/ Evicted(s) \/ Unregister(s) \/ Abort(s) \/ Mark(s)
      PROVE  TypeOK'
  BY <1>4, Zenon DEF HandshakeCompletes, HandshakeFails, HandleReturns, Evicted, Unregister,
     Abort, Mark
<1>5. CASE Reload \/ Fire
  BY <1>5, Zenon DEF Reload, Fire
<1>6. CASE UNCHANGED vars
  BY <1>6 DEF vars
<1>. QED
  BY <1>1, <1>2, <1>3, <1>4, <1>5, <1>6, Zenon DEF Next, Finished

\* Every step keeps the roster exact and the seniority order.
LEMMA RosterStep ==
  IInv /\ [Next]_vars => FreshUnused' /\ RosterExact' /\ OldestFirst'
<1>. SUFFICES ASSUME IInv, [Next]_vars
              PROVE  FreshUnused' /\ RosterExact' /\ OldestFirst'
  BY Zenon
<1>. USE DEF IInv, TypeOK, FreshUnused, RosterExact, OldestFirst, Live,
             rosterVars, loopVars
<1>1. CASE UNCHANGED <<slots, next, gate, evict, task>>
  BY <1>1, Zenon
<1>2. CASE EvictOldest
  <2>1. PICK v \in Candidates :
            /\ \A s \in Candidates : v <= s
            /\ slots' = slots \ {v}
            /\ evict' = [evict EXCEPT ![v] = "permit"]
    BY <1>2, Zenon DEF EvictOldest
  <2>2. UNCHANGED <<next, gate, task>>
    BY <1>2, Zenon DEF EvictOldest
  <2>3. v \in slots /\ v \in Seqs /\ evict[v] = "none" /\ task[v] # "none"
    BY <2>1, Zenon DEF Candidates
  <2>4. FreshUnused'
    BY <2>1, <2>2, <2>3, Zenon
  <2>5. RosterExact'
    BY <2>1, <2>2, <2>3, Zenon
  <2>6. OldestFirst'
    <3>1. \A s \in slots : s < v => gate[s]
      BY <2>1, <2>3, MaxSeqAssumption DEF Candidates, Seqs
    <3>. QED  BY <2>1, <2>2, <2>3, <3>1, Zenon
  <2>. QED  BY <2>4, <2>5, <2>6, Zenon
<1>3. CASE Register
  <2>1. next \in Seqs /\ next \in Nat
    BY <1>3, MaxSeqAssumption DEF Register, LoopKnows, Seqs
  <2>2. FreshUnused'
    BY <1>3, <2>1, MaxSeqAssumption DEF Register, Seqs
  <2>3. RosterExact'
    BY <1>3, <2>1 DEF Register
  <2>4. OldestFirst'
    BY <1>3, <2>1, MaxSeqAssumption DEF Register, Seqs
  <2>. QED  BY <2>2, <2>3, <2>4, Zenon
<1>4. ASSUME NEW s \in Seqs,
             HandshakeCompletes(s) \/ HandshakeFails(s) \/ HandleReturns(s) \/ Abort(s)
      PROVE  FreshUnused' /\ RosterExact' /\ OldestFirst'
  BY <1>4 DEF HandshakeCompletes, HandshakeFails, HandleReturns, Abort
<1>5. ASSUME NEW s \in Seqs, Evicted(s)
      PROVE  FreshUnused' /\ RosterExact' /\ OldestFirst'
  BY <1>5, Zenon DEF Evicted
<1>6. ASSUME NEW s \in Seqs, Unregister(s)
      PROVE  FreshUnused' /\ RosterExact' /\ OldestFirst'
  BY <1>6, Zenon DEF Unregister
<1>7. ASSUME NEW s \in Seqs, Mark(s)
      PROVE  FreshUnused' /\ RosterExact' /\ OldestFirst'
  BY <1>7, ZenonT(40) DEF Mark
<1>8. CASE \/ Accept \/ AdmitBelowCap \/ TurnAwayUnvalidated \/ StartEvicting
           \/ StopEvicting \/ Recheck \/ Drain \/ EndpointClosed
           \/ Reload \/ Fire \/ UNCHANGED vars
  BY <1>1, <1>8, Zenon DEF Accept, AdmitBelowCap, TurnAwayUnvalidated, StartEvicting,
     StopEvicting, Recheck, Drain, BeginDrain, CloseEndpoint, Flushed, EndpointClosed,
     Reload, Fire, vars
<1>. QED
  BY <1>2, <1>3, <1>4, <1>5, <1>6, <1>7, <1>8, Zenon DEF Next, Admission, Finished

\* Every step keeps what the accept loop knows.  Only the loop itself makes the
\* roster longer or moves `pc`, so another actor can only shorten the roster or
\* open a gate, and both are harmless to every fact here.
LEMMA LoopStep == IInv /\ [Next]_vars => LoopKnows'
<1>. SUFFICES ASSUME IInv, [Next]_vars PROVE LoopKnows'
  BY Zenon
<1>. USE MaxSeqAssumption, CapsAssumption DEF LoopKnows, rosterVars, loopVars
<1>a. TypeOK /\ LoopKnows /\ TypeOK'
  BY TypeStep, Zenon DEF IInv
<1>b. next \in Nat /\ ceiling \in Nat /\ max_connections \in Nat /\ len \in Nat
  BY <1>a, RosterFinite DEF TypeOK, len
<1>1. CASE UNCHANGED <<slots, next, gate, pc, ceiling, validated>>
  BY <1>1, <1>a, Zenon DEF len, Candidates
<1>2. CASE Accept
  BY <1>2, <1>a, Zenon DEF Accept
<1>3. CASE AdmitBelowCap \/ TurnAwayUnvalidated \/ StartEvicting
  BY <1>3, <1>a, Zenon DEF AdmitBelowCap, TurnAwayUnvalidated, StartEvicting, len
<1>4. CASE EvictOldest
  BY <1>4, <1>a, Zenon DEF EvictOldest
<1>5. CASE StopEvicting
  <2>1. len >= ceiling => Candidates = {}
    BY <1>5, <1>b DEF StopEvicting
  <2>. QED  BY <1>5, <1>a, <2>1, Zenon DEF StopEvicting, len, Candidates
<1>6. CASE Recheck
  BY <1>6, <1>a, <1>b DEF Recheck, len
<1>7. CASE Register \/ Drain \/ EndpointClosed
  BY <1>7, Zenon DEF Register, Drain, BeginDrain, CloseEndpoint, Flushed, EndpointClosed
<1>8. ASSUME NEW s \in Seqs, Unregister(s)
      PROVE  LoopKnows'
  <2>1. slots' \in SUBSET slots /\ UNCHANGED <<next, gate, pc, ceiling, validated>>
    BY <1>8, Zenon DEF Unregister
  <2>2. len' \in Nat /\ len' <= len
    BY <2>1, <1>a, RosterFinite, Zenon DEF len
  <2>3. Candidates' \subseteq Candidates
    BY <2>1, Zenon DEF Candidates
  <2>. QED  BY <2>1, <2>2, <2>3, <1>a, <1>b
<1>9. ASSUME NEW s \in Seqs, Mark(s)
      PROVE  LoopKnows'
  <2>1. Candidates' \subseteq Candidates
    BY <1>9, <1>a, Zenon DEF Mark, Candidates, TypeOK
  <2>. QED  BY <1>9, <2>1, <1>a, Zenon DEF Mark, len
<1>10. ASSUME NEW s \in Seqs,
              \/ HandshakeCompletes(s) \/ HandshakeFails(s) \/ HandleReturns(s)
              \/ Evicted(s) \/ Abort(s)
       PROVE  LoopKnows'
  BY <1>10, <1>1, Zenon DEF HandshakeCompletes, HandshakeFails, HandleReturns, Evicted, Abort
<1>11. CASE Reload \/ Fire \/ UNCHANGED vars
  BY <1>11, <1>1, Zenon DEF Reload, Fire, vars
<1>. QED
  BY <1>2, <1>3, <1>4, <1>5, <1>6, <1>7, <1>8, <1>9, <1>10, <1>11, Zenon
     DEF Next, Admission, Finished

\* IInv is an invariant of the accept loop and all its connections.
THEOREM Invariance == Spec => []IInv
<1>1. IInv /\ [Next]_vars => IInv'
  BY TypeStep, RosterStep, LoopStep, Zenon DEF IInv
<1>. QED  BY IInvInit, <1>1, PTL DEF Spec

\* Every variable keeps its type: in particular sequence numbers stay in range
\* and no ceiling is used that the configuration never had.
THEOREM TypeCorrect == Spec => []TypeOK
<1>1. IInv => TypeOK
  BY Zenon DEF IInv
<1>. QED  BY Invariance, <1>1, PTL

\* A connection is on the roster just when its task runs and nobody evicted it.
THEOREM RosterIsExact == Spec => []RosterExact
<1>1. IInv => RosterExact
  BY Zenon DEF IInv
<1>. QED  BY Invariance, <1>1, PTL

\* evict_oldest_from never takes a younger connection before an older one that
\* has not authenticated.
THEOREM EvictionIsOldestFirst == Spec => []OldestFirst
<1>1. IInv => OldestFirst
  BY Zenon DEF IInv
<1>. QED  BY Invariance, <1>1, PTL

\* An authenticated connection keeps its slot until its own task ends.
THEOREM AuthenticatedIsSafe == Spec => AuthenticatedKeepsSlot
<1>1. ASSUME IInv, [Next]_vars, NEW s \in slots, gate[s], s \notin slots'
      PROVE  task[s] = "ending"
  <2>1. CASE EvictOldest
    BY <1>1, <2>1, Zenon DEF EvictOldest, Candidates
  <2>2. ASSUME NEW t \in Seqs, Unregister(t)
        PROVE  task[s] = "ending"
    BY <1>1, <2>2, Zenon DEF Unregister
  <2>3. CASE Register
    BY <1>1, <2>3, Zenon DEF Register
  <2>4. CASE UNCHANGED slots
    BY <1>1, <2>4, Zenon
  <2>. QED
    BY <1>1, <2>1, <2>2, <2>3, <2>4, Zenon
       DEF Next, Admission, Drain, Accept, AdmitBelowCap, TurnAwayUnvalidated,
           StartEvicting, StopEvicting, Recheck, BeginDrain, CloseEndpoint, Flushed,
           EndpointClosed, HandshakeCompletes, HandshakeFails, HandleReturns, Evicted,
           Abort, Mark, Reload, Fire, Finished, vars, rosterVars
<1>2. IInv /\ [Next]_vars
        => [\A s \in slots : gate[s] /\ s \notin slots' => task[s] = "ending"]_vars
  BY <1>1, Zenon
<1>. QED  BY Invariance, <1>2, PTL DEF Spec, AuthenticatedKeepsSlot

\* No admission leaves the roster longer than the ceiling read for it.
THEOREM CapIsExact == Spec => AdmissionWithinCap
<1>1. ASSUME IInv, [Next]_vars, ~(slots' \subseteq slots)
      PROVE  ceiling = 0 \/ Cardinality(slots') <= ceiling
  <2>1. Register
    BY <1>1, Zenon DEF Next, Admission, Drain, Accept, AdmitBelowCap, TurnAwayUnvalidated,
       StartEvicting, EvictOldest, StopEvicting, Recheck, BeginDrain, CloseEndpoint,
       Flushed, EndpointClosed, HandshakeCompletes, HandshakeFails, HandleReturns,
       Evicted, Abort, Mark, Unregister, Reload, Fire, Finished, vars, rosterVars
  <2>2. slots' = slots \union {next} /\ (ceiling = 0 \/ len < ceiling)
    BY <1>1, <2>1, Zenon DEF Register, IInv, LoopKnows
  <2>3. IsFiniteSet(slots) /\ len \in Nat /\ ceiling \in Nat
    BY <1>1, RosterFinite, CapsAssumption, Zenon DEF IInv, TypeOK
  <2>4. Cardinality(slots') <= len + 1
    <3>1. Cardinality(slots') = len \/ Cardinality(slots') = len + 1
      <4>1. CASE next \in slots
        BY <2>2, <2>3, <4>1, FS_AddElement, Zenon DEF len
      <4>2. CASE next \notin slots
        BY <2>2, <2>3, <4>2, FS_AddElement, Zenon DEF len
      <4>. QED  BY <4>1, <4>2, Zenon
    <3>. QED  BY ONLY <2>3, <3>1, SMT
  <2>5. Cardinality(slots') \in Nat
    BY <2>2, <2>3, FS_AddElement, FS_CardinalityType, Zenon
  <2>. QED  BY <2>2, <2>3, <2>4, <2>5
<1>2. IInv /\ [Next]_vars
        => [~(slots' \subseteq slots) => \/ ceiling = 0
                                         \/ Cardinality(slots') <= ceiling]_vars
  BY <1>1
<1>. QED  BY Invariance, <1>2, PTL DEF Spec, AdmissionWithinCap

\* A validated newcomer is refused only by a roster that is all authenticated.
THEOREM RefusalIsJustified == Spec => RefusedOnlyWhenAllAuthenticated
<1>1. ASSUME IInv, [Next]_vars, pc = "rechecking", pc' = "accepting"
      PROVE  \A s \in slots : gate[s]
  <2>1. Recheck
    BY <1>1, Zenon DEF Next, Admission, Drain, Accept, AdmitBelowCap, TurnAwayUnvalidated,
       StartEvicting, EvictOldest, StopEvicting, Register, BeginDrain, CloseEndpoint,
       Flushed, EndpointClosed, HandshakeCompletes, HandshakeFails, HandleReturns,
       Evicted, Abort, Mark, Unregister, Reload, Fire, Finished, vars, loopVars
  <2>2. Candidates = {}
    BY <1>1, <2>1, Zenon DEF Recheck, IInv, LoopKnows
  <2>. QED  BY <2>2, Zenon DEF Candidates
<1>2. IInv /\ [Next]_vars
        => [pc = "rechecking" /\ pc' = "accepting" => \A s \in slots : gate[s]]_vars
  BY <1>1, Zenon
<1>. QED  BY Invariance, <1>2, PTL DEF Spec, RefusedOnlyWhenAllAuthenticated

\* Only a validated newcomer facing a full roster ever evicts anybody.
THEOREM EvictionIsJustified == Spec => NoNeedlessEviction
<1>1. ASSUME IInv, [Next]_vars, evict' # evict, slots' # slots
      PROVE  validated /\ len >= ceiling
  <2>1. EvictOldest
    BY <1>1, Zenon DEF Next, Admission, Drain, Accept, AdmitBelowCap, TurnAwayUnvalidated,
       StartEvicting, StopEvicting, Recheck, Register, BeginDrain, CloseEndpoint,
       Flushed, EndpointClosed, HandshakeCompletes, HandshakeFails, HandleReturns,
       Evicted, Abort, Mark, Unregister, Reload, Fire, Finished, vars, rosterVars
  <2>. QED  BY <1>1, <2>1, ZenonT(40) DEF EvictOldest, IInv, LoopKnows
<1>2. IInv /\ [Next]_vars
        => [evict' # evict /\ slots' # slots => validated /\ len >= ceiling]_vars
  BY <1>1, Zenon
<1>. QED  BY Invariance, <1>2, PTL DEF Spec, NoNeedlessEviction

(***************************************************************************)
(* Reload, whose accept loop and drain are those of the endpoint and whose    *)
(* shutdown latch is the same one: any number of generations and any lists.  *)
(***************************************************************************)
Writing == {"names", "any", "config", "quic_config", "endpoint"}

\* The swap is held by the one whose step it is.
Mutex ==
    /\ watcher \in Writing \union {"held"} <=> swap = "reload"
    /\ accepting \in {"held", "read"} <=> swap = "accept"
    /\ draining = "swap" <=> swap = "drain"

\* How far a reload has got, in the four values it writes.
Progress ==
    /\ watcher \in Writing => names = loading
    /\ watcher \in {"config", "quic_config", "endpoint"} => config = loading
    /\ watcher \notin {"names", "any"} => names = config
    /\ watcher # "config" => quic_config = config.gen
    /\ watcher # "quic_config" => endpoint \in {quic_config, None}
    /\ watcher = "names" => any = (config.list # {})
    /\ watcher # "names" => any = (names.list # {})

\* Generations only grow along the path from the file to the endpoint.
Order ==
    /\ endpoint <= quic_config /\ quic_config <= config.gen
    /\ config.gen <= loading.gen /\ loading.gen <= file.gen

\* A drain has the latch behind it, and no reload writes after it.
Drained ==
    /\ accepting = "left" => shutdown
    /\ draining # "no" => accepting = "left"
    /\ draining \in {"closed", "graced", "exited"} =>
          watcher \notin Writing /\ endpoint = None
    /\ draining \in {"graced", "exited"} => grace.drain = config.gen
    /\ draining = "exited" => grace.exit = config.gen
    /\ endpoint = None => draining \in {"closed", "graced", "exited"}

\* An accept sees the pair the swap protects.
Pair ==
    /\ accepting = "read" => accepted.config = config.gen
    /\ accepting \in {"loop", "admitted", "left"} => accepted.config = accepted.quic

ReloadInv == ReloadTypeOK /\ Mutex /\ Progress /\ Order /\ Drained /\ Pair

\* The invariant of a reload holds at first.
LEMMA ReloadInitially ==
    ReloadInit => ReloadInv
<1> SUFFICES ASSUME ReloadInit
             PROVE  ReloadInv
  OBVIOUS
<1> PICK list \in Lists :
        LET start == [gen |-> 0, list |-> list]
        IN  /\ file = [gen |-> 0, list |-> list, sound |-> TRUE]
            /\ hangup = FALSE
            /\ watcher = "waiting" /\ loading = start
            /\ swap = "free"
            /\ names = start /\ any = (list # {})
            /\ config = start /\ quic_config = 0 /\ endpoint = 0
            /\ incoming = None /\ accepting = "loop"
            /\ accepted = [config |-> 0, quic |-> 0]
            /\ batch = "idle" /\ verdict = Unjudged
            /\ shutdown = FALSE /\ draining = "no"
            /\ grace = [drain |-> 0, exit |-> 0]
  BY Zenon DEF ReloadInit
<1>1. 0 \in Gens
  BY MaxGenAssumption DEF Gens
<1>2. any \in BOOLEAN
  BY Zenon
<1>3. ReloadTypeOK
  BY <1>1, <1>2, Zenon DEF ReloadTypeOK, Configs, Verdicts, Unjudged
<1>4. Mutex /\ Progress /\ Order /\ Drained /\ Pair
  BY DEF Mutex, Progress, Order, Drained, Pair, Writing, None
<1>. QED
  BY <1>3, <1>4, Zenon DEF ReloadInv

\* The steps of Reload, one by one.
LEMMA ReloadSteps ==
    ASSUME ReloadNext
    PROVE  \/ Rewrite
           \/ Receive \/ Load \/ Hold \/ Bail
           \/ WriteNames \/ WriteAny
           \/ WriteConfig \/ WriteQuicConfig \/ SetServerConfig
           \/ Release
           \/ ReceiveBatch \/ ReadFlag \/ ReadList \/ FirstInitial
           \/ TakeIncoming \/ AcceptHold \/ ReadConfig
           \/ AcceptWith \/ LeaveLoop
           \/ FireShutdown \/ DrainHold \/ DrainClose \/ ReadGrace
  BY DEF ReloadNext, Reloading, Driver, AcceptLoop, DrainEndpoint

\* The steps of a reload.
LEMMA ReloadStep ==
    ASSUME ReloadInv,
           \/ Rewrite
           \/ Receive \/ Load \/ Hold \/ Bail
           \/ WriteNames \/ WriteAny
           \/ WriteConfig \/ WriteQuicConfig \/ SetServerConfig
           \/ Release
    PROVE  ReloadInv'
<1> USE
    DEF ReloadInv, ReloadTypeOK, Mutex, Progress, Order, Drained, Pair, Writing, None,
        Gens, Configs, Write, liveVars, acceptVars, gateVars, drainVars
<1>1. CASE Rewrite
  <2>1. PICK list \in Lists, sound \in BOOLEAN :
           file' = [gen |-> file.gen + 1, list |-> list, sound |-> sound]
    BY <1>1, SMTT(40) DEF Rewrite
  <2>2. file' \in [gen : Gens, list : Lists, sound : BOOLEAN] /\ file'.gen = file.gen + 1
    BY <1>1, <2>1, MaxGenAssumption, SMTT(40) DEF Rewrite
  <2>3. ReloadTypeOK'
    BY <1>1, <2>2, SMTT(40) DEF Rewrite
  <2>4. Mutex' /\ Progress' /\ Order' /\ Drained' /\ Pair'
    BY <1>1, <2>2, SMTT(40) DEF Rewrite
  <2>. QED
    BY <2>3, <2>4, ZenonT(40)
<1>2. CASE Receive
  <2>1. ReloadTypeOK'
    <3>1. hangup' \in BOOLEAN
      BY <1>2, Zenon DEF Receive
    <3>. QED
      BY <1>2, <3>1, SMTT(40) DEF Receive
  <2>2. Mutex' /\ Progress' /\ Order' /\ Drained' /\ Pair'
    BY <1>2, SMTT(40) DEF Receive
  <2>. QED
    BY <2>1, <2>2, ZenonT(40)
<1>3. CASE Load
  BY <1>3, SMTT(40) DEF Load
<1>4. CASE Hold
  BY <1>4, SMTT(40) DEF Hold
<1>5. CASE Bail
  BY <1>5, SMTT(40) DEF Bail
<1>6. CASE WriteNames
  BY <1>6, SMTT(40) DEF WriteNames
<1>7. CASE WriteAny
  <2>1. any' \in BOOLEAN
    BY <1>7, ZenonT(40) DEF WriteAny
  <2>. QED
    BY <1>7, <2>1, SMTT(40) DEF WriteAny
<1>8. CASE WriteConfig
  BY <1>8, SMTT(40) DEF WriteConfig
<1>9. CASE WriteQuicConfig
  BY <1>9, SMTT(40) DEF WriteQuicConfig
<1>10. CASE SetServerConfig
  BY <1>10, SMTT(40) DEF SetServerConfig
<1>11. CASE Release
  BY <1>11, SMTT(40) DEF Release
<1>. QED
  BY <1>1, <1>2, <1>3, <1>4, <1>5, <1>6, <1>7, <1>8, <1>9, <1>10, <1>11, ZenonT(40)

\* The steps of everybody else.
LEMMA OtherStep ==
    ASSUME ReloadInv,
           \/ ReceiveBatch \/ ReadFlag \/ ReadList \/ FirstInitial
           \/ TakeIncoming \/ AcceptHold \/ ReadConfig
           \/ AcceptWith \/ LeaveLoop
           \/ FireShutdown \/ DrainHold \/ DrainClose \/ ReadGrace
    PROVE  ReloadInv'
<1> USE
    DEF ReloadInv, ReloadTypeOK, Mutex, Progress, Order, Drained, Pair, Writing, None,
        Gens, Configs, liveVars, acceptVars, gateVars, drainVars, reloadVars
<1>1. CASE ReceiveBatch \/ ReadFlag \/ ReadList
  BY <1>1, SMTT(40) DEF ReceiveBatch, ReadFlag, ReadList, Verdicts, Unjudged
<1>2. CASE FirstInitial
  BY <1>2, SMTT(40) DEF FirstInitial
<1>3. CASE TakeIncoming
  BY <1>3, SMTT(40) DEF TakeIncoming
<1>4. CASE AcceptHold
  BY <1>4, SMTT(40) DEF AcceptHold
<1>5. CASE ReadConfig
  BY <1>5, SMTT(40) DEF ReadConfig
<1>6. CASE AcceptWith
  BY <1>6, SMTT(40) DEF AcceptWith
<1>7. CASE LeaveLoop
  BY <1>7, SMTT(40) DEF LeaveLoop
<1>8. CASE FireShutdown
  BY <1>8, SMTT(40) DEF FireShutdown
<1>9. CASE DrainHold
  BY <1>9, SMTT(40) DEF DrainHold
<1>10. CASE DrainClose
  BY <1>10, SMTT(40) DEF DrainClose
<1>11. CASE ReadGrace
  BY <1>11, SMTT(40) DEF ReadGrace
<1>. QED
  BY <1>1, <1>2, <1>3, <1>4, <1>5, <1>6, <1>7, <1>8, <1>9, <1>10, <1>11, ZenonT(40)

\* The inductive invariant holds throughout.
THEOREM ReloadInvariance ==
    ReloadSpec => []ReloadInv
<1>1. ReloadInit => ReloadInv
  BY ReloadInitially, Zenon
<1>2. ReloadInv /\ [ReloadNext]_serverVars => ReloadInv'
  <2> SUFFICES ASSUME ReloadInv, [ReloadNext]_serverVars
               PROVE  ReloadInv'
    BY ZenonT(40)
  <2>1. CASE UNCHANGED serverVars
    BY <2>1, SMTT(40) DEF serverVars, reloadVars, liveVars, acceptVars, gateVars, drainVars,
       ReloadInv, ReloadTypeOK, Mutex, Progress, Order, Drained, Pair
  <2>2. CASE ReloadNext
    BY <2>2, ReloadSteps, ReloadStep, OtherStep, Zenon
  <2>. QED
    BY <2>1, <2>2, Zenon
<1>. QED
  BY <1>1, <1>2, PTL DEF ReloadSpec

\* The live values stay within their types, however often the file changes.
THEOREM ReloadTypeCorrect ==
    ReloadSpec => []ReloadTypeOK
<1>1. ReloadInv => ReloadTypeOK
  BY Zenon DEF ReloadInv
<1>. QED
  BY ReloadInvariance, <1>1, PTL

\* accept_under_the_swap gives every connection one generation.
THEOREM AcceptIsWhole ==
    ReloadSpec => []AcceptedWhole
<1>1. ReloadInv => AcceptedWhole
  BY ZenonT(40) DEF ReloadInv, Pair, AcceptedWhole
<1>. QED
  BY ReloadInvariance, <1>1, PTL

\* A reload is all or nothing to whoever takes the swap.
THEOREM ReloadIsWhole ==
    ReloadSpec => []SettledWhole
<1>1. ReloadInv => SettledWhole
  BY Zenon DEF ReloadInv, Mutex, Progress, Writing, SettledWhole
<1>. QED
  BY ReloadInvariance, <1>1, PTL

\* The order of the reload's writes, as the endpoint driver sees it.
THEOREM WritesAreOrdered ==
    ReloadSpec => []WriteOrder
<1>1. ReloadInv => WriteOrder
  BY DEF ReloadInv, ReloadTypeOK, Progress, Order, Writing, Configs, Gens, None,
     WriteOrder
<1>. QED
  BY ReloadInvariance, <1>1, PTL

\* drain and main are bounded by one grace.
THEOREM GraceIsAgreed ==
    ReloadSpec => []GraceAgreed
<1>1. ReloadInv => GraceAgreed
  BY Zenon DEF ReloadInv, Drained, GraceAgreed
<1>. QED
  BY ReloadInvariance, <1>1, PTL

\* No reload reopens a listener that drain closed.
THEOREM ListenerIsClosedForGood ==
    ReloadSpec => ListenerStaysClosed
<1>1. ReloadInv /\ [ReloadNext]_serverVars
        => [endpoint = None => endpoint' = None]_serverVars
  <2> SUFFICES ASSUME ReloadInv, ReloadNext, endpoint = None
               PROVE  endpoint' = None
    BY Zenon
  <2>1. ~SetServerConfig
    BY Zenon DEF ReloadInv, Drained, Writing, SetServerConfig, Write
  <2>. QED
    BY <2>1, ReloadSteps, Zenon DEF Rewrite, Receive, Load, Hold, Bail, WriteNames,
       WriteAny, WriteConfig, WriteQuicConfig, Release, ReceiveBatch, ReadFlag,
       ReadList, FirstInitial, TakeIncoming, AcceptHold, ReadConfig, AcceptWith,
       LeaveLoop, FireShutdown, DrainHold, DrainClose, ReadGrace, liveVars
<1>. QED
  BY ReloadInvariance, <1>1, PTL DEF ReloadSpec, ListenerStaysClosed

\* The gate never judges a batch by a list no configuration asked for.
THEOREM GateIsHonest ==
    ReloadSpec => GateFollowsConfiguration
<1> DEFINE Judged ==
       verdict'.kind \in {"off", "enforced"} /\ verdict.kind = "none" =>
          /\ verdict'.list \in InForce
          /\ verdict'.kind = "off" <=> verdict'.list = {}
<1>1. ReloadInv /\ [ReloadNext]_serverVars => [Judged]_serverVars
  <2> SUFFICES ASSUME ReloadInv, ReloadNext,
                      verdict'.kind \in {"off", "enforced"}, verdict.kind = "none"
               PROVE  /\ verdict'.list \in InForce
                      /\ verdict'.kind = "off" <=> verdict'.list = {}
    BY Zenon
  <2>1. CASE ReadFlag
    <3>1. ~any /\ verdict' = [kind |-> "off", list |-> {}]
      BY <2>1, Zenon DEF ReadFlag
    <3>2. {} \in InForce
      <4>1. CASE watcher = "names"
        <5>1. config.list = {}
          BY <3>1, <4>1, Zenon DEF ReloadInv, Progress
        <5>. QED
          BY <4>1, <5>1, Zenon DEF InForce
      <4>2. CASE watcher # "names"
        <5>1. names.list = {}
          BY <3>1, <4>2, Zenon DEF ReloadInv, Progress
        <5>. QED
          BY <5>1, Zenon DEF InForce
      <4>. QED
        BY <4>1, <4>2, Zenon
    <3>. QED
      BY <3>1, <3>2, Zenon
  <2>2. CASE ReadList
    BY <2>2, Zenon DEF ReadList, InForce
  <2>3. CASE ReceiveBatch
    BY <2>3, Zenon DEF ReceiveBatch, Unjudged
  <2>. QED
    BY <2>1, <2>2, <2>3, ReloadSteps, Zenon DEF Rewrite, Receive, Load, Hold, Bail,
       WriteNames, WriteAny, WriteConfig, WriteQuicConfig, SetServerConfig, Write,
       Release, FirstInitial, TakeIncoming, AcceptHold, ReadConfig, AcceptWith,
       LeaveLoop, FireShutdown, DrainHold, DrainClose, ReadGrace, gateVars
<1>. QED
  BY ReloadInvariance, <1>1, PTL DEF ReloadSpec, GateFollowsConfiguration

(***************************************************************************)
(* Resolver, for any connections, names and limits.                         *)
(***************************************************************************)
\* The caller and the thread of a lookup are where its slot says.
Stages ==
    \A l \in Lookups :
        /\ caller[l] = "idle" => slot[l] = "none"
        /\ caller[l] = "waiting" => slot[l] \in {"none", "burst"}
        /\ caller[l] \in {"looking", "gone"} => slot[l] \in {"reserved", "shared"}

ResolverInv == ResolverTypeOK /\ Stages /\ SlotsAreThreads

Kinds == {"none", "burst", "reserved", "shared"}

-------------------------------------------------------------------------------
(* The counts, and what a lookup's step does to them.                        *)

\* Lookups are pairs, and there are finitely many.
LEMMA LookupsFinite ==
  /\ \A l \in Lookups : Conn(l) \in Conns
  /\ \A S \in SUBSET Lookups : IsFiniteSet(S) /\ Cardinality(S) \in Nat
<1>1. IsFiniteSet(Lookups)
  BY LimitsAssumption, FS_Product, Zenon DEF Lookups
<1>2. ASSUME NEW S \in SUBSET Lookups
      PROVE  IsFiniteSet(S) /\ Cardinality(S) \in Nat
  <2>1. IsFiniteSet(S)
    BY <1>1, FS_Subset, Zenon
  <2>. QED  BY <2>1, FS_CardinalityType, Zenon
<1>3. \A l \in Lookups : Conn(l) \in Conns
  BY Zenon DEF Lookups, Conn
<1>. QED  BY <1>2, <1>3, Zenon

In(x, S) == IF x \in S THEN 1 ELSE 0
Uses(l, c, v, kinds) == IF Conn(l) = c /\ v \in kinds THEN 1 ELSE 0

\* Putting a lookup into a set of lookups, or taking it out, moves the set's
\* cardinality by one or not at all.
LEMMA PutOrTake ==
  ASSUME NEW S \in SUBSET Lookups, NEW l \in Lookups
  PROVE  /\ Cardinality(S) \in Nat
         /\ Cardinality(S \union {l}) = Cardinality(S) + 1 - In(l, S)
         /\ Cardinality(S \ {l}) = Cardinality(S) - In(l, S)
<1>1. IsFiniteSet(S) /\ Cardinality(S) \in Nat
  BY LookupsFinite, Zenon
<1>2. Cardinality(S \union {l}) = IF l \in S THEN Cardinality(S) ELSE Cardinality(S) + 1
  BY <1>1, FS_AddElement, Zenon
<1>3. Cardinality(S \ {l}) = IF l \in S THEN Cardinality(S) - 1 ELSE Cardinality(S)
  BY <1>1, FS_RemoveElement, Zenon
<1>4. CASE l \in S
  BY <1>1, <1>2, <1>3, <1>4 DEF In, Uses
<1>5. CASE l \notin S
  BY <1>1, <1>2, <1>3, <1>5 DEF In, Uses
<1>. QED  BY <1>4, <1>5, Zenon

\* A lookup whose slot changes moves between the sets of the slots that are out.
LEMMA CountStep ==
  ASSUME ResolverTypeOK, NEW l \in Lookups, NEW v \in Kinds,
         slot' = [slot EXCEPT ![l] = v]
  PROVE  /\ Cardinality(SharedOut) \in Nat
         /\ Cardinality(SharedOut') =
              Cardinality(SharedOut) + In(v, {"shared"}) - In(slot[l], {"shared"})
<1>1. slot'[l] = v /\ \A m \in Lookups \ {l} : slot'[m] = slot[m]
  BY Zenon DEF ResolverTypeOK
<1>2. /\ Cardinality(SharedOut) \in Nat
      /\ Cardinality(SharedOut') =
           Cardinality(SharedOut) + In(v, {"shared"}) - In(slot[l], {"shared"})
  <2>1. SharedOut \in SUBSET Lookups /\ (l \in SharedOut <=> slot[l] = "shared")
    BY Zenon DEF SharedOut
  <2>2. /\ In(l, SharedOut) = In(slot[l], {"shared"})
        /\ In(slot[l], {"shared"}) \in 0 .. 1
    BY <2>1 DEF In, Uses
  <2>3. CASE v = "shared"
    <3>1. SharedOut' = SharedOut \union {l}
      BY <1>1, <2>3, Zenon DEF SharedOut
    <3>2. /\ Cardinality(SharedOut) \in Nat
          /\ Cardinality(SharedOut \union {l}) =
               Cardinality(SharedOut) + 1 - In(l, SharedOut)
      BY <2>1, PutOrTake, Zenon
    <3>3. In(v, {"shared"}) = 1
      BY <2>3, Zenon DEF In, Uses
    <3>. QED  BY <3>1, <3>2, <3>3, <2>2, Zenon
  <2>4. CASE v # "shared"
    <3>1. SharedOut' = SharedOut \ {l}
      BY <1>1, <2>4, Zenon DEF SharedOut
    <3>2. /\ Cardinality(SharedOut) \in Nat
          /\ Cardinality(SharedOut \ {l}) =
               Cardinality(SharedOut) - In(l, SharedOut)
      BY <2>1, PutOrTake, Zenon
    <3>3. In(v, {"shared"}) = 0
      BY <2>4, Zenon DEF In, Uses
    <3>. QED  BY <3>1, <3>2, <3>3, <2>2
  <2>. QED  BY <2>3, <2>4, Zenon
<1>. QED  BY <1>2, Zenon

\* How the count of slots of a connection changes when that of a lookup does.
LEMMA HeldStep ==
  ASSUME ResolverTypeOK, NEW l \in Lookups, NEW v \in Kinds,
         slot' = [slot EXCEPT ![l] = v],
         NEW c \in Conns, NEW kinds \in SUBSET Kinds
  PROVE  /\ Cardinality(Held(slot, c, kinds)) \in Nat
         /\ Cardinality(Held(slot', c, kinds)) = Cardinality(Held(slot, c, kinds))
            + Uses(l, c, v, kinds) - Uses(l, c, slot[l], kinds)
<1>0. slot'[l] = v /\ \A m \in Lookups \ {l} : slot'[m] = slot[m]
  BY Zenon DEF ResolverTypeOK
<1>1. /\ Held(slot, c, kinds) \in SUBSET Lookups
      /\ l \in Held(slot, c, kinds) <=> Conn(l) = c /\ slot[l] \in kinds
  BY Zenon DEF Held
<1>2. /\ In(l, Held(slot, c, kinds)) = Uses(l, c, slot[l], kinds)
      /\ Uses(l, c, slot[l], kinds) \in 0 .. 1
  BY <1>1 DEF In, Uses
<1>3. CASE Conn(l) = c /\ v \in kinds
  <2>1. Held(slot', c, kinds) = Held(slot, c, kinds) \union {l}
    BY <1>0, <1>3, Zenon DEF Held
  <2>2. /\ Cardinality(Held(slot, c, kinds)) \in Nat
        /\ Cardinality(Held(slot, c, kinds) \union {l}) =
             Cardinality(Held(slot, c, kinds)) + 1 - In(l, Held(slot, c, kinds))
    BY <1>1, PutOrTake, Zenon
  <2>3. Uses(l, c, v, kinds) = 1
    BY <1>3, Zenon DEF In, Uses
  <2>. QED  BY <2>1, <2>2, <2>3, <1>2, Zenon
<1>4. CASE ~(Conn(l) = c /\ v \in kinds)
  <2>1. Held(slot', c, kinds) = Held(slot, c, kinds) \ {l}
    BY <1>0, <1>4, Zenon DEF Held
  <2>2. /\ Cardinality(Held(slot, c, kinds)) \in Nat
        /\ Cardinality(Held(slot, c, kinds) \ {l}) =
             Cardinality(Held(slot, c, kinds)) - In(l, Held(slot, c, kinds))
    BY <1>1, PutOrTake, Zenon
  <2>3. Uses(l, c, v, kinds) = 0
    BY <1>4, Zenon DEF In, Uses
  <2>4. Cardinality(Held(slot', c, kinds)) =
          Cardinality(Held(slot, c, kinds)) - Uses(l, c, slot[l], kinds)
    BY <2>1, <2>2, <1>2, Zenon
  <2>. QED  BY <2>2, <2>3, <2>4, <1>2
<1>. QED  BY <1>3, <1>4, Zenon

Counts ==
    /\ shared = SHARED_LOOKUPS - Cardinality(SharedOut)
    /\ \A c \in Conns :
          /\ reserved[c] = 1 - Cardinality(Held(slot, c, {"reserved"}))
          /\ burst[c] = BURST_LOOKUPS - Cardinality(Held(slot, c, {"burst", "shared"}))

\* Permits that move with the slot of one lookup, and do not run out, stay exact
\* and within the limits.
LEMMA SlotStep ==
  ASSUME ResolverTypeOK, Counts, NEW l \in Lookups, NEW v \in Kinds,
         slot' = [slot EXCEPT ![l] = v],
         shared' = shared - In(v, {"shared"}) + In(slot[l], {"shared"}),
         shared' >= 0,
         reserved' \in [Conns -> Nat],
         burst' \in [Conns -> Nat],
         \A c \in Conns :
            /\ reserved'[c] = reserved[c] - Uses(l, c, v, {"reserved"})
                              + Uses(l, c, slot[l], {"reserved"})
            /\ burst'[c] = burst[c] - Uses(l, c, v, {"burst", "shared"})
                           + Uses(l, c, slot[l], {"burst", "shared"})
  PROVE  /\ Counts'
         /\ shared' \in 0 .. SHARED_LOOKUPS
         /\ reserved' \in [Conns -> 0 .. 1]
         /\ burst' \in [Conns -> 0 .. BURST_LOOKUPS]
<1>. SHARED_LOOKUPS \in Nat /\ BURST_LOOKUPS \in Nat
  BY LimitsAssumption, Zenon
<1>. In(v, {"shared"}) \in 0 .. 1 /\ In(slot[l], {"shared"}) \in 0 .. 1
  BY DEF In
<1>1. /\ shared' = SHARED_LOOKUPS - Cardinality(SharedOut')
      /\ shared' \in 0 .. SHARED_LOOKUPS
  <2>1. /\ Cardinality(SharedOut) \in Nat
        /\ Cardinality(SharedOut') =
             Cardinality(SharedOut) + In(v, {"shared"}) - In(slot[l], {"shared"})
    BY CountStep, Zenon
  <2>2. SharedOut' \in SUBSET Lookups
    BY Zenon DEF SharedOut, Lookups
  <2>3. Cardinality(SharedOut') \in Nat
    BY <2>2, LookupsFinite, Zenon
  <2>. QED  BY <2>1, <2>3 DEF Counts
<1>2. ASSUME NEW c \in Conns
      PROVE  /\ reserved'[c] = 1 - Cardinality(Held(slot', c, {"reserved"}))
             /\ burst'[c] = BURST_LOOKUPS - Cardinality(Held(slot', c, {"burst", "shared"}))
             /\ reserved'[c] \in 0 .. 1
             /\ burst'[c] \in 0 .. BURST_LOOKUPS
  <2>1. /\ {"reserved"} \in SUBSET Kinds
        /\ {"burst", "shared"} \in SUBSET Kinds
    BY Zenon DEF Kinds
  <2>2. /\ Held(slot', c, {"reserved"}) \in SUBSET Lookups
        /\ Held(slot', c, {"burst", "shared"}) \in SUBSET Lookups
    BY Zenon DEF Held, Lookups
  <2>3. /\ Cardinality(Held(slot', c, {"reserved"})) \in Nat
        /\ Cardinality(Held(slot', c, {"burst", "shared"})) \in Nat
    BY <2>2, LookupsFinite, Zenon
  <2>4. /\ Cardinality(Held(slot, c, {"reserved"})) \in Nat
        /\ Cardinality(Held(slot', c, {"reserved"})) = Cardinality(Held(slot, c, {"reserved"}))
             + Uses(l, c, v, {"reserved"})
             - Uses(l, c, slot[l], {"reserved"})
    BY <2>1, HeldStep, Zenon
  <2>5. /\ Cardinality(Held(slot, c, {"burst", "shared"})) \in Nat
        /\ Cardinality(Held(slot', c, {"burst", "shared"})) =
             Cardinality(Held(slot, c, {"burst", "shared"}))
             + Uses(l, c, v, {"burst", "shared"})
             - Uses(l, c, slot[l], {"burst", "shared"})
    BY <2>1, HeldStep, Zenon
  <2>6. reserved'[c] \in Nat /\ burst'[c] \in Nat
    BY Zenon
  <2>7. /\ reserved'[c] = 1 - Cardinality(Held(slot', c, {"reserved"}))
        /\ reserved'[c] \in 0 .. 1
    <3>1. reserved[c] = 1 - Cardinality(Held(slot, c, {"reserved"}))
      BY Zenon DEF Counts
    <3>2. reserved'[c] = reserved[c] - Uses(l, c, v, {"reserved"})
                           + Uses(l, c, slot[l], {"reserved"})
      BY Zenon
    <3>3. /\ Uses(l, c, v, {"reserved"}) \in 0 .. 1
          /\ Uses(l, c, slot[l], {"reserved"}) \in 0 .. 1
      BY DEF In, Uses
    <3>. QED  BY <2>3, <2>4, <2>6, <3>1, <3>2, <3>3
  <2>8. /\ burst'[c] = BURST_LOOKUPS - Cardinality(Held(slot', c, {"burst", "shared"}))
        /\ burst'[c] \in 0 .. BURST_LOOKUPS
    <3>1. burst[c] = BURST_LOOKUPS - Cardinality(Held(slot, c, {"burst", "shared"}))
      BY Zenon DEF Counts
    <3>2. burst'[c] = burst[c] - Uses(l, c, v, {"burst", "shared"})
                           + Uses(l, c, slot[l], {"burst", "shared"})
      BY Zenon
    <3>3. /\ Uses(l, c, v, {"burst", "shared"}) \in 0 .. 1
          /\ Uses(l, c, slot[l], {"burst", "shared"}) \in 0 .. 1
      BY DEF In, Uses
    <3>. QED  BY <2>3, <2>5, <2>6, <3>1, <3>2, <3>3
  <2>. QED  BY <2>7, <2>8, Zenon
<1>3. Counts'
  BY <1>1, <1>2, Zenon DEF Counts
<1>. QED  BY <1>1, <1>2, <1>3, Zenon

-------------------------------------------------------------------------------
(* The invariant.                                                            *)

\* The inductive invariant holds at first.
LEMMA Initially == ResolverInit => ResolverInv
<1>. SUFFICES ASSUME ResolverInit PROVE ResolverInv
  BY Zenon
<1>. SHARED_LOOKUPS \in Nat /\ BURST_LOOKUPS \in Nat
  BY LimitsAssumption, Zenon
<1>1. ResolverTypeOK
  BY DEF ResolverInit, ResolverTypeOK
<1>2. Stages
  BY Zenon DEF ResolverInit, Stages
<1>3. SlotsAreThreads
  <2>1. SharedOut = {}
    BY Zenon DEF ResolverInit, SharedOut
  <2>2. \A c \in Conns : /\ Held(slot, c, {"reserved"}) = {}
                         /\ Held(slot, c, {"burst", "shared"}) = {}
    BY Zenon DEF ResolverInit, Held
  <2>3. Cardinality({}) = 0
    BY FS_EmptySet, Zenon
  <2>4. shared = SHARED_LOOKUPS - Cardinality(SharedOut)
    BY <2>1, <2>3 DEF ResolverInit
  <2>5. ASSUME NEW c \in Conns
        PROVE  /\ reserved[c] = 1 - Cardinality(Held(slot, c, {"reserved"}))
               /\ burst[c] = BURST_LOOKUPS
                              - Cardinality(Held(slot, c, {"burst", "shared"}))
    BY <2>2, <2>3 DEF ResolverInit
  <2>6. \A l \in Lookups : thread[l] # "none" <=> slot[l] \in {"reserved", "shared"}
    BY Zenon DEF ResolverInit
  <2>. QED  BY <2>4, <2>5, <2>6, Zenon DEF SlotsAreThreads
<1>. QED  BY <1>1, <1>2, <1>3, Zenon DEF ResolverInv

Threads ==
    \A l \in Lookups : thread[l] # "none" <=> slot[l] \in {"reserved", "shared"}

\* A step that moves no slot and no permit leaves the counts as they are.
LEMMA CountsStutter ==
  ASSUME Counts, UNCHANGED <<slot, permits>>
  PROVE  Counts'
<1>1. slot' = slot /\ reserved' = reserved /\ burst' = burst /\ shared' = shared
  BY Zenon DEF permits
<1>2. SharedOut' = SharedOut
  BY <1>1, Zenon DEF SharedOut
<1>3. \A c, kinds : Held(slot', c, kinds) = Held(slot, c, kinds)
  BY <1>1, Zenon
<1>4. shared' = SHARED_LOOKUPS - Cardinality(SharedOut')
  BY <1>1, <1>2, Zenon DEF Counts
<1>5. ASSUME NEW c \in Conns
      PROVE  /\ reserved'[c] = 1 - Cardinality(Held(slot', c, {"reserved"}))
             /\ burst'[c] = BURST_LOOKUPS - Cardinality(Held(slot', c, {"burst", "shared"}))
  BY <1>1, <1>3, Zenon DEF Counts
<1>. QED  BY <1>4, <1>5, Zenon DEF Counts, Held

\* Dropping the permits of a lookup keeps the counts exact.
LEMMA GiveBackStep ==
  ASSUME ResolverTypeOK, Counts, NEW l \in Lookups, GiveBack(l)
  PROVE  /\ Counts'
         /\ slot' \in [Lookups -> Kinds]
         /\ shared' \in 0 .. SHARED_LOOKUPS
         /\ reserved' \in [Conns -> 0 .. 1]
         /\ burst' \in [Conns -> 0 .. BURST_LOOKUPS]
<1>. Conn(l) \in Conns /\ SHARED_LOOKUPS \in Nat /\ BURST_LOOKUPS \in Nat
  BY LookupsFinite, LimitsAssumption, Zenon
<1>0. "none" \in Kinds
  BY Zenon DEF Kinds
<1>1. slot' = [slot EXCEPT ![l] = "none"]
  BY Zenon DEF GiveBack
<1>2. /\ shared' = shared - In("none", {"shared"}) + In(slot[l], {"shared"})
      /\ shared' >= 0
  BY DEF GiveBack, In, ResolverTypeOK
<1>3. reserved' \in [Conns -> Nat] /\ burst' \in [Conns -> Nat]
  BY DEF GiveBack, ResolverTypeOK
<1>4. ASSUME NEW c \in Conns
      PROVE  /\ reserved'[c] = reserved[c] - Uses(l, c, "none", {"reserved"})
                               + Uses(l, c, slot[l], {"reserved"})
             /\ burst'[c] = burst[c] - Uses(l, c, "none", {"burst", "shared"})
                            + Uses(l, c, slot[l], {"burst", "shared"})
  <2>1. reserved[c] \in Nat /\ burst[c] \in Nat
    BY DEF ResolverTypeOK
  <2>. QED  BY <2>1 DEF GiveBack, Uses, ResolverTypeOK
<1>5. slot' \in [Lookups -> Kinds]
  BY <1>0, <1>1 DEF ResolverTypeOK, Kinds
<1>. QED  BY <1>0, <1>1, <1>2, <1>3, <1>4, <1>5, SlotStep, Zenon

\* Every step of the lookups keeps the invariant.
LEMMA Inductive == ResolverInv /\ [ResolverNext]_resolverVars => ResolverInv'
<1>. SUFFICES ASSUME ResolverInv, [ResolverNext]_resolverVars PROVE ResolverInv'
  BY Zenon
<1>. ResolverTypeOK /\ Stages /\ Counts /\ Threads
  BY Zenon DEF ResolverInv, SlotsAreThreads, Counts, Threads
<1>0. ResolverTypeOK' /\ Stages' /\ Counts' /\ Threads' => ResolverInv'
  BY Zenon DEF ResolverInv, SlotsAreThreads, Counts, Threads
<1>1. ASSUME NEW c \in Conns, Open(c)  PROVE ResolverInv'
  <2>1. ResolverTypeOK' /\ Stages' /\ Threads'
    BY <1>1, Zenon DEF Open, permits, ResolverTypeOK, Stages, Threads
  <2>2. Counts'
    BY <1>1, CountsStutter, Zenon DEF Open
  <2>. QED  BY <2>1, <2>2, <1>0, Zenon
<1>2. ASSUME NEW c \in Conns, Close(c)  PROVE ResolverInv'
  <2>1. ResolverTypeOK' /\ Stages' /\ Threads'
    BY <1>2, Zenon DEF Close, permits, ResolverTypeOK, Stages, Threads
  <2>2. Counts'
    BY <1>2, CountsStutter, Zenon DEF Close
  <2>. QED  BY <2>1, <2>2, <1>0
<1>3. ASSUME NEW l \in Lookups, Lookup(l)  PROVE ResolverInv'
  <2>1. ResolverTypeOK' /\ Stages' /\ Threads'
    BY <1>3, Zenon DEF Lookup, permits, ResolverTypeOK, Stages, Threads
  <2>2. Counts'
    BY <1>3, CountsStutter, Zenon DEF Lookup
  <2>. QED  BY <2>1, <2>2, <1>0, Zenon
<1>4. ASSUME NEW l \in Lookups, TakeReserved(l)  PROVE ResolverInv'
  <2>. Conn(l) \in Conns
    BY LookupsFinite, Zenon
  <2>1. "reserved" \in Kinds /\ slot' = [slot EXCEPT ![l] = "reserved"]
    BY <1>4, Zenon DEF TakeReserved, Kinds, Spawn
  <2>2. /\ shared' = shared - In("reserved", {"shared"}) + In(slot[l], {"shared"})
        /\ shared' >= 0
    BY <1>4 DEF TakeReserved, In, ResolverTypeOK, Stages
  <2>3. reserved' \in [Conns -> Nat] /\ burst' \in [Conns -> Nat]
    BY <1>4 DEF TakeReserved, ResolverTypeOK
  <2>4. ASSUME NEW c \in Conns
        PROVE  /\ reserved'[c] = reserved[c] - Uses(l, c, "reserved", {"reserved"})
                                 + Uses(l, c, slot[l], {"reserved"})
               /\ burst'[c] = burst[c] - Uses(l, c, "reserved", {"burst", "shared"})
                              + Uses(l, c, slot[l], {"burst", "shared"})
    <3>1. reserved[c] \in Nat /\ burst[c] \in Nat
      BY DEF ResolverTypeOK
    <3>. QED  BY <1>4, <3>1 DEF TakeReserved, Uses, ResolverTypeOK, Stages
  <2>5. /\ Counts'
        /\ shared' \in 0 .. SHARED_LOOKUPS
        /\ reserved' \in [Conns -> 0 .. 1]
        /\ burst' \in [Conns -> 0 .. BURST_LOOKUPS]
    BY <2>1, <2>2, <2>3, <2>4, SlotStep, Zenon
  <2>6. ResolverTypeOK'
    BY <1>4, <2>1, <2>5, Zenon DEF TakeReserved, ResolverTypeOK, Spawn
  <2>7. Stages' /\ Threads'
    BY <1>4, <2>1 DEF TakeReserved, ResolverTypeOK, Stages, Threads, Spawn
  <2>. QED  BY <2>5, <2>6, <2>7, <1>0, Zenon
<1>5. ASSUME NEW l \in Lookups, TakeBurst(l)  PROVE ResolverInv'
  <2>. Conn(l) \in Conns
    BY LookupsFinite
  <2>1. "burst" \in Kinds /\ slot' = [slot EXCEPT ![l] = "burst"]
    BY <1>5, Zenon DEF TakeBurst, Kinds
  <2>2. /\ shared' = shared - In("burst", {"shared"}) + In(slot[l], {"shared"})
        /\ shared' >= 0
    BY <1>5 DEF TakeBurst, In, ResolverTypeOK, Stages
  <2>3. reserved' \in [Conns -> Nat] /\ burst' \in [Conns -> Nat]
    BY <1>5 DEF TakeBurst, ResolverTypeOK
  <2>4. ASSUME NEW c \in Conns
        PROVE  /\ reserved'[c] = reserved[c] - Uses(l, c, "burst", {"reserved"})
                                 + Uses(l, c, slot[l], {"reserved"})
               /\ burst'[c] = burst[c] - Uses(l, c, "burst", {"burst", "shared"})
                              + Uses(l, c, slot[l], {"burst", "shared"})
    <3>1. reserved[c] \in Nat /\ burst[c] \in Nat
      BY DEF ResolverTypeOK
    <3>. QED  BY <1>5, <3>1 DEF TakeBurst, Uses, ResolverTypeOK, Stages
  <2>5. /\ Counts'
        /\ shared' \in 0 .. SHARED_LOOKUPS
        /\ reserved' \in [Conns -> 0 .. 1]
        /\ burst' \in [Conns -> 0 .. BURST_LOOKUPS]
    BY <2>1, <2>2, <2>3, <2>4, SlotStep, Zenon
  <2>6. ResolverTypeOK'
    BY <1>5, <2>1, <2>5, Zenon DEF TakeBurst, ResolverTypeOK
  <2>7. Stages' /\ Threads'
    BY <1>5, <2>1, Zenon DEF TakeBurst, ResolverTypeOK, Stages, Threads
  <2>. QED  BY <2>5, <2>6, <2>7, <1>0
<1>6. ASSUME NEW l \in Lookups, TakeShared(l)  PROVE ResolverInv'
  <2>. Conn(l) \in Conns
    BY LookupsFinite
  <2>1. "shared" \in Kinds /\ slot' = [slot EXCEPT ![l] = "shared"]
    BY <1>6, Zenon DEF TakeShared, Kinds, Spawn
  <2>2. /\ shared' = shared - In("shared", {"shared"}) + In(slot[l], {"shared"})
        /\ shared' >= 0
    BY <1>6 DEF TakeShared, In, ResolverTypeOK, Stages
  <2>3. reserved' \in [Conns -> Nat] /\ burst' \in [Conns -> Nat]
    BY <1>6 DEF TakeShared, ResolverTypeOK
  <2>4. ASSUME NEW c \in Conns
        PROVE  /\ reserved'[c] = reserved[c] - Uses(l, c, "shared", {"reserved"})
                                 + Uses(l, c, slot[l], {"reserved"})
               /\ burst'[c] = burst[c] - Uses(l, c, "shared", {"burst", "shared"})
                              + Uses(l, c, slot[l], {"burst", "shared"})
    <3>1. reserved[c] \in Nat /\ burst[c] \in Nat
      BY DEF ResolverTypeOK
    <3>. QED  BY <1>6, <3>1 DEF TakeShared, Uses, ResolverTypeOK, Stages
  <2>5. /\ Counts'
        /\ shared' \in 0 .. SHARED_LOOKUPS
        /\ reserved' \in [Conns -> 0 .. 1]
        /\ burst' \in [Conns -> 0 .. BURST_LOOKUPS]
    BY <2>1, <2>2, <2>3, <2>4, SlotStep, Zenon
  <2>6. ResolverTypeOK'
    BY <1>6, <2>1, <2>5, Zenon DEF TakeShared, ResolverTypeOK, Spawn
  <2>7. Stages' /\ Threads'
    BY <1>6, <2>1 DEF TakeShared, ResolverTypeOK, Stages, Threads, Spawn
  <2>. QED  BY <2>5, <2>6, <2>7, <1>0
<1>7. ASSUME NEW l \in Lookups, Start(l)  PROVE ResolverInv'
  <2>1. ResolverTypeOK' /\ Stages' /\ Threads'
    BY <1>7, Zenon DEF Start, permits, ResolverTypeOK, Stages, Threads
  <2>2. Counts'
    BY <1>7, CountsStutter, Zenon DEF Start
  <2>. QED  BY <2>1, <2>2, <1>0
<1>8. ASSUME NEW l \in Lookups, Finish(l)  PROVE ResolverInv'
  <2>1. /\ Counts'
        /\ slot' \in [Lookups -> Kinds]
        /\ shared' \in 0 .. SHARED_LOOKUPS
        /\ reserved' \in [Conns -> 0 .. 1]
        /\ burst' \in [Conns -> 0 .. BURST_LOOKUPS]
    BY <1>8, GiveBackStep, Zenon DEF Finish
  <2>2. slot' = [slot EXCEPT ![l] = "none"]
    BY <1>8, Zenon DEF Finish, GiveBack
  <2>3. ResolverTypeOK'
    BY <1>8, <2>1, Zenon DEF Finish, ResolverTypeOK, Kinds
  <2>4. Stages' /\ Threads'
    BY <1>8, <2>2, Zenon DEF Finish, ResolverTypeOK, Stages, Threads
  <2>. QED  BY <2>1, <2>3, <2>4, <1>0, Zenon
<1>9. ASSUME NEW l \in Lookups, Abandon(l)  PROVE ResolverInv'
  <2>1. ResolverTypeOK' /\ Stages' /\ Threads'
    BY <1>9, Zenon DEF Abandon, permits, ResolverTypeOK, Stages, Threads
  <2>2. Counts'
    BY <1>9, CountsStutter, Zenon DEF Abandon
  <2>. QED  BY <2>1, <2>2, <1>0
<1>10. ASSUME NEW l \in Lookups, GiveUp(l)  PROVE ResolverInv'
  <2>1. /\ Counts'
        /\ slot' \in [Lookups -> Kinds]
        /\ shared' \in 0 .. SHARED_LOOKUPS
        /\ reserved' \in [Conns -> 0 .. 1]
        /\ burst' \in [Conns -> 0 .. BURST_LOOKUPS]
    BY <1>10, GiveBackStep, Zenon DEF GiveUp
  <2>2. slot' = [slot EXCEPT ![l] = "none"]
    BY <1>10, Zenon DEF GiveUp, GiveBack
  <2>3. ResolverTypeOK'
    BY <1>10, <2>1, Zenon DEF GiveUp, ResolverTypeOK, Kinds
  <2>4. Stages' /\ Threads'
    BY <1>10, <2>2, Zenon DEF GiveUp, ResolverTypeOK, Stages, Threads
  <2>. QED  BY <2>1, <2>3, <2>4, <1>0
<1>11. CASE UNCHANGED resolverVars
  <2>1. ResolverTypeOK' /\ Stages' /\ Threads'
    BY <1>11, Zenon DEF resolverVars, permits, ResolverTypeOK, Stages, Threads
  <2>2. Counts'
    BY <1>11, CountsStutter, Zenon DEF resolverVars
  <2>. QED  BY <2>1, <2>2, <1>0, Zenon
<1>. QED
  BY <1>1, <1>2, <1>3, <1>4, <1>5, <1>6, <1>7, <1>8, <1>9, <1>10, <1>11, ZenonT(40)
     DEF ResolverNext

\* The permits are always what the threads and the waiters hold, whoever has
\* stopped waiting: no caller that gives up frees a slot its thread still uses,
\* and none is lost (net.rs, ConnectionResolver::lookup).
THEOREM SlotsFollowThreads == ResolverSpec => []SlotsAreThreads
<1>1. ResolverInv => SlotsAreThreads
  BY Zenon DEF ResolverInv
<1>. QED  BY Initially, Inductive, <1>1, PTL DEF ResolverSpec

\* No semaphore of the resolver is overdrawn or given back twice: the state stays
\* within its types, the limits included.
THEOREM ResolverTypeCorrect == ResolverSpec => []ResolverTypeOK
<1>1. ResolverInv => ResolverTypeOK
  BY Zenon DEF ResolverInv
<1>. QED  BY Initially, Inductive, <1>1, PTL DEF ResolverSpec

-------------------------------------------------------------------------------
(* The size of the blocking pool.                                            *)

\* The lookups with a thread, by the slot that paid for it, and the connections
\* whose own slot is out.
ReservedOut == {l \in Lookups : slot[l] = "reserved"}
Spawned == {l \in Lookups : thread[l] # "none"}
Claimants == {c \in Conns : reserved[c] = 0}

\* A connection has one reserved slot, so no two lookups hold the same one.
LEMMA OneReservedEach ==
  ASSUME ResolverInv
  PROVE  Cardinality(ReservedOut) <= Cardinality(Claimants)
<1>1. ASSUME NEW l \in ReservedOut
      PROVE  /\ Conn(l) \in Claimants
             /\ \A k \in ReservedOut : Conn(k) = Conn(l) => k = l
  <2> DEFINE Own == Held(slot, Conn(l), {"reserved"})
  <2>1. l \in Lookups /\ Conn(l) \in Conns
    BY LookupsFinite, Zenon DEF ReservedOut
  <2>2. Own \in SUBSET Lookups /\ l \in Own
    BY <2>1, Zenon DEF Held, ReservedOut
  <2>3. IsFiniteSet(Own) /\ Cardinality(Own) \in Nat
    BY <2>2, LookupsFinite, Zenon
  <2>4. reserved[Conn(l)] = 1 - Cardinality(Own) /\ reserved[Conn(l)] \in 0 .. 1
    BY <2>1, Zenon DEF ResolverInv, SlotsAreThreads, ResolverTypeOK
  <2>5. Cardinality(Own) # 0
    BY <2>2, <2>3, FS_EmptySet, Zenon
  <2> HIDE DEF Own
  <2>6. Cardinality(Own) = 1 /\ reserved[Conn(l)] = 0
    BY <2>3, <2>4, <2>5, SMT
  <2>7. PICK x : Own = {x}
    BY <2>3, <2>6, FS_Singleton, Zenon
  <2>8. ASSUME NEW k \in ReservedOut, Conn(k) = Conn(l) PROVE k \in Own
    BY <2>8, Zenon DEF Own, Held, ReservedOut
  <2>. QED  BY <2>1, <2>2, <2>6, <2>7, <2>8, Zenon DEF Claimants
<1> DEFINE f == [l \in ReservedOut |-> Conn(l)]
<1>2. f \in Injection(ReservedOut, Claimants)
  BY <1>1, Zenon DEF Injection, IsInjective
<1>3. IsFiniteSet(Claimants)
  BY LimitsAssumption, FS_Subset, Zenon DEF Claimants
<1> HIDE DEF f
<1>. QED  BY <1>2, <1>3, FS_Injection

\* What a thread is spawned for is a slot, reserved or shared.
LEMMA ThreadsAreCounted ==
  ASSUME ResolverInv
  PROVE  Cardinality(Spawned) <= Cardinality(Claimants) + SHARED_LOOKUPS
<1>1. /\ IsFiniteSet(ReservedOut) /\ Cardinality(ReservedOut) \in Nat
      /\ IsFiniteSet(SharedOut) /\ Cardinality(SharedOut) \in Nat
      /\ Cardinality(ReservedOut \cap SharedOut) \in Nat
  BY LookupsFinite, Zenon DEF ReservedOut, SharedOut
<1>2. Spawned = ReservedOut \union SharedOut
  BY Zenon DEF ResolverInv, SlotsAreThreads, Spawned, ReservedOut, SharedOut
<1>3. Cardinality(Spawned) =
        Cardinality(ReservedOut) + Cardinality(SharedOut) - Cardinality(ReservedOut \cap SharedOut)
  BY <1>1, <1>2, FS_Union, Zenon
<1>4. Cardinality(SharedOut) <= SHARED_LOOKUPS
  <2>1. shared = SHARED_LOOKUPS - Cardinality(SharedOut) /\ shared \in 0 .. SHARED_LOOKUPS
    BY Zenon DEF ResolverInv, SlotsAreThreads, ResolverTypeOK
  <2>. QED  BY <1>1, <2>1, LimitsAssumption, SMT
<1>5. Cardinality(Claimants) \in Nat
  BY LimitsAssumption, FS_Subset, FS_CardinalityType, Zenon DEF Claimants
<1>. QED  BY <1>1, <1>3, <1>4, <1>5, OneReservedEach, LimitsAssumption, SMT

\* The blocking pool is sized for a reserved slot of each connection, for the shared
\* allowance and for some headroom: as long as no more connections than it has
\* reserved and spare threads have their own slot out, open or closed with lookups
\* left behind, a lookup with a slot never waits for a thread (blocking_pool_size).
THEOREM PoolSuffices ==
    ResolverSpec => [](Cardinality(Claimants) <= ReservedThreads + LOOKUP_FREE_THREADS
                => EverySlotHasThread)
<1>1. ResolverInv => (Cardinality(Claimants) <= ReservedThreads + LOOKUP_FREE_THREADS
                => EverySlotHasThread)
  <2>. SUFFICES ASSUME ResolverInv,
                       Cardinality(Claimants) <= ReservedThreads + LOOKUP_FREE_THREADS,
                       NEW l \in Lookups, thread[l] = "queued"
                PROVE  Busy < blocking_pool_size
    BY Zenon DEF EverySlotHasThread
  <2> DEFINE Run == {k \in Lookups : thread[k] = "running"}
  <2>1. IsFiniteSet(Spawned) /\ Cardinality(Spawned) \in Nat
    BY LookupsFinite, Zenon DEF Spawned
  <2>2. Run \in SUBSET (Spawned \ {l})
    BY Zenon DEF Spawned
  <2>3. l \in Spawned
    BY Zenon DEF Spawned
  <2>4. IsFiniteSet(Spawned \ {l}) /\ Cardinality(Spawned \ {l}) = Cardinality(Spawned) - 1
    BY <2>1, <2>3, FS_RemoveElement, Zenon
  <2>5. Cardinality(Run) <= Cardinality(Spawned) - 1 /\ Cardinality(Run) \in Nat
    <3> HIDE DEF Run
    <3>1. IsFiniteSet(Run) /\ Cardinality(Run) <= Cardinality(Spawned \ {l})
      BY <2>2, <2>4, FS_Subset, Zenon
    <3>2. Cardinality(Run) \in Nat
      BY <3>1, FS_CardinalityType, Zenon
    <3>. QED  BY <2>4, <3>1, <3>2, Zenon
  <2>6. Busy = Cardinality(Run)
    BY Zenon DEF Busy
  <2> HIDE DEF Run
  <2>7. Cardinality(Claimants) \in Nat
    BY LimitsAssumption, FS_Subset, FS_CardinalityType, Zenon DEF Claimants
  <2>8. ReservedThreads \in Nat
    BY LimitsAssumption, SMT DEF ReservedThreads
  <2>9. Cardinality(Spawned) <= Cardinality(Claimants) + SHARED_LOOKUPS
    BY ThreadsAreCounted, Zenon
  <2>. QED  BY <2>1, <2>5, <2>6, <2>7, <2>8, <2>9, LimitsAssumption, SMT DEF blocking_pool_size
<1>. QED  BY Initially, Inductive, <1>1, PTL DEF ResolverSpec

\* So it is for good where there are no more connections than the pool was built
\* for and spare threads, counting those that are gone but whose lookups are not.
THEOREM FewConnectionsAreServed ==
    ASSUME Cardinality(Conns) <= ReservedThreads + LOOKUP_FREE_THREADS
    PROVE  ResolverSpec => []EverySlotHasThread
<1>1. ResolverInv => Cardinality(Claimants) <= ReservedThreads + LOOKUP_FREE_THREADS
  <2>1. /\ Cardinality(Claimants) <= Cardinality(Conns)
        /\ Cardinality(Claimants) \in Nat /\ Cardinality(Conns) \in Nat
    BY LimitsAssumption, FS_Subset, FS_CardinalityType, Zenon DEF Claimants
  <2>2. ReservedThreads \in Nat
    BY LimitsAssumption, SMT DEF ReservedThreads
  <2>. QED  BY <2>1, <2>2, LimitsAssumption, SMT
<1>. QED  BY Initially, Inductive, PoolSuffices, <1>1, PTL DEF ResolverSpec
===============================================================================
