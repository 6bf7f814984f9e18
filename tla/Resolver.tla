-------------------------------- MODULE Resolver --------------------------------
(***************************************************************************)
(* Name lookups and the threads they occupy: `ResolverBudget`,              *)
(* `ConnectionResolver` and `blocking_pool_size` of net.rs, the timeout      *)
(* `within_budget` of tunnel/mod.rs puts around them, and tokio's blocking   *)
(* pool as they use it.                                                     *)
(*                                                                         *)
(* getaddrinfo cannot be cancelled: a caller that gives up leaves its thread *)
(* behind, and the thread, not the caller, holds the slot.  Request tasks    *)
(* are detached, so a lookup also outlives the connection that asked.        *)
(***************************************************************************)
EXTENDS Integers, FiniteSets

CONSTANTS Conns,                \* bound: connections open or with lookups left behind
          Names,                \* bound: lookups one connection has at a time
          MaxConnections,       \* limits.max_connections, 0 for no cap
          SHARED_LOOKUPS, BURST_LOOKUPS, LOOKUP_FREE_THREADS, RESERVED_LOOKUP_CEILING,
          Answered              \* connections whose names the resolver answers

ASSUME LimitsAssumption ==
    /\ IsFiniteSet(Conns) /\ IsFiniteSet(Names)
    /\ {MaxConnections, SHARED_LOOKUPS, BURST_LOOKUPS,
        LOOKUP_FREE_THREADS, RESERVED_LOOKUP_CEILING} \subseteq Nat
    /\ Answered \subseteq Conns

VARIABLES
    open,        \* the connections that hold a place in the roster
    caller,      \* what the future of each lookup is doing
    slot,        \* the permits held for it
    thread,      \* its blocking task
    reserved,    \* permits left of each connection's own slot
    burst,       \* permits left of each connection's share
    shared       \* permits left of the server-wide allowance

permits == <<reserved, burst, shared>>
resolverVars == <<open, caller, slot, thread, permits>>

Lookups == Conns \X Names
Conn(l) == l[1]

ResolverTypeOK ==
    /\ open \subseteq Conns
    /\ caller \in [Lookups -> {"idle", "waiting", "looking", "gone"}]
    /\ slot \in [Lookups -> {"none", "burst", "reserved", "shared"}]
    /\ thread \in [Lookups -> {"none", "queued", "running"}]
    /\ reserved \in [Conns -> 0 .. 1]
    /\ burst \in [Conns -> 0 .. BURST_LOOKUPS]
    /\ shared \in 0 .. SHARED_LOOKUPS

ResolverInit ==
    /\ open = {}
    /\ caller = [l \in Lookups |-> "idle"]
    /\ slot = [l \in Lookups |-> "none"]
    /\ thread = [l \in Lookups |-> "none"]
    /\ reserved = [c \in Conns |-> 1]
    /\ burst = [c \in Conns |-> BURST_LOOKUPS]
    /\ shared = SHARED_LOOKUPS

ReservedThreads ==
    IF MaxConnections = 0 \/ MaxConnections > RESERVED_LOOKUP_CEILING
    THEN RESERVED_LOOKUP_CEILING
    ELSE MaxConnections

MutantPoolForReserved == ReservedThreads + LOOKUP_FREE_THREADS

\* The threads the runtime is built with.
blocking_pool_size == ReservedThreads + SHARED_LOOKUPS + LOOKUP_FREE_THREADS

Busy == Cardinality({l \in Lookups : thread[l] = "running"})

-------------------------------------------------------------------------------
(* Connections come and go; per_connection gives each its own permits.  A    *)
(* member of Conns that is through stands for a new connection.              *)

Open(c) ==
    /\ c \notin open
    /\ \A n \in Names : caller[<<c, n>>] = "idle" /\ thread[<<c, n>>] = "none"
    /\ MaxConnections = 0 \/ Cardinality(open) < MaxConnections
    /\ open' = open \union {c}
    /\ UNCHANGED <<caller, slot, thread, permits>>

Close(c) ==
    /\ c \in open
    /\ open' = open \ {c}
    /\ UNCHANGED <<caller, slot, thread, permits>>

-------------------------------------------------------------------------------
(* lookup                                                                    *)

\* A name, not a literal, which would take no slot.
Lookup(l) ==
    /\ Conn(l) \in open
    /\ caller[l] = "idle" /\ thread[l] = "none"
    /\ caller' = [caller EXCEPT ![l] = "waiting"]
    /\ UNCHANGED <<open, slot, thread, permits>>

\* The slot is had: the blocking task is spawned with it.
Spawn(l, held) ==
    /\ slot' = [slot EXCEPT ![l] = held]
    /\ caller' = [caller EXCEPT ![l] = "looking"]
    /\ thread' = [thread EXCEPT ![l] = "queued"]
    /\ UNCHANGED open

MutantCheckThenQueue(l) ==
    /\ caller[l] = "waiting" /\ slot[l] = "none"
    /\ reserved[Conn(l)] > 0
    /\ reserved' = [reserved EXCEPT ![Conn(l)] = @ - 1]
    /\ Spawn(l, "reserved")
    /\ UNCHANGED <<burst, shared>>

\* The reserved slot wins the race, and the losing branch gives back its share.
TakeReserved(l) ==
    /\ caller[l] = "waiting"
    /\ reserved[Conn(l)] > 0
    /\ reserved' = [reserved EXCEPT ![Conn(l)] = @ - 1]
    /\ burst' = IF slot[l] = "burst" THEN [burst EXCEPT ![Conn(l)] = @ + 1] ELSE burst
    /\ Spawn(l, "reserved")
    /\ UNCHANGED shared

\* Otherwise a share of this connection's burst, first,
TakeBurst(l) ==
    /\ caller[l] = "waiting" /\ slot[l] = "none"
    /\ reserved[Conn(l)] = 0
    /\ burst[Conn(l)] > 0
    /\ burst' = [burst EXCEPT ![Conn(l)] = @ - 1]
    /\ slot' = [slot EXCEPT ![l] = "burst"]
    /\ UNCHANGED <<open, caller, thread, reserved, shared>>

\* and then one of the server's.
TakeShared(l) ==
    /\ caller[l] = "waiting" /\ slot[l] = "burst"
    /\ reserved[Conn(l)] = 0
    /\ shared > 0
    /\ shared' = shared - 1
    /\ Spawn(l, "shared")
    /\ UNCHANGED <<reserved, burst>>

\* The blocking pool starts the task, or leaves it queued until a thread is free.
Start(l) ==
    /\ thread[l] = "queued"
    /\ Busy < blocking_pool_size
    /\ thread' = [thread EXCEPT ![l] = "running"]
    /\ UNCHANGED <<open, caller, slot, permits>>

\* What dropping the permits of lookup l gives back.
GiveBack(l) ==
    /\ slot' = [slot EXCEPT ![l] = "none"]
    /\ reserved' = IF slot[l] = "reserved" THEN [reserved EXCEPT ![Conn(l)] = @ + 1]
                   ELSE reserved
    /\ burst' = IF slot[l] \in {"burst", "shared"} THEN [burst EXCEPT ![Conn(l)] = @ + 1]
                ELSE burst
    /\ shared' = IF slot[l] = "shared" THEN shared + 1 ELSE shared

\* getaddrinfo returns: the thread drops the slot, and a caller still there is
\* answered.
Finish(l) ==
    /\ thread[l] = "running"
    /\ thread' = [thread EXCEPT ![l] = "none"]
    /\ caller' = [caller EXCEPT ![l] = "idle"]
    /\ GiveBack(l)
    /\ UNCHANGED open

\* connect_timeout expires while the thread is in the resolver.
Abandon(l) ==
    /\ caller[l] = "looking"
    /\ caller' = [caller EXCEPT ![l] = "gone"]
    /\ UNCHANGED <<open, slot, thread, permits>>

\* connect_timeout expires while the lookup waits for a slot.
GiveUp(l) ==
    /\ caller[l] = "waiting"
    /\ caller' = [caller EXCEPT ![l] = "idle"]
    /\ GiveBack(l)
    /\ UNCHANGED <<open, thread>>

ResolverNext ==
    \/ \E c \in Conns : Open(c) \/ Close(c)
    \/ \E l \in Lookups :
          \/ Lookup(l) \/ TakeReserved(l) \/ TakeBurst(l) \/ TakeShared(l)
          \/ Start(l) \/ Finish(l) \/ Abandon(l) \/ GiveUp(l)

ResolverSpec == ResolverInit /\ [][ResolverNext]_resolverVars

\* A lookup that can take a permit does.  tokio's semaphores are first come,
\* first served, so a waiter for the reserved slot has its turn however often it
\* changes hands: strong fairness.  Only some names are ever answered, and
\* nothing says that a caller gives up (connect_timeout may be disabled).
FairResolverSpec ==
    /\ ResolverSpec
    /\ \A l \in Lookups :
          /\ SF_resolverVars(TakeReserved(l))
          /\ WF_resolverVars(TakeBurst(l)) /\ WF_resolverVars(TakeShared(l)) /\ WF_resolverVars(Start(l))
          /\ Conn(l) \in Answered => WF_resolverVars(Finish(l))

-------------------------------------------------------------------------------
(* Safety                                                                    *)

Held(holds, c, kinds) == {l \in Lookups : Conn(l) = c /\ holds[l] \in kinds}
SharedOut == {l \in Lookups : slot[l] = "shared"}

\* The permits that are out are exactly those of the threads in the resolver or
\* about to be, caller or no caller, and of the waiters for the shared allowance,
\* who hold no more than their own connection's share.
SlotsAreThreads ==
    /\ \A l \in Lookups :
          thread[l] # "none" <=> slot[l] \in {"reserved", "shared"}
    /\ shared = SHARED_LOOKUPS - Cardinality(SharedOut)
    /\ \A c \in Conns :
          /\ reserved[c] = 1 - Cardinality(Held(slot, c, {"reserved"}))
          /\ burst[c] = BURST_LOOKUPS - Cardinality(Held(slot, c, {"burst", "shared"}))

\* Every lookup that was given a slot has a thread to run on: the pool is sized
\* for each connection's reserved slot and for the shared allowance.
EverySlotHasThread ==
    \A l \in Lookups : thread[l] = "queued" => Busy < blocking_pool_size

-------------------------------------------------------------------------------
(* Liveness                                                                  *)

\* No connection is starved: whatever the others' lookups hold on to, a lookup
\* gets its turn, on the reserved slot if nowhere else, or was given up.
SerialAtWorst ==
    \A l \in Lookups :
        Conn(l) \in Answered => (caller[l] = "waiting" ~> caller[l] # "waiting")
===============================================================================
