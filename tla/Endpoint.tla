------------------------------- MODULE Endpoint -------------------------------
(***************************************************************************)
(* The accept loop of the QUIC endpoint and the roster it decides           *)
(* `max_connections` against: quic/roster.rs, and `run`, `admit`, `serve`   *)
(* and `drain` of quic/mod.rs.                                              *)
(*                                                                         *)
(* Three kinds of actor interleave: the accept loop, one task for every     *)
(* accepted connection, and the request tasks of a connection, which only   *)
(* ever open its gate.  The roster's mutex is held for single map           *)
(* operations, which are atomic here, and by `evict_until_below` for a      *)
(* whole loop, which is the value "evicting" of `pc`: meanwhile no other    *)
(* actor touches `slots`, but gates keep opening, because a gate is an      *)
(* atomic flag the mutex does not cover.                                    *)
(***************************************************************************)
EXTENDS Integers, FiniteSets

CONSTANTS MaxSeq,   \* bound: how many connections are ever accepted
          Caps      \* the values a reload may give max_connections

ASSUME MaxSeqAssumption == MaxSeq \in Nat
ASSUME CapsAssumption == Caps \subseteq Nat

VARIABLES
    slots,            \* Roster::slots, the accept sequences on the roster
    next,             \* Roster::next
    gate,             \* the AuthGate of each connection
    evict,            \* the Notify of each slot: no permit, one, or taken
    task,             \* how far the task `serve` returned has got
    max_connections,  \* config().limits.max_connections, reloadable
    pc,               \* where the accept loop is
    ceiling,          \* `ceiling`, read once per incoming connection
    validated,        \* incoming.remote_address_validated()
    fired             \* the shutdown latch

vars == <<slots, next, gate, evict, task, max_connections, pc, ceiling,
          validated, fired>>

rosterVars == <<slots, next, evict>>
loopVars == <<pc, ceiling, validated>>

Seqs == 0 .. (MaxSeq - 1)

LoopStates == {"accepting", "counting", "evicting", "rechecking", "admitted",
               "draining", "flushing", "stopped"}
TaskStates == {"none", "handshake", "serving", "ending", "gone"}

\* The task of connection s still runs, and still owns its Registration.
Live(s) == task[s] \in {"handshake", "serving", "ending"}

\* Roster::len
len == Cardinality(slots)

TypeOK ==
    /\ slots \subseteq Seqs
    /\ next \in 0 .. MaxSeq
    /\ gate \in [Seqs -> BOOLEAN]
    /\ evict \in [Seqs -> {"none", "permit", "taken"}]
    /\ task \in [Seqs -> TaskStates]
    /\ max_connections \in Caps
    /\ pc \in LoopStates
    /\ ceiling \in Caps
    /\ validated \in BOOLEAN
    /\ fired \in BOOLEAN

Init ==
    /\ slots = {}
    /\ next = 0
    /\ gate = [s \in Seqs |-> FALSE]
    /\ evict = [s \in Seqs |-> "none"]
    /\ task = [s \in Seqs |-> "none"]
    /\ max_connections \in Caps
    /\ pc = "accepting"
    /\ ceiling = max_connections
    /\ validated = FALSE
    /\ fired = FALSE

-------------------------------------------------------------------------------
(* The accept loop: `run` and `admit`.                                      *)

\* run: endpoint.accept() yields an incoming connection, and admit starts by
\* reading the live configuration.  Zero removes the limit.
Accept ==
    /\ pc = "accepting"
    /\ ~fired                  \* the select is biased towards the latch
    /\ next < MaxSeq
    /\ ceiling' = max_connections
    /\ validated' \in BOOLEAN
    /\ pc' = IF max_connections = 0 THEN "admitted" ELSE "counting"
    /\ UNCHANGED <<rosterVars, gate, task, max_connections, fired>>

\* admit: the roster is below the ceiling, so the newcomer simply gets a slot.
AdmitBelowCap ==
    /\ pc = "counting"
    /\ len < ceiling
    /\ pc' = "admitted"
    /\ UNCHANGED <<rosterVars, gate, task, max_connections, ceiling, validated,
                   fired>>

\* admit: the server is full and the address is not validated.  The newcomer
\* is sent a Retry or, where it may not be or the Retry fails, refused; either
\* way it takes no slot.  One that answers the Retry comes back validated.
TurnAwayUnvalidated ==
    /\ pc = "counting"
    /\ len >= ceiling
    /\ ~validated
    /\ pc' = "accepting"
    /\ UNCHANGED <<rosterVars, gate, task, max_connections, ceiling, validated,
                   fired>>

\* admit: the server is full and the address is validated, so the roster's
\* mutex is taken for evict_until_below(ceiling).
StartEvicting ==
    /\ pc = "counting"
    /\ len >= ceiling
    /\ validated
    /\ pc' = "evicting"
    /\ UNCHANGED <<rosterVars, gate, task, max_connections, ceiling, validated,
                   fired>>

\* What `evict_oldest_from` searches: the slots whose gate is closed.
Candidates == {s \in slots : ~gate[s]}

MutantEvictAnyone ==
    /\ pc = "evicting"
    /\ len >= ceiling
    /\ \E v \in slots :
          /\ \A s \in slots : v <= s
          /\ slots' = slots \ {v}
          /\ evict' = [evict EXCEPT ![v] = "permit"]
    /\ UNCHANGED <<next, gate, task, max_connections, pc, ceiling, validated,
                   fired>>

\* One pass of evict_until_below: the oldest connection whose gate is closed
\* leaves the roster here and now, and its Notify gets a permit.  Gates may
\* open between two passes, but not the one this pass settled on.
EvictOldest ==
    /\ pc = "evicting"
    /\ len >= ceiling
    /\ \E v \in Candidates :
          /\ \A s \in Candidates : v <= s
          /\ slots' = slots \ {v}
          /\ evict' = [evict EXCEPT ![v] = "permit"]
    /\ UNCHANGED <<next, gate, task, max_connections, pc, ceiling, validated,
                   fired>>

\* The loop of evict_until_below is over: below the cap, or nobody left whom
\* it may take.  The mutex is released.
StopEvicting ==
    /\ pc = "evicting"
    /\ \/ len < ceiling
       \/ Candidates = {}
    /\ pc' = "rechecking"
    /\ UNCHANGED <<rosterVars, gate, task, max_connections, ceiling, validated,
                   fired>>

\* admit, after the eviction: the length is read again, and the newcomer is
\* refused while it is not below the ceiling.
Recheck ==
    /\ pc = "rechecking"
    /\ pc' = IF len >= ceiling THEN "accepting" ELSE "admitted"
    /\ UNCHANGED <<rosterVars, gate, task, max_connections, ceiling, validated,
                   fired>>

\* serve: the connection is entered on the roster by the accept loop itself,
\* and the task that will run it is spawned.
Register ==
    /\ pc = "admitted"
    /\ slots' = slots \union {next}
    /\ next' = next + 1
    /\ task' = [task EXCEPT ![next] = "handshake"]
    /\ pc' = "accepting"
    /\ UNCHANGED <<gate, evict, max_connections, ceiling, validated, fired>>

\* run: the latch ends the accept loop, and drain takes the server config away.
BeginDrain ==
    /\ pc = "accepting"
    /\ fired
    /\ pc' = "draining"
    /\ UNCHANGED <<rosterVars, gate, task, max_connections, ceiling, validated,
                   fired>>

\* run: endpoint.accept() yields None without a shutdown, and run returns.
EndpointClosed ==
    /\ pc = "accepting"
    /\ ~fired
    /\ pc' = "stopped"
    /\ UNCHANGED <<rosterVars, gate, task, max_connections, ceiling, validated,
                   fired>>

MutantWaitForAll ==
    /\ pc = "draining"
    /\ \A s \in Seqs : ~Live(s)
    /\ pc' = "flushing"
    /\ UNCHANGED <<rosterVars, gate, task, max_connections, ceiling, validated,
                   fired>>

\* drain: every task was joined, or the grace period expired first; the
\* endpoint is closed regardless.
CloseEndpoint ==
    /\ pc = "draining"
    /\ pc' = "flushing"
    /\ UNCHANGED <<rosterVars, gate, task, max_connections, ceiling, validated,
                   fired>>

\* drain: wait_idle answers or CLOSE_FLUSH_TIMEOUT passes, and run returns.
Flushed ==
    /\ pc = "flushing"
    /\ pc' = "stopped"
    /\ UNCHANGED <<rosterVars, gate, task, max_connections, ceiling, validated,
                   fired>>

-------------------------------------------------------------------------------
(* A connection's task: the future `serve` returns.                          *)

MutantPermitLost(s) ==
    /\ task[s] = "handshake"
    /\ task' = [task EXCEPT ![s] = "serving"]
    /\ evict' = [evict EXCEPT ![s] = IF @ = "permit" THEN "taken" ELSE @]
    /\ UNCHANGED <<slots, next, gate, max_connections, loopVars, fired>>

\* The select of serve picks the handshake, whether or not a permit is there:
\* a permit that lost the race stays with the Notify.
HandshakeCompletes(s) ==
    /\ task[s] = "handshake"
    /\ task' = [task EXCEPT ![s] = "serving"]
    /\ UNCHANGED <<rosterVars, gate, max_connections, loopVars, fired>>

\* The handshake fails, or its deadline passes.
HandshakeFails(s) ==
    /\ task[s] = "handshake"
    /\ task' = [task EXCEPT ![s] = "ending"]
    /\ UNCHANGED <<rosterVars, gate, max_connections, loopVars, fired>>

\* conn::handle returns: drained, idle, closed by the peer, or an error.
HandleReturns(s) ==
    /\ task[s] = "serving"
    /\ task' = [task EXCEPT ![s] = "ending"]
    /\ UNCHANGED <<rosterVars, gate, max_connections, loopVars, fired>>

\* `evicted.notified()` is ready in either of the two selects of serve.
Evicted(s) ==
    /\ task[s] \in {"handshake", "serving"}
    /\ evict[s] = "permit"
    /\ task' = [task EXCEPT ![s] = "ending"]
    /\ evict' = [evict EXCEPT ![s] = "taken"]
    /\ UNCHANGED <<slots, next, gate, max_connections, loopVars, fired>>

MutantLeakRegistration(s) ==
    /\ task[s] = "ending"
    /\ pc # "evicting"
    /\ task' = [task EXCEPT ![s] = "gone"]
    /\ slots' = IF gate[s] THEN slots \ {s} ELSE slots
    /\ UNCHANGED <<next, evict, gate, max_connections, loopVars, fired>>

\* Registration::drop, the last thing the task does.  It needs the mutex.
Unregister(s) ==
    /\ task[s] = "ending"
    /\ pc # "evicting"
    /\ task' = [task EXCEPT ![s] = "gone"]
    /\ slots' = slots \ {s}
    /\ UNCHANGED <<next, evict, gate, max_connections, loopVars, fired>>

\* run returned, and dropping its JoinSet aborts whatever still runs.
Abort(s) ==
    /\ pc = "stopped"
    /\ task[s] \in {"handshake", "serving"}
    /\ task' = [task EXCEPT ![s] = "ending"]
    /\ UNCHANGED <<rosterVars, gate, max_connections, loopVars, fired>>

\* A request task passes the credentials check: AuthGate::mark.  Request tasks
\* are spawned on their own, so one may still do this after the connection's
\* task has ended or while its eviction is under way.
Mark(s) ==
    /\ task[s] \in {"serving", "ending", "gone"}
    /\ ~gate[s]
    /\ gate' = [gate EXCEPT ![s] = TRUE]
    /\ UNCHANGED <<rosterVars, task, max_connections, loopVars, fired>>

-------------------------------------------------------------------------------
(* The operator: SIGHUP and the shutdown signal.                             *)

\* A reload publishes a new max_connections; after the latch none does.
Reload ==
    /\ ~fired
    /\ \E cap \in Caps \ {max_connections} : max_connections' = cap
    /\ UNCHANGED <<rosterVars, gate, task, loopVars, fired>>

\* Trigger::fire
Fire ==
    /\ ~fired
    /\ fired' = TRUE
    /\ UNCHANGED <<rosterVars, gate, task, max_connections, loopVars>>

\* The accept loop has returned and no task is left.
Finished ==
    /\ pc = "stopped"
    /\ \A s \in Seqs : ~Live(s)
    /\ UNCHANGED vars

\* Everything the accept loop does between two calls of endpoint.accept().
Admission == \/ AdmitBelowCap \/ TurnAwayUnvalidated \/ StartEvicting
             \/ EvictOldest \/ StopEvicting \/ Recheck \/ Register

Drain == BeginDrain \/ CloseEndpoint \/ Flushed

Next ==
    \/ Accept \/ Admission \/ Drain \/ EndpointClosed
    \/ \E s \in Seqs : \/ HandshakeCompletes(s) \/ HandshakeFails(s)
                       \/ HandleReturns(s) \/ Evicted(s) \/ Unregister(s)
                       \/ Abort(s) \/ Mark(s)
    \/ Reload \/ Fire
    \/ Finished

Spec == Init /\ [][Next]_vars

\* What the scheduler and the timers guarantee.  The accept loop and every
\* task are polled while they can move; the grace period and the flush
\* timeout expire.  Giving up the slot waits for the mutex, which the accept
\* loop takes again and again while newcomers keep coming, so a waiter's turn is
\* a strong fairness condition: the loop releases the mutex between two
\* newcomers.  Nothing makes conn::handle return or a request authenticate.
Fairness ==
    /\ WF_vars(Admission)
    /\ WF_vars(Drain)
    /\ \A s \in Seqs : /\ WF_vars(Evicted(s))
                       /\ SF_vars(Unregister(s))
                       /\ WF_vars(Abort(s))

FairSpec == Spec /\ Fairness

-------------------------------------------------------------------------------
(* Safety                                                                    *)

\* The roster is exact: a connection is on it just when its task still runs and
\* nobody has evicted it.  So no slot outlives its task (Registration::drop
\* covers every ending), and no running task is missing from the count without
\* an eviction permit on its way to end it.
RosterExact ==
    slots = {s \in Seqs : Live(s) /\ evict[s] = "none"}

\* Seniority: once some connection has been evicted, every older connection
\* still on the roster has authenticated, so evict_oldest_from never took a
\* younger connection while an older unauthenticated one was sitting there.
OldestFirst ==
    \A v \in Seqs, s \in slots : evict[v] # "none" /\ s < v => gate[s]

\* A connection that has authenticated and is still on the roster leaves it
\* only because its own task ended, however full the server is.
AuthenticatedKeepsSlot ==
    [][\A s \in slots : gate[s] /\ s \notin slots' => task[s] = "ending"]_vars

\* The cap is exact on slots: an admission never leaves more connections on
\* the roster than the ceiling that admit read for it, even though the length
\* was read earlier, other tasks ended since, and a reload moved the cap.
AdmissionWithinCap ==
    [][~(slots' \subseteq slots) => \/ ceiling = 0
                                    \/ Cardinality(slots') <= ceiling]_vars

\* A newcomer with a validated address is refused only when every connection
\* on the roster has authenticated.
RefusedOnlyWhenAllAuthenticated ==
    [][pc = "rechecking" /\ pc' = "accepting" => \A s \in slots : gate[s]]_vars

\* Nobody is evicted for a newcomer that has not validated its address, nor
\* while the roster is below the ceiling.
NoNeedlessEviction ==
    [][evict' # evict /\ slots' # slots => validated /\ len >= ceiling]_vars

-------------------------------------------------------------------------------
(* Liveness                                                                  *)

\* An evicted connection ends: the permit reaches its task even when it was
\* left before the task first ran, and even when the handshake won the race.
EvictedEnds ==
    \A s \in Seqs : (evict[s] # "none") ~> (task[s] = "gone")

\* Shutdown always completes: once the latch fires run returns, and no
\* connection outlives it, even one whose tunnels never finish.
ShutdownCompletes ==
    fired ~> (pc = "stopped" /\ \A s \in Seqs : ~Live(s))
===============================================================================
