------------------------------ MODULE Connection ------------------------------
(***************************************************************************)
(* One HTTP/3 connection: the accept loop of conn.rs, the tunnel budget its *)
(* drain watches (tunnel/quota.rs), the GOAWAY identifier of                *)
(* h3/connection.rs, and as much of a request task as those three see.      *)
(*                                                                         *)
(* The loop is one task and every accepted request another, on other        *)
(* threads.  A step is one access to what they share: the semaphore, the    *)
(* pending count, the Notify and the AuthGate.  The loop's position says    *)
(* which of its reads comes next, so a request may act between any two.     *)
(*                                                                         *)
(* Request k is the stream with identifier 4 * k: quinn yields the peer's   *)
(* streams in order.                                                        *)
(***************************************************************************)
EXTENDS Integers, FiniteSets

CONSTANTS MaxReq,   \* bound: how many request streams the peer ever opens
          Limit     \* Quota::limit, max_tunnels_per_connection

ASSUME MaxReqAssumption == MaxReq \in Nat
ASSUME LimitAssumption == Limit \in Nat

VARIABLES
    pc,             \* where conn::handle is
    reason,         \* why it returned
    going_away,     \* `going_away` of conn::handle
    goaway,         \* Connection::going_away, the GOAWAY identifier
    last_accepted,  \* Connection::last_accepted
    req,            \* how far each request has got
    permits,        \* Quota::permits, the semaphore's available permits
    pending,        \* Quota::pending
    idle,           \* the permit a notify_one leaves in Quota::idle
    authenticated,  \* the AuthGate
    raises,         \* how often the stream allowance was raised
    bounded,        \* the wait in next_request is under the deadline
    lapsed,         \* the clock has reached the deadline
    late,           \* history: streams accepted past it, unauthenticated
    fired,          \* the shutdown latch
    lost            \* the QUIC connection is closed

loopVars == <<pc, reason, going_away, goaway, last_accepted, bounded, late>>
quotaVars == <<permits, pending, idle>>
authVars == <<authenticated, raises>>
envVars == <<lapsed, fired, lost>>
vars == <<loopVars, req, quotaVars, authVars, envVars>>

Reqs == 0 .. (MaxReq - 1)
None == -1

REQUEST_STREAM_STEP == 4
Id(k) == REQUEST_STREAM_STEP * k

ReqStates == {"unopened", "queued", "rejected", "entered", "raising", "passed",
              "tunnel", "released", "leaving", "left", "done"}
LoopStates == {"poll", "announce", "goaway_live", "goaway_pending", "live",
               "pending", "arm", "flag", "clock", "waiting", "ended"}

\* The states in which a request's task holds its Pending.
Serving == {"entered", "raising", "passed", "tunnel", "released", "leaving"}
\* Requests that conn::handle accepted and that still hold their Pending.
InService == {k \in Reqs : req[k] \in Serving}
\* Requests that hold a Slot.
Tunnels == {k \in Reqs : req[k] = "tunnel"}

TypeOK ==
    /\ pc \in LoopStates
    /\ reason \in {"none", "drained", "goaway_failed", "failed", "silent"}
    /\ going_away \in BOOLEAN
    /\ goaway \in {None} \union {Id(k) : k \in 0 .. MaxReq}
    /\ last_accepted \in {None} \union {Id(k) : k \in Reqs}
    /\ req \in [Reqs -> ReqStates]
    /\ permits \in 0 .. Limit
    /\ pending \in 0 .. MaxReq
    /\ idle \in BOOLEAN
    /\ authenticated \in BOOLEAN
    /\ raises \in Nat
    /\ bounded \in BOOLEAN
    /\ late \in Nat
    /\ lapsed \in BOOLEAN /\ fired \in BOOLEAN /\ lost \in BOOLEAN

\* conn::handle once the HTTP/3 handshake is done: Context::new, the deadline
\* armed, nothing accepted.
Init ==
    /\ pc = "poll"
    /\ reason = "none"
    /\ going_away = FALSE
    /\ goaway = None
    /\ last_accepted = None
    /\ req = [k \in Reqs |-> "unopened"]
    /\ permits = Limit
    /\ pending = 0
    /\ idle = FALSE
    /\ authenticated = FALSE
    /\ raises = 0
    /\ bounded = FALSE
    /\ late = 0
    /\ lapsed = FALSE /\ fired = FALSE /\ lost = FALSE

\* conn::handle returns; dropping the Connection closes the QUIC connection.
Return(why) ==
    /\ pc' = "ended"
    /\ reason' = why

MoveTo(place) ==
    /\ pc' = place
    /\ UNCHANGED reason

-------------------------------------------------------------------------------
(* Shutdown: the first arm of the select, and announce_goaway.               *)

MutantGoawayLast ==
    /\ pc \in {"poll", "waiting"}
    /\ fired /\ ~going_away
    /\ going_away' = TRUE
    /\ goaway' = IF last_accepted = None THEN 0 ELSE last_accepted
    /\ MoveTo("announce")
    /\ UNCHANGED <<last_accepted, bounded, late, req, quotaVars, authVars, envVars>>

\* next_request_id: four past the last request accepted.  The clamp to the
\* largest varint is beyond any bound here.
next_request_id ==
    IF last_accepted = None THEN 0 ELSE last_accepted + REQUEST_STREAM_STEP

\* `shutdown.fired(), if !going_away` is the arm the select favours, at the
\* start of a pass and when the latch wakes a waiting loop.  Connection::shutdown
\* settles the identifier before it writes, never above one it has sent.
StartGoaway ==
    /\ pc \in {"poll", "waiting"}
    /\ fired /\ ~going_away
    /\ going_away' = TRUE
    /\ goaway' = IF goaway # None /\ goaway < next_request_id
                 THEN goaway ELSE next_request_id
    /\ MoveTo("announce")
    /\ UNCHANGED <<last_accepted, bounded, late, req, quotaVars, authVars, envVars>>

\* The GOAWAY is written, or the bound on the write elapses.
GoawayWritten ==
    /\ pc = "announce"
    /\ MoveTo("goaway_live")
    /\ UNCHANGED <<going_away, goaway, last_accepted, bounded, late, req,
                   quotaVars, authVars, envVars>>

\* The write fails because the connection is gone: Drain::Finished.
GoawayFails ==
    /\ pc = "announce"
    /\ lost
    /\ Return("goaway_failed")
    /\ UNCHANGED <<going_away, goaway, last_accepted, bounded, late, req,
                   quotaVars, authVars, envVars>>

\* announce_goaway ends with is_busy: the tunnel count first, then the pending
\* count, each read on its own.
GoawayIsBusy ==
    /\ \/ /\ pc = "goaway_live"
          /\ MoveTo(IF permits < Limit THEN "poll" ELSE "goaway_pending")
       \/ /\ pc = "goaway_pending"
          /\ IF pending > 0 THEN MoveTo("poll") ELSE Return("drained")
    /\ UNCHANGED <<going_away, goaway, last_accepted, bounded, late, req,
                   quotaVars, authVars, envVars>>

-------------------------------------------------------------------------------
(* The drain: the second arm, Quota::wait_until_idle.                        *)

\* A pass of the select starts: with the latch still to be noticed its arm
\* wins, otherwise the drain's arm is polled if the connection is going away.
StartPass ==
    /\ pc = "poll"
    /\ going_away \/ ~fired
    /\ MoveTo(IF going_away THEN "live" ELSE "flag")
    /\ UNCHANGED <<going_away, goaway, last_accepted, bounded, late, req,
                   quotaVars, authVars, envVars>>

\* wait_until_idle: is_busy decides between returning and waiting for a signal.
DrainIsBusy ==
    /\ \/ /\ pc = "live"
          /\ MoveTo(IF permits < Limit THEN "arm" ELSE "pending")
       \/ /\ pc = "pending"
          /\ IF pending > 0 THEN MoveTo("arm") ELSE Return("drained")
    /\ UNCHANGED <<going_away, goaway, last_accepted, bounded, late, req,
                   quotaVars, authVars, envVars>>

\* `idle.notified()` is polled: a permit left behind is taken and the counts
\* are read again; without one the drain waits, and the third arm is polled.
Arm ==
    /\ pc = "arm"
    /\ MoveTo(IF idle THEN "live" ELSE "flag")
    /\ idle' = FALSE
    /\ UNCHANGED <<going_away, goaway, last_accepted, bounded, late, req, permits,
                   pending, authVars, envVars>>

\* A signal wakes the waiting drain.
Woken ==
    /\ pc = "waiting"
    /\ going_away
    /\ idle
    /\ idle' = FALSE
    /\ MoveTo("live")
    /\ UNCHANGED <<going_away, goaway, last_accepted, bounded, late, req, permits,
                   pending, authVars, envVars>>

-------------------------------------------------------------------------------
(* The third arm: next_request and Connection::accept.                       *)

\* next_request reads the gate: past it the wait for a stream is unbounded.
ReadFlag ==
    /\ pc = "flag"
    /\ MoveTo(IF authenticated THEN "waiting" ELSE "clock")
    /\ bounded' = ~authenticated
    /\ UNCHANGED <<going_away, goaway, last_accepted, late, req, quotaVars,
                   authVars, envVars>>

\* next_request reads the clock: at the deadline the verdict is Silent.
ReadClock ==
    /\ pc = "clock"
    /\ IF lapsed THEN Return("silent") ELSE MoveTo("waiting")
    /\ UNCHANGED <<going_away, goaway, last_accepted, bounded, late, req,
                   quotaVars, authVars, envVars>>

MutantElapsedIsVerdict ==
    /\ pc = "waiting"
    /\ bounded /\ lapsed
    /\ Return("silent")
    /\ UNCHANGED <<going_away, goaway, last_accepted, bounded, late, req,
                   quotaVars, authVars, envVars>>

\* The bounded wait elapses: back round the loop, to read the gate again.
Elapsed ==
    /\ pc = "waiting"
    /\ bounded /\ lapsed
    /\ MoveTo("flag")
    /\ UNCHANGED <<going_away, goaway, last_accepted, bounded, late, req,
                   quotaVars, authVars, envVars>>

\* The request stream accept_bi yields next.
NextQueued(k) ==
    /\ req[k] = "queued"
    /\ \A j \in Reqs : j < k => req[j] \notin {"unopened", "queued"}

\* The arms before the third have nothing to do: the select polls it only then.
EarlierArmsPending == ~(fired /\ ~going_away) /\ ~(going_away /\ idle)

\* accept yields a stream below the GOAWAY identifier: handle enters it in the
\* quota before spawning its task, and the next pass starts.  The drain's
\* Notified is dropped with the pass, which keeps any permit in place.
AcceptRequest(k) ==
    /\ pc = "waiting"
    /\ EarlierArmsPending
    /\ NextQueued(k)
    /\ goaway = None \/ Id(k) < goaway
    /\ last_accepted' = Id(k)
    /\ req' = [req EXCEPT ![k] = "entered"]
    /\ pending' = pending + 1
    /\ late' = IF lapsed /\ ~authenticated THEN late + 1 ELSE late
    /\ MoveTo("poll")
    /\ UNCHANGED <<going_away, goaway, bounded, permits, idle, authVars, envVars>>

\* accept rejects a stream at or past the identifier, and keeps waiting.
RejectRequest(k) ==
    /\ pc = "waiting"
    /\ EarlierArmsPending
    /\ NextQueued(k)
    /\ goaway # None /\ Id(k) >= goaway
    /\ req' = [req EXCEPT ![k] = "rejected"]
    /\ UNCHANGED <<loopVars, quotaVars, authVars, envVars>>

\* accept_bi reports that the connection is gone.
AcceptFails ==
    /\ pc = "waiting"
    /\ EarlierArmsPending
    /\ lost
    /\ Return("failed")
    /\ UNCHANGED <<going_away, goaway, last_accepted, bounded, late, req,
                   quotaVars, authVars, envVars>>

-------------------------------------------------------------------------------
(* A request's task: handle_request, inside the Pending its task holds.      *)

Advance(k, from, to) ==
    /\ req[k] = from
    /\ req' = [req EXCEPT ![k] = to]

\* resolve fails, or the answer is a 400 or a 407: the request takes no slot.
Refuse(k) ==
    /\ Advance(k, "entered", "leaving")
    /\ UNCHANGED <<loopVars, quotaVars, authVars, envVars>>

\* The credentials pass: mark_authenticated swaps the gate, and whoever found
\* it closed goes on to raise the stream allowance.
MarkAuthenticated(k) ==
    /\ Advance(k, "entered", IF authenticated THEN "passed" ELSE "raising")
    /\ authenticated' = TRUE
    /\ UNCHANGED <<loopVars, quotaVars, raises, envVars>>

\* admit_configured_streams
RaiseStreams(k) ==
    /\ Advance(k, "raising", "passed")
    /\ raises' = raises + 1
    /\ UNCHANGED <<loopVars, quotaVars, authenticated, envVars>>

\* Quota::acquire takes a permit if there is one.
Acquire(k) ==
    /\ permits > 0
    /\ Advance(k, "passed", "tunnel")
    /\ permits' = permits - 1
    /\ UNCHANGED <<loopVars, pending, idle, authVars, envVars>>

\* Otherwise the answer is a 503.
LimitReached(k) ==
    /\ permits = 0
    /\ Advance(k, "passed", "leaving")
    /\ UNCHANGED <<loopVars, quotaVars, authVars, envVars>>

MutantKeepPermit(k) ==
    /\ Advance(k, "tunnel", "released")
    /\ UNCHANGED <<loopVars, quotaVars, authVars, envVars>>

\* The tunnel is over.  Slot::drop gives the permit back first ...
ReleasePermit(k) ==
    /\ Advance(k, "tunnel", "released")
    /\ permits' = permits + 1
    /\ UNCHANGED <<loopVars, pending, idle, authVars, envVars>>

\* ... and signals the drain second.
NotifySlot(k) ==
    /\ Advance(k, "released", "leaving")
    /\ idle' = TRUE
    /\ UNCHANGED <<loopVars, permits, pending, authVars, envVars>>

\* Pending::drop, the last thing the task does: decrement first ...
LeavePending(k) ==
    /\ Advance(k, "leaving", "left")
    /\ pending' = pending - 1
    /\ UNCHANGED <<loopVars, permits, idle, authVars, envVars>>

MutantNoSignal(k) ==
    /\ Advance(k, "left", "done")
    /\ UNCHANGED <<loopVars, quotaVars, authVars, envVars>>

\* ... and signal second.
NotifyPending(k) ==
    /\ Advance(k, "left", "done")
    /\ idle' = TRUE
    /\ UNCHANGED <<loopVars, permits, pending, authVars, envVars>>

-------------------------------------------------------------------------------
(* The peer, the clock and the signal.                                       *)

\* The peer opens its next request stream.
Open(k) ==
    /\ ~lost
    /\ \A j \in Reqs : j < k => req[j] # "unopened"
    /\ Advance(k, "unopened", "queued")
    /\ UNCHANGED <<loopVars, quotaVars, authVars, envVars>>

\* Twice the idle timeout since the handshake has passed.
DeadlinePasses ==
    /\ ~lapsed
    /\ lapsed' = TRUE
    /\ UNCHANGED <<loopVars, req, quotaVars, authVars, fired, lost>>

\* Trigger::fire
Fire ==
    /\ ~fired
    /\ fired' = TRUE
    /\ UNCHANGED <<loopVars, req, quotaVars, authVars, lapsed, lost>>

\* The peer closes the connection, it times out, or a request closes it for
\* too many failed authentications.
Lose ==
    /\ ~lost
    /\ lost' = TRUE
    /\ UNCHANGED <<loopVars, req, quotaVars, authVars, lapsed, fired>>

\* The connection has ended and so has every request that was accepted.
Finished ==
    /\ pc = "ended"
    /\ \A k \in Reqs : req[k] \in {"unopened", "queued", "rejected", "done"}
    /\ UNCHANGED vars

Loop ==
    \/ StartGoaway \/ GoawayWritten \/ GoawayFails \/ GoawayIsBusy
    \/ StartPass \/ DrainIsBusy \/ Arm \/ Woken
    \/ ReadFlag \/ ReadClock \/ Elapsed
    \/ \E k \in Reqs : AcceptRequest(k) \/ RejectRequest(k)
    \/ AcceptFails

\* What a request's task does without waiting for anybody.
Running(k) ==
    \/ RaiseStreams(k) \/ Acquire(k) \/ LimitReached(k)
    \/ NotifySlot(k) \/ LeavePending(k) \/ NotifyPending(k)

Request(k) ==
    \/ Refuse(k) \/ MarkAuthenticated(k) \/ ReleasePermit(k)
    \/ Running(k)

Next ==
    \/ Loop
    \/ \E k \in Reqs : Request(k) \/ Open(k)
    \/ DeadlinePasses \/ Fire \/ Lose
    \/ Finished

Spec == Init /\ [][Next]_vars

\* The loop and the request tasks are polled while they can move.  The peer
\* owes nothing: it need not open streams, send headers or end a tunnel.
FairSpec ==
    /\ Spec
    /\ WF_vars(Loop)
    /\ \A k \in Reqs : WF_vars(Running(k))

-------------------------------------------------------------------------------
(* Safety                                                                    *)

\* The budget counts exactly: the permits missing from the semaphore are the
\* tunnels that hold a slot, and the pending count is the requests accepted
\* whose tasks have not ended, so live() cannot underflow.
QuotaExact ==
    /\ permits = Limit - Cardinality(Tunnels)
    /\ pending = Cardinality(InService)

\* The drain never closes the connection on an accepted request that is still
\* being served, although is_busy reads the two counts one after the other and
\* a request moves from the one to the other meanwhile.
DrainedMeansIdle ==
    reason = "drained" => InService = {}

\* No wake-up is lost: a drain that waits while nothing is being served has a
\* permit to wake it, or a request that is just about to leave one.
NoLostWakeup ==
    pc = "waiting" /\ going_away /\ InService = {}
        => idle \/ \E k \in Reqs : req[k] = "left"

\* The GOAWAY identifier means what it tells the peer: every request below it
\* is served, and only requests at or past it are rejected.
GoawayKept ==
    \A k \in Reqs :
        /\ req[k] = "rejected" => goaway # None /\ Id(k) >= goaway
        /\ req[k] \notin {"unopened", "queued", "rejected"}
              => goaway = None \/ Id(k) < goaway

\* However many requests authenticate at once, the stream allowance is raised
\* by one of them only, and it has been raised by the time a request that
\* authenticated takes a slot unless the one that came first is doing it.
RaisedOnce ==
    /\ raises <= 1
    /\ authenticated <=> raises = 1 \/ \E k \in Reqs : req[k] = "raising"

\* Streams do not step over the deadline: an unauthenticated connection gets at
\* most the one stream that a wait already under way delivers, however fast
\* the peer opens them.
DeadlineNotSteppedOver == late <= 1

\* Once the gate is open the connection is not closed as silent, unless the
\* gate opened between next_request's two reads.  A lapsed wait decides nothing.
AuthenticatedIsNotSilent ==
    []((authenticated /\ pc # "clock" /\ pc # "ended")
            => [](reason # "silent"))

-------------------------------------------------------------------------------
(* Liveness                                                                  *)

\* The drain ends: once the connection is going away and nothing is in service,
\* handle returns.
DrainEnds ==
    (going_away /\ InService = {}) ~> (pc = "ended")

\* No connection stays unauthenticated past its deadline, whatever its peer
\* sends and whether or not it is going away.
DeadlineHolds ==
    lapsed ~> (authenticated \/ pc = "ended")

\* The deadline closes exactly the connections it is meant for: those still
\* unauthenticated when it is reached, all of them and no others (handle, next_request).
DeadlineIsFair == DeadlineHolds /\ AuthenticatedIsNotSilent
===============================================================================
