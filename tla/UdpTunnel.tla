------------------------------- MODULE UdpTunnel --------------------------------
(***************************************************************************)
(* The CONNECT-UDP sessions of one connection: `run` and `Session` of        *)
(* tunnel/udp.rs, the routing table and queues that feed them (`Shared` and  *)
(* `DatagramReceiver` of h3/connection.rs) and the allowance they share for  *)
(* packets to targets that have not answered (`charge_unanswered` and        *)
(* `refund_unanswered` of tunnel/mod.rs).                                    *)
(*                                                                         *)
(* A payload is one unit.  Time is a flag per session: whether its idle       *)
(* deadline has passed.                                                      *)
(***************************************************************************)
EXTENDS Integers, FiniteSets, FiniteSetsExt

CONSTANTS Sessions,                           \* bound: requests at a time
          INBOUND_QUEUE_DEPTH,
          unanswered_packet_budget,           \* of one session, 0 for none
          CONNECTION_UNANSWERED_MULTIPLIER,
          U32_MAX,                            \* where their product saturates
          MaxCapsules                         \* bound: capsules in one chunk

ASSUME BudgetAssumption ==
    /\ IsFiniteSet(Sessions)
    /\ INBOUND_QUEUE_DEPTH \in Nat \ {0}
    /\ unanswered_packet_budget \in Nat /\ MaxCapsules \in Nat
    /\ CONNECTION_UNANSWERED_MULTIPLIER \in Nat \ {0, 1}
ASSUME SaturationAssumption == U32_MAX \in Nat

saturating_mul(m, n) == IF m * n > U32_MAX THEN U32_MAX ELSE m * n
total == saturating_mul(unanswered_packet_budget, CONNECTION_UNANSWERED_MULTIPLIER)

VARIABLES
    pc,            \* where each request's task is
    routes,        \* the Quarter Stream IDs in the routing table
    queue,         \* how many payloads each session's queue holds
    expired,       \* whether the idle deadline has passed
    left,          \* capsules still to decode of the chunk in hand
    mid,           \* whether the decoder is inside a capsule
    client,        \* the client's half of the stream
    reply,         \* whether a packet of the target's waits in the socket
    settings,      \* whether the peer can be sent datagrams
    send, recv,    \* how the two halves of the stream were ended
    answered,      \* whether unanswered_budget is None for an answer
    charged,       \* charged_unanswered
    budget,        \* unanswered_connection_budget
    attempts,      \* history: payloads tried before the first answer
    forfeited      \* history: those of earlier sessions never answered

decoding == <<left, mid>>
ends == <<send, recv>>
peers == <<client, reply, settings>>
money == <<answered, charged, budget, attempts, forfeited>>
vars == <<pc, routes, queue, expired, decoding, peers, ends, money>>

Codes == {"DATAGRAM_ERROR", "REQUEST_CANCELLED", "MESSAGE_ERROR"}
Running == {"top", "wait", "decode", "write"}

TypeOK ==
    /\ pc \in [Sessions -> Running \union {"new", "admit", "ended"}]
    /\ routes \subseteq Sessions
    /\ queue \in [Sessions -> 0 .. INBOUND_QUEUE_DEPTH]
    /\ expired \in [Sessions -> BOOLEAN] /\ mid \in [Sessions -> BOOLEAN]
    /\ left \in [Sessions -> 0 .. MaxCapsules]
    /\ client \in [Sessions -> {"open", "fin", "reset"}]
    /\ reply \in [Sessions -> BOOLEAN] /\ settings \in BOOLEAN
    /\ send \in [Sessions -> Codes \union {"open", "lost", "fin", "refused"}]
    /\ recv \in [Sessions -> Codes \union {"open", "NO_ERROR", "refused"}]
    /\ answered \in [Sessions -> BOOLEAN]
    /\ charged \in [Sessions -> 0 .. unanswered_packet_budget]
    /\ budget \in 0 .. total
    /\ attempts \in [Sessions -> Nat] /\ forfeited \in Nat

Init ==
    /\ pc = [s \in Sessions |-> "new"]
    /\ routes = {}
    /\ queue = [s \in Sessions |-> 0]
    /\ expired = [s \in Sessions |-> FALSE]
    /\ left = [s \in Sessions |-> 0]
    /\ mid = [s \in Sessions |-> FALSE]
    /\ client = [s \in Sessions |-> "open"]
    /\ reply = [s \in Sessions |-> FALSE]
    /\ settings \in BOOLEAN
    /\ send = [s \in Sessions |-> "open"]
    /\ recv = [s \in Sessions |-> "open"]
    /\ answered = [s \in Sessions |-> FALSE]
    /\ charged = [s \in Sessions |-> 0]
    /\ budget = total
    /\ attempts = [s \in Sessions |-> 0] /\ forfeited = 0

Goto(s, l) == pc' = [pc EXCEPT ![s] = l]

-------------------------------------------------------------------------------
(* How a step leaves the session.  Dropping it gives up its claim, and its     *)
(* queue with it.                                                            *)

Drop(s) ==
    /\ Goto(s, "ended")
    /\ routes' = routes \ {s}
    /\ UNCHANGED expired

\* Step::Stop and the idle timeout: the tidy end.  `finish` fails on a stream
\* the client has stopped.
Stop(s) ==
    /\ recv' = [recv EXCEPT ![s] = "NO_ERROR"]
    /\ send' = [send EXCEPT ![s] = IF @ = "lost" THEN @ ELSE "fin"]
    /\ Drop(s)

\* Step::Aborted, the sending half having been reset with the same code.
Aborted(s, code) ==
    /\ send' = [send EXCEPT ![s] = code]
    /\ recv' = [recv EXCEPT ![s] = code]
    /\ Drop(s)

\* Step::Continue
Continue(s, next) ==
    /\ Goto(s, next)
    /\ UNCHANGED <<routes, ends, expired>>

\* Step::Continue, a packet having crossed the proxy.
touch(s, next) ==
    /\ Goto(s, next)
    /\ expired' = [expired EXCEPT ![s] = FALSE]
    /\ UNCHANGED <<routes, ends>>

Dequeue(s, n) ==
    queue' = [queue EXCEPT ![s] = IF s \in routes' THEN @ - n ELSE 0]

-------------------------------------------------------------------------------
(* Before the session: the claim comes first, then resolution and policy,      *)
(* the socket and the 200.                                                   *)

\* Another request takes the place of one that is over.
NewRequest(s) ==
    /\ pc[s] = "ended"
    /\ forfeited' = IF answered[s] THEN forfeited ELSE forfeited + attempts[s]
    /\ pc' = [pc EXCEPT ![s] = "new"]
    /\ expired' = [expired EXCEPT ![s] = FALSE]
    /\ left' = [left EXCEPT ![s] = 0] /\ mid' = [mid EXCEPT ![s] = FALSE]
    /\ client' = [client EXCEPT ![s] = "open"] /\ reply' = [reply EXCEPT ![s] = FALSE]
    /\ send' = [send EXCEPT ![s] = "open"] /\ recv' = [recv EXCEPT ![s] = "open"]
    /\ answered' = [answered EXCEPT ![s] = FALSE]
    /\ charged' = [charged EXCEPT ![s] = 0] /\ attempts' = [attempts EXCEPT ![s] = 0]
    /\ UNCHANGED <<routes, queue, settings, budget>>

Claim(s) ==
    /\ pc[s] = "new"
    /\ s \notin routes
    /\ routes' = routes \union {s}
    /\ Goto(s, "admit")
    /\ UNCHANGED <<queue, expired, decoding, peers, ends, money>>

\* Malformed, refused by admit_target or bind_any, or the 200 not taken: the
\* answer, or the reset in its place, is tunnel/status.rs's.
Refused(s) ==
    /\ pc[s] \in {"new", "admit"}
    /\ send' = [send EXCEPT ![s] = "refused"] /\ recv' = [recv EXCEPT ![s] = "refused"]
    /\ Drop(s) /\ Dequeue(s, 0)
    /\ UNCHANGED <<decoding, peers, money>>

Establish(s) ==
    /\ pc[s] = "admit"
    /\ Continue(s, "top")
    /\ UNCHANGED <<queue, decoding, peers, money>>

-------------------------------------------------------------------------------
(* forward_to_target                                                         *)

Unlimited(s) == answered[s] \/ unanswered_packet_budget = 0

\* `unanswered_budget` is what the session has not charged.
Muted(s) == ~Unlimited(s) /\ charged[s] = unanswered_packet_budget

charge_unanswered(s) ==
    /\ budget > 0
    /\ budget' = budget - 1
    /\ charged' = [charged EXCEPT ![s] = @ + 1]
    /\ attempts' = [attempts EXCEPT ![s] = @ + 1]
    /\ UNCHANGED <<answered, forfeited>>

\* The payload went out, the socket refused it, or the socket is broken.
SendToTarget(s, next) == touch(s, next) \/ Continue(s, next) \/ Stop(s)

forward_to_target(s, next) ==
    \/ Aborted(s, "DATAGRAM_ERROR") /\ UNCHANGED money      \* larger than UDP allows
    \/ Muted(s) /\ Continue(s, next) /\ UNCHANGED money
    \/ Unlimited(s) /\ SendToTarget(s, next) /\ UNCHANGED money
    \/ /\ ~Unlimited(s) /\ ~Muted(s)
       /\ \/ charge_unanswered(s) /\ SendToTarget(s, next)
          \/ budget = 0 /\ Aborted(s, "REQUEST_CANCELLED") /\ UNCHANGED money

-------------------------------------------------------------------------------
(* Session::run                                                              *)

MutantTimeoutOnly(s) ==
    /\ pc[s] = "top"
    /\ Continue(s, "wait")
    /\ UNCHANGED <<queue, decoding, peers, money>>

\* before_deadline reads the clock before it waits.
ReadClock(s) ==
    /\ pc[s] = "top"
    /\ IF expired[s] THEN Stop(s) ELSE Continue(s, "wait")
    /\ Dequeue(s, 0)
    /\ UNCHANGED <<decoding, peers, money>>

\* The deadline passes with no source ready; a ready one would win.
WaitExpires(s) ==
    /\ pc[s] = "wait"
    /\ expired[s]
    /\ queue[s] = 0 /\ ~reply[s] /\ client[s] = "open"
    /\ Stop(s) /\ Dequeue(s, 0)
    /\ UNCHANGED <<decoding, peers, money>>

\* Event::Inbound
Inbound(s) ==
    /\ pc[s] = "wait"
    /\ queue[s] > 0
    /\ forward_to_target(s, "top") /\ Dequeue(s, 1)
    /\ UNCHANGED <<decoding, peers>>

refund_unanswered(n) == Min({budget + n, total})

MutantRefundAgain(s) ==
    /\ pc[s] = "wait"
    /\ reply[s]
    /\ reply' = [reply EXCEPT ![s] = FALSE]
    /\ answered' = [answered EXCEPT ![s] = TRUE]
    /\ budget' = refund_unanswered(charged[s])
    /\ touch(s, IF settings THEN "top" ELSE "write")
    /\ UNCHANGED <<queue, decoding, client, settings, charged, attempts, forfeited>>

\* Event::Socket(Ok) and forward_to_client up to the write: a datagram goes out
\* or is dropped at once, a capsule is written to the stream.
FromTarget(s) ==
    /\ pc[s] = "wait"
    /\ reply[s]
    /\ reply' = [reply EXCEPT ![s] = FALSE]
    /\ answered' = [answered EXCEPT ![s] = TRUE]
    /\ charged' = [charged EXCEPT ![s] = 0]
    /\ budget' = refund_unanswered(charged[s])
    /\ touch(s, IF settings THEN "top" ELSE "write")
    /\ UNCHANGED <<queue, decoding, client, settings, attempts, forfeited>>

\* Event::Socket(Err): read_verdict.
SocketFails(s) ==
    /\ pc[s] = "wait"
    /\ Continue(s, "top") \/ Stop(s)
    /\ Dequeue(s, 0)
    /\ UNCHANGED <<decoding, peers, money>>

(* The capsule write of forward_to_client, bounded by the stall budget.       *)

Written(s) ==
    /\ pc[s] = "write"
    /\ Continue(s, "top")
    /\ UNCHANGED <<queue, decoding, peers, money>>

WriteFails(s) ==
    /\ pc[s] = "write"
    /\ send' = [send EXCEPT ![s] = "lost"] /\ recv' = [recv EXCEPT ![s] = "NO_ERROR"]
    /\ Drop(s) /\ Dequeue(s, 0)
    /\ UNCHANGED <<decoding, peers, money>>

MutantTidyStall(s) ==
    /\ pc[s] = "write"
    /\ Stop(s) /\ Dequeue(s, 0)
    /\ UNCHANGED <<decoding, peers, money>>

WriteStalled(s) ==
    /\ pc[s] = "write"
    /\ Aborted(s, "REQUEST_CANCELLED") /\ Dequeue(s, 0)
    /\ UNCHANGED <<decoding, peers, money>>

-------------------------------------------------------------------------------
(* Event::Stream and handle_stream_chunk                                      *)

ReadChunk(s) ==
    /\ pc[s] = "wait"
    /\ client[s] = "open"
    /\ left' = [left EXCEPT ![s] = MaxCapsules]
    /\ Continue(s, "decode")
    /\ UNCHANGED <<queue, mid, peers, money>>

\* A DATAGRAM capsule of context 0, or one that is passed over.
NextCapsule(s) ==
    /\ pc[s] = "decode"
    /\ left[s] > 0
    /\ left' = [left EXCEPT ![s] = @ - 1]
    /\ mid' = [mid EXCEPT ![s] = FALSE]
    /\ \/ forward_to_target(s, "decode")
       \/ Continue(s, "decode") /\ UNCHANGED money
    /\ Dequeue(s, 0)
    /\ UNCHANGED peers

\* Ok(None): the chunk ends, inside a capsule or not.
MoreNeeded(s) ==
    /\ pc[s] = "decode"
    /\ \E inside \in BOOLEAN : mid' = [mid EXCEPT ![s] = inside]
    /\ left' = [left EXCEPT ![s] = 0]
    /\ Continue(s, "top")
    /\ UNCHANGED <<queue, peers, money>>

Malformed(s) ==
    /\ pc[s] = "decode"
    /\ Aborted(s, "DATAGRAM_ERROR") /\ Dequeue(s, 0)
    /\ UNCHANGED <<decoding, peers, money>>

\* The client's FIN, at a capsule boundary or not, or the stream's failure.
StreamEnds(s) ==
    /\ pc[s] = "wait"
    /\ client[s] # "open"
    /\ IF client[s] = "fin" /\ mid[s] THEN Aborted(s, "MESSAGE_ERROR") ELSE Stop(s)
    /\ Dequeue(s, 0)
    /\ UNCHANGED <<decoding, peers, money>>

-------------------------------------------------------------------------------
(* The router, the peers and the clock                                        *)

\* A datagram is queued for the session that claimed it, and dropped when there
\* is none or its queue is full.
deliver(s) ==
    /\ s \in routes
    /\ queue[s] < INBOUND_QUEUE_DEPTH
    /\ queue' = [queue EXCEPT ![s] = @ + 1]
    /\ UNCHANGED <<pc, routes, expired, decoding, peers, ends, money>>

TargetAnswers(s) ==
    /\ pc[s] \in Running /\ ~reply[s]
    /\ attempts[s] > 0 \/ Unlimited(s)
    /\ reply' = [reply EXCEPT ![s] = TRUE]
    /\ UNCHANGED <<pc, routes, queue, expired, decoding, client, settings, ends, money>>

ClientEnds(s) ==
    /\ pc[s] \in Running \union {"admit"} /\ client[s] = "open"
    /\ \E how \in {"fin", "reset"} : client' = [client EXCEPT ![s] = how]
    /\ UNCHANGED <<pc, routes, queue, expired, decoding, reply, settings, ends, money>>

\* The peer's SETTINGS arrive, on a connection that carries datagrams.
SettingsArrive ==
    /\ ~settings
    /\ settings' = TRUE
    /\ UNCHANGED <<pc, routes, queue, expired, decoding, client, reply, ends, money>>

DeadlinePasses(s) ==
    /\ pc[s] \in Running /\ ~expired[s]
    /\ expired' = [expired EXCEPT ![s] = TRUE]
    /\ UNCHANGED <<pc, routes, queue, decoding, peers, ends, money>>

-------------------------------------------------------------------------------

\* A step of the session's own task once it is established.
Run(s) ==
    \/ ReadClock(s) \/ WaitExpires(s) \/ Inbound(s) \/ FromTarget(s) \/ SocketFails(s)
    \/ Written(s) \/ WriteFails(s) \/ WriteStalled(s)
    \/ ReadChunk(s) \/ NextCapsule(s) \/ MoreNeeded(s) \/ Malformed(s) \/ StreamEnds(s)

Next ==
    \/ SettingsArrive
    \/ \E s \in Sessions :
          \/ NewRequest(s) \/ Claim(s) \/ Refused(s) \/ Establish(s) \/ Run(s)
          \/ deliver(s) \/ TargetAnswers(s) \/ ClientEnds(s) \/ DeadlinePasses(s)

Spec == Init /\ [][Next]_vars

-------------------------------------------------------------------------------
(* Safety                                                                    *)

\* The connection's allowance is short of its total by exactly what was tried
\* towards targets that have not answered, by sessions long gone included; and
\* no session tries more than its own budget of those.
BudgetExact ==
    LET silent == {s \in Sessions : ~answered[s]}
    IN  /\ budget = total - forfeited - MapThenSumSet(LAMBDA s : attempts[s], silent)
        /\ \A s \in silent : attempts[s] <= unanswered_packet_budget

\* The routing table holds a claim for exactly the requests being admitted and
\* the sessions running, and payloads wait for nobody else.
RoutesExact ==
    \A s \in Sessions :
        /\ s \in routes <=> pc[s] \in Running \union {"admit"}
        /\ s \notin routes => queue[s] = 0

\* One verdict on both halves: a session that was reset stops receiving with the
\* same code, and one that ends tidily says so on both.
SameVerdict ==
    \A s \in Sessions :
        pc[s] = "ended" =>
            \/ send[s] \in {"fin", "lost"} /\ recv[s] = "NO_ERROR"
            \/ send[s] \in Codes \union {"refused"} /\ recv[s] = send[s]

\* A stream is never finished over a capsule whose write was cut short.
FinIsWhole ==
    [][\A s \in Sessions : pc[s] = "write" => send'[s] # "fin"]_vars

\* A session whose target has answered is past both budgets: only a client that
\* stops reading has it cancelled, however little the connection has left.
AnsweredIsFree ==
    [][\A s \in Sessions :
          answered[s] /\ send'[s] = "REQUEST_CANCELLED" =>
              send[s] = "REQUEST_CANCELLED" \/ pc[s] = "write"]_vars

\* A session past its deadline comes to its end unless a packet crosses the proxy,
\* even if its client keeps its stream or the socket's error queue busy: each step
\* of its task that leaves it past its deadline brings it nearer to the reading of
\* the clock, where it stops (before_deadline).
Overdue(s) == expired[s] /\ pc[s] \in Running
StepsLeft(s) ==
    CASE pc[s] = "top" -> 0
      [] pc[s] = "write" -> 1
      [] pc[s] = "decode" -> 2 + left[s]
      [] pc[s] = "wait" -> 3 + MaxCapsules
IdleEnds ==
    [][\A s \in Sessions :
          Overdue(s) /\ Overdue(s)' /\ Run(s) => StepsLeft(s)' < StepsLeft(s)]_vars
===============================================================================
