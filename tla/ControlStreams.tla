----------------------------- MODULE ControlStreams -----------------------------
(***************************************************************************)
(* The streams an HTTP/3 connection stands on, h3/connection.rs: the three   *)
(* this server opens in `handshake`, the unidirectional ones the peer opens  *)
(* (`serve_peer`, `serve_stream`, `serve_control`, `serve_qpack`), and how a  *)
(* violation found on any of them ends the connection (`Handle::fail`).      *)
(*                                                                         *)
(* Every stream has a task of its own.  A task may be overtaken between two   *)
(* statements, so `fail` takes two steps, storing the violation and closing,  *)
(* and so does the look at close_reason before it.  A task that is aborted    *)
(* stops at its next await, never between those statements.                  *)
(*                                                                         *)
(* What the peer sends is chosen when it is read.  quinn hands out what it    *)
(* had already buffered after the connection is closed, so a read may return  *)
(* data then as well as the loss of the connection.                          *)
(***************************************************************************)
EXTENDS Naturals, FiniteSets

CONSTANTS Streams,                   \* bound: streams the peer opens
          Ids,                       \* identifiers GOAWAY and MAX_PUSH_ID name
          Bytes,                     \* octets of the QPACK streams
          MAX_INTEGER_CONTINUATION,
          Main, Peer,                \* the tasks of `handle` and `serve_peer`
          None

ASSUME ControlAssumption ==
    /\ IsFiniteSet(Streams) /\ Main \notin Streams /\ Peer \notin Streams
    /\ Main # Peer
    /\ Ids \subseteq Nat /\ Bytes \subseteq 0 .. 255 /\ None \notin Ids
    /\ MAX_INTEGER_CONTINUATION \in Nat

VARIABLES
    pc,             \* where each task is
    verdict,        \* the violation a task is in `fail` with
    opened,         \* how many of this server's three streams are open
    role,           \* the critical role each of the peer's streams announced
    seen,           \* control_seen, encoder_seen and decoder_seen
    stopped,        \* streams this server asked the peer to stop sending on
    control,        \* Control: what the control stream has said
    progress,       \* QpackProgress of the decoder stream
    peer_datagrams,
    local_error,    \* the first violation recorded
    wire,           \* the CONNECTION_CLOSE that ended the QUIC connection
    close_reason,   \* the reason quinn has stored for it
    report,         \* what `handle` returns
    judged          \* history: a critical stream's end was already a violation
                    \* when the peer closed the connection

tasks == <<pc, verdict>>
streams == <<role, seen, stopped>>
rules == <<control, progress, peer_datagrams>>
ending == <<local_error, wire, close_reason, report, judged>>
vars == <<tasks, opened, streams, rules, ending>>

Tasks == Streams \union {Main, Peer}
Critical == {"control", "encoder", "decoder"}
Types == Critical \union {"push", "unknown"}
Codes == {"NO_ERROR", "AUTH_FAILURE_LIMIT", "DATAGRAM_ERROR",
          "STREAM_CREATION_ERROR", "CLOSED_CRITICAL_STREAM", "FRAME_ERROR",
          "FRAME_UNEXPECTED", "MISSING_SETTINGS", "ID_ERROR",
          "ENCODER_STREAM_ERROR", "DECODER_STREAM_ERROR"}
Awaiting == {"typing", "opening", "serving"} \union Critical
Violations == Codes \ {"NO_ERROR", "AUTH_FAILURE_LIMIT"}
Reports == [kind : {"Local"}, code : Codes]
           \union [kind : {"Ok", "Transport", "Peer"}, code : {None}]

Reasons == {"peer", "LocallyClosed"}

ASSUME NoneAssumption == None \notin Codes \union Critical \union Reports \union Reasons

TypeOK ==
    /\ pc \in [Tasks -> Awaiting \union
                        {"idle", "ended", "fail", "close", "gone"}]
    /\ verdict \in [Tasks -> Codes \union {None}]
    /\ opened \in 0 .. 3
    /\ role \in [Streams -> Critical \union {None}]
    /\ seen \subseteq Critical /\ stopped \subseteq Streams
    /\ control \in [settings : BOOLEAN, goaway : Ids \union {None},
                    max_push_id : Ids \union {None}]
    /\ progress \in [continuing : BOOLEAN,
                     continuation : 0 .. MAX_INTEGER_CONTINUATION]
    /\ peer_datagrams \in BOOLEAN
    /\ local_error \in Codes \union {None}
    /\ wire \in {"open", "peer"} \union Codes
    /\ close_reason \in Reasons \union {None}
    /\ report \in Reports \union {None} /\ judged \in BOOLEAN

NewControl == [settings |-> FALSE, goaway |-> None, max_push_id |-> None]
NewProgress == [continuing |-> FALSE, continuation |-> 0]

Init ==
    /\ pc = [t \in Tasks |-> IF t = Main THEN "opening" ELSE "idle"]
    /\ verdict = [t \in Tasks |-> None]
    /\ opened = 0
    /\ role = [s \in Streams |-> None] /\ seen = {} /\ stopped = {}
    /\ control = NewControl /\ progress = NewProgress
    /\ peer_datagrams = FALSE
    /\ local_error = None /\ wire = "open" /\ close_reason = None
    /\ report = None /\ judged = FALSE

Goto(t, there) == pc' = [pc EXCEPT ![t] = there]

\* The reading loop of a stream is left, and its locals with it.
Leave(s) ==
    /\ control' = IF pc[s] = "control" THEN NewControl ELSE control
    /\ progress' = IF pc[s] = "decoder" THEN NewProgress ELSE progress
    /\ UNCHANGED peer_datagrams

(***************************************************************************)
(* Closing.  The first close is the one on the wire.  The reason quinn stores *)
(* is overwritten by every close of this endpoint, the peer's included.      *)
(***************************************************************************)
ClosesLocally(code) ==
    /\ wire' = IF wire = "open" THEN code ELSE wire
    /\ close_reason' = "LocallyClosed"

\* A task enters `fail` with a violation of its own.
Fails(t, code) ==
    /\ Goto(t, "fail")
    /\ verdict' = [verdict EXCEPT ![t] = code]

RecordOwn(t) ==
    /\ pc[t] = "fail"
    /\ local_error' = IF local_error = None THEN verdict[t] ELSE local_error
    /\ Goto(t, "close")
    /\ UNCHANGED <<verdict, opened, streams, rules, wire, close_reason, report, judged>>

\* `record`: the first violation is kept, and every caller is given that one.
record(t) ==
    /\ pc[t] = "fail"
    /\ local_error' = IF local_error = None THEN verdict[t] ELSE local_error
    /\ verdict' = [verdict EXCEPT ![t] = local_error']
    /\ Goto(t, "close")
    /\ UNCHANGED <<opened, streams, rules, wire, close_reason, report, judged>>

Ok == [kind |-> "Ok", code |-> None]

\* The rest of `fail`: close with the stored code.  In every caller nothing but
\* a return follows.  The connection's own task returns the stored violation
\* from a handshake; a GOAWAY that failed ends its loop without an error.
Close(t) ==
    /\ pc[t] = "close"
    /\ ClosesLocally(verdict[t])
    /\ report' = IF t # Main THEN report
                 ELSE IF opened = 3 THEN Ok
                 ELSE [kind |-> "Local", code |-> verdict[t]]
    /\ verdict' = [verdict EXCEPT ![t] = None]
    /\ Goto(t, "gone")
    /\ UNCHANGED <<opened, streams, rules, local_error, judged>>

\* A critical stream's end has been judged a violation.
EndJudged ==
    \/ local_error = "CLOSED_CRITICAL_STREAM"
    \/ \E t \in Tasks : verdict[t] = "CLOSED_CRITICAL_STREAM"

\* The peer closes the connection, or falls silent and it times out.
PeerCloses ==
    /\ wire = "open"
    /\ wire' = "peer" /\ close_reason' = "peer" /\ judged' = EndJudged
    /\ UNCHANGED <<tasks, opened, streams, rules, local_error, report>>

\* A request's task closes the connection after too many failures.
AuthenticationLimit ==
    /\ pc[Main] = "serving"
    /\ ClosesLocally("AUTH_FAILURE_LIMIT")
    /\ UNCHANGED <<tasks, opened, streams, rules, local_error, report, judged>>

\* The QUIC error of an operation on a closed connection.
Plain ==
    [kind |-> IF close_reason = "peer" THEN "Peer" ELSE "Transport", code |-> None]

\* Our own reason is restored where quinn says this endpoint closed the
\* connection, which it also says of one the peer had closed before.
interpret ==
    IF close_reason = "LocallyClosed" /\ local_error # None
    THEN [kind |-> "Local", code |-> local_error] ELSE Plain

(***************************************************************************)
(* The connection's own task.                                                *)
(***************************************************************************)
\* The control stream with its SETTINGS, then the encoder and decoder streams;
\* after the third, serve_peer starts and the connection accepts requests.
OpenCritical ==
    /\ pc[Main] = "opening" /\ wire = "open"
    /\ opened' = opened + 1
    /\ pc' = IF opened' < 3 THEN pc
             ELSE [pc EXCEPT ![Main] = "serving", ![Peer] = "serving"]
    /\ UNCHANGED <<verdict, streams, rules, ending>>

\* The peer gives no credit for a stream within one idle timeout.
HandshakeTimesOut ==
    /\ pc[Main] = "opening" /\ wire = "open"
    /\ Fails(Main, "STREAM_CREATION_ERROR")
    /\ UNCHANGED <<opened, streams, rules, ending>>

\* A write to one of this server's streams finds it stopped by the peer: the
\* stream's type, SETTINGS or a GOAWAY.
critical_write ==
    /\ pc[Main] \in {"opening", "serving"} /\ wire = "open"
    /\ Fails(Main, "CLOSED_CRITICAL_STREAM")
    /\ UNCHANGED <<opened, streams, rules, ending>>

\* Opening a stream, or a write, on a connection that is over.
HandshakeLost ==
    /\ pc[Main] = "opening" /\ wire # "open"
    /\ report' = Plain
    /\ Goto(Main, "gone")
    /\ UNCHANGED <<verdict, opened, streams, rules, local_error, wire, close_reason,
                   judged>>

\* `accept` on a connection that is over.  The Connection is dropped with it,
\* which closes once more.
AcceptFails ==
    /\ pc[Main] = "serving" /\ wire # "open"
    /\ report' = interpret
    /\ ClosesLocally("NO_ERROR")
    /\ Goto(Main, "gone")
    /\ UNCHANGED <<verdict, opened, streams, rules, local_error, judged>>

\* The loop ends by itself: drained, or silent, which closes quietly and says
\* so.  Dropping the Connection closes it and aborts the peer's task.
Finish ==
    /\ pc[Main] = "serving"
    /\ ClosesLocally("NO_ERROR")
    /\ report' \in {Ok, [kind |-> "Local", code |-> "NO_ERROR"]}
    /\ Goto(Main, "gone")
    /\ UNCHANGED <<verdict, opened, streams, rules, local_error, judged>>

AbortedAlone(t) ==
    /\ t = Peer /\ pc[Main] = "gone" /\ pc[t] = "serving"
    /\ Goto(t, "gone") /\ UNCHANGED rules
    /\ UNCHANGED <<verdict, opened, streams, ending>>

\* An aborted task stops where it awaits: serve_peer with the Connection, and
\* the streams with serve_peer, whose JoinSet holds them.  All of them outlive
\* what they were doing between two awaits.
Aborted(t) ==
    /\ \/ t = Peer /\ pc[Main] = "gone" /\ pc[t] = "serving"
       \/ t \in Streams /\ pc[Peer] = "gone" /\ pc[t] \in Awaiting
    /\ Goto(t, "gone") /\ Leave(t)
    /\ UNCHANGED <<verdict, opened, streams, ending>>

(***************************************************************************)
(* serve_peer.                                                               *)
(***************************************************************************)
AcceptUni(s) ==
    /\ pc[Peer] = "serving" /\ pc[s] = "idle"
    /\ Goto(s, "typing")
    /\ UNCHANGED <<verdict, opened, streams, rules, ending>>

\* accept_uni and read_datagram fail once the connection is over.
PeerLost ==
    /\ pc[Peer] = "serving" /\ wire # "open"
    /\ Goto(Peer, "gone")
    /\ UNCHANGED <<verdict, opened, streams, rules, ending>>

\* route_datagram: a datagram whose Quarter Stream ID is missing or too large
\* ends the connection.  One without a context, or that no session takes, is
\* only counted, for the log.
route_datagram ==
    /\ pc[Peer] = "serving"
    /\ Fails(Peer, "DATAGRAM_ERROR")
    /\ UNCHANGED <<opened, streams, rules, ending>>

(***************************************************************************)
(* serve_stream.                                                             *)
(***************************************************************************)
\* A stream that ends, or fails, before its type is in.
Untyped(s) ==
    /\ pc[s] = "typing"
    /\ Goto(s, "gone")
    /\ UNCHANGED <<verdict, opened, streams, rules, ending>>

\* The idle timeout bounds the wait for the type, and for nothing after it.
TypeTimesOut(s) ==
    /\ pc[s] = "typing" /\ wire = "open"
    /\ stopped' = stopped \union {s}
    /\ Goto(s, "gone")
    /\ UNCHANGED <<verdict, opened, role, seen, rules, ending>>

ClaimUnchecked(s, kind) ==
    /\ seen' = seen \union {kind}
    /\ IF kind \in seen THEN Goto(s, "gone") /\ UNCHANGED verdict
       ELSE Goto(s, kind) /\ UNCHANGED verdict

\* One swap decides which stream holds a role; a second one is a violation.
Claim(s, kind) ==
    /\ seen' = seen \union {kind}
    /\ IF kind \in seen THEN Fails(s, "STREAM_CREATION_ERROR")
       ELSE Goto(s, kind) /\ UNCHANGED verdict

serve_stream(s, kind) ==
    /\ pc[s] = "typing"
    /\ role' = IF kind \in Critical THEN [role EXCEPT ![s] = kind] ELSE role
    /\ \/ kind \in Critical /\ Claim(s, kind) /\ UNCHANGED stopped
       \/ kind = "push" /\ Fails(s, "STREAM_CREATION_ERROR")
          /\ UNCHANGED <<seen, stopped>>
       \/ kind = "unknown" /\ Goto(s, "gone") /\ stopped' = stopped \union {s}
          /\ UNCHANGED <<seen, verdict>>
    /\ UNCHANGED <<opened, rules, ending>>

(***************************************************************************)
(* The rules of the control stream, Control::accept.                         *)
(***************************************************************************)
Items ==
    [kind : {"SETTINGS"}, datagrams : BOOLEAN]
    \union [kind : {"GOAWAY", "MAX_PUSH_ID", "CANCEL_PUSH"}, id : Ids]
    \union [kind : {"DATA", "SKIPPED", "HEADERS", "PUSH_PROMISE", "MALFORMED"}]

\* The code an item is refused with, None for one that is taken.  An item
\* FrameReader itself refuses is MALFORMED.
Refused(item) ==
    CASE item.kind = "MALFORMED" -> "FRAME_ERROR"
      [] item.kind = "SETTINGS" ->
            IF control.settings THEN "FRAME_UNEXPECTED" ELSE None
      [] item.kind # "SETTINGS" /\ item.kind # "MALFORMED"
         /\ ~control.settings -> "MISSING_SETTINGS"
      [] item.kind = "SKIPPED" /\ control.settings -> None
      [] item.kind = "GOAWAY" /\ control.settings ->
            IF control.goaway # None /\ item.id > control.goaway
            THEN "ID_ERROR" ELSE None
      [] item.kind = "MAX_PUSH_ID" /\ control.settings ->
            IF control.max_push_id # None /\ item.id < control.max_push_id
            THEN "ID_ERROR" ELSE None
      [] item.kind = "CANCEL_PUSH" /\ control.settings -> "ID_ERROR"
      [] item.kind \in {"DATA", "HEADERS", "PUSH_PROMISE"}
         /\ control.settings -> "FRAME_UNEXPECTED"

\* What an item that is taken changes.
Taken(item) ==
    CASE item.kind = "SETTINGS" -> [control EXCEPT !.settings = TRUE]
      [] item.kind = "GOAWAY" -> [control EXCEPT !.goaway = item.id]
      [] item.kind = "MAX_PUSH_ID" -> [control EXCEPT !.max_push_id = item.id]
      [] OTHER -> control

accept(s, item) ==
    /\ pc[s] = "control"
    /\ IF Refused(item) # None
       THEN Fails(s, Refused(item)) /\ Leave(s)
       ELSE /\ control' = Taken(item)
            /\ peer_datagrams' = (peer_datagrams \/
                  (item.kind = "SETTINGS" /\ item.datagrams))
            /\ UNCHANGED <<tasks, progress>>
    /\ UNCHANGED <<opened, streams, ending>>

(***************************************************************************)
(* The QPACK streams.                                                        *)
(***************************************************************************)
HighBit(byte) == byte >= 128

\* The code an instruction starting with `byte` is refused with, or None.
\* Without a dynamic table the encoder can say only "capacity zero" and the
\* decoder only Stream Cancellation.
qpack_instruction(kind, byte) ==
    IF kind = "encoder"
    THEN IF byte = 32 THEN None ELSE "ENCODER_STREAM_ERROR"
    ELSE IF byte \in 64 .. 127 THEN None ELSE "DECODER_STREAM_ERROR"

\* Whether the instruction's integer goes on past its first byte: the capacity
\* never does, the stream of a Stream Cancellation does when its six bits are
\* all set.
IntegerContinues(kind, byte) == kind = "decoder" /\ byte = 127

\* QpackProgress::take, for the next byte of a chunk.
take(s, byte) ==
    LET kind == pc[s]
        midway == kind = "decoder" /\ progress.continuing
        refused == IF ~midway THEN qpack_instruction(kind, byte)
                   ELSE IF progress.continuation = MAX_INTEGER_CONTINUATION
                        THEN "DECODER_STREAM_ERROR" ELSE None
    IN  /\ kind \in {"encoder", "decoder"}
        /\ IF refused # None
           THEN Fails(s, refused) /\ Leave(s)
           ELSE /\ progress' =
                     IF kind = "encoder" THEN progress
                     ELSE IF midway
                     THEN [continuing |-> HighBit(byte),
                           continuation |-> progress.continuation + 1]
                     ELSE [continuing |-> IntegerContinues(kind, byte),
                           continuation |-> 0]
                /\ UNCHANGED <<tasks, control, peer_datagrams>>
        /\ UNCHANGED <<opened, streams, ending>>

(***************************************************************************)
(* The end of a critical stream.                                             *)
(***************************************************************************)
\* The peer finishes or resets it; serve_qpack also reads the loss of the
\* connection as an ending.
StreamEnds(s) ==
    /\ pc[s] \in Critical
    /\ Goto(s, "ended") /\ Leave(s)
    /\ UNCHANGED <<verdict, opened, streams, ending>>

\* serve_control returns at once when the connection is lost.
ControlLost(s) ==
    /\ pc[s] = "control" /\ wire # "open"
    /\ Goto(s, "gone") /\ Leave(s)
    /\ UNCHANGED <<verdict, opened, streams, ending>>

JudgedAnyway(s) ==
    /\ pc[s] = "ended"
    /\ Fails(s, "CLOSED_CRITICAL_STREAM")
    /\ UNCHANGED <<opened, streams, rules, ending>>

\* Only on a connection that is still open is the ending a violation.
critical_stream_closed(s) ==
    /\ pc[s] = "ended"
    /\ IF close_reason # None THEN Goto(s, "gone") /\ UNCHANGED verdict
       ELSE Fails(s, "CLOSED_CRITICAL_STREAM")
    /\ UNCHANGED <<opened, streams, rules, ending>>

Serve(s) ==
    \/ AcceptUni(s) \/ Untyped(s) \/ TypeTimesOut(s)
    \/ \E kind \in Types : serve_stream(s, kind)
    \/ \E item \in Items : accept(s, item)
    \/ \E byte \in Bytes : take(s, byte)
    \/ StreamEnds(s) \/ ControlLost(s) \/ critical_stream_closed(s)

Next ==
    \/ PeerCloses \/ AuthenticationLimit
    \/ OpenCritical \/ HandshakeTimesOut \/ critical_write \/ HandshakeLost
    \/ AcceptFails \/ Finish
    \/ PeerLost \/ route_datagram
    \/ \E s \in Streams : Serve(s)
    \/ \E t \in Tasks : record(t) \/ Close(t) \/ Aborted(t)

Spec == Init /\ [][Next]_vars

\* What the runtime owes the tasks: a task between two awaits goes on, the loss
\* of the connection is read, an aborted task is dropped, and the timer over a
\* stream's type fires.  Each task takes finitely many such steps, so it is
\* enough that one of them is always taken.  The peer owes nothing.
Progress ==
    \/ AcceptFails \/ HandshakeLost \/ PeerLost
    \/ \E t \in Tasks : record(t) \/ Close(t) \/ Aborted(t)
    \/ \E s \in Streams :
          critical_stream_closed(s) \/ Untyped(s) \/ TypeTimesOut(s)

FairSpec == Spec /\ WF_vars(Progress)

-------------------------------------------------------------------------------
\* Whatever order the tasks fail in, the violation on the wire is the one that
\* was recorded, and so is the one a failed handshake or `accept` reports
\* (Handle::fail, Handle::interpret).
OneVerdict ==
    /\ wire \in Violations => wire = local_error
    /\ report # None /\ report.kind = "Local" /\ report.code \in Violations
          => report.code = local_error

\* What `handle` reports is how the connection ended.  A violation that closed
\* it is read back by `accept` and never lost to quinn's "closed locally"
\* (Handle::interpret); "the peer closed" is true; and a peer that closes its
\* connection and its critical streams in one breath is not reported as having
\* broken the protocol, unless a stream's end had been judged before the close
\* came (critical_stream_closed): the violation then recorded overwrites it.
ReportFitsEnding ==
    report # None =>
        /\ wire \in Violations =>
              report.kind \in {"Ok", "Local"} /\ report.code \in {wire, "NO_ERROR", None}
        /\ report.kind = "Peer" => wire = "peer"
        /\ wire = "peer" /\ report.code = "CLOSED_CRITICAL_STREAM" => judged

\* Two streams never both claim one critical role unnoticed: the connection has
\* failed, or a task is about to fail it (the swap in serve_stream and
\* serve_qpack).
DuplicateIsFatal ==
    (\E s, r \in Streams : s # r /\ role[s] = role[r] /\ role[s] \in Critical)
        => local_error # None \/ \E t \in Streams : pc[t] = "fail"

\* This server never asks the peer to stop a critical stream, however long the
\* stream is silent (RFC 9114 6.2.1, quoted at serve_control).
CriticalIsNotStopped == \A s \in stopped : role[s] \notin Critical

\* There is one critical stream of each kind and it is never stopped: a second is
\* fatal, and silence on the first is not (serve_stream, serve_control).
CriticalIsKept == DuplicateIsFatal /\ CriticalIsNotStopped

\* A violation found on any stream, like any other close, ends the connection
\* and every task of it.
EndsWhole ==
    (wire # "open" \/ local_error # None)
        ~> (wire # "open" /\ \A t \in Tasks : pc[t] \in {"idle", "gone"})
===============================================================================
