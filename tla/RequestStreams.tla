----------------------------- MODULE RequestStreams -----------------------------
(***************************************************************************)
(* The request streams of one connection, as they are read: `FrameDecoder`,  *)
(* `FrameReader` and the `BufferBudget` the decoders share (h3/frame.rs),     *)
(* `Resolver::resolve` and `Reader::recv_data` above them (h3/stream.rs), and *)
(* the closing of the connection on a violation (h3/connection.rs).           *)
(*                                                                         *)
(* A stream is the sequence of frames its client sends, cut into chunks and   *)
(* ended anywhere.  A frame is a kind and a length; its two header varints    *)
(* are HEADER bytes together.                                                *)
(***************************************************************************)
EXTENDS Integers, Sequences, FiniteSets, FiniteSetsExt

CONSTANTS Streams,                  \* bound: request streams at a time
          Kinds,                    \* bound: of FrameKinds, those clients send
          HEADER,
          MAX_BUFFERED_FRAME, HEADERS_BUFFER_BUDGET, MAX_SKIPPED_FRAMES,
          MaxFrames, MaxLength, MaxChunk    \* bounds: of a stream, a frame, a chunk

\* CONTROL stands for the five types that belong to the control stream or to a
\* server, RESERVED for the types HTTP/2 used.
FrameKinds == {"DATA", "HEADERS", "CONTROL", "RESERVED", "UNKNOWN"}

ASSUME FramesAssumption ==
    /\ IsFiniteSet(Streams) /\ Kinds \subseteq FrameKinds
    /\ {HEADER, MaxFrames, MaxChunk, MAX_BUFFERED_FRAME} \subseteq Nat \ {0}
    /\ {HEADERS_BUFFER_BUDGET, MAX_SKIPPED_FRAMES, MaxLength} \subseteq Nat
    /\ HEADERS_BUFFER_BUDGET >= MAX_BUFFERED_FRAME
    /\ HEADERS_BUFFER_BUDGET % MAX_BUFFERED_FRAME = 0

VARIABLES
    phase,        \* where the task of each stream is
    script,       \* the frames its client sends
    stream,       \* StreamKind: which rules the decoder applies
    state,        \* State, and
    remaining,    \*     the payload bytes its frame still has
    header_len, chunk, skipped, charged,
    finished,     \* whether the client's FIN has been read
    held,         \* the bytes the connection's budget has handed out
    send, recv,   \* how this layer has ended the halves of each stream
    local_error,  \* the violation recorded first
    closed,       \* what the connection was closed with
    begun,        \* history: frames whose header was decoded
    pos,          \* history: bytes the decoder has consumed
    delivered     \* history: bytes given to the tunnel

decoder == <<state, remaining, header_len, begun>>
input == <<chunk, pos>>
budget == <<held, charged>>
fate == <<phase, send, recv, local_error>>
vars == <<script, stream, decoder, input, skipped, finished, budget, fate, closed, delivered>>

Frames == [kind : Kinds, length : 0 .. MaxLength]
Codes == {"REQUEST_INCOMPLETE", "REQUEST_CANCELLED", "EXCESSIVE_LOAD", "MESSAGE_ERROR",
          "QPACK_DECOMPRESSION_FAILED"}
Violations == {"FRAME_UNEXPECTED", "FRAME_ERROR", "QPACK_DECOMPRESSION_FAILED"}

TypeOK ==
    /\ phase \in [Streams -> {"new", "resolving", "refusing", "served", "tunnel",
                              "closing", "over"}]
    /\ script \in [Streams -> Seq(Frames)]
    /\ stream \in [Streams -> {"request", "tunnel"}]
    /\ state \in [Streams -> {"header", "data", "buffering", "skipping"}]
    /\ header_len \in [Streams -> 0 .. HEADER - 1]
    /\ remaining \in [Streams -> Nat] /\ chunk \in [Streams -> Nat]
    /\ charged \in [Streams -> Nat] /\ begun \in [Streams -> Nat]
    /\ pos \in [Streams -> Nat] /\ delivered \in [Streams -> Nat]
    /\ skipped \in [Streams -> 0 .. MAX_SKIPPED_FRAMES + 1]
    /\ finished \in [Streams -> BOOLEAN]
    /\ held \in 0 .. HEADERS_BUFFER_BUDGET
    /\ send \in [Streams -> Codes \union {"open", "dropped", "431", "answered"}]
    /\ recv \in [Streams -> Codes \union {"open"}]
    /\ local_error \in Violations \union {"none"}
    /\ closed \in Violations \union {"none", "elsewhere"}

Init ==
    /\ phase = [s \in Streams |-> "new"]
    /\ script = [s \in Streams |-> <<>>]
    /\ stream = [s \in Streams |-> "request"]
    /\ state = [s \in Streams |-> "header"]
    /\ remaining = [s \in Streams |-> 0]
    /\ header_len = [s \in Streams |-> 0]
    /\ chunk = [s \in Streams |-> 0]
    /\ skipped = [s \in Streams |-> 0]
    /\ charged = [s \in Streams |-> 0]
    /\ finished = [s \in Streams |-> FALSE]
    /\ held = 0
    /\ send = [s \in Streams |-> "open"]
    /\ recv = [s \in Streams |-> "open"]
    /\ local_error = "none" /\ closed = "none"
    /\ begun = [s \in Streams |-> 0]
    /\ pos = [s \in Streams |-> 0]
    /\ delivered = [s \in Streams |-> 0]

-------------------------------------------------------------------------------
(* BufferBudget                                                              *)

\* Try_update: a charge that does not fit leaves the counter alone.
charge(s, bytes) ==
    /\ held + bytes <= HEADERS_BUFFER_BUDGET
    /\ held' = held + bytes
    /\ charged' = [charged EXCEPT ![s] = bytes]

\* FrameDecoder::release, when a frame is whole and when the decoder is dropped.
release(s) ==
    /\ held' = Max({held - charged[s], 0})
    /\ charged' = [charged EXCEPT ![s] = 0]

-------------------------------------------------------------------------------
(* What reading a stream may come to.                                        *)

\* Handle::fail records the violation, and then closes with the one recorded.
Fail(s, violation) ==
    /\ local_error' = IF local_error = "none" THEN violation ELSE local_error
    /\ phase' = [phase EXCEPT ![s] = "closing"]
    /\ UNCHANGED <<send, recv>>

\* A stream-class violation of the answer's own: both halves, one code.
Reset(s, code) ==
    /\ send' = [send EXCEPT ![s] = code] /\ recv' = [recv EXCEPT ![s] = code]
    /\ phase' = [phase EXCEPT ![s] = "over"]
    /\ UNCHANGED local_error

\* A field section too large: stop receiving, then answer with a 431.
TooLarge(s) ==
    /\ recv' = [recv EXCEPT ![s] = "EXCESSIVE_LOAD"]
    /\ phase' = [phase EXCEPT ![s] = "refusing"]
    /\ UNCHANGED <<send, local_error>>

\* The task ends, and the stream is dropped with `out` as its response's ending.
End(s, out) ==
    /\ send' = [send EXCEPT ![s] = out]
    /\ phase' = [phase EXCEPT ![s] = "over"]
    /\ release(s)
    /\ UNCHANGED <<recv, local_error>>

-------------------------------------------------------------------------------
(* FrameDecoder::next_item, one arm at a time                                 *)

Reading(s) == phase[s] \in {"resolving", "tunnel"} /\ ~finished[s]

\* The bytes of a header are those of a frame its client sent.
HasHeader(s) == state[s] = "header" /\ chunk[s] > 0 /\ begun[s] < Len(script[s])

Consume(s, n) ==
    /\ chunk' = [chunk EXCEPT ![s] = @ - n]
    /\ pos' = [pos EXCEPT ![s] = @ + n]

Enter(s, next, n) ==
    /\ state' = [state EXCEPT ![s] = next]
    /\ remaining' = [remaining EXCEPT ![s] = n]

Judged(s) == UNCHANGED <<state, remaining, budget>>

misplaced(rules, kind) ==
    \/ kind = "CONTROL"
    \/ kind = "HEADERS" /\ rules = "tunnel"

\* More than one frame may take, or than the budget has left.
Oversized(s, bytes) == Judged(s) /\ TooLarge(s)

MutantLengthFirst(s, f) ==
    LET buffered == f.kind \in {"HEADERS", "CONTROL"}
        large == buffered /\ (f.length > MAX_BUFFERED_FRAME
                              \/ held + f.length > HEADERS_BUFFER_BUDGET)
        illegal == f.kind = "RESERVED" \/ misplaced(stream[s], f.kind)
    IN  \/ large /\ Oversized(s, f.length)
        \/ ~large /\ illegal /\ Judged(s) /\ Fail(s, "FRAME_UNEXPECTED")
        \/ f.kind = "DATA" /\ Enter(s, "data", f.length) /\ UNCHANGED <<budget, fate>>
        \/ f.kind = "UNKNOWN" /\ Enter(s, "skipping", f.length) /\ UNCHANGED <<budget, fate>>
        \/ /\ buffered /\ ~large /\ ~illegal
           /\ charge(s, f.length) /\ Enter(s, "buffering", f.length) /\ UNCHANGED fate

\* begin, and the charge that follows it: the type is judged before the length.
begin(s, f) ==
    LET illegal == f.kind = "RESERVED" \/ misplaced(stream[s], f.kind)
        buffered == f.kind \in {"HEADERS", "CONTROL"}
    IN  \/ illegal /\ Judged(s) /\ Fail(s, "FRAME_UNEXPECTED")
        \/ f.kind = "DATA" /\ Enter(s, "data", f.length) /\ UNCHANGED <<budget, fate>>
        \/ f.kind = "UNKNOWN" /\ Enter(s, "skipping", f.length) /\ UNCHANGED <<budget, fate>>
        \/ /\ buffered /\ ~illegal /\ f.length <= MAX_BUFFERED_FRAME
           /\ charge(s, f.length) /\ Enter(s, "buffering", f.length) /\ UNCHANGED fate
        \/ /\ buffered /\ ~illegal
           /\ f.length > MAX_BUFFERED_FRAME \/ held + f.length > HEADERS_BUFFER_BUDGET
           /\ Oversized(s, f.length)

MutantHeaderRestarts(s) ==
    /\ Reading(s) /\ HasHeader(s)
    /\ LET n == Min({chunk[s], HEADER})
       IN  /\ Consume(s, n)
           /\ UNCHANGED header_len
           /\ \/ n < HEADER /\ UNCHANGED <<state, remaining, begun, budget, fate>>
              \/ /\ n = HEADER
                 /\ begun' = [begun EXCEPT ![s] = @ + 1]
                 /\ begin(s, script[s][begun[s] + 1])
    /\ UNCHANGED <<script, stream, skipped, finished, closed, delivered>>

\* State::Header
take_frame_header(s) ==
    /\ Reading(s) /\ HasHeader(s)
    /\ LET n == Min({chunk[s], HEADER - header_len[s]})
       IN  /\ Consume(s, n)
           /\ \/ /\ header_len[s] + n < HEADER
                 /\ header_len' = [header_len EXCEPT ![s] = @ + n]
                 /\ UNCHANGED <<state, remaining, begun, budget, fate>>
              \/ /\ header_len[s] + n = HEADER
                 /\ header_len' = [header_len EXCEPT ![s] = 0]
                 /\ begun' = [begun EXCEPT ![s] = @ + 1]
                 /\ begin(s, script[s][begun[s] + 1])
    /\ UNCHANGED <<script, stream, skipped, finished, closed, delivered>>

\* How much of the frame in hand the chunk settles.
take_from(s) == Min({remaining[s], chunk[s]})

\* The payload bytes of the frame are taken; the frame ends when none is left.
TakePayload(s) ==
    LET n == take_from(s)
    IN  /\ n > 0 \/ remaining[s] = 0
        /\ Consume(s, n)
        /\ Enter(s, IF n = remaining[s] THEN "header" ELSE state[s], remaining[s] - n)
        /\ UNCHANGED <<header_len, begun, script, stream, finished, closed>>

\* State::Data.  A request may not begin with DATA; a tunnel passes it on.
Data(s) ==
    /\ Reading(s) /\ state[s] = "data"
    /\ TakePayload(s)
    /\ \/ phase[s] = "resolving" /\ Fail(s, "FRAME_UNEXPECTED") /\ UNCHANGED delivered
       \/ /\ phase[s] = "tunnel"
          /\ delivered' = [delivered EXCEPT ![s] = @ + take_from(s)]
          /\ UNCHANGED fate
    /\ UNCHANGED <<skipped, budget>>

\* qpack::decode and build_request, on a HEADERS payload that is whole.
Headers(s) ==
    \/ /\ phase' = [phase EXCEPT ![s] = "served"]
       /\ UNCHANGED <<send, recv, local_error>>
    \/ TooLarge(s)
    \/ \E code \in {"MESSAGE_ERROR", "QPACK_DECOMPRESSION_FAILED"} : Reset(s, code)
    \/ Fail(s, "QPACK_DECOMPRESSION_FAILED")

\* State::Buffering
Buffering(s) ==
    /\ Reading(s) /\ state[s] = "buffering"
    /\ TakePayload(s)
    /\ IF take_from(s) < remaining[s] THEN UNCHANGED <<budget, fate>>
       ELSE release(s) /\ Headers(s)
    /\ UNCHANGED <<skipped, delivered>>

\* State::Skipping and count_skip
Skipping(s) ==
    /\ Reading(s) /\ state[s] = "skipping"
    /\ TakePayload(s)
    /\ IF take_from(s) < remaining[s] \/ stream[s] # "request"
       THEN UNCHANGED <<skipped, budget, fate>>
       ELSE /\ skipped' = [skipped EXCEPT ![s] = @ + 1]
            /\ IF skipped[s] + 1 > MAX_SKIPPED_FRAMES
               THEN Reset(s, "EXCESSIVE_LOAD") /\ release(s)
               ELSE UNCHANGED <<budget, fate>>
    /\ UNCHANGED delivered

-------------------------------------------------------------------------------
(* FrameReader::next: the decoder needs more than it has.                     *)

NeedsMore(s) ==
    /\ Reading(s) /\ chunk[s] = 0
    /\ state[s] = "header" \/ remaining[s] > 0

Lengths(frames) == [i \in DOMAIN frames |-> frames[i].length]
Sizes(frames) == [i \in DOMAIN frames |-> HEADER + frames[i].length]
WireLength(frames) == SumFunction(Sizes(frames))

ReadChunk(s) ==
    /\ NeedsMore(s)
    /\ \E n \in 1 .. Min({MaxChunk, WireLength(script[s]) - pos[s]}) :
          chunk' = [chunk EXCEPT ![s] = n]
    /\ UNCHANGED <<script, stream, decoder, pos, skipped, finished, budget, fate, closed,
                   delivered>>

at_frame_boundary(s) == state[s] = "header" /\ header_len[s] = 0

\* The client's FIN, wherever in the frames it stopped.
ReadFin(s) ==
    /\ NeedsMore(s)
    /\ finished' = [finished EXCEPT ![s] = TRUE]
    /\ \/ ~at_frame_boundary(s) /\ Fail(s, "FRAME_ERROR") /\ UNCHANGED budget
       \/ /\ at_frame_boundary(s) /\ phase[s] = "resolving"
          /\ Reset(s, "REQUEST_INCOMPLETE") /\ release(s)
       \/ at_frame_boundary(s) /\ phase[s] = "tunnel" /\ UNCHANGED <<budget, fate>>
    /\ UNCHANGED <<script, stream, decoder, input, skipped, closed, delivered>>

rest == <<script, stream, decoder, input, skipped, finished, delivered>>

\* The client's reset before its request was whole.
ReadReset(s) ==
    /\ NeedsMore(s) /\ phase[s] = "resolving"
    /\ End(s, "dropped")
    /\ UNCHANGED <<rest, closed>>

-------------------------------------------------------------------------------
(* The task of a stream.                                                     *)

\* A stream is accepted, in the place of one that is over if need be.
Accept(s) ==
    /\ phase[s] \in {"new", "over"} /\ closed = "none"
    /\ phase' = [phase EXCEPT ![s] = "resolving"]
    /\ script' = [script EXCEPT ![s] = <<>>] /\ stream' = [stream EXCEPT ![s] = "request"]
    /\ Enter(s, "header", 0) /\ header_len' = [header_len EXCEPT ![s] = 0]
    /\ begun' = [begun EXCEPT ![s] = 0]
    /\ chunk' = [chunk EXCEPT ![s] = 0] /\ pos' = [pos EXCEPT ![s] = 0]
    /\ skipped' = [skipped EXCEPT ![s] = 0] /\ finished' = [finished EXCEPT ![s] = FALSE]
    /\ send' = [send EXCEPT ![s] = "open"] /\ recv' = [recv EXCEPT ![s] = "open"]
    /\ delivered' = [delivered EXCEPT ![s] = 0]
    /\ UNCHANGED <<budget, local_error, closed>>

ClientSends(s) ==
    /\ phase[s] \in {"resolving", "tunnel"} /\ ~finished[s]
    /\ Len(script[s]) < MaxFrames
    /\ \E f \in Frames : script' = [script EXCEPT ![s] = Append(@, f)]
    /\ UNCHANGED <<stream, decoder, input, skipped, finished, budget, fate, closed, delivered>>

\* The request is not whole within one idle timeout.
TimesOut(s) ==
    /\ phase[s] = "resolving"
    /\ Reset(s, "REQUEST_INCOMPLETE") /\ release(s)
    /\ UNCHANGED <<rest, closed>>

\* The 431 is written and finished, fails, or is abandoned with a reset.
Refuse(s) ==
    /\ phase[s] = "refusing"
    /\ \E out \in {"431", "dropped", "REQUEST_CANCELLED"} : End(s, out)
    /\ UNCHANGED <<rest, closed>>

\* handle_request answers without a tunnel.
Answer(s) ==
    /\ phase[s] = "served"
    /\ End(s, "answered")
    /\ UNCHANGED <<rest, closed>>

\* The 2xx is out: Stream::split and connect_completed.
Split(s) ==
    /\ phase[s] = "served"
    /\ phase' = [phase EXCEPT ![s] = "tunnel"]
    /\ stream' = [stream EXCEPT ![s] = "tunnel"]
    /\ UNCHANGED <<script, decoder, input, skipped, finished, delivered, budget, send, recv,
                   local_error, closed>>

TunnelEnds(s) ==
    /\ phase[s] = "tunnel"
    /\ End(s, "answered")
    /\ UNCHANGED <<rest, closed>>

\* The second half of Handle::fail, and the end of the task.
Close(s) ==
    /\ phase[s] = "closing"
    /\ closed' = IF closed = "none" THEN local_error ELSE closed
    /\ End(s, "dropped")
    /\ UNCHANGED rest

\* Every operation on a closed connection fails.
ConnectionLost(s) ==
    /\ closed # "none" /\ phase[s] \in {"resolving", "refusing", "served", "tunnel"}
    /\ End(s, "dropped")
    /\ UNCHANGED <<rest, closed>>

\* The client, the silence deadline, the failure limit or a shutdown closes it.
ClosedElsewhere ==
    /\ closed = "none"
    /\ closed' = "elsewhere"
    /\ UNCHANGED <<rest, budget, fate>>

Next ==
    \/ ClosedElsewhere
    \/ \E s \in Streams :
          \/ Accept(s) \/ ClientSends(s)
          \/ take_frame_header(s) \/ Data(s) \/ Buffering(s) \/ Skipping(s)
          \/ ReadChunk(s) \/ ReadFin(s) \/ ReadReset(s)
          \/ TimesOut(s) \/ Refuse(s) \/ Answer(s) \/ Split(s) \/ TunnelEnds(s)
          \/ Close(s) \/ ConnectionLost(s)

Spec == Init /\ [][Next]_vars

-------------------------------------------------------------------------------
(* Safety                                                                    *)

\* The frames whose header has been decoded, and those of them that carry DATA.
Begun(s) == 1 .. begun[s]
BegunData(s) == {i \in Begun(s) : script[s][i].kind = "DATA"}

\* However the stream was cut into chunks, and whoever stopped reading it for a
\* while, the decoder stands where the frames say: a header is read only at the
\* start of a frame, and the tunnel has had exactly the DATA consumed so far.
InStep ==
    \A s \in Streams :
        phase[s] \in {"resolving", "served", "tunnel"} =>
            /\ pos[s] = SumFunctionOnSet(Sizes(script[s]), Begun(s))
                        + header_len[s] - remaining[s]
            /\ pos[s] + chunk[s] <= WireLength(script[s])
            /\ delivered[s] = SumFunctionOnSet(Lengths(script[s]), BegunData(s))
                              - (IF state[s] = "data" THEN remaining[s] ELSE 0)

\* The budget is what the frames being buffered have announced, and nothing else:
\* a stream that is over, refused or past its frame holds none of it.
BudgetIsHeld ==
    /\ held = SumFunction(charged)
    /\ held <= HEADERS_BUFFER_BUDGET
    /\ \A s \in Streams :
          charged[s] = IF phase[s] \in {"resolving", "closing"} /\ state[s] = "buffering"
                       THEN script[s][begun[s]].length ELSE 0

\* One stream or several: however they are cut into chunks each decoder stands where
\* its frames say, and the bytes they hold are those the budget they share has
\* handed out and will have back.
DecodersExact == InStep /\ BudgetIsHeld

\* Where a frame may appear decides before its length does: a frame out of place
\* costs the connection, whatever it announced and whatever the budget holds, and
\* a 431 answers nothing but a HEADERS frame.  Nobody is served before HEADERS.
VerdictFitsFrame ==
    \A s \in Streams :
        /\ begun[s] > 0 =>
              LET f == script[s][begun[s]]
                  again == \E i \in 1 .. begun[s] - 1 : script[s][i].kind = "HEADERS"
              IN  /\ f.kind \in {"RESERVED", "CONTROL"} \/ (f.kind = "HEADERS" /\ again) =>
                         local_error # "none" /\ charged[s] = 0 /\ send[s] # "431"
                  /\ send[s] = "431" => f.kind = "HEADERS"
        /\ phase[s] \in {"served", "tunnel"} =>
              \E i \in 1 .. begun[s] :
                 /\ script[s][i].kind = "HEADERS"
                 /\ \A j \in 1 .. i - 1 : script[s][j].kind = "UNKNOWN"
===============================================================================
