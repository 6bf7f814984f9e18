-------------------------- MODULE RequestStreamsProofs --------------------------
(***************************************************************************)
(* Proofs about RequestStreams, for any streams, frames, chunks and limits:   *)
(* first what each phase of a stream knows of its frames (IInv), then where   *)
(* each decoder stands in its bytes and what it has of the budget (DInv).     *)
(***************************************************************************)
EXTENDS RequestStreams, Sums

FrameAt(s) == script[s][begun[s]]

\* Only frames of unknown kinds came before the one in hand.
OnlySkippedBefore(s) == \A i \in 1 .. begun[s] - 1 : script[s][i].kind = "UNKNOWN"

\* One of the frames before the one in hand was HEADERS.
Again(s) == \E i \in 1 .. begun[s] - 1 : script[s][i].kind = "HEADERS"

\* A request came first.
RequestSeen(s) ==
    \E i \in 1 .. begun[s] :
       /\ script[s][i].kind = "HEADERS"
       /\ \A j \in 1 .. i - 1 : script[s][j].kind = "UNKNOWN"

\* Only frames that were sent are begun.
Within(s) == begun[s] <= Len(script[s])

\* What is known of a stream in each phase.
PhaseKnows(s) ==
    /\ phase[s] # "over" => send[s] = "open"
    /\ charged[s] # 0 => phase[s] \in {"resolving", "closing"} /\ state[s] = "buffering"
    /\ phase[s] = "resolving" =>
          /\ stream[s] = "request" /\ skipped[s] <= MAX_SKIPPED_FRAMES
          /\ OnlySkippedBefore(s)
          /\ state[s] = "buffering" => begun[s] > 0 /\ FrameAt(s).kind = "HEADERS"
          /\ state[s] \in {"header", "skipping"} /\ begun[s] > 0 =>
                FrameAt(s).kind = "UNKNOWN"
          /\ state[s] = "data" => begun[s] > 0 /\ FrameAt(s).kind = "DATA"
    /\ phase[s] \in {"refusing", "served"} =>
          begun[s] > 0 /\ FrameAt(s).kind = "HEADERS" /\ OnlySkippedBefore(s)
    /\ phase[s] \in {"served", "tunnel"} => state[s] # "buffering"
    /\ phase[s] = "tunnel" => stream[s] = "tunnel"

\* VerdictFitsFrame, of one stream.
FrameVerdict(s) ==
    /\ begun[s] > 0 =>
          /\ \/ FrameAt(s).kind \in {"RESERVED", "CONTROL"}
             \/ FrameAt(s).kind = "HEADERS" /\ Again(s)
             => local_error # "none" /\ charged[s] = 0 /\ send[s] # "431"
          /\ send[s] = "431" => FrameAt(s).kind = "HEADERS"
    /\ phase[s] \in {"served", "tunnel"} => RequestSeen(s)

SInv(s) == Within(s) /\ PhaseKnows(s) /\ FrameVerdict(s)

IInv == TypeOK /\ \A s \in Streams : SInv(s)

-------------------------------------------------------------------------------
(* Min and Max of a pair.                                                    *)

\* The smaller of two numbers is one of them.
LEMMA MinOfTwo ==
  ASSUME NEW a \in Int, NEW b \in Int
  PROVE  /\ Min({a, b}) \in {a, b}
         /\ Min({a, b}) <= a /\ Min({a, b}) <= b
<1>1. \E x \in {a, b} : \A y \in {a, b} : x <= y
  <2>1. CASE a <= b  BY <2>1
  <2>2. CASE b <= a  BY <2>2
  <2>. QED  BY <2>1, <2>2
<1>. QED  BY <1>1, Zenon DEF Min

\* So is the larger.
LEMMA MaxOfTwo ==
  ASSUME NEW a \in Int, NEW b \in Int
  PROVE  /\ Max({a, b}) \in {a, b}
         /\ Max({a, b}) >= a /\ Max({a, b}) >= b
<1>1. \E x \in {a, b} : \A y \in {a, b} : x >= y
  <2>1. CASE a >= b  BY <2>1
  <2>2. CASE b >= a  BY <2>2
  <2>. QED  BY <2>1, <2>2
<1>. QED  BY <1>1, Zenon DEF Max

-------------------------------------------------------------------------------
(* Types, by the operators the actions are made of.                          *)

FateTypes ==
    /\ phase \in [Streams -> {"new", "resolving", "refusing", "served", "tunnel",
                              "closing", "over"}]
    /\ send \in [Streams -> Codes \union {"open", "dropped", "431", "answered"}]
    /\ recv \in [Streams -> Codes \union {"open"}]
    /\ local_error \in Violations \union {"none"}

BudgetTypes ==
    charged \in [Streams -> Nat] /\ held \in 0 .. HEADERS_BUFFER_BUDGET

\* A release keeps the counter within its bounds.
LEMMA ReleaseTypes ==
  ASSUME BudgetTypes, NEW s \in Streams, release(s)
  PROVE  BudgetTypes' /\ charged' = [charged EXCEPT ![s] = 0]
<1>1. held - charged[s] \in Int /\ held - charged[s] <= held /\ held \in Int /\ 0 \in Int
  BY FramesAssumption DEF BudgetTypes
<1>2. /\ Max({held - charged[s], 0}) \in {held - charged[s], 0}
      /\ Max({held - charged[s], 0}) >= 0
  BY ONLY <1>1, MaxOfTwo, Zenon
<1>3. Max({held - charged[s], 0}) \in 0 .. HEADERS_BUFFER_BUDGET
  BY <1>1, <1>2, FramesAssumption DEF BudgetTypes
<1>. QED  BY <1>3, Zenon DEF BudgetTypes, release

\* So does a charge.
LEMMA ChargeTypes ==
  ASSUME BudgetTypes, NEW s \in Streams, NEW n \in Nat, charge(s, n)
  PROVE  BudgetTypes' /\ charged' = [charged EXCEPT ![s] = n]
BY FramesAssumption DEF BudgetTypes, charge

\* However a stream fares, its ending is one of those there are.
LEMMA FateSteps ==
  ASSUME FateTypes, NEW s \in Streams,
         \/ \E v \in Violations : Fail(s, v)
         \/ \E c \in Codes : Reset(s, c)
         \/ TooLarge(s) \/ Headers(s)
         \/ \E out \in Codes \union {"dropped", "431", "answered"} : End(s, out)
         \/ UNCHANGED fate
  PROVE  FateTypes'
<1>1. CASE \E v \in Violations : Fail(s, v)  BY <1>1, Zenon DEF FateTypes, Fail
<1>2. CASE \E c \in Codes : Reset(s, c)  BY <1>2 DEF FateTypes, Reset
<1>3. CASE TooLarge(s)  BY <1>3, Zenon DEF FateTypes, TooLarge, Codes
<1>4. CASE Headers(s)
  BY <1>4, <1>3 DEF FateTypes, Headers, TooLarge, Fail, Reset, Codes, Violations
<1>5. CASE \E out \in Codes \union {"dropped", "431", "answered"} : End(s, out)
  BY <1>5 DEF FateTypes, End
<1>6. CASE UNCHANGED fate  BY <1>6, Zenon DEF FateTypes, fate
<1>. QED  BY <1>1, <1>2, <1>3, <1>4, <1>5, <1>6, Zenon

PlaceTypes ==
    /\ script \in [Streams -> Seq(Frames)]
    /\ stream \in [Streams -> {"request", "tunnel"}]
    /\ state \in [Streams -> {"header", "data", "buffering", "skipping"}]
    /\ header_len \in [Streams -> 0 .. HEADER - 1]
    /\ remaining \in [Streams -> Nat] /\ begun \in [Streams -> Nat]

CountTypes ==
    /\ chunk \in [Streams -> Nat] /\ pos \in [Streams -> Nat]
    /\ delivered \in [Streams -> Nat]
    /\ skipped \in [Streams -> 0 .. MAX_SKIPPED_FRAMES + 1]
    /\ finished \in [Streams -> BOOLEAN]
    /\ closed \in Violations \union {"none", "elsewhere"}

\* The types, sorted by the operators that change them.
LEMMA Types == TypeOK <=> FateTypes /\ BudgetTypes /\ PlaceTypes /\ CountTypes
BY Zenon DEF TypeOK, FateTypes, BudgetTypes, PlaceTypes, CountTypes

\* The frame whose header is read next is one the client sent.
LEMMA NextFrame ==
  ASSUME TypeOK, NEW s \in Streams, HasHeader(s)
  PROVE  /\ script[s][begun[s] + 1] \in Frames
         /\ script[s][begun[s] + 1].length \in Nat
         /\ script[s][begun[s] + 1].kind \in FrameKinds
<1>1. begun[s] + 1 \in 1 .. Len(script[s]) /\ script[s] \in Seq(Frames)
  BY DEF TypeOK, HasHeader
<1>2. script[s][begun[s] + 1] \in Frames  BY <1>1
<1>. QED  BY <1>2, FramesAssumption DEF Frames

\* What is taken of a chunk is there, and no more than is asked for.
LEMMA TakeFrom ==
  ASSUME TypeOK, NEW s \in Streams
  PROVE  /\ take_from(s) \in Nat
         /\ take_from(s) <= remaining[s] /\ take_from(s) <= chunk[s]
         /\ chunk[s] - take_from(s) \in Nat /\ remaining[s] - take_from(s) \in Nat
<1>1. /\ remaining[s] \in Nat /\ chunk[s] \in Nat
      /\ remaining[s] \in Int /\ chunk[s] \in Int
  BY DEF TypeOK
<1>2. /\ Min({remaining[s], chunk[s]}) \in {remaining[s], chunk[s]}
      /\ Min({remaining[s], chunk[s]}) <= remaining[s]
      /\ Min({remaining[s], chunk[s]}) <= chunk[s]
  BY ONLY <1>1, MinOfTwo, Zenon
<1>. QED  BY <1>1, <1>2 DEF take_from

\* What a payload step leaves of the frame.
LEMMA PayloadStep ==
  ASSUME TypeOK, NEW s \in Streams, TakePayload(s)
  PROVE  /\ PlaceTypes'
         /\ chunk' \in [Streams -> Nat] /\ pos' \in [Streams -> Nat]
         /\ finished' \in [Streams -> BOOLEAN]
         /\ closed' \in Violations \union {"none", "elsewhere"}
         /\ state' \in {[state EXCEPT ![s] = "header"], state}
         /\ UNCHANGED <<header_len, begun, script, stream, finished, closed>>
         /\ take_from(s) = remaining[s] => state' = [state EXCEPT ![s] = "header"]
         /\ take_from(s) < remaining[s] => state' = state
<1>. DEFINE n == take_from(s)
<1>1. n \in Nat /\ n <= remaining[s] /\ chunk[s] - n \in Nat /\ remaining[s] - n \in Nat
  BY TakeFrom, Zenon
<1>2. remaining[s] \in Nat /\ state[s] \in {"header", "data", "buffering", "skipping"}
  BY Zenon DEF TypeOK
<1>3. /\ chunk' = [chunk EXCEPT ![s] = chunk[s] - n]
      /\ pos' = [pos EXCEPT ![s] = pos[s] + n]
      /\ state' = [state EXCEPT ![s] = IF n = remaining[s] THEN "header" ELSE state[s]]
      /\ remaining' = [remaining EXCEPT ![s] = remaining[s] - n]
      /\ UNCHANGED <<header_len, begun, script, stream, finished, closed>>
  BY Zenon DEF TakePayload, Consume, Enter
<1>. HIDE DEF n
<1>4. chunk' \in [Streams -> Nat] /\ pos' \in [Streams -> Nat]
  <2>1. chunk \in [Streams -> Nat] /\ pos \in [Streams -> Nat]  BY Zenon DEF TypeOK
  <2>2. chunk' \in [Streams -> Nat]  BY ONLY <1>1, <1>3, <2>1, Zenon
  <2>3. pos[s] + n \in Nat  BY ONLY <1>1, <2>1, s \in Streams
  <2>4. pos' \in [Streams -> Nat]  BY ONLY <1>3, <2>1, <2>3, Zenon
  <2>. QED  BY <2>2, <2>4, Zenon
<1>5. n = remaining[s] => state' = [state EXCEPT ![s] = "header"]
  BY <1>3, Zenon
<1>6. n < remaining[s] => state' = state
  BY <1>1, <1>2, <1>3 DEF TypeOK
<1>7. PlaceTypes'
  BY <1>1, <1>2, <1>3, Zenon DEF TypeOK, PlaceTypes
<1>8. finished' \in [Streams -> BOOLEAN]  BY <1>3, Zenon DEF TypeOK
<1>9. closed' \in Violations \union {"none", "elsewhere"}  BY <1>3, Zenon DEF TypeOK
<1>10. n = remaining[s] \/ n < remaining[s]  BY <1>1, <1>2
<1>. QED  BY <1>3, <1>4, <1>5, <1>6, <1>7, <1>8, <1>9, <1>10, ZenonT(40) DEF n

\* A step of stream s: one of the actions that name it.
StreamStep(s) ==
    \/ Accept(s) \/ ClientSends(s)
    \/ take_frame_header(s) \/ Data(s) \/ Buffering(s) \/ Skipping(s)
    \/ ReadChunk(s) \/ ReadFin(s) \/ ReadReset(s)
    \/ TimesOut(s) \/ Refuse(s) \/ Answer(s) \/ Split(s) \/ TunnelEnds(s)
    \/ Close(s) \/ ConnectionLost(s)

\* Types, when the header of a frame is judged,
LEMMA BeginTypes ==
  ASSUME FateTypes, BudgetTypes, NEW s \in Streams, NEW f \in Frames, begin(s, f),
         state \in [Streams -> {"header", "data", "buffering", "skipping"}],
         remaining \in [Streams -> Nat]
  PROVE  /\ FateTypes' /\ BudgetTypes'
         /\ state' \in [Streams -> {"header", "data", "buffering", "skipping"}]
         /\ remaining' \in [Streams -> Nat]
<1>. f.length \in Nat  BY FramesAssumption DEF Frames
<1>1. CASE Judged(s) /\ Fail(s, "FRAME_UNEXPECTED")
  <2>1. FateTypes'  BY <1>1, FateSteps, Zenon DEF Violations
  <2>. QED  BY <1>1, <2>1, Zenon DEF Judged, budget, BudgetTypes
<1>2. CASE /\ \E next \in {"data", "skipping"} : Enter(s, next, f.length)
           /\ UNCHANGED <<budget, fate>>
  BY <1>2 DEF Enter, budget, BudgetTypes, fate, FateTypes
<1>3. CASE charge(s, f.length) /\ Enter(s, "buffering", f.length) /\ UNCHANGED fate
  <2>1. BudgetTypes'  BY <1>3, ChargeTypes, Zenon
  <2>. QED  BY <1>3, <2>1, Zenon DEF Enter, fate, FateTypes
<1>4. CASE Oversized(s, f.length)
  <2>1. FateTypes'  BY <1>4, FateSteps, Zenon DEF Oversized
  <2>. QED  BY <1>4, <2>1, Zenon DEF Oversized, Judged, budget, BudgetTypes
<1>. QED  BY <1>1, <1>2, <1>3, <1>4, Zenon DEF begin

\* when its bytes are read,
LEMMA HeaderTypes ==
  ASSUME TypeOK, NEW s \in Streams, take_frame_header(s)
  PROVE  TypeOK'
<1>. FateTypes /\ BudgetTypes /\ PlaceTypes /\ CountTypes  BY Types, Zenon
<1>. DEFINE n == Min({chunk[s], HEADER - header_len[s]})
            f == script[s][begun[s] + 1]
<1>. HEADER \in Nat \ {0}  BY FramesAssumption, Zenon
<1>1. chunk[s] \in Int /\ HEADER - header_len[s] \in Int /\ header_len[s] \in Nat
      /\ chunk[s] > 0 /\ HEADER - header_len[s] > 0 /\ chunk[s] \in Nat
  <2>1. header_len[s] \in 0 .. HEADER - 1 /\ chunk[s] \in Nat  BY Zenon DEF TypeOK
  <2>2. chunk[s] > 0  BY Zenon DEF take_frame_header, HasHeader
  <2>. QED  BY <2>1, <2>2
<1>2. n \in {chunk[s], HEADER - header_len[s]} /\ n <= chunk[s]
  BY ONLY <1>1, MinOfTwo, Zenon
<1>3. n \in Nat /\ chunk[s] - n \in Nat  BY ONLY <1>1, <1>2
<1>4. f \in Frames  BY NextFrame, Zenon DEF take_frame_header
<1>5. /\ chunk' = [chunk EXCEPT ![s] = chunk[s] - n]
      /\ pos' = [pos EXCEPT ![s] = pos[s] + n]
      /\ UNCHANGED <<script, stream, skipped, finished, closed, delivered>>
      /\ \/ /\ header_len[s] + n < HEADER
            /\ header_len' = [header_len EXCEPT ![s] = header_len[s] + n]
            /\ UNCHANGED <<state, remaining, begun, budget, fate>>
         \/ /\ header_len' = [header_len EXCEPT ![s] = 0]
            /\ begun' = [begun EXCEPT ![s] = begun[s] + 1]
            /\ begin(s, f)
  BY Zenon DEF take_frame_header, Consume
<1>. HIDE DEF n, f
<1>6. CountTypes'
  <2>1. chunk' \in [Streams -> Nat]  BY <1>3, <1>5, Zenon DEF CountTypes
  <2>2. pos[s] + n \in Nat  BY <1>3 DEF CountTypes
  <2>3. pos' \in [Streams -> Nat]  BY <1>5, <2>2, Zenon DEF CountTypes
  <2>. QED  BY <1>5, <2>1, <2>3, Zenon DEF CountTypes
<1>7. header_len' \in [Streams -> 0 .. HEADER - 1]
  <2>1. header_len \in [Streams -> 0 .. HEADER - 1]  BY Zenon DEF PlaceTypes
  <2>2. CASE /\ header_len[s] + n < HEADER
             /\ header_len' = [header_len EXCEPT ![s] = header_len[s] + n]
    <3>1. header_len[s] + n \in 0 .. HEADER - 1  BY <1>1, <1>3, <2>2
    <3>. QED  BY <2>1, <2>2, <3>1, Zenon
  <2>3. CASE header_len' = [header_len EXCEPT ![s] = 0]  BY <2>1, <2>3
  <2>. QED  BY <1>5, <2>2, <2>3, Zenon
<1>8. begun' \in [Streams -> Nat]
  <2>1. begun \in [Streams -> Nat] /\ begun[s] + 1 \in Nat  BY DEF PlaceTypes
  <2>. QED  BY <1>5, <2>1, Zenon
<1>9. /\ FateTypes' /\ BudgetTypes'
      /\ state' \in [Streams -> {"header", "data", "buffering", "skipping"}]
      /\ remaining' \in [Streams -> Nat]
  <2>1. CASE UNCHANGED <<state, remaining, begun, budget, fate>>
    BY <2>1, Zenon DEF PlaceTypes, FateTypes, BudgetTypes, budget, fate
  <2>2. CASE begin(s, f)  BY <2>2, <1>4, BeginTypes, Zenon DEF PlaceTypes
  <2>. QED  BY <1>5, <2>1, <2>2, Zenon
<1>10. PlaceTypes'  BY <1>5, <1>7, <1>8, <1>9, Zenon DEF PlaceTypes
<1>. QED
  BY <1>6, <1>9, <1>10, Zenon
       DEF TypeOK, FateTypes, BudgetTypes, PlaceTypes, CountTypes

\* when its payload is,
LEMMA PayloadTypes ==
  ASSUME IInv, NEW s \in Streams, Data(s) \/ Buffering(s) \/ Skipping(s)
  PROVE  TypeOK'
<1>. FateTypes /\ BudgetTypes /\ PlaceTypes /\ CountTypes /\ TypeOK  BY Types, Zenon DEF IInv
<1>1. TakePayload(s)  BY Zenon DEF Data, Buffering, Skipping
<1>2. /\ PlaceTypes'
      /\ chunk' \in [Streams -> Nat] /\ pos' \in [Streams -> Nat]
      /\ finished' \in [Streams -> BOOLEAN]
      /\ closed' \in Violations \union {"none", "elsewhere"}
  BY <1>1, PayloadStep, Zenon
<1>3. CASE Data(s)
  <2>1. FateTypes'  BY <1>3, FateSteps, Zenon DEF Data, Violations
  <2>2. delivered' \in [Streams -> Nat]
    BY <1>3, TakeFrom DEF Data, CountTypes
  <2>3. BudgetTypes' /\ skipped' = skipped  BY <1>3, Zenon DEF Data, budget, BudgetTypes
  <2>. QED
    BY <1>2, <2>1, <2>2, <2>3, Zenon
       DEF TypeOK, FateTypes, BudgetTypes, PlaceTypes, CountTypes
<1>4. CASE Buffering(s)
  <2>1. FateTypes'  BY <1>4, FateSteps, Zenon DEF Buffering
  <2>2. BudgetTypes'  BY <1>4, ReleaseTypes, Zenon DEF Buffering, budget, BudgetTypes
  <2>3. UNCHANGED <<skipped, delivered>>  BY <1>4, Zenon DEF Buffering
  <2>. QED
    BY <1>2, <2>1, <2>2, <2>3, Zenon
       DEF TypeOK, FateTypes, BudgetTypes, PlaceTypes, CountTypes
<1>5. CASE Skipping(s)
  <2>1. FateTypes'  BY <1>5, FateSteps, Zenon DEF Skipping, Codes
  <2>2. BudgetTypes'  BY <1>5, ReleaseTypes, ZenonT(40) DEF Skipping, budget, BudgetTypes
  <2>3. stream[s] = "request" => skipped[s] <= MAX_SKIPPED_FRAMES
    BY <1>5, Zenon DEF Skipping, Reading, IInv, SInv, PhaseKnows
  <2>4. skipped' \in [Streams -> 0 .. MAX_SKIPPED_FRAMES + 1]
    BY <1>5, <2>3, FramesAssumption DEF Skipping, CountTypes
  <2>5. UNCHANGED delivered  BY <1>5, Zenon DEF Skipping
  <2>. QED
    BY <1>2, <2>1, <2>2, <2>4, <2>5, Zenon
       DEF TypeOK, FateTypes, BudgetTypes, PlaceTypes, CountTypes
<1>. QED  BY <1>3, <1>4, <1>5, Zenon

\* when a stream is accepted, written to or read from,
LEMMA ReadTypes ==
  ASSUME TypeOK, NEW s \in Streams,
         Accept(s) \/ ClientSends(s) \/ ReadChunk(s) \/ ReadFin(s)
  PROVE  TypeOK'
<1>. FateTypes /\ BudgetTypes /\ PlaceTypes /\ CountTypes  BY Types, Zenon
<1>. /\ HEADER \in Nat \ {0} /\ MAX_SKIPPED_FRAMES \in Nat
     /\ 0 \in 0 .. HEADER - 1 /\ 0 \in 0 .. MAX_SKIPPED_FRAMES + 1
  BY FramesAssumption
<1>1. CASE Accept(s)
  <2>1. FateTypes'  BY <1>1, Zenon DEF Accept, FateTypes
  <2>2. BudgetTypes'  BY <1>1, Zenon DEF Accept, BudgetTypes, budget
  <2>3. PlaceTypes'
    <3>1. <<>> \in Seq(Frames)  OBVIOUS
    <3>. QED  BY <1>1, <3>1, Zenon DEF Accept, PlaceTypes, Enter
  <2>4. CountTypes'  BY <1>1, Zenon DEF Accept, CountTypes
  <2>. QED
    BY <2>1, <2>2, <2>3, <2>4, Zenon
       DEF TypeOK, FateTypes, BudgetTypes, PlaceTypes, CountTypes
<1>2. CASE ClientSends(s)
  <2>1. PICK f \in Frames : script' = [script EXCEPT ![s] = Append(script[s], f)]
    BY <1>2, Zenon DEF ClientSends
  <2>2. script' \in [Streams -> Seq(Frames)]  BY <2>1 DEF PlaceTypes
  <2>. QED
    BY <1>2, <2>2, Zenon DEF ClientSends, TypeOK, decoder, input, budget, fate
<1>3. CASE ReadChunk(s)
  <2>1. PICK n \in 1 .. Min({MaxChunk, WireLength(script[s]) - pos[s]}) :
           chunk' = [chunk EXCEPT ![s] = n]
    BY <1>3, Zenon DEF ReadChunk
  <2>2. n \in Nat  BY <2>1
  <2>3. chunk' \in [Streams -> Nat]  BY <2>1, <2>2, ZenonT(40) DEF CountTypes
  <2>. QED
    BY <1>3, <2>3, Zenon DEF ReadChunk, TypeOK, decoder, budget, fate
<1>4. CASE ReadFin(s)
  <2>1. FateTypes'  BY <1>4, FateSteps, Zenon DEF ReadFin, Violations, Codes
  <2>2. BudgetTypes'  BY <1>4, ReleaseTypes, ZenonT(40) DEF ReadFin, budget, BudgetTypes
  <2>3. PlaceTypes'  BY <1>4, Zenon DEF ReadFin, PlaceTypes, decoder
  <2>4. CountTypes'  BY <1>4, Zenon DEF ReadFin, CountTypes, input
  <2>. QED
    BY <2>1, <2>2, <2>3, <2>4, Zenon
       DEF TypeOK, FateTypes, BudgetTypes, PlaceTypes, CountTypes
<1>. QED  BY <1>1, <1>2, <1>3, <1>4, Zenon

\* The endings that leave the decoder as it was.
Ending(s) ==
    \/ ReadReset(s) \/ TimesOut(s) \/ Refuse(s) \/ Answer(s)
    \/ TunnelEnds(s) \/ Close(s) \/ ConnectionLost(s)

\* and when its task ends or hands it on.
LEMMA EndingTypes ==
  ASSUME TypeOK, NEW s \in Streams, Ending(s) \/ Split(s)
  PROVE  TypeOK'
<1>. FateTypes /\ BudgetTypes /\ PlaceTypes /\ CountTypes  BY Types, Zenon
<1>1. CASE Ending(s)
  <2>1. /\ UNCHANGED rest /\ release(s)
        /\ \/ Reset(s, "REQUEST_INCOMPLETE")
           \/ \E out \in Codes \union {"dropped", "431", "answered"} : End(s, out)
        /\ closed' \in {closed, local_error}
    BY <1>1, Zenon DEF Ending, ReadReset, TimesOut, Refuse, Answer, TunnelEnds, Close,
                ConnectionLost, End, Codes
  <2>2. FateTypes'  BY <2>1, FateSteps, Zenon DEF Codes
  <2>3. BudgetTypes'  BY <2>1, ReleaseTypes, Zenon
  <2>4. PlaceTypes'  BY <2>1, Zenon DEF rest, decoder, PlaceTypes
  <2>5. CountTypes'  BY <2>1 DEF rest, input, CountTypes, FateTypes
  <2>. QED
    BY <2>2, <2>3, <2>4, <2>5, ZenonT(40)
       DEF TypeOK, FateTypes, BudgetTypes, PlaceTypes, CountTypes
<1>2. CASE Split(s)
  BY <1>2, Zenon DEF Split, TypeOK, decoder, input, budget
<1>. QED  BY <1>1, <1>2, Zenon

-------------------------------------------------------------------------------
(* A step concerns one stream.  From here on little is arithmetic: the leaves *)
(* that are cite SMT, or nothing but their facts.                             *)

USE ZenonT(40)

\* What PhaseKnows and FrameVerdict read of stream t is unchanged.
Untouched(t) ==
    /\ phase'[t] = phase[t] /\ script'[t] = script[t] /\ stream'[t] = stream[t]
    /\ state'[t] = state[t] /\ charged'[t] = charged[t] /\ begun'[t] = begun[t]
    /\ send'[t] = send[t] /\ skipped'[t] = skipped[t]
    /\ local_error # "none" => local_error' # "none"

\* The frames of s and its place among them are what they were.
Stands(s) ==
    /\ begun'[s] = begun[s] /\ FrameAt(s)' = FrameAt(s)
    /\ Within(s)' <=> Within(s)
    /\ OnlySkippedBefore(s)' <=> OnlySkippedBefore(s)
    /\ Again(s)' <=> Again(s)
    /\ RequestSeen(s)' <=> RequestSeen(s)

\* A stream whose frames and place are the same is where it was.
LEMMA StandsStill ==
  ASSUME NEW s \in Streams, script'[s] = script[s], begun'[s] = begun[s]
  PROVE  Stands(s)
<1>1. FrameAt(s)' = FrameAt(s)  BY DEF FrameAt
<1>2. Within(s)' <=> Within(s)  BY DEF Within
<1>3. OnlySkippedBefore(s)' <=> OnlySkippedBefore(s)  BY DEF OnlySkippedBefore
<1>4. Again(s)' <=> Again(s)  BY DEF Again
<1>5. RequestSeen(s)' <=> RequestSeen(s)  BY DEF RequestSeen
<1>. QED  BY <1>1, <1>2, <1>3, <1>4, <1>5 DEF Stands

\* What is known of a stream is known while nothing of it changes.
LEMMA UntouchedKeeps ==
  ASSUME NEW t \in Streams, SInv(t), Untouched(t)
  PROVE  SInv(t)'
<1>1. Stands(t)  BY StandsStill DEF Untouched
<1>2. PhaseKnows(t)'  BY <1>1 DEF SInv, PhaseKnows, Untouched, Stands
<1>3. FrameVerdict(t)'  BY <1>1 DEF SInv, FrameVerdict, Untouched, Stands
<1>. QED  BY <1>1, <1>2, <1>3 DEF SInv, Stands

\* Each of the ways a stream fares leaves the others alone.
LEMMA FateElsewhere ==
  ASSUME FateTypes, NEW s \in Streams, NEW t \in Streams, t # s,
         \/ \E v \in Violations : Fail(s, v)
         \/ \E c \in Codes : Reset(s, c)
         \/ TooLarge(s) \/ Headers(s)
         \/ \E out \in Codes \union {"dropped", "431", "answered"} : End(s, out)
         \/ UNCHANGED fate
  PROVE  /\ phase'[t] = phase[t] /\ send'[t] = send[t]
         /\ local_error # "none" => local_error' # "none"
BY DEF FateTypes, Fail, Reset, TooLarge, Headers, End, fate, Violations

\* The frame of one stream is no matter of another.
LEMMA BeginElsewhere ==
  ASSUME TypeOK, NEW s \in Streams, NEW t \in Streams, t # s, NEW f \in Frames, begin(s, f)
  PROVE  /\ phase'[t] = phase[t] /\ send'[t] = send[t]
         /\ state'[t] = state[t] /\ charged'[t] = charged[t]
         /\ local_error # "none" => local_error' # "none"
<1>. FateTypes /\ BudgetTypes /\ PlaceTypes  BY Types
<1>1. \/ Fail(s, "FRAME_UNEXPECTED") \/ TooLarge(s) \/ UNCHANGED fate
  BY DEF begin, Oversized
<1>2. /\ phase'[t] = phase[t] /\ send'[t] = send[t]
      /\ local_error # "none" => local_error' # "none"
  BY <1>1, FateElsewhere DEF Violations
<1>3. state'[t] = state[t]
  BY DEF begin, Oversized, Judged, Enter, PlaceTypes
<1>4. charged'[t] = charged[t]
  BY DEF begin, Oversized, Judged, charge, budget, BudgetTypes
<1>. QED  BY <1>2, <1>3, <1>4

\* A step of one stream leaves the others untouched.
LEMMA Elsewhere ==
  ASSUME IInv, NEW s \in Streams, StreamStep(s), NEW t \in Streams, t # s
  PROVE  Untouched(t)
<1>. FateTypes /\ BudgetTypes /\ PlaceTypes /\ CountTypes /\ TypeOK  BY Types DEF IInv
<1>1. CASE Accept(s)
  BY <1>1 DEF Accept, Enter, Untouched, budget, FateTypes, PlaceTypes, CountTypes
<1>2. CASE ClientSends(s)
  BY <1>2 DEF ClientSends, Untouched, decoder, budget, fate, PlaceTypes
<1>3. CASE take_frame_header(s)
  <2>1. CASE UNCHANGED <<state, remaining, begun, budget, fate>>
    BY <1>3, <2>1 DEF take_frame_header, Untouched, budget, fate
  <2>2. CASE /\ begun' = [begun EXCEPT ![s] = @ + 1]
             /\ begin(s, script[s][begun[s] + 1])
    <3>1. script[s][begun[s] + 1] \in Frames  BY <1>3, NextFrame DEF take_frame_header
    <3>2. begun'[t] = begun[t]  BY <2>2 DEF PlaceTypes
    <3>3. UNCHANGED <<script, stream, skipped>>  BY <1>3 DEF take_frame_header
    <3>. QED  BY <2>2, <3>1, <3>2, <3>3, BeginElsewhere DEF Untouched
  <2>. QED  BY <1>3, <2>1, <2>2 DEF take_frame_header
<1>4. CASE Data(s) \/ Buffering(s) \/ Skipping(s)
  <2>1. TakePayload(s)  BY <1>4 DEF Data, Buffering, Skipping
  <2>2. state'[t] = state[t] /\ UNCHANGED <<begun, script, stream>>
    BY <2>1, PayloadStep, Zenon DEF PlaceTypes
  <2>3. /\ phase'[t] = phase[t] /\ send'[t] = send[t]
        /\ local_error # "none" => local_error' # "none"
    <3>1. \/ Fail(s, "FRAME_UNEXPECTED") \/ Headers(s)
          \/ Reset(s, "EXCESSIVE_LOAD") \/ UNCHANGED fate
      BY <1>4 DEF Data, Buffering, Skipping
    <3>. QED  BY <3>1, FateElsewhere DEF Violations, Codes
  <2>4. charged'[t] = charged[t]
    BY <1>4 DEF Data, Buffering, Skipping, release, budget, BudgetTypes
  <2>5. skipped'[t] = skipped[t]
    BY <1>4 DEF Data, Buffering, Skipping, CountTypes
  <2>. QED  BY <2>2, <2>3, <2>4, <2>5 DEF Untouched
<1>5. CASE ReadChunk(s)
  BY <1>5 DEF ReadChunk, Untouched, decoder, budget, fate
<1>6. CASE ReadFin(s)
  <2>1. \/ Fail(s, "FRAME_ERROR") \/ Reset(s, "REQUEST_INCOMPLETE") \/ UNCHANGED fate
    BY <1>6 DEF ReadFin
  <2>2. /\ phase'[t] = phase[t] /\ send'[t] = send[t]
        /\ local_error # "none" => local_error' # "none"
    BY <2>1, FateElsewhere DEF Violations, Codes
  <2>3. charged'[t] = charged[t]
    BY <1>6 DEF ReadFin, release, budget, BudgetTypes
  <2>. QED  BY <1>6, <2>2, <2>3 DEF ReadFin, Untouched, decoder
<1>7. CASE Ending(s)
  BY <1>7 DEF Ending, ReadReset, TimesOut, Refuse, Answer, TunnelEnds, Close,
              ConnectionLost, End, Reset, release, rest, decoder, Untouched, FateTypes,
              BudgetTypes
<1>8. CASE Split(s)
  BY <1>8 DEF Split, Untouched, decoder, budget, FateTypes, PlaceTypes
<1>. QED  BY <1>1, <1>2, <1>3, <1>4, <1>5, <1>6, <1>7, <1>8 DEF StreamStep, Ending

-------------------------------------------------------------------------------
(* What is known of the stream that moves.                                   *)

\* Facts about sequences, stated once for the leaves that do no arithmetic.
LEMMA LengthIsNat ==
  ASSUME NEW S, NEW q \in Seq(S)
  PROVE  Len(q) \in Nat
BY SMT

\* A stream with no frame has none begun.
LEMMA NothingYet == 0 <= Len(<<>>) /\ ~(0 > 0)
BY SMT

\* The frames sent before stay what they are.
LEMMA AppendKeeps ==
  ASSUME NEW S, NEW q \in Seq(S), NEW e \in S
  PROVE  /\ Len(Append(q, e)) = Len(q) + 1
         /\ \A i \in 1 .. Len(q) : Append(q, e)[i] = q[i]
BY SMT

\* What the phases know, when a stream is accepted,
LEMMA AcceptKnows ==
  ASSUME IInv, NEW s \in Streams, Accept(s)
  PROVE  SInv(s)'
<1>. TypeOK /\ PhaseKnows(s)  BY DEF IInv, SInv
<1>1. /\ phase'[s] = "resolving" /\ script'[s] = <<>> /\ stream'[s] = "request"
      /\ state'[s] = "header" /\ begun'[s] = 0 /\ skipped'[s] = 0 /\ send'[s] = "open"
      /\ charged'[s] = charged[s]
  BY DEF Accept, Enter, TypeOK, budget
<1>2. charged[s] = 0  BY DEF Accept, PhaseKnows
<1>3. 0 <= MAX_SKIPPED_FRAMES  BY FramesAssumption, SMT
<1>4. Within(s)'  BY <1>1, NothingYet DEF Within
<1>5. OnlySkippedBefore(s)'  BY <1>1, SMT DEF OnlySkippedBefore
<1>6. /\ phase'[s] = "resolving" /\ stream'[s] = "request" /\ state'[s] = "header"
      /\ begun'[s] = 0 /\ skipped'[s] = 0 /\ send'[s] = "open" /\ charged'[s] = 0
  BY <1>1, <1>2
<1>7. PhaseKnows(s)'  BY <1>3, <1>5, <1>6, NothingYet DEF PhaseKnows
<1>8. FrameVerdict(s)'  BY <1>6, NothingYet DEF FrameVerdict
<1>. QED  BY <1>4, <1>7, <1>8 DEF SInv

\* when its client sends a frame,
LEMMA ClientSendsKnows ==
  ASSUME IInv, NEW s \in Streams, ClientSends(s)
  PROVE  SInv(s)'
<1>. TypeOK /\ SInv(s)  BY DEF IInv
<1>1. PICK f \in Frames : script'[s] = Append(script[s], f)
  BY DEF ClientSends, TypeOK
<1>2. script[s] \in Seq(Frames)  BY DEF TypeOK
<1>3. begun[s] \in Nat /\ begun[s] <= Len(script[s])  BY DEF TypeOK, SInv, Within
<1>4. Len(script[s]) \in Nat /\ Len(script'[s]) = Len(script[s]) + 1
  <2>1. Len(script[s]) \in Nat  BY ONLY <1>2, LengthIsNat, Zenon
  <2>2. Len(Append(script[s], f)) = Len(script[s]) + 1
    BY ONLY <1>2, f \in Frames, AppendKeeps, Zenon
  <2>. QED  BY ONLY <1>1, <2>1, <2>2, Zenon
<1>5. \A i \in 1 .. Len(script[s]) : script'[s][i] = script[s][i]
  <2>1. \A i \in 1 .. Len(script[s]) : Append(script[s], f)[i] = script[s][i]
    BY ONLY <1>2, f \in Frames, AppendKeeps, Zenon
  <2>. QED  BY ONLY <1>1, <2>1, Zenon
<1>6. \A i \in 1 .. begun[s] : script'[s][i] = script[s][i]  BY ONLY <1>3, <1>4, <1>5
<1>7. \A i \in 1 .. begun[s] - 1 : script'[s][i] = script[s][i]  BY ONLY <1>3, <1>6
<1>8. UNCHANGED <<phase, stream, state, charged, begun, send, skipped, local_error>>
  BY DEF ClientSends, decoder, budget, fate
<1>9. begun'[s] = begun[s]  BY <1>8
<1>10. Within(s)'  BY ONLY <1>3, <1>4, <1>9 DEF Within
<1>11. begun[s] > 0 => FrameAt(s)' = FrameAt(s)
  BY ONLY <1>3, <1>6, <1>9 DEF FrameAt
<1>12. OnlySkippedBefore(s)' <=> OnlySkippedBefore(s)
  BY ONLY <1>7, <1>9, Zenon DEF OnlySkippedBefore
<1>13. Again(s)' <=> Again(s)  BY ONLY <1>7, <1>9, Zenon DEF Again
<1>14. RequestSeen(s) => RequestSeen(s)'
  <2>. SUFFICES ASSUME RequestSeen(s) PROVE RequestSeen(s)'  OBVIOUS
  <2>1. PICK i \in 1 .. begun[s] :
           /\ script[s][i].kind = "HEADERS"
           /\ \A j \in 1 .. i - 1 : script[s][j].kind = "UNKNOWN"
    BY DEF RequestSeen
  <2>2. \A j \in 1 .. i - 1 : j \in 1 .. begun[s]  BY ONLY <1>3, <2>1
  <2>. QED  BY ONLY <1>6, <1>9, <2>1, <2>2, Zenon DEF RequestSeen
<1>15. PhaseKnows(s)'
  BY <1>8, <1>11, <1>12 DEF SInv, PhaseKnows
<1>16. FrameVerdict(s)'
  BY <1>8, <1>11, <1>13, <1>14 DEF SInv, FrameVerdict
<1>. QED  BY <1>10, <1>15, <1>16 DEF SInv

\* when a header is read: the type is judged first,
LEMMA HeaderKnows ==
  ASSUME IInv, NEW s \in Streams, take_frame_header(s)
  PROVE  SInv(s)'
<1>. TypeOK /\ SInv(s) /\ PhaseKnows(s) /\ FrameVerdict(s)  BY DEF IInv, SInv
<1>. DEFINE f == script[s][begun[s] + 1]
<1>1. f.length \in Nat /\ f.kind \in FrameKinds
  BY NextFrame DEF take_frame_header
<1>2. begun[s] \in Nat /\ Len(script[s]) \in Nat /\ begun[s] < Len(script[s])
  <2>1. script[s] \in Seq(Frames) /\ begun[s] \in Nat  BY DEF TypeOK
  <2>2. Len(script[s]) \in Nat  BY ONLY <2>1, LengthIsNat, Zenon
  <2>. QED  BY <2>1, <2>2 DEF take_frame_header, HasHeader
<1>3. /\ phase[s] \in {"resolving", "tunnel"} /\ state[s] = "header" /\ send[s] = "open"
      /\ charged[s] = 0
      /\ UNCHANGED <<script, stream, skipped>>
  BY DEF take_frame_header, Reading, HasHeader, PhaseKnows
<1>4. CASE UNCHANGED <<state, remaining, begun, budget, fate>>
  <2>1. Untouched(s)  BY <1>3, <1>4 DEF Untouched, budget, fate
  <2>. QED  BY <2>1, UntouchedKeeps
<1>5. CASE begun' = [begun EXCEPT ![s] = @ + 1] /\ begin(s, f)
  <2>1. begun'[s] = begun[s] + 1  BY <1>5 DEF TypeOK
  <2>2. FrameAt(s)' = f  BY <1>3, <2>1 DEF FrameAt
  <2>3. Within(s)'  BY ONLY <1>2, <1>3, <2>1 DEF Within
  <2>4. begun'[s] > 0 /\ begun'[s] - 1 = begun[s]  BY ONLY <1>2, <2>1
  <2>5. phase[s] = "resolving" => \A i \in 1 .. begun[s] : script[s][i].kind = "UNKNOWN"
    <3>1. \A i \in 1 .. begun[s] : begun[s] > 0 /\ (i = begun[s] \/ i \in 1 .. begun[s] - 1)
      BY ONLY <1>2
    <3>2. phase[s] = "resolving" =>
             OnlySkippedBefore(s) /\ (begun[s] > 0 => FrameAt(s).kind = "UNKNOWN")
      BY <1>3 DEF PhaseKnows
    <3>. QED  BY ONLY <3>1, <3>2, Zenon DEF FrameAt, OnlySkippedBefore
  <2>6. phase[s] = "resolving" => OnlySkippedBefore(s)'
    BY ONLY <1>3, <2>4, <2>5, Zenon DEF OnlySkippedBefore
  <2>7. phase[s] = "resolving" => ~Again(s)'
    BY ONLY <1>3, <2>4, <2>5, Zenon DEF Again
  <2>8. phase[s] = "tunnel" => RequestSeen(s)'
    <3>1. phase[s] = "tunnel" => RequestSeen(s)  BY DEF FrameVerdict
    <3>2. \A i \in 1 .. begun[s] : i \in 1 .. begun'[s]  BY ONLY <1>2, <2>1
    <3>. QED  BY ONLY <1>3, <3>1, <3>2, Zenon DEF RequestSeen
  <2>9. /\ phase[s] = "resolving" =>
              stream'[s] = "request" /\ skipped'[s] <= MAX_SKIPPED_FRAMES
        /\ phase[s] = "tunnel" => stream'[s] = "tunnel"
    BY <1>3 DEF PhaseKnows
  <2>. HIDE DEF f
  <2>10. CASE Judged(s) /\ Fail(s, "FRAME_UNEXPECTED")
    <3>1. /\ phase'[s] = "closing" /\ send'[s] = "open" /\ charged'[s] = 0
          /\ local_error' # "none"
      BY <1>3, <2>10 DEF Judged, budget, Fail, TypeOK
    <3>2. PhaseKnows(s)'  BY ONLY <3>1, Zenon DEF PhaseKnows
    <3>3. FrameVerdict(s)'  BY ONLY <3>1 DEF FrameVerdict
    <3>. QED  BY <2>3, <3>2, <3>3 DEF SInv
  <2>11. CASE /\ \/ f.kind = "DATA" /\ Enter(s, "data", f.length)
                 \/ f.kind = "UNKNOWN" /\ Enter(s, "skipping", f.length)
              /\ UNCHANGED <<budget, fate>>
    <3>1. /\ phase'[s] = phase[s] /\ send'[s] = "open" /\ charged'[s] = 0
          /\ \/ f.kind = "DATA" /\ state'[s] = "data"
             \/ f.kind = "UNKNOWN" /\ state'[s] = "skipping"
      BY <1>3, <2>11 DEF Enter, budget, fate, TypeOK
    <3>. phase[s] \in {"resolving", "tunnel"}  BY <1>3
    <3>2. PhaseKnows(s)'
      BY ONLY <3>1, <2>2, <2>4, <2>6, <2>9, phase[s] \in {"resolving", "tunnel"}, ZenonT(40)
         DEF PhaseKnows
    <3>3. FrameVerdict(s)'
      BY ONLY <3>1, <2>2, <2>8, phase[s] \in {"resolving", "tunnel"}, ZenonT(40) DEF FrameVerdict
    <3>. QED  BY <2>3, <3>2, <3>3 DEF SInv
  <2>12. CASE /\ f.kind \in {"HEADERS", "CONTROL"} /\ ~misplaced(stream[s], f.kind)
              /\ \/ charge(s, f.length) /\ Enter(s, "buffering", f.length) /\ UNCHANGED fate
                 \/ Oversized(s, f.length)
    <3>1. f.kind = "HEADERS" /\ phase[s] = "resolving"
      BY <1>3, <2>9, <2>12 DEF misplaced
    <3>2. \/ phase'[s] = "resolving" /\ send'[s] = "open" /\ state'[s] = "buffering"
          \/ phase'[s] = "refusing" /\ send'[s] = "open" /\ charged'[s] = 0
      BY <1>3, <2>12, <3>1
         DEF charge, Enter, fate, Oversized, Judged, TooLarge, budget, TypeOK
    <3>3. PhaseKnows(s)'
      BY ONLY <2>2, <2>4, <2>6, <2>9, <3>1, <3>2, Zenon DEF PhaseKnows
    <3>4. FrameVerdict(s)'
      BY ONLY <2>2, <2>7, <3>1, <3>2, Zenon DEF FrameVerdict
    <3>. QED  BY <2>3, <3>3, <3>4 DEF SInv
  <2>. QED  BY <1>5, <2>10, <2>11, <2>12 DEF begin
<1>. QED  BY <1>4, <1>5 DEF take_frame_header

\* The stream stands where it stood, and what it held it holds or has given back.
SamePlace(s) ==
    /\ Stands(s)
    /\ charged'[s] \in {charged[s], 0}
    /\ local_error # "none" => local_error' # "none"

\* A stream that is over: a 431 came from the phase that had HEADERS in hand.
LEMMA OverKnows ==
  ASSUME IInv, NEW s \in Streams, SamePlace(s), phase'[s] = "over", charged'[s] = 0,
         send'[s] = "431" => phase[s] = "refusing"
  PROVE  SInv(s)'
<1>. SInv(s) /\ PhaseKnows(s) /\ FrameVerdict(s)  BY DEF IInv, SInv
<1>1. PhaseKnows(s)'  BY DEF PhaseKnows
<1>2. send'[s] = "431" => FrameAt(s).kind = "HEADERS" /\ OnlySkippedBefore(s)
  BY DEF PhaseKnows
<1>3. OnlySkippedBefore(s) => ~Again(s)  BY ONLY TRUE DEF OnlySkippedBefore, Again
<1>4. FrameVerdict(s)'
  BY <1>2, <1>3 DEF FrameVerdict, SamePlace, Stands
<1>. QED  BY <1>1, <1>4 DEF SInv, SamePlace, Stands

\* A stream whose task is about to close the connection.
LEMMA ClosingKnows ==
  ASSUME IInv, NEW s \in Streams, SamePlace(s), phase'[s] = "closing",
         send'[s] = send[s], phase[s] \in {"resolving", "tunnel"},
         charged'[s] # 0 => state'[s] = "buffering"
  PROVE  SInv(s)'
<1>. SInv(s) /\ PhaseKnows(s) /\ FrameVerdict(s)  BY DEF IInv, SInv
<1>1. PhaseKnows(s)'  BY DEF PhaseKnows
<1>2. FrameVerdict(s)'  BY DEF PhaseKnows, FrameVerdict, SamePlace, Stands
<1>. QED  BY <1>1, <1>2 DEF SInv, SamePlace, Stands

\* when DATA is taken,
LEMMA DataKnows ==
  ASSUME IInv, NEW s \in Streams, Data(s)
  PROVE  SInv(s)'
<1>. TypeOK /\ SInv(s) /\ PhaseKnows(s) /\ FrameVerdict(s)  BY DEF IInv, SInv
<1>1. state'[s] \in {"header", state[s]} /\ state[s] = "data"
  BY PayloadStep, ZenonT(40) DEF Data, TypeOK
<1>2. UNCHANGED <<begun, script, stream>>  BY PayloadStep DEF Data
<1>3. charged'[s] = charged[s] /\ charged[s] = 0 /\ skipped' = skipped
  BY <1>1 DEF Data, budget, PhaseKnows
<1>4. Stands(s)  BY <1>2, StandsStill
<1>5. CASE phase[s] = "resolving" /\ Fail(s, "FRAME_UNEXPECTED")
  <2>1. SamePlace(s)  BY <1>3, <1>4, <1>5 DEF SamePlace, Fail
  <2>2. phase'[s] = "closing" /\ send'[s] = send[s]  BY <1>5 DEF Fail, TypeOK
  <2>. QED  BY <1>3, <1>5, <2>1, <2>2, ClosingKnows
<1>6. CASE phase[s] = "tunnel" /\ UNCHANGED fate
  <2>1. PhaseKnows(s)'  BY <1>1, <1>2, <1>3, <1>6 DEF fate, PhaseKnows
  <2>2. FrameVerdict(s)'  BY <1>3, <1>4, <1>6 DEF fate, FrameVerdict, Stands
  <2>. QED  BY <1>4, <2>1, <2>2 DEF SInv, Stands
<1>. QED  BY <1>5, <1>6 DEF Data

\* when a field section is buffered and read,
LEMMA BufferingKnows ==
  ASSUME IInv, NEW s \in Streams, Buffering(s)
  PROVE  SInv(s)'
<1>. TypeOK /\ SInv(s) /\ PhaseKnows(s) /\ FrameVerdict(s) /\ BudgetTypes
  BY Types DEF IInv, SInv
<1>1. /\ TakePayload(s) /\ state[s] = "buffering" /\ phase[s] = "resolving"
      /\ skipped' = skipped
  BY DEF Buffering, Reading, PhaseKnows
<1>2. UNCHANGED <<begun, script, stream>>  BY <1>1, PayloadStep
<1>3. Stands(s)  BY <1>2, StandsStill
<1>4. /\ begun[s] > 0 /\ FrameAt(s).kind = "HEADERS" /\ OnlySkippedBefore(s)
      /\ send[s] = "open"
  BY <1>1 DEF PhaseKnows
<1>5. CASE take_from(s) < remaining[s] /\ UNCHANGED <<budget, fate>>
  <2>1. state' = state  BY <1>1, <1>5, PayloadStep
  <2>2. Untouched(s)  BY <1>1, <1>2, <1>5, <2>1 DEF Untouched, budget, fate
  <2>. QED  BY <2>2, UntouchedKeeps
<1>6. CASE ~(take_from(s) < remaining[s]) /\ release(s) /\ Headers(s)
  <2>1. charged'[s] = 0
    <3>1. charged' = [charged EXCEPT ![s] = 0]  BY <1>6, ReleaseTypes
    <3>. QED  BY <3>1 DEF BudgetTypes
  <2>2. SamePlace(s)
    BY <1>3, <1>6, <2>1 DEF SamePlace, Headers, TooLarge, Reset, Fail
  <2>3. CASE phase'[s] \in {"served", "refusing"} /\ send' = send
    <3>1. state'[s] = "header"
      <4>1. remaining[s] \in Nat  BY DEF TypeOK
      <4>2. take_from(s) \in Nat /\ take_from(s) <= remaining[s]  BY TakeFrom
      <4>3. take_from(s) = remaining[s]
        <5>1. ~(take_from(s) < remaining[s])  BY <1>6
        <5>. QED  BY ONLY <4>1, <4>2, <5>1, SMT
      <4>4. state' = [state EXCEPT ![s] = "header"]  BY <1>1, <4>3, PayloadStep
      <4>. QED  BY <4>4 DEF TypeOK
    <3>2. PhaseKnows(s)'
      BY ONLY <1>3, <1>4, <2>1, <2>3, <3>1, ZenonT(40) DEF PhaseKnows, Stands
    <3>3. ~Again(s)  BY ONLY <1>4, Zenon DEF OnlySkippedBefore, Again
    <3>4. RequestSeen(s)
      <4>1. begun[s] \in Nat  BY DEF TypeOK
      <4>2. begun[s] > 0  BY <1>4
      <4>3. begun[s] \in 1 .. begun[s]  BY ONLY <4>1, <4>2, SMT
      <4>. QED  BY ONLY <1>4, <4>3, Zenon DEF RequestSeen, FrameAt, OnlySkippedBefore
    <3>5. FrameVerdict(s)'
      BY ONLY <1>3, <1>4, <2>3, <3>3, <3>4 DEF FrameVerdict, Stands
    <3>. QED  BY <1>3, <3>2, <3>5 DEF SInv, Stands
  <2>4. CASE \E code \in Codes : Reset(s, code)
    <3>1. phase'[s] = "over" /\ send'[s] # "431"  BY <2>4, SMT DEF Reset, TypeOK, Codes
    <3>. QED  BY <2>1, <2>2, <3>1, OverKnows
  <2>5. CASE Fail(s, "QPACK_DECOMPRESSION_FAILED")
    <3>1. phase'[s] = "closing" /\ send'[s] = send[s]  BY <2>5 DEF Fail, TypeOK
    <3>. QED  BY <1>1, <2>1, <2>2, <3>1, ClosingKnows
  <2>. QED
    BY <1>6, <2>3, <2>4, <2>5 DEF Headers, TooLarge, TypeOK, Codes
<1>. QED  BY <1>5, <1>6 DEF Buffering

\* when a frame is skipped and counted,
LEMMA SkippingKnows ==
  ASSUME IInv, NEW s \in Streams, Skipping(s)
  PROVE  SInv(s)'
<1>. TypeOK /\ SInv(s) /\ PhaseKnows(s) /\ FrameVerdict(s) /\ BudgetTypes
  BY Types DEF IInv, SInv
<1>1. TakePayload(s) /\ state[s] = "skipping" /\ phase[s] \in {"resolving", "tunnel"}
  BY DEF Skipping, Reading
<1>2. state'[s] \in {"header", "skipping"}  BY <1>1, PayloadStep, ZenonT(40) DEF TypeOK
<1>3. UNCHANGED <<begun, script, stream>>  BY <1>1, PayloadStep
<1>4. Stands(s)  BY <1>3, StandsStill
<1>5. charged[s] = 0  BY <1>1 DEF PhaseKnows
<1>6. CASE /\ UNCHANGED <<budget, fate>>
           /\ stream[s] = "request" => skipped'[s] <= MAX_SKIPPED_FRAMES
  <2>1. /\ phase'[s] = phase[s] /\ send'[s] = send[s] /\ charged'[s] = 0
        /\ stream'[s] = stream[s] /\ local_error' = local_error
    BY <1>3, <1>5, <1>6 DEF budget, fate
  <2>2. PhaseKnows(s)'
    BY <1>1, <1>2, <1>4, <1>6, <2>1 DEF PhaseKnows, Stands
  <2>3. FrameVerdict(s)'
    BY <1>4, <1>5, <2>1, Zenon DEF FrameVerdict, Stands
  <2>. QED  BY <1>4, <2>2, <2>3 DEF SInv, Stands
<1>7. CASE Reset(s, "EXCESSIVE_LOAD") /\ release(s)
  <2>1. charged' = [charged EXCEPT ![s] = 0]  BY <1>7, ReleaseTypes
  <2>2. charged'[s] = 0  BY <2>1 DEF BudgetTypes
  <2>3. SamePlace(s)  BY <1>4, <1>7, <2>2 DEF SamePlace, Reset
  <2>4. phase'[s] = "over" /\ send'[s] # "431"  BY <1>7 DEF Reset, TypeOK
  <2>. QED  BY <2>2, <2>3, <2>4, OverKnows
<1>8. stream[s] = "request" => phase[s] = "resolving" /\ skipped[s] <= MAX_SKIPPED_FRAMES
  BY <1>1 DEF PhaseKnows
<1>9. skipped \in [Streams -> 0 .. MAX_SKIPPED_FRAMES + 1] /\ MAX_SKIPPED_FRAMES \in Nat
  BY FramesAssumption DEF TypeOK
<1>10. skipped[s] \in Int  BY <1>9, SMT
<1>11. ~(skipped[s] + 1 > MAX_SKIPPED_FRAMES) => skipped[s] + 1 <= MAX_SKIPPED_FRAMES
  BY ONLY <1>9, <1>10
<1>12. CASE UNCHANGED <<skipped, budget, fate>>  BY <1>6, <1>8, <1>12
<1>13. CASE /\ skipped' = [skipped EXCEPT ![s] = skipped[s] + 1]
            /\ ~(skipped[s] + 1 > MAX_SKIPPED_FRAMES)
            /\ UNCHANGED <<budget, fate>>
  <2>1. skipped'[s] = skipped[s] + 1  BY <1>9, <1>13
  <2>. QED  BY <1>6, <1>11, <1>13, <2>1
<1>. QED  BY <1>7, <1>12, <1>13 DEF Skipping

\* when the stream gives a chunk or its end,
LEMMA ReadKnows ==
  ASSUME IInv, NEW s \in Streams, ReadChunk(s) \/ ReadFin(s)
  PROVE  SInv(s)'
<1>. TypeOK /\ SInv(s) /\ PhaseKnows(s) /\ BudgetTypes  BY Types DEF IInv, SInv
<1>1. UNCHANGED <<script, stream, decoder, skipped>>  BY DEF ReadChunk, ReadFin
<1>2. phase[s] \in {"resolving", "tunnel"}  BY DEF ReadChunk, ReadFin, NeedsMore, Reading
<1>. Stands(s)  BY <1>1, StandsStill DEF decoder
<1>3. CASE UNCHANGED <<budget, fate>>
  <2>1. Untouched(s)  BY <1>1, <1>3 DEF Untouched, decoder, budget, fate
  <2>. QED  BY <2>1, UntouchedKeeps
<1>4. CASE Fail(s, "FRAME_ERROR") /\ UNCHANGED budget
  <2>1. SamePlace(s)  BY <1>4 DEF SamePlace, Fail, budget
  <2>2. phase'[s] = "closing" /\ send'[s] = send[s]  BY <1>4 DEF Fail, TypeOK
  <2>3. charged'[s] # 0 => state'[s] = "buffering"
    BY <1>1, <1>4 DEF PhaseKnows, decoder, budget
  <2>. QED  BY <1>2, <2>1, <2>2, <2>3, ClosingKnows
<1>5. CASE Reset(s, "REQUEST_INCOMPLETE") /\ release(s)
  <2>1. charged' = [charged EXCEPT ![s] = 0]  BY <1>5, ReleaseTypes
  <2>2. charged'[s] = 0  BY <2>1 DEF BudgetTypes
  <2>3. SamePlace(s)  BY <1>5, <2>2 DEF SamePlace, Reset
  <2>4. phase'[s] = "over" /\ send'[s] # "431"  BY <1>5 DEF Reset, TypeOK
  <2>. QED  BY <2>2, <2>3, <2>4, OverKnows
<1>. QED  BY <1>3, <1>4, <1>5 DEF ReadChunk, ReadFin

\* when the task ends,
LEMMA EndingKnows ==
  ASSUME IInv, NEW s \in Streams, Ending(s)
  PROVE  SInv(s)'
<1>. TypeOK /\ BudgetTypes  BY Types DEF IInv
<1>1. UNCHANGED rest /\ release(s) /\ UNCHANGED local_error
  BY DEF Ending, ReadReset, TimesOut, Refuse, Answer, TunnelEnds, Close, ConnectionLost,
         End, Reset
<1>2. /\ phase'[s] = "over"
      /\ send'[s] = "431" => phase[s] = "refusing"
  BY SMT DEF Ending, ReadReset, TimesOut, Refuse, Answer, TunnelEnds, Close, ConnectionLost,
         End, Reset, TypeOK
<1>3. charged' = [charged EXCEPT ![s] = 0]  BY <1>1, ReleaseTypes
<1>4. charged'[s] = 0  BY <1>3 DEF BudgetTypes
<1>5. Stands(s)  BY <1>1, StandsStill DEF rest, decoder
<1>6. SamePlace(s)  BY <1>1, <1>4, <1>5 DEF SamePlace
<1>. QED  BY <1>2, <1>4, <1>6, OverKnows

\* and when the stream becomes a tunnel.
LEMMA SplitKnows ==
  ASSUME IInv, NEW s \in Streams, Split(s)
  PROVE  SInv(s)'
<1>. TypeOK /\ PhaseKnows(s) /\ FrameVerdict(s)  BY DEF IInv, SInv
<1>1. /\ phase[s] = "served" /\ phase'[s] = "tunnel" /\ stream'[s] = "tunnel"
      /\ UNCHANGED <<script, state, begun, charged, send, local_error>>
  BY DEF Split, TypeOK, decoder, budget
<1>2. Stands(s)  BY <1>1, StandsStill
<1>3. FrameVerdict(s)'  BY <1>1, <1>2 DEF FrameVerdict, Stands
<1>4. PhaseKnows(s)'  BY <1>1 DEF PhaseKnows
<1>. QED  BY <1>2, <1>3, <1>4 DEF IInv, SInv, Stands

-------------------------------------------------------------------------------
(* The invariant, and what follows from it.                                  *)

\* The invariant holds at first,
LEMMA InitKnows == Init => IInv
<1>. SUFFICES ASSUME Init PROVE IInv  OBVIOUS
<1>1. /\ HEADER \in Nat \ {0} /\ MAX_SKIPPED_FRAMES \in Nat /\ HEADERS_BUFFER_BUDGET \in Nat
  BY FramesAssumption
<1>2. TypeOK
  <2>1. 0 \in 0 .. HEADER - 1 /\ 0 \in 0 .. MAX_SKIPPED_FRAMES + 1 /\ <<>> \in Seq(Frames)
    BY <1>1, SMT
  <2>. QED  BY <1>1, <2>1, SMT DEF Init, TypeOK
<1>3. ASSUME NEW s \in Streams PROVE SInv(s)
  <2>1. /\ begun[s] = 0 /\ script[s] = <<>> /\ phase[s] = "new" /\ send[s] = "open"
        /\ charged[s] = 0
    BY DEF Init
  <2>2. Within(s)  BY <2>1, NothingYet DEF Within
  <2>3. PhaseKnows(s)  BY <2>1 DEF PhaseKnows
  <2>4. FrameVerdict(s)  BY <2>1, NothingYet DEF FrameVerdict
  <2>. QED  BY <2>2, <2>3, <2>4 DEF SInv
<1>. QED  BY <1>2, <1>3 DEF IInv

\* and in every step of a stream.
LEMMA StepKnows ==
  ASSUME IInv, NEW s \in Streams, StreamStep(s)
  PROVE  IInv'
<1>1. TypeOK'
  BY HeaderTypes, PayloadTypes, ReadTypes, EndingTypes DEF StreamStep, Ending, IInv
<1>2. SInv(s)'
  BY AcceptKnows, ClientSendsKnows, HeaderKnows, DataKnows, BufferingKnows, SkippingKnows,
     ReadKnows, EndingKnows, SplitKnows DEF StreamStep, Ending
<1>3. ASSUME NEW t \in Streams, t # s PROVE SInv(t)'
  BY <1>3, Elsewhere, UntouchedKeeps DEF IInv
<1>. QED  BY <1>1, <1>2, <1>3 DEF IInv

\* Every state keeps what each phase of a stream knows about its frames: the
\* strengthening of VerdictFitsFrame that the decoder's steps preserve.
THEOREM Invariance == Spec => []IInv
<1>1. IInv /\ [Next]_vars => IInv'
  <2>. SUFFICES ASSUME IInv, [Next]_vars PROVE IInv'  OBVIOUS
  <2>1. CASE ClosedElsewhere
    <3>1. /\ UNCHANGED <<rest, budget, fate>> /\ closed' = "elsewhere"
      BY <2>1 DEF ClosedElsewhere
    <3>2. TypeOK'  BY <3>1 DEF IInv, TypeOK, rest, decoder, input, budget, fate
    <3>3. ASSUME NEW t \in Streams PROVE SInv(t)'
      <4>1. UNCHANGED <<phase, script, stream, state, charged, begun, send, skipped, local_error>>
        BY <3>1 DEF rest, decoder, budget, fate
      <4>2. Untouched(t)  BY <4>1 DEF Untouched
      <4>. QED  BY <4>2, UntouchedKeeps DEF IInv
    <3>. QED  BY <3>2, <3>3 DEF IInv
  <2>2. CASE \E s \in Streams : StreamStep(s)  BY <2>2, StepKnows
  <2>3. CASE UNCHANGED vars
    <3>1. TypeOK'  BY <2>3 DEF IInv, TypeOK, vars, decoder, input, budget, fate
    <3>2. ASSUME NEW t \in Streams PROVE SInv(t)'
      <4>1. Untouched(t)  BY <2>3 DEF Untouched, vars, decoder, budget, fate
      <4>. QED  BY <4>1, UntouchedKeeps DEF IInv
    <3>. QED  BY <3>1, <3>2 DEF IInv
  <2>. QED  BY <2>1, <2>2, <2>3 DEF Next, StreamStep
<1>. QED  BY InitKnows, <1>1, PTL DEF Spec

\* Every variable keeps its type; the budget never hands out more than it has,
\* and no stream skips more frames than one past its limit.
THEOREM TypeCorrect == Spec => []TypeOK
<1>1. IInv => TypeOK  BY DEF IInv
<1>. QED  BY Invariance, <1>1, PTL

\* FrameDecoder judges where a frame may appear before it looks at its length or
\* at the budget, for any frames, chunks and limits and any number of streams.
THEOREM VerdictsFit == Spec => []VerdictFitsFrame
<1>1. IInv => VerdictFitsFrame
  BY DEF IInv, SInv, FrameVerdict, FrameAt, Again, RequestSeen, VerdictFitsFrame
<1>. QED  BY Invariance, <1>1, PTL

-------------------------------------------------------------------------------
(* The decoder keeps step with the frames, and the budget with the decoders.  *)

\* The sum over all that a function is defined on.
LEMMA SumOfWhole ==
  ASSUME NEW f
  PROVE  SumFunction(f) = SumOver(f, DOMAIN f)
BY SumOfFunction, Zenon DEF SumFunction

\* The bytes of the frames begun, of all the frames sent, and of the DATA begun.
BytesBegun(s) == SumOver(Sizes(script[s]), Begun(s))
BytesSent(s) == SumOver(Sizes(script[s]), DOMAIN script[s])
DataBegun(s) == SumOver(Lengths(script[s]), BegunData(s))

\* What of the DATA frame in hand is still to come.
DataDue(s) == IF state[s] = "data" THEN remaining[s] ELSE 0

\* Where the decoder of a stream stands in its frame.
Placed(s) ==
    /\ state[s] = "header" => remaining[s] = 0
    /\ state[s] # "header" => header_len[s] = 0

\* InStep, of one stream.
Stepped(s) ==
    phase[s] \in {"resolving", "served", "tunnel"} =>
        /\ pos[s] = BytesBegun(s) + header_len[s] - remaining[s]
        /\ pos[s] + chunk[s] <= BytesSent(s)
        /\ delivered[s] = DataBegun(s) - DataDue(s)

\* What a stream has of the budget is what the frame it buffers announced.
Owing(s) ==
    charged[s] = IF phase[s] \in {"resolving", "closing"} /\ state[s] = "buffering"
                 THEN FrameAt(s).length ELSE 0

Exact(s) == Placed(s) /\ Stepped(s) /\ Owing(s)

HeldIsSum == held = SumOver(charged, Streams)

DInv == IInv /\ HeldIsSum /\ \A s \in Streams : Exact(s)

\* What is proved of each stream is what the two properties say of all.
LEMMA DInvGives ==
  ASSUME DInv
  PROVE  InStep /\ BudgetIsHeld
<1>. TypeOK  BY DEF DInv, IInv
<1>1. held = SumFunction(charged)
  <2>1. DOMAIN charged = Streams  BY DEF TypeOK
  <2>. QED  BY <2>1, SumOfWhole, Zenon DEF DInv, HeldIsSum
<1>2. held <= HEADERS_BUFFER_BUDGET  BY FramesAssumption, SMT DEF TypeOK
<1>3. BudgetIsHeld
  BY <1>1, <1>2, Zenon DEF DInv, Exact, Owing, BudgetIsHeld, FrameAt
<1>4. ASSUME NEW s \in Streams
      PROVE  /\ BytesBegun(s) = SumFunctionOnSet(Sizes(script[s]), Begun(s))
             /\ BytesSent(s) = WireLength(script[s])
             /\ DataBegun(s) = SumFunctionOnSet(Lengths(script[s]), BegunData(s))
  <2>1. DOMAIN Sizes(script[s]) = DOMAIN script[s]  BY Zenon DEF Sizes
  <2>. QED
    BY <2>1, SumOfFunction, SumOfWhole, Zenon DEF BytesBegun, BytesSent, DataBegun, WireLength
<1>5. InStep
  BY <1>4, Zenon DEF DInv, Exact, Stepped, InStep, DataDue
<1>. QED  BY <1>3, <1>5, Zenon

\* The sizes and lengths of the frames a client sent.
LEMMA SizesAre ==
  ASSUME NEW q \in Seq(Frames)
  PROVE  /\ IsFiniteSet(DOMAIN q) /\ DOMAIN q = 1 .. Len(q) /\ Len(q) \in Nat
         /\ \A i \in DOMAIN q :
               /\ q[i].length \in Nat
               /\ Lengths(q)[i] = q[i].length /\ Sizes(q)[i] = HEADER + q[i].length
               /\ Lengths(q)[i] \in Nat /\ Sizes(q)[i] \in Nat
<1>2. DOMAIN q = 1 .. Len(q) /\ Len(q) \in Nat  BY SMT
<1>3. IsFiniteSet(1 .. Len(q))  BY <1>2, FS_Interval, SMT
<1>4. ASSUME NEW i \in DOMAIN q PROVE q[i].length \in Nat
  <2>1. q[i] \in Frames  BY SMT
  <2>. QED  BY <2>1, FramesAssumption, SMT DEF Frames
<1>5. HEADER \in Nat  BY FramesAssumption
<1>6. \A i \in DOMAIN q : HEADER + q[i].length \in Nat  BY <1>4, <1>5, SMT
<1>. QED  BY <1>2, <1>3, <1>4, <1>6, Zenon DEF Lengths, Sizes

\* The sums of a stream are over frames it has.
LEMMA SumsAreNatural ==
  ASSUME IInv, NEW s \in Streams
  PROVE  /\ BytesBegun(s) \in Nat /\ BytesSent(s) \in Nat /\ DataBegun(s) \in Nat
         /\ Begun(s) \subseteq DOMAIN script[s] /\ BegunData(s) \subseteq Begun(s)
         /\ IsFiniteSet(Begun(s)) /\ IsFiniteSet(BegunData(s))
<1>. TypeOK /\ Within(s)  BY DEF IInv, SInv
<1>1. /\ IsFiniteSet(DOMAIN script[s]) /\ DOMAIN script[s] = 1 .. Len(script[s])
      /\ Len(script[s]) \in Nat
      /\ \A i \in DOMAIN script[s] :
            Lengths(script[s])[i] \in Nat /\ Sizes(script[s])[i] \in Nat
  <2>1. script[s] \in Seq(Frames)  BY DEF TypeOK
  <2>. QED  BY <2>1, SizesAre
<1>2. begun[s] \in Nat /\ begun[s] <= Len(script[s])  BY DEF TypeOK, Within
<1>3. Begun(s) \subseteq DOMAIN script[s]  BY <1>1, <1>2, SMT DEF Begun
<1>4. BegunData(s) \subseteq Begun(s)  BY DEF BegunData
<1>5. IsFiniteSet(Begun(s)) /\ IsFiniteSet(BegunData(s))  BY <1>1, <1>3, <1>4, FS_Subset
<1>6. /\ \A i \in Begun(s) : Sizes(script[s])[i] \in Nat
      /\ \A i \in BegunData(s) : Lengths(script[s])[i] \in Nat
  BY <1>1, <1>3, <1>4
<1>7. BytesBegun(s) \in Nat /\ BytesSent(s) \in Nat /\ DataBegun(s) \in Nat
  BY <1>1, <1>5, <1>6, SumIsNatural, Zenon DEF BytesBegun, BytesSent, DataBegun
<1>. QED  BY <1>3, <1>4, <1>5, <1>7

-------------------------------------------------------------------------------
(* The budget.                                                               *)

\* BufferBudget::release gives back exactly what the stream had: the counter never
\* has to be held at zero.
LEMMA ReleaseIsExact ==
  ASSUME DInv, NEW s \in Streams, release(s)
  PROVE  HeldIsSum'
<1>. BudgetTypes  BY Types DEF DInv, IInv
<1>1. /\ held = SumOver(charged, Streams) /\ IsFiniteSet(Streams)
      /\ \A t \in Streams : charged[t] \in Nat
  BY FramesAssumption DEF DInv, HeldIsSum, BudgetTypes
<1>2. charged' = [charged EXCEPT ![s] = 0]  BY ReleaseTypes
<1>3. charged[s] <= held  BY <1>1, SumBounds, SMT
<1>4. held' = held - charged[s]
  <2>1. held - charged[s] \in Int /\ 0 \in Int /\ held - charged[s] >= 0
    BY <1>1, <1>3, SMT DEF BudgetTypes
  <2>2. /\ Max({held - charged[s], 0}) \in {held - charged[s], 0}
        /\ Max({held - charged[s], 0}) >= held - charged[s]
    BY ONLY <2>1, MaxOfTwo, Zenon
  <2>3. Max({held - charged[s], 0}) = held - charged[s]  BY <2>1, <2>2, SMT
  <2>. QED  BY <2>3 DEF release
<1>5. SumOver(charged', Streams) = SumOver(charged, Streams) + charged'[s] - charged[s]
  <2>1. \A t \in Streams : charged[t] \in Int /\ charged'[t] \in Int
    BY <1>1, <1>2, SMT DEF BudgetTypes
  <2>2. \A t \in Streams \ {s} : charged'[t] = charged[t]  BY <1>2 DEF BudgetTypes
  <2>. QED  BY <1>1, <2>1, <2>2, SumUpdate, SMT
<1>6. charged'[s] = 0  BY <1>2 DEF BudgetTypes
<1>7. held \in Nat  BY FramesAssumption, SMT DEF BudgetTypes
<1>8. held' = SumOver(charged', Streams)
  BY ONLY <1>1, <1>4, <1>5, <1>6, <1>7, s \in Streams, SMT
<1>. QED  BY <1>8 DEF HeldIsSum

\* BufferBudget::charge, of a stream that has nothing of the budget yet.
LEMMA ChargeIsExact ==
  ASSUME DInv, NEW s \in Streams, NEW n \in Nat, charge(s, n), charged[s] = 0
  PROVE  HeldIsSum'
<1>. BudgetTypes  BY Types DEF DInv, IInv
<1>1. /\ held = SumOver(charged, Streams) /\ IsFiniteSet(Streams)
      /\ \A t \in Streams : charged[t] \in Nat
  BY FramesAssumption DEF DInv, HeldIsSum, BudgetTypes
<1>2. charged' = [charged EXCEPT ![s] = n] /\ held' = held + n  BY DEF charge
<1>3. SumOver(charged', Streams) = SumOver(charged, Streams) + charged'[s] - charged[s]
  <2>1. \A t \in Streams : charged[t] \in Int /\ charged'[t] \in Int
    BY <1>1, <1>2, SMT DEF BudgetTypes
  <2>2. \A t \in Streams \ {s} : charged'[t] = charged[t]  BY <1>2 DEF BudgetTypes
  <2>. QED  BY <1>1, <2>1, <2>2, SumUpdate, SMT
<1>4. charged'[s] = n  BY <1>2 DEF BudgetTypes
<1>5. held \in Nat  BY FramesAssumption, SMT DEF BudgetTypes
<1>6. held' = SumOver(charged', Streams)
  BY ONLY <1>1, <1>2, <1>3, <1>4, <1>5, n \in Nat, charged[s] = 0, SMT
<1>. QED  BY <1>6 DEF HeldIsSum

\* A step that leaves the budget alone.
LEMMA BudgetStays ==
  ASSUME DInv, UNCHANGED budget
  PROVE  HeldIsSum'
BY DEF DInv, HeldIsSum, budget

\* Whatever a stream's step does, the budget stays the sum of what streams have.
LEMMA HeldStep ==
  ASSUME DInv, NEW s \in Streams, StreamStep(s)
  PROVE  HeldIsSum'
<1>. TypeOK /\ PhaseKnows(s)  BY DEF DInv, IInv, SInv
<1>1. CASE take_frame_header(s)
  <2>. DEFINE f == script[s][begun[s] + 1]
  <2>1. f.length \in Nat  BY <1>1, NextFrame DEF take_frame_header
  <2>2. charged[s] = 0  BY <1>1 DEF take_frame_header, HasHeader, PhaseKnows
  <2>3. UNCHANGED budget \/ charge(s, f.length)
    BY <1>1 DEF take_frame_header, begin, Oversized, Judged
  <2>. QED  BY <2>1, <2>2, <2>3, ChargeIsExact, BudgetStays
<1>2. CASE Accept(s) \/ ClientSends(s) \/ Data(s) \/ ReadChunk(s) \/ Split(s)
  <2>1. UNCHANGED budget  BY <1>2 DEF Accept, ClientSends, Data, ReadChunk, Split
  <2>. QED  BY <2>1, BudgetStays
<1>3. CASE Buffering(s) \/ Skipping(s) \/ ReadFin(s)
  <2>1. UNCHANGED budget \/ release(s)  BY <1>3 DEF Buffering, Skipping, ReadFin
  <2>. QED  BY <2>1, BudgetStays, ReleaseIsExact
<1>4. CASE Ending(s)
  <2>1. release(s)
    BY <1>4 DEF Ending, ReadReset, TimesOut, Refuse, Answer, TunnelEnds, Close,
                ConnectionLost, End
  <2>. QED  BY <2>1, ReleaseIsExact
<1>. QED  BY <1>1, <1>2, <1>3, <1>4 DEF StreamStep, Ending

-------------------------------------------------------------------------------
(* The streams that do not move.                                             *)

\* The decoder of t stands where it stood.
Still(t) ==
    /\ remaining'[t] = remaining[t] /\ header_len'[t] = header_len[t]
    /\ chunk'[t] = chunk[t] /\ pos'[t] = pos[t] /\ delivered'[t] = delivered[t]

\* The sums are the same while the frames and the place are.
LEMMA SumsStand ==
  ASSUME NEW s \in Streams, script'[s] = script[s], begun'[s] = begun[s]
  PROVE  /\ BytesBegun(s)' = BytesBegun(s) /\ BytesSent(s)' = BytesSent(s)
         /\ DataBegun(s)' = DataBegun(s) /\ FrameAt(s)' = FrameAt(s)
BY DEF BytesBegun, BytesSent, DataBegun, Begun, BegunData, Sizes, Lengths, FrameAt

\* A stream whose decoder stands still stays exact.
LEMMA StillExact ==
  ASSUME NEW t \in Streams, Exact(t), Untouched(t), Still(t)
  PROVE  Exact(t)'
<1>1. /\ BytesBegun(t)' = BytesBegun(t) /\ BytesSent(t)' = BytesSent(t)
      /\ DataBegun(t)' = DataBegun(t) /\ FrameAt(t)' = FrameAt(t)
  BY SumsStand DEF Untouched
<1>2. DataDue(t)' = DataDue(t)  BY DEF DataDue, Untouched, Still
<1>3. Placed(t)'  BY DEF Exact, Placed, Untouched, Still
<1>4. Stepped(t)'  BY <1>1, <1>2 DEF Exact, Stepped, Untouched, Still
<1>5. Owing(t)'  BY <1>1 DEF Exact, Owing, Untouched
<1>. QED  BY <1>3, <1>4, <1>5 DEF Exact

\* A step of one stream moves no other decoder.
LEMMA ElsewhereStill ==
  ASSUME IInv, NEW s \in Streams, StreamStep(s), NEW t \in Streams, t # s
  PROVE  Still(t)
<1>. PlaceTypes /\ CountTypes /\ TypeOK  BY Types DEF IInv
<1>1. CASE Accept(s)  BY <1>1 DEF Accept, Enter, Still, PlaceTypes, CountTypes
<1>2. CASE ClientSends(s)  BY <1>2 DEF ClientSends, Still, decoder, input
<1>3. CASE take_frame_header(s)
  <2>1. remaining'[t] = remaining[t] /\ header_len'[t] = header_len[t]
    BY <1>3 DEF take_frame_header, begin, Oversized, Judged, Enter, PlaceTypes
  <2>2. chunk'[t] = chunk[t] /\ pos'[t] = pos[t] /\ delivered'[t] = delivered[t]
    BY <1>3 DEF take_frame_header, Consume, CountTypes
  <2>. QED  BY <2>1, <2>2 DEF Still
<1>4. CASE Data(s) \/ Buffering(s) \/ Skipping(s)
  <2>1. TakePayload(s)  BY <1>4 DEF Data, Buffering, Skipping
  <2>2. /\ remaining'[t] = remaining[t] /\ header_len'[t] = header_len[t]
        /\ chunk'[t] = chunk[t] /\ pos'[t] = pos[t]
    BY <2>1 DEF TakePayload, Consume, Enter, PlaceTypes, CountTypes
  <2>3. delivered'[t] = delivered[t]
    BY <1>4 DEF Data, Buffering, Skipping, CountTypes
  <2>. QED  BY <2>2, <2>3 DEF Still
<1>5. CASE ReadChunk(s)  BY <1>5 DEF ReadChunk, Still, decoder, CountTypes
<1>6. CASE ReadFin(s) \/ Split(s)  BY <1>6 DEF ReadFin, Split, Still, decoder, input
<1>7. CASE Ending(s)
  <2>1. UNCHANGED rest
    BY <1>7 DEF Ending, ReadReset, TimesOut, Refuse, Answer, TunnelEnds, Close, ConnectionLost
  <2>. QED  BY <2>1 DEF rest, decoder, input, Still
<1>. QED  BY <1>1, <1>2, <1>3, <1>4, <1>5, <1>6, <1>7 DEF StreamStep, Ending

-------------------------------------------------------------------------------
(* The stream that moves.                                                    *)

\* The counters of a stream are numbers.
LEMMA Numbers ==
  ASSUME IInv, NEW s \in Streams
  PROVE  /\ pos[s] \in Nat /\ chunk[s] \in Nat /\ delivered[s] \in Nat
         /\ remaining[s] \in Nat /\ begun[s] \in Nat /\ HEADER \in Nat
         /\ header_len[s] \in Nat /\ header_len[s] < HEADER
         /\ script[s] \in Seq(Frames)
<1>1. header_len[s] \in 0 .. HEADER - 1 /\ HEADER \in Nat
  BY FramesAssumption DEF IInv, TypeOK
<1>2. header_len[s] \in Nat /\ header_len[s] < HEADER  BY <1>1, SMT
<1>. QED  BY <1>1, <1>2 DEF IInv, TypeOK

\* An empty stream has no frames.
LEMMA NoFrames ==
  DOMAIN <<>> = {} /\ 1 .. 0 = {}
BY SMT

\* A new stream starts at the first byte, owing nothing.
LEMMA AcceptExact ==
  ASSUME DInv, NEW s \in Streams, Accept(s)
  PROVE  Exact(s)'
<1>. TypeOK /\ Owing(s)  BY DEF DInv, IInv, Exact
<1>1. /\ phase'[s] = "resolving" /\ script'[s] = <<>> /\ state'[s] = "header"
      /\ begun'[s] = 0 /\ remaining'[s] = 0 /\ header_len'[s] = 0
      /\ chunk'[s] = 0 /\ pos'[s] = 0 /\ delivered'[s] = 0
      /\ charged'[s] = charged[s]
  BY DEF Accept, Enter, TypeOK, budget
<1>2. charged[s] = 0  BY DEF Accept, Owing
<1>3. Begun(s)' = {} /\ (DOMAIN script[s])' = {}  BY <1>1, NoFrames DEF Begun
<1>4. BegunData(s)' = {}  BY <1>3 DEF BegunData
<1>5. BytesBegun(s)' = 0 /\ BytesSent(s)' = 0 /\ DataBegun(s)' = 0
  BY <1>3, <1>4, SumEmpty DEF BytesBegun, BytesSent, DataBegun
<1>6. DataDue(s)' = 0  BY <1>1 DEF DataDue
<1>7. 0 = 0 + 0 - 0 /\ 0 + 0 <= 0 /\ 0 = 0 - 0  BY SMT
<1>8. Stepped(s)'  BY <1>1, <1>5, <1>6, <1>7 DEF Stepped
<1>9. Placed(s)'  BY <1>1 DEF Placed
<1>10. Owing(s)'  BY <1>1, <1>2 DEF Owing
<1>. QED  BY <1>8, <1>9, <1>10 DEF Exact

\* One more frame adds its bytes to those that are to come.
LEMMA OneMoreFrame ==
  ASSUME NEW q \in Seq(Frames), NEW f \in Frames
  PROVE  /\ SumOver(Sizes(Append(q, f)), DOMAIN Append(q, f)) \in Nat
         /\ SumOver(Sizes(q), DOMAIN q) \in Nat
         /\ SumOver(Sizes(q), DOMAIN q) <= SumOver(Sizes(Append(q, f)), DOMAIN Append(q, f))
<1>. DEFINE r == Append(q, f)
            e == Len(q) + 1
<1>1. /\ r \in Seq(Frames) /\ Len(r) = Len(q) + 1 /\ Len(q) \in Nat
      /\ \A i \in 1 .. Len(q) : r[i] = q[i]
  BY SMT
<1>2. /\ IsFiniteSet(DOMAIN q) /\ DOMAIN q = 1 .. Len(q)
      /\ \A i \in DOMAIN q : Sizes(q)[i] = HEADER + q[i].length /\ Sizes(q)[i] \in Nat
  BY SizesAre
<1>3. /\ IsFiniteSet(DOMAIN r) /\ DOMAIN r = 1 .. Len(r)
      /\ \A i \in DOMAIN r : Sizes(r)[i] = HEADER + r[i].length /\ Sizes(r)[i] \in Nat
  BY ONLY <1>1, SizesAre, Zenon
<1>. HIDE DEF r
<1>4. e \in DOMAIN r /\ DOMAIN r \ {e} = DOMAIN q
  <2>1. \A n \in Nat : n + 1 \in 1 .. n + 1 /\ (1 .. n + 1) \ {n + 1} = 1 .. n
    BY ONLY SMT
  <2>. QED  BY <1>1, <1>2, <1>3, <2>1
<1>5. \A i \in DOMAIN r : Sizes(r)[i] \in Int  BY <1>3, SMT
<1>. HIDE DEF e
<1>6. SumOver(Sizes(r), DOMAIN r) = Sizes(r)[e] + SumOver(Sizes(r), DOMAIN r \ {e})
  <2>. DEFINE size == Sizes(r)
              D == DOMAIN r
  <2>1. IsFiniteSet(D) /\ e \in D /\ \A i \in D : size[i] \in Int  BY <1>3, <1>4, <1>5
  <2>. HIDE DEF size, D
  <2>2. SumOver(size, D) = size[e] + SumOver(size, D \ {e})  BY ONLY <2>1, SumRemove, SMT
  <2>. QED  BY <2>2 DEF size, D
<1>7. \A i \in DOMAIN q : Sizes(r)[i] = Sizes(q)[i]
  <2>1. \A i \in DOMAIN q : i \in DOMAIN r /\ r[i] = q[i]  BY <1>1, <1>2, <1>4
  <2>. QED  BY <1>2, <1>3, <2>1
<1>8. SumOver(Sizes(r), DOMAIN q) = SumOver(Sizes(q), DOMAIN q)
  BY <1>2, <1>7, SumSame, ZenonT(40)
<1>9. /\ SumOver(Sizes(r), DOMAIN r) \in Nat /\ SumOver(Sizes(q), DOMAIN q) \in Nat
      /\ Sizes(r)[e] \in Nat
  BY <1>2, <1>3, <1>4, SumIsNatural, Zenon
<1>10. SumOver(Sizes(r), DOMAIN r) = Sizes(r)[e] + SumOver(Sizes(q), DOMAIN q)
  BY <1>4, <1>6, <1>8
<1>11. SumOver(Sizes(q), DOMAIN q) <= SumOver(Sizes(r), DOMAIN r)
  BY ONLY <1>9, <1>10, SMT
<1>. QED  BY <1>9, <1>11 DEF r

\* A frame that is sent moves nothing that was read.
LEMMA ClientSendsExact ==
  ASSUME DInv, NEW s \in Streams, ClientSends(s)
  PROVE  Exact(s)'
<1>. IInv /\ Exact(s) /\ PhaseKnows(s) /\ TypeOK  BY DEF DInv, IInv, SInv
<1>1. PICK f \in Frames : script'[s] = Append(script[s], f)  BY DEF ClientSends, TypeOK
<1>. DEFINE q == script[s]
            r == Append(script[s], f)
<1>2. q \in Seq(Frames)  BY DEF TypeOK
<1>3. r \in Seq(Frames) /\ DOMAIN q \subseteq DOMAIN r /\ \A i \in DOMAIN q : r[i] = q[i]
  BY <1>2, SMT
<1>4. /\ UNCHANGED <<phase, state, charged, begun, remaining, header_len, chunk, pos, delivered>>
  BY DEF ClientSends, decoder, input, budget, fate
<1>5. /\ Begun(s) \subseteq DOMAIN q /\ BegunData(s) \subseteq Begun(s)
      /\ IsFiniteSet(Begun(s)) /\ IsFiniteSet(BegunData(s))
  BY SumsAreNatural
<1>6. \A i \in DOMAIN q : Sizes(r)[i] = Sizes(q)[i] /\ Lengths(r)[i] = Lengths(q)[i]
  BY <1>3 DEF Sizes, Lengths
<1>7. Begun(s)' = Begun(s)  BY <1>4 DEF Begun
<1>8. BegunData(s)' = BegunData(s)
  <2>1. \A i \in Begun(s) : script'[s][i] = script[s][i]  BY <1>1, <1>3, <1>5
  <2>. QED  BY <1>7, <2>1 DEF BegunData
<1>. HIDE DEF q, r
<1>9. BytesBegun(s)' = BytesBegun(s)
  <2>1. \A i \in Begun(s) : Sizes(r)[i] = Sizes(q)[i]  BY <1>5, <1>6
  <2>2. SumOver(Sizes(r), Begun(s)) = SumOver(Sizes(q), Begun(s))
    BY ONLY <1>5, <2>1, SumSame, Zenon
  <2>3. BytesBegun(s)' = SumOver(Sizes(r), Begun(s))  BY <1>1, <1>7 DEF BytesBegun, r
  <2>. QED  BY <2>2, <2>3 DEF BytesBegun, q
<1>10. DataBegun(s)' = DataBegun(s)
  <2>1. \A i \in BegunData(s) : Lengths(r)[i] = Lengths(q)[i]  BY <1>5, <1>6
  <2>2. SumOver(Lengths(r), BegunData(s)) = SumOver(Lengths(q), BegunData(s))
    BY ONLY <1>5, <2>1, SumSame, Zenon
  <2>3. DataBegun(s)' = SumOver(Lengths(r), BegunData(s))  BY <1>1, <1>8 DEF DataBegun, r
  <2>. QED  BY <2>2, <2>3 DEF DataBegun, q
<1>11. BytesSent(s) <= BytesSent(s)' /\ BytesSent(s)' \in Nat /\ BytesSent(s) \in Nat
  BY <1>1, <1>2, OneMoreFrame DEF BytesSent, q
<1>12. pos[s] \in Nat /\ chunk[s] \in Nat  BY Numbers
<1>13. pos[s] + chunk[s] <= BytesSent(s) => pos[s] + chunk[s] <= BytesSent(s)'
  BY ONLY <1>11, <1>12, SMT
<1>14. DataDue(s)' = DataDue(s)  BY <1>4 DEF DataDue
<1>15. Stepped(s)'  BY <1>4, <1>9, <1>10, <1>13, <1>14 DEF Exact, Stepped
<1>16. Placed(s)'  BY <1>4 DEF Exact, Placed
<1>17. Owing(s)'
  <2>1. phase[s] \in {"resolving", "tunnel"}  BY DEF ClientSends
  <2>2. phase[s] = "resolving" /\ state[s] = "buffering" => FrameAt(s)' = FrameAt(s)
    <3>1. phase[s] = "resolving" /\ state[s] = "buffering" => begun[s] > 0
      BY DEF PhaseKnows
    <3>2. begun[s] > 0 => begun[s] \in Begun(s)  BY Numbers, SMT DEF Begun
    <3>3. begun[s] \in Begun(s) => r[begun[s]] = q[begun[s]]  BY <1>3, <1>5
    <3>. QED  BY <1>1, <1>4, <3>1, <3>2, <3>3 DEF FrameAt, q, r
  <2>. QED  BY <1>4, <2>1, <2>2 DEF Exact, Owing
<1>. QED  BY <1>15, <1>16, <1>17 DEF Exact

\* The next frame's bytes join those begun.
LEMMA BegunGrows ==
  ASSUME IInv, NEW s \in Streams, begun[s] < Len(script[s]),
         script'[s] = script[s], begun'[s] = begun[s] + 1
  PROVE  LET f == script[s][begun[s] + 1]
         IN  /\ BytesBegun(s)' = BytesBegun(s) + (HEADER + f.length)
             /\ f.kind = "DATA" => DataBegun(s)' = DataBegun(s) + f.length
             /\ f.kind # "DATA" => DataBegun(s)' = DataBegun(s)
<1>. DEFINE q == script[s]
            k == begun[s] + 1
<1>1. q \in Seq(Frames) /\ begun[s] \in Nat  BY Numbers
<1>2. /\ DOMAIN q = 1 .. Len(q) /\ Len(q) \in Nat
      /\ \A i \in DOMAIN q :
            /\ Lengths(q)[i] = q[i].length /\ Sizes(q)[i] = HEADER + q[i].length
            /\ Lengths(q)[i] \in Nat /\ Sizes(q)[i] \in Nat
  BY ONLY <1>1, SizesAre, ZenonT(40)
<1>3. k \in DOMAIN q /\ k \notin Begun(s) /\ 1 .. k = Begun(s) \union {k}
  BY <1>1, <1>2, SMT DEF Begun
<1>. HIDE DEF k, q
<1>4. /\ Begun(s) \subseteq DOMAIN q /\ BegunData(s) \subseteq Begun(s)
      /\ IsFiniteSet(Begun(s)) /\ IsFiniteSet(BegunData(s))
  BY SumsAreNatural DEF q
<1>5. Begun(s)' = Begun(s) \union {k}  BY <1>3 DEF Begun, k
<1>6. BytesBegun(s)' = BytesBegun(s) + Sizes(q)[k]
  <2>. DEFINE size == Sizes(q)
              B == Begun(s)
  <2>1. \A x \in B \union {k} : size[x] \in Nat  BY <1>2, <1>3, <1>4
  <2>2. \A x \in B \union {k} : size[x] \in Int  BY ONLY <2>1, SMT
  <2>3. IsFiniteSet(B) /\ k \notin B  BY <1>3, <1>4
  <2>. HIDE DEF size, B
  <2>4. SumOver(size, B \union {k}) = SumOver(size, B) + size[k]
    BY ONLY <2>2, <2>3, SumAdd, Zenon
  <2>. QED  BY <1>5, <2>4 DEF BytesBegun, size, B, q
<1>7. ASSUME q[k].kind = "DATA" PROVE DataBegun(s)' = DataBegun(s) + Lengths(q)[k]
  <2>. DEFINE length == Lengths(q)
              B == BegunData(s)
  <2>1. \A x \in B \union {k} : length[x] \in Nat  BY <1>2, <1>3, <1>4
  <2>2. \A x \in B \union {k} : length[x] \in Int  BY ONLY <2>1, SMT
  <2>3. IsFiniteSet(B) /\ k \notin B  BY <1>3, <1>4
  <2>4. BegunData(s)' = B \union {k}  BY <1>5, <1>7 DEF BegunData, q
  <2>. HIDE DEF length, B
  <2>5. SumOver(length, B \union {k}) = SumOver(length, B) + length[k]
    BY ONLY <2>2, <2>3, SumAdd, Zenon
  <2>. QED  BY <2>4, <2>5 DEF DataBegun, length, B, q
<1>8. ASSUME q[k].kind # "DATA" PROVE DataBegun(s)' = DataBegun(s)
  <2>1. BegunData(s)' = BegunData(s)  BY <1>5, <1>8 DEF BegunData, q
  <2>. QED  BY <2>1 DEF DataBegun
<1>. QED  BY <1>2, <1>3, <1>6, <1>7, <1>8 DEF q, k

\* A header that came in pieces ends where the payload begins.
LEMMA HeaderExact ==
  ASSUME DInv, NEW s \in Streams, take_frame_header(s)
  PROVE  Exact(s)'
<1>. IInv /\ TypeOK /\ Exact(s) /\ PhaseKnows(s)  BY DEF DInv, IInv, SInv
<1>. DEFINE n == Min({chunk[s], HEADER - header_len[s]})
            f == script[s][begun[s] + 1]
<1>1. /\ pos[s] \in Nat /\ chunk[s] \in Nat /\ delivered[s] \in Nat /\ HEADER \in Nat
      /\ header_len[s] \in Nat /\ header_len[s] < HEADER
      /\ BytesBegun(s) \in Nat /\ BytesSent(s) \in Nat /\ DataBegun(s) \in Nat
  BY Numbers, SumsAreNatural
<1>2. n \in Nat /\ n <= chunk[s]
  <2>1. chunk[s] \in Int /\ HEADER - header_len[s] \in Int /\ HEADER - header_len[s] \in Nat
    BY ONLY <1>1, SMT
  <2>2. n \in {chunk[s], HEADER - header_len[s]} /\ n <= chunk[s]
    BY ONLY <2>1, MinOfTwo, Zenon
  <2>. QED  BY ONLY <1>1, <2>1, <2>2, Zenon
<1>3. /\ phase[s] \in {"resolving", "tunnel"} /\ state[s] = "header" /\ charged[s] = 0
      /\ begun[s] < Len(script[s]) /\ remaining[s] = 0
      /\ UNCHANGED <<script, delivered>>
  BY DEF take_frame_header, Reading, HasHeader, Exact, Placed, PhaseKnows
<1>4. f.length \in Nat  BY NextFrame DEF take_frame_header
<1>5. /\ chunk'[s] = chunk[s] - n /\ pos'[s] = pos[s] + n
      /\ \/ /\ header_len'[s] = header_len[s] + n
            /\ UNCHANGED <<state, remaining, begun, budget, fate>>
         \/ /\ header_len[s] + n = HEADER /\ header_len'[s] = 0
            /\ begun'[s] = begun[s] + 1
            /\ begin(s, f)
  BY ZenonT(40) DEF take_frame_header, Consume, TypeOK
<1>. HIDE DEF n, f
<1>6. DataDue(s) = 0  BY <1>3 DEF DataDue
<1>7. /\ pos[s] = BytesBegun(s) + header_len[s] - 0
      /\ pos[s] + chunk[s] <= BytesSent(s) /\ delivered[s] = DataBegun(s) - 0
  BY <1>3, <1>6 DEF Exact, Stepped
<1>8. pos'[s] + chunk'[s] <= BytesSent(s)
  <2>1. (pos[s] + n) + (chunk[s] - n) <= BytesSent(s)  BY ONLY <1>1, <1>2, <1>7, SMT
  <2>. QED  BY <1>5, <2>1
<1>9. CASE /\ header_len'[s] = header_len[s] + n
           /\ UNCHANGED <<state, remaining, begun, budget, fate>>
  <2>1. /\ BytesBegun(s)' = BytesBegun(s) /\ BytesSent(s)' = BytesSent(s)
        /\ DataBegun(s)' = DataBegun(s) /\ FrameAt(s)' = FrameAt(s)
    BY <1>3, <1>9, SumsStand
  <2>2. /\ phase'[s] = phase[s] /\ state'[s] = "header" /\ remaining'[s] = 0
        /\ charged'[s] = 0 /\ delivered'[s] = delivered[s] /\ DataDue(s)' = 0
    BY <1>3, <1>9 DEF budget, fate, DataDue
  <2>3. pos'[s] = BytesBegun(s) + header_len'[s] - 0
    <3>1. pos[s] + n = BytesBegun(s) + (header_len[s] + n) - 0
      BY ONLY <1>1, <1>2, <1>7, SMT
    <3>. QED  BY <1>5, <1>9, <3>1
  <2>4. Stepped(s)'  BY <1>7, <1>8, <2>1, <2>2, <2>3 DEF Stepped
  <2>5. Placed(s)' /\ Owing(s)'  BY <2>2 DEF Placed, Owing
  <2>. QED  BY <2>4, <2>5 DEF Exact
<1>10. CASE /\ header_len[s] + n = HEADER /\ header_len'[s] = 0
            /\ begun'[s] = begun[s] + 1 /\ begin(s, f)
  <2>1. /\ BytesBegun(s)' = BytesBegun(s) + (HEADER + f.length)
        /\ f.kind = "DATA" => DataBegun(s)' = DataBegun(s) + f.length
        /\ f.kind # "DATA" => DataBegun(s)' = DataBegun(s)
    BY <1>3, <1>10, BegunGrows DEF f
  <2>2. BytesSent(s)' = BytesSent(s) /\ FrameAt(s)' = f
    BY <1>3, <1>10 DEF BytesSent, FrameAt, f
  <2>3. CASE /\ \/ Judged(s) /\ Fail(s, "FRAME_UNEXPECTED")
                \/ Oversized(s, f.length)
    <3>1. /\ phase'[s] \in {"closing", "refusing"} /\ state'[s] = "header"
          /\ remaining'[s] = 0 /\ charged'[s] = 0
      BY <1>3, <2>3 DEF Judged, Fail, Oversized, TooLarge, budget, TypeOK
    <3>. QED  BY <3>1 DEF Exact, Placed, Stepped, Owing
  <2>4. CASE \E next \in {"data", "skipping", "buffering"} :
                /\ Enter(s, next, f.length) /\ UNCHANGED fate
                /\ next = "data" <=> f.kind = "DATA"
                /\ IF next = "buffering" THEN charge(s, f.length) /\ phase[s] = "resolving"
                   ELSE UNCHANGED budget
    <3>1. PICK next \in {"data", "skipping", "buffering"} :
             /\ Enter(s, next, f.length) /\ UNCHANGED fate
             /\ next = "data" <=> f.kind = "DATA"
             /\ IF next = "buffering" THEN charge(s, f.length) /\ phase[s] = "resolving"
                ELSE UNCHANGED budget
      BY <2>4
    <3>2. /\ phase'[s] = phase[s] /\ state'[s] = next /\ remaining'[s] = f.length
          /\ charged'[s] = IF next = "buffering" THEN f.length ELSE 0
          /\ delivered'[s] = delivered[s]
      BY <1>3, <3>1 DEF Enter, charge, budget, fate, TypeOK
    <3>3. DataDue(s)' = IF f.kind = "DATA" THEN f.length ELSE 0
      BY <3>1, <3>2 DEF DataDue
    <3>4. pos'[s] = BytesBegun(s)' + header_len'[s] - remaining'[s]
      <4>1. pos[s] + n = BytesBegun(s) + (HEADER + f.length) + 0 - f.length
        <5>1. header_len[s] + n = HEADER  BY <1>10
        <5>2. pos[s] + n = BytesBegun(s) + HEADER  BY ONLY <1>1, <1>2, <1>7, <5>1, SMT
        <5>3. BytesBegun(s) + HEADER = BytesBegun(s) + (HEADER + f.length) + 0 - f.length
          BY ONLY <1>1, <1>4, SMT
        <5>. QED  BY ONLY <5>2, <5>3, Zenon
      <4>. QED  BY <1>5, <1>10, <2>1, <3>2, <4>1
    <3>5. delivered'[s] = DataBegun(s)' - DataDue(s)'
      <4>1. delivered[s] = (DataBegun(s) + f.length) - f.length
        BY ONLY <1>1, <1>4, <1>7, SMT
      <4>2. CASE f.kind = "DATA"  BY <2>1, <3>2, <3>3, <4>1, <4>2
      <4>3. CASE f.kind # "DATA"  BY <1>7, <2>1, <3>2, <3>3, <4>3
      <4>. QED  BY <4>2, <4>3
    <3>6. Stepped(s)'  BY <1>8, <2>2, <3>4, <3>5 DEF Stepped
    <3>7. Placed(s)'  BY <1>10, <3>2 DEF Placed
    <3>8. Owing(s)'  BY <2>2, <3>1, <3>2 DEF Owing
    <3>. QED  BY <3>6, <3>7, <3>8 DEF Exact
  <2>5. ASSUME f.kind \in {"HEADERS", "CONTROL"}, ~misplaced(stream[s], f.kind)
        PROVE  phase[s] = "resolving" /\ f.kind # "DATA"
    BY <1>3, <2>5, SMT DEF misplaced, PhaseKnows
  <2>. QED  BY <1>10, <2>3, <2>4, <2>5 DEF begin
<1>. QED  BY <1>5, <1>9, <1>10

\* What a payload step does to the place of the stream, whatever frame it is of.
LEMMA PayloadPlace ==
  ASSUME DInv, NEW s \in Streams, TakePayload(s), state[s] # "header",
         phase[s] \in {"resolving", "tunnel"}
  PROVE  /\ BytesBegun(s)' = BytesBegun(s) /\ BytesSent(s)' = BytesSent(s)
         /\ DataBegun(s)' = DataBegun(s) /\ FrameAt(s)' = FrameAt(s)
         /\ pos'[s] = BytesBegun(s) + header_len'[s] - remaining'[s]
         /\ pos'[s] + chunk'[s] <= BytesSent(s)
         /\ take_from(s) \in Nat /\ remaining'[s] = remaining[s] - take_from(s)
         /\ delivered[s] = DataBegun(s) - DataDue(s)
         /\ delivered[s] \in Nat /\ DataBegun(s) \in Nat /\ remaining[s] \in Nat
         /\ Placed(s)'
<1>. IInv /\ TypeOK /\ Exact(s)  BY DEF DInv, IInv
<1>. DEFINE n == take_from(s)
<1>1. /\ pos[s] \in Nat /\ chunk[s] \in Nat /\ delivered[s] \in Nat /\ HEADER \in Nat
      /\ header_len[s] \in Nat /\ remaining[s] \in Nat
      /\ BytesBegun(s) \in Nat /\ BytesSent(s) \in Nat /\ DataBegun(s) \in Nat
  BY Numbers, SumsAreNatural
<1>2. n \in Nat /\ n <= remaining[s] /\ n <= chunk[s]  BY TakeFrom
<1>3. /\ chunk'[s] = chunk[s] - n /\ pos'[s] = pos[s] + n
      /\ remaining'[s] = remaining[s] - n /\ header_len'[s] = header_len[s]
      /\ state'[s] = IF n = remaining[s] THEN "header" ELSE state[s]
      /\ script'[s] = script[s] /\ begun'[s] = begun[s]
  BY DEF TakePayload, Consume, Enter, TypeOK
<1>. HIDE DEF n
<1>4. header_len[s] = 0  BY DEF Exact, Placed
<1>5. /\ pos[s] = BytesBegun(s) + header_len[s] - remaining[s]
      /\ pos[s] + chunk[s] <= BytesSent(s)
      /\ delivered[s] = DataBegun(s) - DataDue(s)
  BY DEF Exact, Stepped
<1>6. /\ pos'[s] = BytesBegun(s) + header_len'[s] - remaining'[s]
      /\ pos'[s] + chunk'[s] <= BytesSent(s)
  <2>1. pos[s] + n = BytesBegun(s) + header_len[s] - (remaining[s] - n)
    <3>1. /\ BytesBegun(s) \in Nat /\ header_len[s] \in Nat /\ remaining[s] \in Nat
          /\ n \in Nat /\ pos[s] = BytesBegun(s) + header_len[s] - remaining[s]
      BY <1>1, <1>2, <1>5
    <3>. QED  BY ONLY <3>1, SMT
  <2>2. (pos[s] + n) + (chunk[s] - n) <= BytesSent(s)  BY ONLY <1>1, <1>2, <1>5, SMT
  <2>. QED  BY <1>3, <2>1, <2>2
<1>7. n = remaining[s] => remaining'[s] = 0
  <2>1. remaining[s] - remaining[s] = 0  BY ONLY <1>1, SMT
  <2>. QED  BY <1>3, <2>1
<1>8. Placed(s)'  BY <1>3, <1>4, <1>7 DEF Placed
<1>. QED  BY <1>1, <1>2, <1>3, <1>5, <1>6, <1>8, SumsStand DEF n

\* Each byte of DATA consumed is a byte delivered.
LEMMA DataExact ==
  ASSUME DInv, NEW s \in Streams, Data(s)
  PROVE  Exact(s)'
<1>. IInv /\ TypeOK /\ Exact(s)  BY DEF DInv, IInv
<1>1. /\ TakePayload(s) /\ state[s] = "data" /\ phase[s] \in {"resolving", "tunnel"}
      /\ charged'[s] = charged[s]
  BY DEF Data, Reading, budget
<1>2. /\ BytesBegun(s)' = BytesBegun(s) /\ BytesSent(s)' = BytesSent(s)
      /\ DataBegun(s)' = DataBegun(s) /\ FrameAt(s)' = FrameAt(s)
      /\ pos'[s] = BytesBegun(s) + header_len'[s] - remaining'[s]
      /\ pos'[s] + chunk'[s] <= BytesSent(s)
      /\ take_from(s) \in Nat /\ remaining'[s] = remaining[s] - take_from(s)
      /\ delivered[s] = DataBegun(s) - DataDue(s)
      /\ delivered[s] \in Nat /\ DataBegun(s) \in Nat /\ remaining[s] \in Nat
      /\ Placed(s)'
  BY <1>1, PayloadPlace
<1>3. state'[s] \in {"header", "data"}  BY <1>1, PayloadStep DEF TypeOK
<1>4. Owing(s)'
  <2>1. charged[s] = 0  BY <1>1 DEF Exact, Owing
  <2>. QED  BY <1>1, <1>3, <2>1 DEF Owing
<1>5. CASE Fail(s, "FRAME_UNEXPECTED")
  <2>1. phase'[s] = "closing"  BY <1>5 DEF Fail, TypeOK
  <2>. QED  BY <1>2, <1>4, <2>1 DEF Exact, Stepped
<1>6. CASE delivered' = [delivered EXCEPT ![s] = @ + take_from(s)] /\ UNCHANGED fate
  <2>1. delivered'[s] = delivered[s] + take_from(s)  BY <1>6 DEF TypeOK
  <2>2. DataDue(s) = remaining[s]  BY <1>1 DEF DataDue
  <2>3. DataDue(s)' = remaining'[s]  BY <1>2, <1>3 DEF DataDue, Placed
  <2>4. delivered'[s] = DataBegun(s) - DataDue(s)'
    BY ONLY <1>2, <2>1, <2>2, <2>3, SMT
  <2>5. Stepped(s)'  BY <1>2, <2>4 DEF Stepped
  <2>. QED  BY <1>2, <1>4, <2>5 DEF Exact
<1>. QED  BY <1>5, <1>6 DEF Data

\* The payload of any other frame: the tunnel gets none of it.
LEMMA OtherPayload ==
  ASSUME DInv, NEW s \in Streams, Buffering(s) \/ Skipping(s)
  PROVE  Placed(s)' /\ Stepped(s)' /\ FrameAt(s)' = FrameAt(s)
<1>. IInv /\ TypeOK  BY DEF DInv, IInv
<1>1. /\ TakePayload(s) /\ state[s] \in {"buffering", "skipping"}
      /\ phase[s] \in {"resolving", "tunnel"} /\ delivered'[s] = delivered[s]
  BY DEF Buffering, Skipping, Reading
<1>2. /\ BytesBegun(s)' = BytesBegun(s) /\ BytesSent(s)' = BytesSent(s)
      /\ DataBegun(s)' = DataBegun(s) /\ FrameAt(s)' = FrameAt(s)
      /\ pos'[s] = BytesBegun(s) + header_len'[s] - remaining'[s]
      /\ pos'[s] + chunk'[s] <= BytesSent(s)
      /\ delivered[s] = DataBegun(s) - DataDue(s)
      /\ Placed(s)'
  BY <1>1, PayloadPlace
<1>3. state'[s] # "data"
  <2>1. state'[s] \in {"header", state[s]}  BY <1>1, PayloadStep DEF TypeOK
  <2>. QED  BY <1>1, <2>1
<1>4. DataDue(s)' = DataDue(s)  BY <1>1, <1>3 DEF DataDue
<1>5. Stepped(s)'  BY <1>1, <1>2, <1>4 DEF Stepped
<1>. QED  BY <1>2, <1>5

\* A stream that has released owes nothing once it no longer buffers.
LEMMA ReleasedOwes ==
  ASSUME TypeOK, NEW s \in Streams, release(s), phase'[s] \notin {"resolving", "closing"}
                                               \/ state'[s] # "buffering"
  PROVE  Owing(s)'
<1>1. charged'[s] = 0  BY DEF release, TypeOK
<1>. QED  BY <1>1 DEF Owing

\* A field section that is whole gives back what it was charged.
LEMMA BufferingExact ==
  ASSUME DInv, NEW s \in Streams, Buffering(s)
  PROVE  Exact(s)'
<1>. IInv /\ TypeOK /\ Exact(s)  BY DEF DInv, IInv
<1>1. Placed(s)' /\ Stepped(s)' /\ FrameAt(s)' = FrameAt(s)  BY OtherPayload
<1>2. TakePayload(s) /\ state[s] = "buffering"  BY DEF Buffering
<1>3. CASE take_from(s) < remaining[s] /\ UNCHANGED <<budget, fate>>
  <2>1. state' = state  BY <1>2, <1>3, PayloadStep
  <2>2. Owing(s)'  BY <1>1, <1>3, <2>1 DEF Exact, Owing, budget, fate
  <2>. QED  BY <1>1, <2>2 DEF Exact
<1>4. CASE ~(take_from(s) < remaining[s]) /\ release(s)
  <2>1. remaining[s] \in Nat  BY DEF TypeOK
  <2>2. take_from(s) \in Nat /\ take_from(s) <= remaining[s]  BY TakeFrom
  <2>3. take_from(s) = remaining[s]  BY ONLY <1>4, <2>1, <2>2, SMT
  <2>4. state' = [state EXCEPT ![s] = "header"]  BY <1>2, <2>3, PayloadStep
  <2>5. state'[s] = "header"  BY <2>4 DEF TypeOK
  <2>6. Owing(s)'  BY <1>4, <2>5, ReleasedOwes
  <2>. QED  BY <1>1, <2>6 DEF Exact
<1>. QED  BY <1>3, <1>4 DEF Buffering

\* A skipped frame has nothing of the budget.
LEMMA SkippingExact ==
  ASSUME DInv, NEW s \in Streams, Skipping(s)
  PROVE  Exact(s)'
<1>. IInv /\ TypeOK /\ Exact(s)  BY DEF DInv, IInv
<1>1. Placed(s)' /\ Stepped(s)'  BY OtherPayload
<1>2. TakePayload(s) /\ state[s] = "skipping"  BY DEF Skipping
<1>3. state'[s] \in {"header", "skipping"}  BY <1>2, PayloadStep DEF TypeOK
<1>4. CASE UNCHANGED budget
  <2>1. charged[s] = 0 /\ charged' = charged  BY <1>2, <1>4 DEF Exact, Owing, budget
  <2>2. Owing(s)'  BY <1>3, <2>1 DEF Owing
  <2>. QED  BY <1>1, <2>2 DEF Exact
<1>5. CASE release(s)
  <2>1. Owing(s)'  BY <1>3, <1>5, ReleasedOwes
  <2>. QED  BY <1>1, <2>1 DEF Exact
<1>. QED  BY <1>4, <1>5 DEF Skipping

\* A chunk holds no more than was sent.
LEMMA ReadChunkExact ==
  ASSUME DInv, NEW s \in Streams, ReadChunk(s)
  PROVE  Exact(s)'
<1>. IInv /\ TypeOK /\ Exact(s)  BY DEF DInv, IInv
<1>1. PICK n \in 1 .. Min({MaxChunk, WireLength(script[s]) - pos[s]}) :
         chunk' = [chunk EXCEPT ![s] = n]
  BY DEF ReadChunk
<1>2. UNCHANGED <<script, decoder, pos, budget, fate, delivered>>  BY DEF ReadChunk
<1>3. WireLength(script[s]) = BytesSent(s)
  <2>1. DOMAIN Sizes(script[s]) = DOMAIN script[s]  BY DEF Sizes
  <2>. QED  BY <2>1, SumOfWhole DEF WireLength, BytesSent
<1>4. pos[s] \in Nat /\ BytesSent(s) \in Nat /\ MaxChunk \in Nat
  BY Numbers, SumsAreNatural, FramesAssumption
<1>5. n <= BytesSent(s) - pos[s] /\ n \in Nat
  <2>1. MaxChunk \in Int /\ BytesSent(s) - pos[s] \in Int  BY ONLY <1>4, SMT
  <2>2. /\ Min({MaxChunk, BytesSent(s) - pos[s]}) \in {MaxChunk, BytesSent(s) - pos[s]}
        /\ Min({MaxChunk, BytesSent(s) - pos[s]}) <= BytesSent(s) - pos[s]
    BY ONLY <2>1, MinOfTwo, Zenon
  <2>3. n \in 1 .. Min({MaxChunk, BytesSent(s) - pos[s]})  BY <1>1, <1>3
  <2>4. Min({MaxChunk, BytesSent(s) - pos[s]}) \in Int  BY ONLY <2>1, <2>2, Zenon
  <2>5. \A m, x \in Int : \A k \in 1 .. m : m <= x => k <= x /\ k \in Nat  BY ONLY SMT
  <2>. QED  BY ONLY <2>1, <2>2, <2>3, <2>4, <2>5, Zenon
<1>6. chunk'[s] = n  BY <1>1 DEF TypeOK
<1>7. pos[s] + n <= BytesSent(s)  BY ONLY <1>4, <1>5, SMT
<1>8. /\ BytesBegun(s)' = BytesBegun(s) /\ BytesSent(s)' = BytesSent(s)
      /\ DataBegun(s)' = DataBegun(s) /\ FrameAt(s)' = FrameAt(s)
  BY <1>2, SumsStand DEF decoder
<1>9. DataDue(s)' = DataDue(s)  BY <1>2 DEF DataDue, decoder
<1>10. Stepped(s)'
  BY <1>2, <1>6, <1>7, <1>8, <1>9 DEF Exact, Stepped, decoder, fate
<1>11. Placed(s)'  BY <1>2 DEF Exact, Placed, decoder
<1>12. Owing(s)'  BY <1>2, <1>8 DEF Exact, Owing, decoder, budget, fate
<1>. QED  BY <1>10, <1>11, <1>12 DEF Exact

\* A stream whose decoder stands still and that is no longer read.
LEMMA NotReadExact ==
  ASSUME DInv, NEW s \in Streams, UNCHANGED <<script, decoder>>,
         phase'[s] \in {"closing", "over"}, Owing(s)'
  PROVE  Exact(s)'
<1>1. Placed(s)'  BY DEF DInv, Exact, Placed, decoder
<1>2. Stepped(s)'  BY DEF Stepped
<1>. QED  BY <1>1, <1>2 DEF Exact

\* A stream that ends within a frame has it charged until its task is over.
LEMMA ReadFinExact ==
  ASSUME DInv, NEW s \in Streams, ReadFin(s)
  PROVE  Exact(s)'
<1>. IInv /\ TypeOK /\ Exact(s) /\ PhaseKnows(s)  BY DEF DInv, IInv, SInv
<1>1. /\ UNCHANGED <<script, decoder, input, delivered>>
      /\ phase[s] \in {"resolving", "tunnel"}
  BY DEF ReadFin, NeedsMore, Reading
<1>2. FrameAt(s)' = FrameAt(s)  BY <1>1, SumsStand DEF decoder
<1>3. CASE Fail(s, "FRAME_ERROR") /\ UNCHANGED budget
  <2>1. phase'[s] = "closing"  BY <1>3 DEF Fail, TypeOK
  <2>2. state'[s] = state[s] /\ charged'[s] = charged[s]  BY <1>1, <1>3 DEF decoder, budget
  <2>3. phase[s] = "tunnel" => state[s] # "buffering"  BY DEF PhaseKnows
  <2>4. Owing(s)'  BY <1>1, <1>2, <2>1, <2>2, <2>3 DEF Exact, Owing
  <2>. QED  BY <1>1, <2>1, <2>4, NotReadExact
<1>4. CASE Reset(s, "REQUEST_INCOMPLETE") /\ release(s)
  <2>1. phase'[s] = "over"  BY <1>4 DEF Reset, TypeOK
  <2>2. Owing(s)'  BY <1>4, <2>1, ReleasedOwes
  <2>. QED  BY <1>1, <2>1, <2>2, NotReadExact
<1>5. CASE UNCHANGED <<budget, fate>>
  <2>1. Untouched(s)
    <3>1. UNCHANGED <<stream, skipped>>  BY DEF ReadFin
    <3>. QED  BY <1>1, <1>5, <3>1 DEF Untouched, decoder, budget, fate
  <2>2. Still(s)  BY <1>1 DEF Still, decoder, input
  <2>. QED  BY <2>1, <2>2, StillExact
<1>. QED  BY <1>3, <1>4, <1>5 DEF ReadFin

\* Dropping a stream gives back what it had.
LEMMA EndingExact ==
  ASSUME DInv, NEW s \in Streams, Ending(s)
  PROVE  Exact(s)'
<1>. TypeOK  BY DEF DInv, IInv
<1>1. UNCHANGED rest /\ release(s) /\ phase' = [phase EXCEPT ![s] = "over"]
  BY DEF Ending, ReadReset, TimesOut, Refuse, Answer, TunnelEnds, Close, ConnectionLost,
         End, Reset
<1>2. phase'[s] = "over"  BY <1>1 DEF TypeOK
<1>3. Owing(s)'  BY <1>1, <1>2, ReleasedOwes
<1>. QED  BY <1>1, <1>2, <1>3, NotReadExact DEF rest

\* The tunnel goes on where the request stopped.
LEMMA SplitExact ==
  ASSUME DInv, NEW s \in Streams, Split(s)
  PROVE  Exact(s)'
<1>. TypeOK /\ Exact(s) /\ PhaseKnows(s)  BY DEF DInv, IInv, SInv
<1>1. /\ phase[s] = "served" /\ phase'[s] = "tunnel"
      /\ UNCHANGED <<script, decoder, input, delivered, budget>>
  BY DEF Split, TypeOK
<1>2. /\ BytesBegun(s)' = BytesBegun(s) /\ BytesSent(s)' = BytesSent(s)
      /\ DataBegun(s)' = DataBegun(s) /\ FrameAt(s)' = FrameAt(s)
  BY <1>1, SumsStand DEF decoder
<1>3. DataDue(s)' = DataDue(s)  BY <1>1 DEF DataDue, decoder
<1>4. Stepped(s)'  BY <1>1, <1>2, <1>3 DEF Exact, Stepped, decoder, input
<1>5. Placed(s)'  BY <1>1 DEF Exact, Placed, decoder
<1>6. Owing(s)'  BY <1>1 DEF Exact, Owing, budget
<1>. QED  BY <1>4, <1>5, <1>6 DEF Exact

\* No stream has been read and nothing is held.
LEMMA InitExact == Init => DInv
<1>. SUFFICES ASSUME Init PROVE DInv  OBVIOUS
<1>1. IInv  BY InitKnows
<1>2. HeldIsSum
  <2>1. held = 0 /\ \A t \in Streams : charged[t] = 0  BY DEF Init
  <2>2. IsFiniteSet(Streams)  BY FramesAssumption
  <2>. QED  BY <2>1, <2>2, SumOfZeros DEF HeldIsSum
<1>3. ASSUME NEW s \in Streams PROVE Exact(s)
  <2>1. /\ phase[s] = "new" /\ state[s] = "header" /\ remaining[s] = 0 /\ charged[s] = 0
    BY DEF Init
  <2>. QED  BY <2>1 DEF Exact, Placed, Stepped, Owing
<1>. QED  BY <1>1, <1>2, <1>3 DEF DInv

\* The inductive invariant behind InStep and BudgetIsHeld: in every state each
\* decoder's count of bytes is that of the frames begun, and each stream has of the
\* budget what the frame it buffers announced.
THEOREM ExactInvariance == Spec => []DInv
<1>1. DInv /\ IInv' /\ [Next]_vars => DInv'
  <2>. SUFFICES ASSUME DInv, IInv', [Next]_vars PROVE DInv'  OBVIOUS
  <2>. IInv  BY DEF DInv
  <2>1. CASE \E s \in Streams : StreamStep(s)
    <3>1. PICK s \in Streams : StreamStep(s)  BY <2>1
    <3>2. HeldIsSum'  BY <3>1, HeldStep
    <3>3. Exact(s)'
      BY <3>1, AcceptExact, ClientSendsExact, HeaderExact, DataExact, BufferingExact,
         SkippingExact, ReadChunkExact, ReadFinExact, EndingExact, SplitExact
         DEF StreamStep, Ending
    <3>4. ASSUME NEW t \in Streams, t # s PROVE Exact(t)'
      <4>1. Untouched(t)  BY <3>1, <3>4, Elsewhere
      <4>2. Still(t)  BY <3>1, <3>4, ElsewhereStill
      <4>. QED  BY <4>1, <4>2, StillExact DEF DInv
    <3>. QED  BY <3>2, <3>3, <3>4 DEF DInv
  <2>2. CASE ClosedElsewhere \/ UNCHANGED vars
    <3>1. UNCHANGED <<rest, budget, fate>>
      BY <2>2 DEF ClosedElsewhere, vars, rest
    <3>2. HeldIsSum'  BY <3>1, BudgetStays
    <3>3. ASSUME NEW t \in Streams PROVE Exact(t)'
      <4>1. Untouched(t)  BY <3>1 DEF Untouched, rest, decoder, budget, fate
      <4>2. Still(t)  BY <3>1 DEF Still, rest, decoder, input
      <4>. QED  BY <4>1, <4>2, StillExact DEF DInv
    <3>. QED  BY <3>2, <3>3 DEF DInv
  <2>. QED  BY <2>1, <2>2 DEF Next, StreamStep
<1>. QED  BY InitExact, Invariance, <1>1, PTL DEF Spec

\* For any number of streams, any frames, any way to cut them into chunks and any
\* order of the tasks: the decoder consumes a frame's header and payload and nothing
\* else, the tunnel gets exactly the DATA consumed, and BufferBudget holds what the
\* frames being buffered announced, all of which comes back.
THEOREM DecodersAreExact == Spec => []DecodersExact
<1>1. DInv => DecodersExact  BY DInvGives DEF DecodersExact
<1>. QED  BY ExactInvariance, <1>1, PTL
===============================================================================
