----------------------------- MODULE FramingProofs -----------------------------
(***************************************************************************)
(* What is proved of the two readers that cut a byte stream into units.       *)
(* First the safety properties of ControlStreams, for any number of streams,  *)
(* any identifiers and any octets.  Then Capsules, for any octets, any chunks *)
(* and any bound on a value: the decoder implements CapsuleStream.            *)
(***************************************************************************)
EXTENDS ControlStreams, Capsules, SequenceTheorems, WellFoundedInduction, TLAPS

\* Positions counted from the end of a string and from its beginning.
LEMMA FromTheEnd ==
    ASSUME NEW k \in Nat, NEW n \in Nat, NEW b \in 0 .. k, NEW s \in 1 .. b
    PROVE  /\ b - s \in 0 .. k /\ ~(b <= b - s) /\ k - (b - s) = (k - b) + s
           /\ n + ((k - b) + s) = n + (k - b) + s
    OBVIOUS

\* A string grows by what arrives, to its bound at most.
LEMMA GrowsWithin ==
    ASSUME NEW a \in Nat, NEW c \in Nat, NEW most \in Nat, c >= 1, a + c <= most
    PROVE  a + c \in a + 1 .. most
    OBVIOUS

\* Where a task can be.
Places(t) ==
    IF t = Main THEN {"opening", "serving", "fail", "close", "gone"}
    ELSE IF t = Peer THEN {"idle", "serving", "fail", "close", "gone"}
    ELSE {"idle", "typing", "ended", "fail", "close", "gone"} \union Critical

TasksKnow ==
    /\ \A t \in Tasks : pc[t] \in Places(t)
    /\ pc[Main] = "opening" => opened < 3 /\ \A t \in Tasks \ {Main} : pc[t] = "idle"
    /\ pc[Main] = "serving" => opened = 3

\* A task that is about to close does so with what was recorded first.
VerdictsKnow ==
    /\ local_error \in Violations \union {None}
    /\ pc[Main] = "opening" => local_error = None
    /\ \A t \in Tasks :
          /\ pc[t] = "fail" => verdict[t] \in Violations
          /\ pc[t] = "close" => local_error # None /\ verdict[t] = local_error

\* `handle` returns once, from a connection that is over.
ReportKnows ==
    /\ report # None => pc[Main] = "gone" /\ wire # "open"
    /\ ReportFitsEnding

\* quinn has a reason once there was a close, and the peer's only until this
\* endpoint closes too; no critical stream's end is judged after the close.
ReasonKnows ==
    /\ wire = "open" <=> close_reason = None
    /\ close_reason = "peer" => wire = "peer"
    /\ wire = "peer" /\ EndJudged => judged

Ending == TasksKnow /\ VerdictsKnow /\ OneVerdict /\ ReportKnows /\ ReasonKnows

\* A role is announced by reading the stream's type, and claimed with it; nobody
\* reads a stream the peer was asked to stop.
RolesKnow ==
    \A s \in Streams :
        /\ pc[s] \in {"idle", "typing"} => role[s] = None
        /\ s \in stopped => pc[s] = "gone"
        /\ role[s] \in Critical => role[s] \in seen

IInv == TypeOK /\ Ending /\ RolesKnow /\ CriticalIsKept

\* What most steps are to the ending: one task goes on, or enters `fail`.
Moves(t) ==
    /\ UNCHANGED <<opened, ending>>
    /\ pc[t] \notin {"fail", "close", "gone"}
    /\ t # Main => pc[Main] # "opening"
    /\ \/ UNCHANGED tasks
       \/ \E code \in Violations :
             Fails(t, code) /\ (code = "CLOSED_CRITICAL_STREAM" => wire = "open")
       \/ /\ t # Main
          /\ \E there \in Places(t) \ {"fail", "close"} : Goto(t, there)
          /\ UNCHANGED verdict

-------------------------------------------------------------------------------
(* The rules of the critical streams.                                        *)

\* An item is refused with a violation.
LEMMA RefusedType ==
  ASSUME NEW item \in Items
  PROVE  Refused(item) \in (Violations \ {"CLOSED_CRITICAL_STREAM"}) \union {None}
<1>1. item.kind \in {"SETTINGS", "GOAWAY", "MAX_PUSH_ID", "CANCEL_PUSH", "DATA",
                     "SKIPPED", "HEADERS", "PUSH_PROMISE", "MALFORMED"}
  BY Zenon DEF Items
<1>2. CASE control.settings
  BY <1>1, <1>2, Zenon DEF Refused, Violations, Codes
<1>3. CASE ~control.settings
  BY <1>1, <1>3, Zenon DEF Refused, Violations, Codes
<1>. QED  BY <1>2, <1>3, Zenon

\* An instruction is refused with a violation.
LEMMA InstructionType ==
  ASSUME NEW kind, NEW byte
  PROVE  qpack_instruction(kind, byte)
             \in (Violations \ {"CLOSED_CRITICAL_STREAM"}) \union {None}
BY DEF qpack_instruction, Violations, Codes

\* What the control stream has said, after one more item, is well typed.
LEMMA TakenType ==
  ASSUME TypeOK, NEW item \in Items
  PROVE  Taken(item) \in [settings : BOOLEAN, goaway : Ids \union {None},
                          max_push_id : Ids \union {None}]
<1>1. control \in [settings : BOOLEAN, goaway : Ids \union {None},
                   max_push_id : Ids \union {None}]
  BY Zenon DEF TypeOK
<1>2. item.kind \in {"GOAWAY", "MAX_PUSH_ID"} => item.id \in Ids
  BY Zenon DEF Items
<1>. QED  BY <1>1, <1>2, Zenon DEF Taken

RulesOK ==
    /\ control \in [settings : BOOLEAN, goaway : Ids \union {None},
                    max_push_id : Ids \union {None}]
    /\ progress \in [continuing : BOOLEAN, continuation : 0 .. MAX_INTEGER_CONTINUATION]
    /\ peer_datagrams \in BOOLEAN

\* The rules of a stream whose task leaves are those of a new one.
LEMMA LeaveType ==
  ASSUME RulesOK, NEW s, Leave(s)
  PROVE  RulesOK'
<1>1. NewControl \in [settings : BOOLEAN, goaway : Ids \union {None},
                      max_push_id : Ids \union {None}]
  BY Zenon DEF NewControl
<1>2. NewProgress \in [continuing : BOOLEAN, continuation : 0 .. MAX_INTEGER_CONTINUATION]
  BY ControlAssumption DEF NewProgress
<1>. QED  BY <1>1, <1>2, Zenon DEF RulesOK, Leave

-------------------------------------------------------------------------------
(* What a step of a task is to the ending of the connection.                  *)

\* No task but the connection's own is awake before the three streams are open.
LEMMA Awake ==
  ASSUME IInv, NEW t \in Tasks, t # Main, pc[t] # "idle"
  PROVE  pc[Main] # "opening"
BY Zenon DEF IInv, Ending, TasksKnow

\* A task may fail at any time, but for the end of a critical stream.
Other == Violations \ {"CLOSED_CRITICAL_STREAM"}

LEMMA OtherCodes == {"STREAM_CREATION_ERROR", "DATAGRAM_ERROR"} \subseteq Other
BY DEF Other, Violations, Codes

\* An item of the control stream moves no task but the one that read it.
LEMMA AcceptMoves ==
  ASSUME IInv, NEW s \in Streams, NEW item \in Items, accept(s, item)
  PROVE  Moves(s) /\ RulesOK' /\ UNCHANGED streams
<1>1. /\ pc[s] = "control" /\ RulesOK /\ UNCHANGED <<opened, ending, streams>>
      /\ pc[Main] # "opening"
  <2>1. pc[s] = "control" /\ RulesOK /\ UNCHANGED <<opened, ending, streams>>
    BY Zenon DEF accept, IInv, TypeOK, RulesOK
  <2>. QED  BY <2>1, Awake, ControlAssumption, Zenon DEF Tasks
<1>2. CASE Refused(item) # None
  <2>1. /\ Fails(s, Refused(item)) /\ Leave(s)
        /\ Refused(item) \in Violations \ {"CLOSED_CRITICAL_STREAM"}
    BY <1>2, RefusedType, Zenon DEF accept
  <2>2. Moves(s)
    BY <1>1, <2>1, Zenon DEF Moves
  <2>. QED  BY <1>1, <2>1, <2>2, LeaveType, Zenon
<1>3. CASE Refused(item) = None
  <2>1. UNCHANGED <<tasks, progress>> /\ control' = Taken(item)
    BY <1>3, Zenon DEF accept
  <2>2. peer_datagrams' \in BOOLEAN
    BY <1>3, Zenon DEF accept
  <2>3. RulesOK'
    BY <1>1, <2>1, <2>2, TakenType, Zenon DEF RulesOK, IInv
  <2>. QED  BY <1>1, <2>1, <2>3, Zenon DEF Moves
<1>. QED  BY <1>2, <1>3, Zenon

\* Nor does a byte of a QPACK stream.
LEMMA TakeMoves ==
  ASSUME IInv, NEW s \in Streams, NEW byte \in Bytes, take(s, byte)
  PROVE  Moves(s) /\ RulesOK' /\ UNCHANGED streams
<1>. DEFINE midway == pc[s] = "decoder" /\ progress.continuing
            refused == IF ~midway THEN qpack_instruction(pc[s], byte)
                       ELSE IF progress.continuation = MAX_INTEGER_CONTINUATION
                            THEN "DECODER_STREAM_ERROR" ELSE None
<1>1. /\ pc[s] \in {"encoder", "decoder"} /\ RulesOK /\ UNCHANGED <<opened, ending, streams>>
      /\ pc[Main] # "opening"
  <2>1. pc[s] \in {"encoder", "decoder"} /\ RulesOK /\ UNCHANGED <<opened, ending, streams>>
    BY Zenon DEF take, IInv, TypeOK, RulesOK
  <2>. QED  BY <2>1, Awake, ControlAssumption, Zenon DEF Tasks
<1>2. CASE refused # None
  <2>1. Fails(s, refused) /\ Leave(s)
    BY <1>2, Zenon DEF take
  <2>2. refused \in Violations \ {"CLOSED_CRITICAL_STREAM"}
    BY <1>2, InstructionType, Zenon DEF Violations, Codes
  <2>3. Moves(s)
    BY <1>1, <2>1, <2>2, Zenon DEF Moves
  <2>. QED  BY <1>1, <2>1, <2>3, LeaveType, Zenon
<1>3. CASE refused = None
  <2>1. UNCHANGED <<tasks, control, peer_datagrams>>
    BY <1>3, Zenon DEF take
  <2>2. progress' = IF pc[s] = "encoder" THEN progress
                    ELSE IF midway
                    THEN [continuing |-> HighBit(byte), continuation |-> progress.continuation + 1]
                    ELSE [continuing |-> IntegerContinues(pc[s], byte), continuation |-> 0]
    BY <1>3, Zenon DEF take
  <2>3. midway => progress.continuation + 1 \in 0 .. MAX_INTEGER_CONTINUATION
    <3>1. midway => progress.continuation # MAX_INTEGER_CONTINUATION
      BY <1>3, NoneAssumption, Zenon DEF Codes
    <3>2. progress.continuation \in 0 .. MAX_INTEGER_CONTINUATION
      BY <1>1, Zenon DEF RulesOK
    <3>. QED  BY <3>1, <3>2, ControlAssumption
  <2>4. HighBit(byte) \in BOOLEAN /\ IntegerContinues(pc[s], byte) \in BOOLEAN
    BY DEF HighBit, IntegerContinues
  <2>5. progress' \in [continuing : BOOLEAN, continuation : 0 .. MAX_INTEGER_CONTINUATION]
    BY <1>1, <2>2, <2>3, <2>4, ControlAssumption DEF RulesOK
  <2>6. RulesOK'
    BY <1>1, <2>1, <2>5, Zenon DEF RulesOK
  <2>. QED  BY <1>1, <2>1, <2>6, Zenon DEF Moves
<1>. QED  BY <1>2, <1>3, Zenon

\* The types of a step that is only one task's.
LEMMA MovesType ==
  ASSUME TypeOK, NEW t \in Tasks, Moves(t), RulesOK',
         role' \in [Streams -> Critical \union {None}],
         seen' \subseteq Critical, stopped' \subseteq Streams
  PROVE  TypeOK'
<1>1. verdict' \in [Tasks -> Codes \union {None}]
  BY Zenon DEF TypeOK, Moves, Fails, Violations, tasks
<1>2. Places(t) \subseteq Awaiting \union {"idle", "ended", "fail", "close", "gone"}
  BY Zenon DEF Places, Awaiting
<1>3. pc' \in [Tasks -> Awaiting \union {"idle", "ended", "fail", "close", "gone"}]
  BY <1>2, Zenon DEF TypeOK, Moves, Fails, Goto, tasks
<1>4. UNCHANGED <<opened, local_error, wire, close_reason, report, judged>>
  BY Zenon DEF Moves, ending
<1>. QED  BY <1>1, <1>3, <1>4, Zenon DEF TypeOK, RulesOK

\* It leaves the ending as it was.
LEMMA MovesEnding ==
  ASSUME IInv, NEW t \in Tasks, Moves(t)
  PROVE  Ending'
<1>1. /\ UNCHANGED <<opened, local_error, wire, close_reason, report, judged>>
      /\ TypeOK /\ Ending
  BY Zenon DEF Moves, ending, IInv
<1>2. \A u \in Tasks \ {t} : pc'[u] = pc[u] /\ verdict'[u] = verdict[u]
  BY <1>1, Zenon DEF TypeOK, Moves, Fails, Goto, tasks
<1>3. /\ pc'[t] \in Places(t) /\ pc'[t] # "close"
      /\ pc'[t] = "fail" => verdict'[t] \in Violations
      /\ t = Main => pc'[t] = pc[t] \/ pc'[t] = "fail"
  BY <1>1, Zenon DEF TypeOK, Ending, TasksKnow, Moves, Fails, Goto, Places, tasks
<1>0. pc'[Main] = "opening" => t = Main /\ pc[Main] = "opening"
  <2>1. CASE t = Main
    BY <1>3, <2>1, Zenon
  <2>2. CASE t # Main
    BY <1>2, <2>2, Zenon DEF Moves, Tasks
  <2>. QED  BY <2>1, <2>2, Zenon
<1>4. TasksKnow'
  <2>1. \A u \in Tasks : pc'[u] \in Places(u)
    BY <1>1, <1>2, <1>3, Zenon DEF Ending, TasksKnow
  <2>2. pc'[Main] = "opening" => opened' < 3 /\ \A u \in Tasks \ {Main} : pc'[u] = "idle"
    BY <1>0, <1>1, <1>2, Zenon DEF Ending, TasksKnow
  <2>3. pc'[Main] = "serving" => opened' = 3
    BY <1>1, <1>2, <1>3, Zenon DEF Ending, TasksKnow, Tasks
  <2>. QED  BY <2>1, <2>2, <2>3, Zenon DEF TasksKnow
<1>5. VerdictsKnow'
  BY <1>0, <1>1, <1>2, <1>3, Zenon DEF Ending, VerdictsKnow
<1>6. OneVerdict'
  BY <1>1, Zenon DEF Ending, OneVerdict
<1>7. ReportKnows'
  <2>1. pc[Main] = "gone" => pc'[Main] = "gone"
    BY <1>2, Zenon DEF Moves, Tasks
  <2>. QED  BY <1>1, <2>1, Zenon DEF Ending, ReportKnows, ReportFitsEnding
<1>8. ReasonKnows'
  <2>1. EndJudged' => EndJudged \/ wire = "open"
    BY <1>1, <1>2, ZenonT(40) DEF EndJudged, Moves, Fails, tasks, TypeOK
  <2>. QED  BY <1>1, <2>1, Zenon DEF Ending, ReasonKnows
<1>. QED  BY <1>4, <1>5, <1>6, <1>7, <1>8, Zenon DEF Ending

\* A step of a stream that neither claims a role nor stops one keeps the roles.
LEMMA MovesRoles ==
  ASSUME IInv, NEW t \in Tasks, Moves(t), UNCHANGED streams,
         t \in Streams => pc[t] = "idle" \/ pc'[t] \notin {"idle", "typing"}
  PROVE  RolesKnow' /\ CriticalIsKept'
<1>1. UNCHANGED <<role, seen, stopped, local_error>> /\ pc[t] \notin {"fail", "gone"}
  BY Zenon DEF Moves, streams, ending
<1>2. \A u \in Tasks \ {t} : pc'[u] = pc[u]
  BY Zenon DEF IInv, TypeOK, Moves, Fails, Goto, tasks
<1>3. RolesKnow'
  BY <1>1, <1>2, Zenon DEF IInv, RolesKnow, Tasks
<1>4. DuplicateIsFatal'
  BY <1>1, <1>2, Zenon DEF IInv, CriticalIsKept, DuplicateIsFatal, Tasks
<1>5. CriticalIsNotStopped'
  BY <1>1, Zenon DEF IInv, CriticalIsKept, CriticalIsNotStopped
<1>. QED  BY <1>3, <1>4, <1>5, Zenon DEF CriticalIsKept

\* A task that moves within its rules keeps the invariant.
LEMMA MovesStep ==
  ASSUME IInv, NEW t \in Tasks, Moves(t), RulesOK', UNCHANGED streams,
         t \in Streams => pc[t] = "idle" \/ pc'[t] \notin {"idle", "typing"}
  PROVE  IInv'
<1>1. TypeOK'
  BY MovesType, Zenon DEF IInv, TypeOK, streams
<1>. QED  BY <1>1, MovesEnding, MovesRoles, Zenon DEF IInv

\* Reading a stream's type: a role is claimed once.
LEMMA ServeStreamStep ==
  ASSUME IInv, NEW s \in Streams, NEW kind \in Types, serve_stream(s, kind)
  PROVE  IInv'
<1>1. /\ pc[s] = "typing" /\ role[s] = None /\ s \notin stopped
      /\ UNCHANGED <<opened, ending, rules>> /\ TypeOK /\ s \in Tasks
      /\ s # Main /\ s # Peer /\ pc[Main] # "opening"
  <2>1. /\ pc[s] = "typing" /\ role[s] = None /\ s \notin stopped
        /\ UNCHANGED <<opened, ending, rules>> /\ TypeOK /\ s \in Tasks
        /\ s # Main /\ s # Peer
    BY ControlAssumption, Zenon DEF serve_stream, IInv, RolesKnow, Tasks
  <2>. QED  BY <2>1, Awake, Zenon
<1>2. /\ \A u \in Tasks \ {s} : pc'[u] = pc[u]
      /\ pc'[s] \in Critical \union {"fail", "gone"}
  <2>1. \E there \in Critical \union {"fail", "gone"} : pc' = [pc EXCEPT ![s] = there]
    BY Zenon DEF serve_stream, Claim, Fails, Goto
  <2>. QED  BY <1>1, <2>1, Zenon DEF TypeOK
<1>3. Moves(s)
  <2>1. CASE kind \in Critical /\ Claim(s, kind)
    BY <1>1, <2>1, OtherCodes, Zenon DEF Claim, Moves, Places, Other, Critical
  <2>2. CASE kind = "push" /\ Fails(s, "STREAM_CREATION_ERROR")
    BY <1>1, <2>2, OtherCodes, Zenon DEF Moves, Other
  <2>3. CASE kind = "unknown" /\ Goto(s, "gone") /\ UNCHANGED verdict
    BY <1>1, <2>3, Zenon DEF Moves, Places
  <2>. QED  BY <2>1, <2>2, <2>3, Zenon DEF serve_stream
<1>4. RulesOK'
  BY <1>1, Zenon DEF TypeOK, RulesOK, rules
<1>5. /\ role' \in [Streams -> Critical \union {None}]
      /\ seen' \subseteq Critical /\ stopped' \subseteq Streams
  BY <1>1, Zenon DEF serve_stream, Claim, TypeOK
<1>6. TypeOK' /\ Ending'
  BY <1>1, <1>3, <1>4, <1>5, MovesType, MovesEnding, Zenon
<1>7. CASE kind \in Critical
  <2>1. /\ role' = [role EXCEPT ![s] = kind] /\ seen' = seen \union {kind}
        /\ stopped' = stopped
    BY <1>7, Zenon DEF serve_stream, Claim, Critical
  <2>2. RolesKnow'
    BY <1>1, <1>2, <2>1 DEF IInv, RolesKnow, TypeOK, Tasks, Critical
  <2>3. CriticalIsNotStopped'
    BY <1>1, <2>1, Zenon DEF IInv, TypeOK, CriticalIsKept, CriticalIsNotStopped
  <2>4. DuplicateIsFatal'
    <3>1. CASE kind \in seen
      <4>1. pc'[s] = "fail"
        BY <1>1, <1>7, <3>1, ZenonT(40) DEF serve_stream, Claim, Fails, Goto, TypeOK, Critical
      <4>. QED  BY <4>1, Zenon DEF DuplicateIsFatal
    <3>2. CASE kind \notin seen
      <4>. SUFFICES ASSUME NEW q \in Streams, NEW r \in Streams, q # r,
                           role'[q] = role'[r], role'[q] \in Critical
                    PROVE  local_error' # None \/ \E t \in Streams : pc'[t] = "fail"
        BY Zenon DEF DuplicateIsFatal
      <4>1. q # s /\ r # s
        BY <1>1, <1>7, <2>1, <3>2, Zenon DEF IInv, RolesKnow, TypeOK
      <4>2. role[q] = role[r] /\ role[q] \in Critical
        BY <1>1, <2>1, <4>1, Zenon DEF TypeOK
      <4>3. local_error # None \/ \E t \in Streams : pc[t] = "fail"
        BY <4>2, Zenon DEF IInv, CriticalIsKept, DuplicateIsFatal
      <4>. QED  BY <1>1, <1>2, <4>3, Zenon DEF ending, Tasks
    <3>. QED  BY <3>1, <3>2, Zenon
  <2>. QED  BY <1>6, <2>2, <2>3, <2>4, Zenon DEF IInv, CriticalIsKept
<1>8. CASE kind \notin Critical
  <2>1. role' = role /\ seen' = seen /\ stopped' \in {stopped, stopped \union {s}}
        /\ (stopped' # stopped => pc'[s] = "gone")
    BY <1>1, <1>8, Zenon DEF serve_stream, Goto, TypeOK
  <2>2. RolesKnow'
    BY <1>1, <1>2, <2>1, Zenon DEF IInv, RolesKnow, Tasks, Critical
  <2>3. CriticalIsNotStopped'
    BY <1>1, <2>1, NoneAssumption DEF IInv, CriticalIsKept, CriticalIsNotStopped
  <2>4. DuplicateIsFatal'
    BY <1>1, <1>2, <2>1, Zenon DEF IInv, CriticalIsKept, DuplicateIsFatal, ending, Tasks
  <2>. QED  BY <1>6, <2>2, <2>3, <2>4 DEF IInv, CriticalIsKept
<1>. QED  BY <1>7, <1>8, Zenon

\* Every step of the task of a stream.
LEMMA ServeStep ==
  ASSUME IInv, NEW s \in Streams, Serve(s)
  PROVE  IInv'
<1>1. /\ TypeOK /\ RulesOK /\ s \in Tasks /\ s # Main /\ s # Peer
      /\ s \notin stopped \/ pc[s] = "gone"
      /\ pc[s] # "idle" \/ pc[Peer] = "serving" => pc[Main] # "opening"
  <2>1. /\ TypeOK /\ RulesOK /\ s \in Tasks /\ s # Main /\ s # Peer
        /\ s \notin stopped \/ pc[s] = "gone"
        /\ Peer \in Tasks /\ Peer # Main
    BY ControlAssumption, Zenon DEF IInv, RolesKnow, TypeOK, RulesOK, Tasks
  <2>. QED  BY <2>1, Awake, Zenon
<1>2. CASE AcceptUni(s)
  <2>1. Moves(s) /\ UNCHANGED streams /\ RulesOK' /\ pc[s] = "idle"
    BY <1>1, <1>2, Zenon DEF AcceptUni, Moves, Places, RulesOK, rules
  <2>. QED  BY <1>1, <2>1, MovesStep, Zenon
<1>3. CASE Untyped(s)
  <2>1. Moves(s) /\ UNCHANGED streams /\ RulesOK' /\ pc'[s] = "gone"
    BY <1>1, <1>3, Zenon DEF Untyped, Goto, TypeOK, Moves, Places, RulesOK, rules
  <2>. QED  BY <1>1, <2>1, MovesStep, Zenon
<1>4. CASE TypeTimesOut(s)
  <2>1. /\ pc[s] = "typing" /\ pc' = [pc EXCEPT ![s] = "gone"]
        /\ UNCHANGED <<verdict, opened, role, seen, rules, ending>>
        /\ stopped' = stopped \union {s}
    BY <1>4, Zenon DEF TypeTimesOut, Goto
  <2>2. Moves(s)
    BY <1>1, <2>1, Zenon DEF Moves, Places, Goto
  <2>3. RulesOK' /\ TypeOK' /\ Ending'
    <3>1. RulesOK'
      BY <1>1, <2>1, Zenon DEF RulesOK, rules
    <3>2. role' \in [Streams -> Critical \union {None}] /\ seen' \subseteq Critical
          /\ stopped' \subseteq Streams
      BY <1>1, <2>1 DEF TypeOK
    <3>. QED  BY <1>1, <2>2, <3>1, <3>2, MovesType, MovesEnding, Zenon
  <2>4. role[s] = None
    BY <2>1, Zenon DEF IInv, RolesKnow
  <2>5. RolesKnow'
    BY <1>1, <2>1, Zenon DEF IInv, TypeOK, RolesKnow, Tasks
  <2>6. CriticalIsNotStopped'
    BY <2>1, <2>4, NoneAssumption, Zenon DEF IInv, CriticalIsKept, CriticalIsNotStopped
  <2>7. DuplicateIsFatal'
    BY <1>1, <2>1, Zenon DEF IInv, TypeOK, CriticalIsKept, DuplicateIsFatal, ending, Tasks
  <2>. QED  BY <2>3, <2>5, <2>6, <2>7 DEF IInv, CriticalIsKept
<1>5. ASSUME NEW kind \in Types, serve_stream(s, kind)  PROVE IInv'
  BY <1>5, ServeStreamStep, Zenon
<1>6. ASSUME NEW item \in Items, accept(s, item)  PROVE IInv'
  <2>1. pc[s] = "control" /\ pc'[s] \in {"control", "fail"}
    BY <1>1, <1>6, Zenon DEF accept, Fails, Goto, TypeOK, tasks
  <2>. QED  BY <1>1, <1>6, <2>1, AcceptMoves, MovesStep, Zenon
<1>7. ASSUME NEW byte \in Bytes, take(s, byte)  PROVE IInv'
  <2>1. pc[s] \in {"encoder", "decoder"} /\ pc'[s] \in {pc[s], "fail"}
    BY <1>1, <1>7, Zenon DEF take, Fails, Goto, TypeOK, tasks
  <2>. QED  BY <1>1, <1>7, <2>1, TakeMoves, MovesStep, Zenon
<1>8. CASE StreamEnds(s)
  <2>1. Moves(s) /\ UNCHANGED streams /\ pc'[s] = "ended"
    BY <1>1, <1>8, Zenon DEF StreamEnds, Goto, TypeOK, Moves, Places, Critical
  <2>2. RulesOK'
    BY <1>1, <1>8, LeaveType, Zenon DEF StreamEnds
  <2>. QED  BY <1>1, <2>1, <2>2, MovesStep, Zenon
<1>9. CASE ControlLost(s)
  <2>1. Moves(s) /\ UNCHANGED streams /\ pc'[s] = "gone"
    BY <1>1, <1>9, Zenon DEF ControlLost, Goto, TypeOK, Moves, Places
  <2>2. RulesOK'
    BY <1>1, <1>9, LeaveType, Zenon DEF ControlLost
  <2>. QED  BY <1>1, <2>1, <2>2, MovesStep, Zenon
<1>10. CASE critical_stream_closed(s)
  <2>0. /\ pc[s] = "ended" /\ UNCHANGED <<opened, streams, rules, ending>>
        /\ "CLOSED_CRITICAL_STREAM" \in Violations
    BY <1>10, Zenon DEF critical_stream_closed, Violations, Codes
  <2>3. ASSUME close_reason # None
        PROVE  Moves(s) /\ UNCHANGED streams /\ pc'[s] \in {"gone", "fail"}
    BY <1>1, <1>10, <2>0, <2>3, Zenon DEF critical_stream_closed, Goto, TypeOK, Moves, Places
  <2>4. ASSUME close_reason = None
        PROVE  Moves(s) /\ UNCHANGED streams /\ pc'[s] \in {"gone", "fail"}
    <3>1. Fails(s, "CLOSED_CRITICAL_STREAM") /\ wire = "open"
      BY <1>10, <2>4, Zenon DEF critical_stream_closed, IInv, Ending, ReasonKnows
    <3>. QED  BY <1>1, <2>0, <3>1, Zenon DEF Fails, Goto, TypeOK, Moves
  <2>1. Moves(s) /\ UNCHANGED streams /\ pc'[s] \in {"gone", "fail"}
    BY <2>3, <2>4, Zenon
  <2>2. RulesOK'
    BY <1>1, <1>10, Zenon DEF critical_stream_closed, RulesOK, rules
  <2>. QED  BY <1>1, <2>1, <2>2, MovesStep, Zenon
<1>. QED  BY <1>2, <1>3, <1>4, <1>5, <1>6, <1>7, <1>8, <1>9, <1>10, Zenon DEF Serve

-------------------------------------------------------------------------------
(* The steps that end the connection.                                        *)

\* A step of the connection's own task, or of the world, leaves the streams alone.
LEMMA RolesElsewhere ==
  ASSUME IInv, UNCHANGED <<streams, local_error>>, \A s \in Streams : pc'[s] = pc[s]
  PROVE  RolesKnow' /\ CriticalIsKept'
<1>1. UNCHANGED <<role, seen, stopped, local_error>>
  BY Zenon DEF streams
<1>2. RolesKnow'
  BY <1>1, Zenon DEF IInv, RolesKnow
<1>3. DuplicateIsFatal' /\ CriticalIsNotStopped'
  BY <1>1, Zenon DEF IInv, CriticalIsKept, DuplicateIsFatal, CriticalIsNotStopped
<1>. QED  BY <1>2, <1>3, Zenon DEF CriticalIsKept

\* A report stands: the connection it tells the end of stays closed as it was.
LEMMA ReportStands ==
  ASSUME ReportKnows, wire = "open" \/ wire' = wire, wire = "open" \/ judged' = judged,
         report' = report, pc[Main] = "gone" => pc'[Main] = "gone"
  PROVE  ReportKnows'
<1>1. report # None => wire' = wire /\ judged' = judged
  BY Zenon DEF ReportKnows
<1>. QED  BY <1>1, Zenon DEF ReportKnows, ReportFitsEnding

\* What a close of this endpoint leaves.
LEMMA LocalReason ==
  ASSUME IInv, NEW code \in Codes, ClosesLocally(code), judged' = judged,
         EndJudged' => EndJudged
  PROVE  /\ ReasonKnows' /\ wire' # "open" /\ close_reason' = "LocallyClosed"
         /\ wire' \in {"open", "peer"} \union Codes
         /\ wire = "open" \/ wire' = wire
<1>1. /\ close_reason' = "LocallyClosed" /\ None # "LocallyClosed"
      /\ wire' = IF wire = "open" THEN code ELSE wire
  BY NoneAssumption, Zenon DEF ClosesLocally, Reasons
<1>2. code # "open" /\ code # "peer"
  BY Zenon DEF Codes
<1>. QED  BY <1>1, <1>2, Zenon DEF IInv, TypeOK, Ending, ReasonKnows

\* The connection is closed by the peer, or for its failed authentications.
LEMMA WireStep ==
  ASSUME IInv, PeerCloses \/ AuthenticationLimit
  PROVE  IInv'
<1>1. UNCHANGED <<tasks, opened, streams, rules, local_error, report>>
  BY Zenon DEF PeerCloses, AuthenticationLimit
<1>2. EndJudged' <=> EndJudged
  BY <1>1, Zenon DEF EndJudged, tasks
<1>3. /\ wire' = wire \/ (wire = "open" /\ wire' \in {"peer", "AUTH_FAILURE_LIMIT"})
      /\ wire = "open" \/ judged' = judged
      /\ ReasonKnows' /\ close_reason' \in Reasons /\ judged' \in BOOLEAN
  <2>1. CASE PeerCloses
    <3>1. /\ wire = "open" /\ wire' = "peer" /\ close_reason' = "peer"
          /\ judged' = EndJudged /\ None # "peer"
      BY <2>1, NoneAssumption, Zenon DEF PeerCloses, Reasons
    <3>2. EndJudged \in BOOLEAN
      BY Zenon DEF EndJudged
    <3>. QED  BY <1>2, <3>1, <3>2, Zenon DEF ReasonKnows, Reasons
  <2>2. CASE AuthenticationLimit
    <3>1. ClosesLocally("AUTH_FAILURE_LIMIT") /\ judged' = judged
      BY <2>2, Zenon DEF AuthenticationLimit
    <3>2. "AUTH_FAILURE_LIMIT" \in Codes
      BY Zenon DEF Codes
    <3>. QED  BY <1>2, <3>1, <3>2, LocalReason, Zenon DEF ClosesLocally, IInv, TypeOK, Reasons
  <2>. QED  BY <2>1, <2>2, Zenon
<1>4. TypeOK'
  <2>1. wire' \in {"open", "peer"} \union Codes
    BY <1>3, Zenon DEF IInv, TypeOK, Codes
  <2>2. /\ TypeOK /\ close_reason' \in Reasons \union {None} /\ judged' \in BOOLEAN
        /\ UNCHANGED <<pc, verdict, opened, role, seen, stopped, control, progress,
                       peer_datagrams, local_error, report>>
    BY <1>1, <1>3, Zenon DEF IInv, tasks, streams, rules
  <2>. QED  BY <2>1, <2>2, Zenon DEF TypeOK
<1>5. TasksKnow' /\ VerdictsKnow'
  BY <1>1, Zenon DEF IInv, Ending, TasksKnow, VerdictsKnow, tasks
<1>6. OneVerdict'
  BY <1>1, <1>3, Zenon DEF IInv, Ending, OneVerdict, Violations, Codes
<1>7. ReportKnows'
  BY <1>1, <1>3, ReportStands, Zenon DEF IInv, Ending, tasks
<1>8. RolesKnow' /\ CriticalIsKept'
  BY <1>1, RolesElsewhere, Zenon DEF tasks
<1>. QED  BY <1>3, <1>4, <1>5, <1>6, <1>7, <1>8, Zenon DEF IInv, Ending

\* The first violation is kept, and every task closes with it.
LEMMA RecordStep ==
  ASSUME IInv, NEW t \in Tasks, record(t)
  PROVE  IInv'
<1>1. /\ pc[t] = "fail" /\ pc' = [pc EXCEPT ![t] = "close"]
      /\ local_error' = IF local_error = None THEN verdict[t] ELSE local_error
      /\ verdict' = [verdict EXCEPT ![t] = local_error']
      /\ UNCHANGED <<opened, streams, rules, wire, close_reason, report, judged>>
      /\ verdict[t] \in Violations /\ TypeOK
  BY Zenon DEF record, Goto, IInv, Ending, VerdictsKnow
<1>2. local_error' \in Violations /\ (local_error # None => local_error' = local_error)
  BY <1>1, NoneAssumption, Zenon DEF IInv, Ending, VerdictsKnow, Violations
<1>3. /\ pc'[t] = "close" /\ verdict'[t] = local_error'
      /\ \A u \in Tasks \ {t} : pc'[u] = pc[u] /\ verdict'[u] = verdict[u]
  BY <1>1, Zenon DEF TypeOK
<1>4. TypeOK'
  BY <1>1, <1>2, ZenonT(40) DEF TypeOK, streams, rules, Violations
<1>11. pc'[Main] # "opening" /\ (pc[Main] = "gone" => pc'[Main] = "gone")
       /\ (pc'[Main] = "serving" => pc[Main] = "serving")
  <2>1. CASE t = Main
    BY <1>1, <1>3, <2>1, Zenon
  <2>2. CASE t # Main
    BY <1>1, <1>3, <2>2, Awake, Zenon DEF Tasks
  <2>. QED  BY <2>1, <2>2, Zenon
<1>5. TasksKnow'
  <2>1. \A u \in Tasks : pc'[u] \in Places(u)
    BY <1>3, Zenon DEF IInv, Ending, TasksKnow, Places
  <2>. QED  BY <1>1, <1>11, <2>1, Zenon DEF IInv, Ending, TasksKnow
<1>6. VerdictsKnow'
  BY <1>1, <1>2, <1>3, <1>11, NoneAssumption DEF IInv, Ending, VerdictsKnow, Violations
<1>7. OneVerdict'
  BY <1>1, <1>2, NoneAssumption, Zenon DEF IInv, Ending, OneVerdict, Violations
<1>8. ReportKnows'
  BY <1>1, <1>11, ReportStands, Zenon DEF IInv, Ending
<1>12. ReasonKnows'
  <2>1. EndJudged' => EndJudged
    BY <1>1, <1>2, <1>3, Zenon DEF EndJudged
  <2>. QED  BY <1>1, <2>1, Zenon DEF IInv, Ending, ReasonKnows
<1>9. RolesKnow'
  BY <1>1, <1>3, Zenon DEF IInv, RolesKnow, Tasks, streams
<1>10. CriticalIsKept'
  BY <1>1, <1>2, NoneAssumption, Zenon DEF IInv, CriticalIsKept, DuplicateIsFatal, CriticalIsNotStopped,
                                    Violations, streams
<1>. QED  BY <1>4, <1>5, <1>6, <1>7, <1>8, <1>9, <1>10, <1>12, Zenon DEF IInv, Ending

\* The close goes out with the violation that was recorded first.
LEMMA CloseStep ==
  ASSUME IInv, NEW t \in Tasks, Close(t)
  PROVE  IInv'
<1>1. /\ pc[t] = "close" /\ pc' = [pc EXCEPT ![t] = "gone"]
      /\ ClosesLocally(local_error)
      /\ wire' = IF wire = "open" THEN local_error ELSE wire
      /\ verdict' = [verdict EXCEPT ![t] = None]
      /\ UNCHANGED <<opened, streams, rules, local_error, judged>>
      /\ verdict[t] = local_error /\ local_error \in Violations /\ TypeOK
  BY Zenon DEF Close, ClosesLocally, Goto, IInv, Ending, VerdictsKnow
<1>2. /\ pc'[t] = "gone"
      /\ \A u \in Tasks \ {t} : pc'[u] = pc[u] /\ verdict'[u] = verdict[u]
  BY <1>1, Zenon DEF TypeOK
<1>3. report' = IF t # Main THEN report
                ELSE IF opened = 3 THEN Ok ELSE [kind |-> "Local", code |-> local_error]
  BY <1>1, Zenon DEF Close
<1>11. /\ ReasonKnows' /\ wire' # "open" /\ close_reason' \in Reasons
       /\ wire' \in {"open", "peer"} \union Codes /\ (wire = "open" \/ wire' = wire)
  <2>1. EndJudged' => EndJudged
    <3>1. None # "CLOSED_CRITICAL_STREAM"
      BY NoneAssumption, Zenon DEF Codes
    <3>. QED  BY <1>1, <1>2, <3>1, Zenon DEF EndJudged, TypeOK
  <2>2. local_error \in Codes
    BY <1>1, Zenon DEF Violations
  <2>. QED  BY <1>1, <2>1, <2>2, LocalReason, Zenon DEF Reasons
<1>4. TypeOK'
  <2>1. report' \in Reports \union {None}
    BY <1>1, <1>3, Zenon DEF TypeOK, Ok, Reports, Violations
  <2>3. pc' \in [Tasks -> Awaiting \union {"idle", "ended", "fail", "close", "gone"}]
        /\ verdict' \in [Tasks -> Codes \union {None}]
    BY <1>1, Zenon DEF TypeOK
  <2>. QED  BY <1>1, <1>11, <2>1, <2>3, Zenon DEF TypeOK, streams, rules
<1>12. pc'[Main] # "opening" /\ (pc[Main] = "gone" => pc'[Main] = "gone")
       /\ (pc'[Main] = "serving" => pc[Main] = "serving")
  <2>1. CASE t = Main
    BY <1>1, <1>2, <2>1, Zenon
  <2>2. CASE t # Main
    BY <1>1, <1>2, <2>2, Awake, Zenon DEF Tasks
  <2>. QED  BY <2>1, <2>2, Zenon
<1>5. TasksKnow'
  <2>1. \A u \in Tasks : pc'[u] \in Places(u)
    BY <1>2, Zenon DEF IInv, Ending, TasksKnow, Places
  <2>. QED  BY <1>1, <1>12, <2>1, Zenon DEF IInv, Ending, TasksKnow
<1>6. VerdictsKnow'
  BY <1>1, <1>2, <1>12, Zenon DEF IInv, Ending, VerdictsKnow
<1>7. OneVerdict'
  BY <1>1, <1>3, Zenon DEF IInv, Ending, OneVerdict, Ok
<1>8. ReportKnows'
  <2>1. CASE t = Main
    <3>1. pc'[Main] = "gone" /\ wire' # "open" /\ judged' = judged
      BY <1>1, <1>2, <1>11, <2>1, Zenon
    <3>2. CASE opened = 3
      <4>1. report' = Ok
        BY <1>3, <2>1, <3>2, Zenon
      <4>2. None # "CLOSED_CRITICAL_STREAM"
        BY NoneAssumption, Zenon DEF Codes
      <4>. QED  BY <3>1, <4>1, <4>2, Zenon DEF ReportKnows, ReportFitsEnding, Ok
    <3>3. CASE opened # 3
      <4>1. report' = [kind |-> "Local", code |-> local_error]
        BY <1>3, <2>1, <3>3, Zenon
      <4>2. wire' \in Violations => wire' = local_error
        BY <1>1, <1>7, Zenon DEF OneVerdict
      <4>3. wire' = "peer" /\ local_error = "CLOSED_CRITICAL_STREAM" => judged'
        BY <1>1, <1>11, Zenon DEF ReasonKnows, EndJudged
      <4>. QED  BY <3>1, <4>1, <4>2, <4>3, Zenon DEF ReportKnows, ReportFitsEnding
    <3>. QED  BY <3>2, <3>3, Zenon
  <2>2. CASE t # Main
    BY <1>1, <1>3, <1>11, <1>12, <2>2, ReportStands, Zenon DEF IInv, Ending
  <2>. QED  BY <2>1, <2>2, Zenon
<1>9. RolesKnow'
  BY <1>1, <1>2, Zenon DEF IInv, RolesKnow, Tasks, streams
<1>10. CriticalIsKept'
  BY <1>1, <1>2, NoneAssumption, Zenon DEF IInv, CriticalIsKept, DuplicateIsFatal, CriticalIsNotStopped,
                                    Violations, streams
<1>. QED  BY <1>4, <1>5, <1>6, <1>7, <1>8, <1>9, <1>10, <1>11, Zenon DEF IInv, Ending

\* `handle` returns: the connection is over, or its loop ends by itself.
LEMMA ReturnStep ==
  ASSUME IInv, HandshakeLost \/ AcceptFails \/ Finish
  PROVE  IInv'
<1>1. /\ pc[Main] \in {"opening", "serving"} /\ pc' = [pc EXCEPT ![Main] = "gone"]
      /\ UNCHANGED <<verdict, opened, streams, rules, local_error>>
      /\ TypeOK /\ Main \in Tasks /\ local_error \in Violations \union {None}
      /\ Main \notin Streams
  BY ControlAssumption, Zenon DEF HandshakeLost, AcceptFails, Finish, Goto, IInv, Ending,
                           VerdictsKnow, Tasks
<1>2. pc'[Main] = "gone" /\ \A u \in Tasks \ {Main} : pc'[u] = pc[u]
  BY <1>1, Zenon DEF TypeOK
<1>3. /\ wire' = wire \/ (wire = "open" /\ wire' = "NO_ERROR")
      /\ wire' # "open" /\ judged' = judged /\ ReasonKnows' /\ close_reason' \in Reasons
  <2>1. CASE HandshakeLost
    <3>1. UNCHANGED <<wire, close_reason, judged>> /\ wire # "open"
      BY <2>1, Zenon DEF HandshakeLost
    <3>2. EndJudged' <=> EndJudged
      BY <1>1, Zenon DEF EndJudged
    <3>. QED  BY <1>1, <3>1, <3>2, Zenon DEF IInv, Ending, ReasonKnows, TypeOK
  <2>2. CASE AcceptFails \/ Finish
    <3>1. ClosesLocally("NO_ERROR") /\ judged' = judged
      BY <2>2, Zenon DEF AcceptFails, Finish
    <3>2. (EndJudged' => EndJudged) /\ "NO_ERROR" \in Codes
      BY <1>1, Zenon DEF EndJudged, Codes
    <3>. QED  BY <3>1, <3>2, LocalReason, Zenon DEF ClosesLocally, Reasons
  <2>. QED  BY <2>1, <2>2, Zenon
<1>4. report' \in Reports
  <2>1. Plain \in Reports /\ Ok \in Reports
    BY Zenon DEF Plain, Ok, Reports
  <2>2. \A code \in Codes : [kind |-> "Local", code |-> code] \in Reports
    BY Zenon DEF Reports
  <2>3. interpret \in Reports
    BY <1>1, <2>1, <2>2, Zenon DEF interpret, Violations
  <2>. QED  BY <2>1, <2>2, <2>3, Zenon DEF HandshakeLost, AcceptFails, Finish, Codes
<1>5. /\ report'.kind = "Local" => report'.code \in {local_error, "NO_ERROR"}
      /\ ReportFitsEnding'
  <2>0. None # "CLOSED_CRITICAL_STREAM" /\ Plain.code = None
    BY NoneAssumption, Zenon DEF Codes, Plain
  <2>1. CASE HandshakeLost
    <3>1. report' = Plain /\ pc[Main] = "opening" /\ wire' = wire
      BY <2>1, Zenon DEF HandshakeLost
    <3>2. wire \notin Violations
      BY <3>1, NoneAssumption, Zenon DEF IInv, Ending, VerdictsKnow, OneVerdict, Violations
    <3>3. Plain.kind = "Peer" => wire = "peer"
      BY Zenon DEF Plain, IInv, Ending, ReasonKnows
    <3>4. Plain.kind # "Local"
      BY Zenon DEF Plain
    <3>. QED  BY <2>0, <3>1, <3>2, <3>3, <3>4, Zenon DEF ReportFitsEnding
  <2>2. CASE AcceptFails
    <3>1. report' = interpret /\ wire # "open" /\ wire' = wire
      BY <1>3, <2>2, Zenon DEF AcceptFails
    <3>2. CASE close_reason = "LocallyClosed" /\ local_error # None
      <4>1. report' = [kind |-> "Local", code |-> local_error]
        BY <3>1, <3>2, Zenon DEF interpret
      <4>2. wire \in Violations => wire = local_error
        BY Zenon DEF IInv, Ending, OneVerdict
      <4>3. wire = "peer" /\ local_error = "CLOSED_CRITICAL_STREAM" => judged
        BY Zenon DEF IInv, Ending, ReasonKnows, EndJudged
      <4>4. report'.kind = "Local" /\ report'.code = local_error
        BY <4>1, Zenon
      <4>. QED  BY <1>3, <3>1, <4>2, <4>3, <4>4, Zenon DEF ReportFitsEnding
    <3>3. CASE ~(close_reason = "LocallyClosed" /\ local_error # None)
      <4>1. report' = Plain
        BY <3>1, <3>3, Zenon DEF interpret
      <4>2. wire \in Violations => wire = local_error /\ local_error # None
        BY NoneAssumption, Zenon DEF IInv, Ending, OneVerdict, Violations
      <4>3. wire \in Violations => close_reason = "LocallyClosed"
        BY <3>1, Zenon DEF IInv, TypeOK, Ending, ReasonKnows, Reasons, Violations, Codes
      <4>4. Plain.kind = "Peer" => wire = "peer"
        BY Zenon DEF Plain, IInv, Ending, ReasonKnows
      <4>5. Plain.kind # "Local"
        BY Zenon DEF Plain
      <4>. QED  BY <2>0, <3>1, <3>3, <4>1, <4>2, <4>3, <4>4, <4>5, Zenon DEF ReportFitsEnding
    <3>. QED  BY <3>2, <3>3, Zenon
  <2>3. CASE Finish
    <3>1. report' = Ok \/ report' = [kind |-> "Local", code |-> "NO_ERROR"]
      BY <2>3, Zenon DEF Finish
    <3>2. CASE report' = Ok
      <4>1. report'.kind = "Ok" /\ report'.code = None
        BY <3>2, Zenon DEF Ok
      <4>. QED  BY <2>0, <4>1, Zenon DEF ReportFitsEnding
    <3>3. CASE report' = [kind |-> "Local", code |-> "NO_ERROR"]
      <4>1. report'.kind = "Local" /\ report'.code = "NO_ERROR"
        BY <3>3, Zenon
      <4>. QED  BY <4>1, Zenon DEF ReportFitsEnding
    <3>. QED  BY <3>1, <3>2, <3>3, Zenon
  <2>. QED  BY <2>1, <2>2, <2>3, Zenon
<1>6. TypeOK'
  <2>1. wire' \in {"open", "peer"} \union Codes
    BY <1>1, <1>3, Zenon DEF TypeOK, Codes
  <2>2. pc' \in [Tasks -> Awaiting \union {"idle", "ended", "fail", "close", "gone"}]
    BY <1>1, Zenon DEF TypeOK
  <2>3. /\ TypeOK /\ close_reason' \in Reasons \union {None} /\ judged' = judged
        /\ UNCHANGED <<verdict, opened, role, seen, stopped, control, progress,
                       peer_datagrams, local_error>>
    BY <1>1, <1>3, Zenon DEF streams, rules
  <2>. QED  BY <1>4, <2>1, <2>2, <2>3, Zenon DEF TypeOK
<1>7. TasksKnow'
  <2>1. \A u \in Tasks : pc'[u] \in Places(u)
    BY <1>2, Zenon DEF IInv, Ending, TasksKnow, Places
  <2>. QED  BY <1>2, <2>1, Zenon DEF TasksKnow
<1>8. VerdictsKnow'
  BY <1>1, <1>2, Zenon DEF IInv, Ending, VerdictsKnow
<1>9. OneVerdict'
  BY <1>1, <1>3, <1>5, Zenon DEF IInv, Ending, OneVerdict, Violations, Codes
<1>10. ReportKnows'
  BY <1>2, <1>3, <1>5, Zenon DEF ReportKnows
<1>11. RolesKnow' /\ CriticalIsKept'
  BY <1>1, <1>2, RolesElsewhere, Zenon DEF Tasks
<1>. QED  BY <1>3, <1>6, <1>7, <1>8, <1>9, <1>10, <1>11, ZenonT(40) DEF IInv, Ending

\* The three streams this server opens, and the start of the peer's task.
LEMMA OpenStep ==
  ASSUME IInv, OpenCritical
  PROVE  IInv'
<1>1. /\ pc[Main] = "opening" /\ opened' = opened + 1 /\ opened < 3
      /\ UNCHANGED <<verdict, streams, rules, local_error, wire, close_reason, report, judged>>
      /\ local_error = None /\ \A u \in Tasks \ {Main} : pc[u] = "idle"
      /\ TypeOK /\ Main \in Tasks /\ Peer \in Tasks /\ Main # Peer
      /\ Main \notin Streams /\ Peer \notin Streams /\ report = None
  BY ControlAssumption, Zenon DEF OpenCritical, IInv, Ending, TasksKnow, VerdictsKnow,
                           ReportKnows, Tasks, ending
<1>2. opened' \in 0 .. 3
  BY <1>1 DEF TypeOK
<1>3. \/ opened' < 3 /\ pc' = pc
      \/ opened' = 3 /\ pc' = [pc EXCEPT ![Main] = "serving", ![Peer] = "serving"]
  BY <1>1, <1>2 DEF OpenCritical
<1>4. \A u \in Tasks \ {Main, Peer} : pc'[u] = pc[u]
  BY <1>1, <1>3, ZenonT(40) DEF TypeOK
<1>5. \A u \in {Main, Peer} : pc'[u] \in {pc[u], "serving"}
  BY <1>1, <1>3 DEF TypeOK
<1>6. TypeOK'
  <2>1. pc' \in [Tasks -> Awaiting \union {"idle", "ended", "fail", "close", "gone"}]
    BY <1>1, <1>3, ZenonT(40) DEF TypeOK, Awaiting
  <2>. QED  BY <1>1, <1>2, <2>1, Zenon DEF TypeOK, streams, rules
<1>7. TasksKnow'
  <2>1. \A u \in Tasks : pc'[u] \in Places(u)
    BY <1>1, <1>4, <1>5, Zenon DEF IInv, Ending, TasksKnow, Places
  <2>2. (pc'[Main] = "opening" => opened' < 3) /\ (pc'[Main] = "serving" => opened' = 3)
    BY <1>1, <1>3, ZenonT(40) DEF TypeOK
  <2>3. pc'[Main] = "opening" => pc' = pc
    BY <1>1, <1>3, ZenonT(40) DEF TypeOK
  <2>. QED  BY <1>1, <2>1, <2>2, <2>3, Zenon DEF TasksKnow
<1>8. VerdictsKnow'
  BY <1>1, <1>4, <1>5, Zenon DEF IInv, Ending, VerdictsKnow, Tasks
<1>9. OneVerdict' /\ ReportKnows' /\ ReasonKnows'
  <2>1. EndJudged' <=> EndJudged
    BY <1>1, Zenon DEF EndJudged
  <2>. QED  BY <1>1, <2>1, Zenon DEF IInv, Ending, OneVerdict, ReportKnows, ReportFitsEnding,
                                     ReasonKnows
<1>10. RolesKnow' /\ CriticalIsKept'
  <2>1. \A s \in Streams : pc'[s] = pc[s]
    BY <1>1, <1>4, Zenon DEF Tasks
  <2>. QED  BY <1>1, <2>1, RolesElsewhere, Zenon
<1>. QED  BY <1>6, <1>7, <1>8, <1>9, <1>10, Zenon DEF IInv, Ending

\* The steps that put one task into `fail`, or end it.
LEMMA TaskStep ==
  ASSUME IInv, NEW t \in Tasks,
         HandshakeTimesOut \/ critical_write \/ PeerLost \/ route_datagram \/ Aborted(t)
  PROVE  IInv'
<1>1. /\ TypeOK /\ RulesOK /\ Main \in Tasks /\ Peer \in Tasks /\ Main # Peer
      /\ Main \notin Streams /\ Peer \notin Streams
      /\ pc[Peer] # "idle" => pc[Main] # "opening"
  <2>1. /\ TypeOK /\ RulesOK /\ Main \in Tasks /\ Peer \in Tasks /\ Main # Peer
        /\ Main \notin Streams /\ Peer \notin Streams
    BY ControlAssumption, Zenon DEF IInv, TypeOK, RulesOK, Tasks
  <2>. QED  BY <2>1, Awake, Zenon
<1>2. CASE HandshakeTimesOut \/ critical_write
  <2>1. Moves(Main) /\ UNCHANGED streams /\ UNCHANGED rules
    BY <1>2, Zenon DEF HandshakeTimesOut, critical_write, Moves, Violations, Codes
  <2>2. RulesOK'
    BY <1>1, <2>1, Zenon DEF RulesOK, rules
  <2>. QED  BY <1>1, <2>1, <2>2, MovesStep, Zenon
<1>3. CASE PeerLost
  <2>1. Moves(Peer) /\ UNCHANGED streams /\ UNCHANGED rules
    BY <1>1, <1>3, Zenon DEF PeerLost, Moves, Places
  <2>2. RulesOK'
    BY <1>1, <2>1, Zenon DEF RulesOK, rules
  <2>. QED  BY <1>1, <2>1, <2>2, MovesStep, Zenon
<1>4. CASE route_datagram
  <2>1. Moves(Peer) /\ UNCHANGED streams /\ UNCHANGED rules
    BY <1>1, <1>4, OtherCodes, Zenon DEF route_datagram, Moves, Other
  <2>2. RulesOK'
    BY <1>1, <2>1, Zenon DEF RulesOK, rules
  <2>. QED  BY <1>1, <2>1, <2>2, MovesStep, Zenon
<1>5. CASE Aborted(t)
  <2>1. /\ pc[t] \in Awaiting /\ t # Main /\ UNCHANGED <<verdict, opened, streams, ending>>
        /\ Goto(t, "gone") /\ Leave(t)
    BY <1>1, <1>5, Zenon DEF Aborted, Awaiting
  <2>4. pc[Main] # "opening"
    BY <2>1, Awake, Zenon DEF Awaiting, Critical
  <2>2. Moves(t) /\ pc'[t] = "gone"
    BY <1>1, <2>1, <2>4, Zenon DEF Moves, Places, Goto, TypeOK, Awaiting, Critical
  <2>3. RulesOK'
    BY <1>1, <2>1, LeaveType, Zenon
  <2>. QED  BY <2>1, <2>2, <2>3, MovesStep, Zenon
<1>. QED  BY <1>2, <1>3, <1>4, <1>5, Zenon

-------------------------------------------------------------------------------
(* The theorems.                                                             *)

\* The inductive invariant holds at first,
LEMMA IInvInit == Init => IInv
<1>. SUFFICES ASSUME Init PROVE IInv
  OBVIOUS
<1>1. TypeOK
  <2>1. pc \in [Tasks -> Awaiting \union {"idle", "ended", "fail", "close", "gone"}]
    BY Zenon DEF Init, Awaiting
  <2>2. control \in [settings : BOOLEAN, goaway : Ids \union {None},
                     max_push_id : Ids \union {None}]
    BY Zenon DEF Init, NewControl
  <2>3. progress \in [continuing : BOOLEAN, continuation : 0 .. MAX_INTEGER_CONTINUATION]
    BY ControlAssumption DEF Init, NewProgress
  <2>4. opened \in 0 .. 3
    BY DEF Init
  <2>. QED  BY <2>1, <2>2, <2>3, <2>4, Zenon DEF Init, TypeOK
<1>2. pc[Main] = "opening" /\ \A t \in Tasks \ {Main} : pc[t] = "idle"
  BY Zenon DEF Init, Tasks
<1>3. TasksKnow
  BY <1>2 DEF Init, TasksKnow, Places
<1>4. VerdictsKnow
  BY <1>2, Zenon DEF Init, VerdictsKnow
<1>5. OneVerdict /\ ReportKnows /\ ReasonKnows
  <2>1. wire = "open" /\ close_reason = None /\ report = None
    BY Zenon DEF Init
  <2>2. "open" \notin Violations /\ None # "peer"
    BY NoneAssumption, Zenon DEF Violations, Codes, Reasons
  <2>. QED  BY <2>1, <2>2, Zenon DEF OneVerdict, ReportKnows, ReportFitsEnding, ReasonKnows
<1>6. RolesKnow /\ CriticalIsKept
  BY NoneAssumption, ZenonT(40) DEF Init, RolesKnow, CriticalIsKept, DuplicateIsFatal, CriticalIsNotStopped
<1>. QED  BY <1>1, <1>3, <1>4, <1>5, <1>6, Zenon DEF IInv, Ending

\* in a step that changes nothing,
LEMMA IInvStutter == IInv /\ UNCHANGED vars => IInv'
BY SMTT(40) DEF IInv, TypeOK, Ending, TasksKnow, VerdictsKnow, OneVerdict, ReportKnows,
       ReportFitsEnding, ReasonKnows, EndJudged, RolesKnow,
       CriticalIsKept, DuplicateIsFatal, CriticalIsNotStopped, vars, tasks, streams,
       rules, ending

\* and in every step.
LEMMA IInvNext == IInv /\ [Next]_vars => IInv'
<1>. SUFFICES ASSUME IInv, [Next]_vars PROVE IInv'
  BY Zenon
<1>0. Main \in Tasks
  BY Zenon DEF Tasks
<1>1. CASE PeerCloses \/ AuthenticationLimit
  BY <1>1, WireStep, Zenon
<1>2. CASE OpenCritical
  BY <1>2, OpenStep, Zenon
<1>3. CASE HandshakeTimesOut \/ critical_write \/ PeerLost \/ route_datagram
  BY <1>0, <1>3, TaskStep, Zenon
<1>4. CASE HandshakeLost \/ AcceptFails \/ Finish
  BY <1>4, ReturnStep, Zenon
<1>5. ASSUME NEW s \in Streams, Serve(s)  PROVE IInv'
  BY <1>5, ServeStep, Zenon
<1>6. ASSUME NEW t \in Tasks, record(t) \/ Close(t) \/ Aborted(t)  PROVE IInv'
  BY <1>6, RecordStep, CloseStep, TaskStep, Zenon
<1>7. CASE UNCHANGED vars
  BY <1>7, IInvStutter, Zenon
<1>. QED  BY <1>1, <1>2, <1>3, <1>4, <1>5, <1>6, <1>7, Zenon DEF Next

\* The inductive invariant: where each task can be, with which verdict, what was
\* reported and which roles are taken (handle, serve_peer, serve_stream).
THEOREM Invariance == Spec => []IInv
BY IInvInit, IInvNext, PTL DEF Spec

\* The connection's state is well typed; in particular no integer of a QPACK
\* stream is followed past MAX_INTEGER_CONTINUATION (QpackProgress::take).
THEOREM TypeCorrect == Spec => []TypeOK
<1>1. IInv => TypeOK
  BY DEF IInv
<1>. QED  BY Invariance, <1>1, PTL

\* Whatever order the tasks fail in, the violation on the wire and the one that is
\* reported are the one recorded first (Handle::fail, Handle::interpret).
THEOREM VerdictIsOne == Spec => []OneVerdict
<1>1. IInv => OneVerdict
  BY Zenon DEF IInv, Ending
<1>. QED  BY Invariance, <1>1, PTL

\* The connection is reported to have ended the way it did: a violation that
\* closed it is read back, and the peer's own close is told as a broken critical
\* stream only if the stream's end was judged before that close came
\* (Handle::interpret, critical_stream_closed).
THEOREM ReportIsTrue == Spec => []ReportFitsEnding
<1>1. IInv => ReportFitsEnding
  BY Zenon DEF IInv, Ending, ReportKnows
<1>. QED  BY Invariance, <1>1, PTL

\* There is one critical stream of each kind, and it is never stopped
\* (serve_stream, serve_control).
THEOREM CriticalIsSafe == Spec => []CriticalIsKept
<1>1. IInv => CriticalIsKept
  BY DEF IInv
<1>. QED  BY Invariance, <1>1, PTL

(***************************************************************************)
(* The capsule decoder: first the octet strings, cut in two.                *)
(***************************************************************************)
\* A set of naturals has a least element.
LEMMA LeastOfNaturals ==
    ASSUME NEW S \in SUBSET Nat, S # {}
    PROVE  \E n \in S : \A m \in S : n <= m
<1> DEFINE Below == {p \in Nat \X Nat : p[1] < p[2]}
<1>1. Below = OpToRel(<, Nat)
  BY DEF OpToRel
<1>2. IsWellFoundedOn(Below, Nat)
  BY <1>1, NatLessThanWellFounded
<1>3. PICK n \in S : \A m \in S : ~ (<<m, n>> \in Below)
  BY <1>2, WFMin, Zenon
<1>4. ASSUME NEW m \in S PROVE n <= m
  <2>1. n \in Nat /\ m \in Nat /\ ~ (<<m, n>> \in Below)
    BY <1>3
  <2>2. m < n => <<m, n>> \in Below
    BY <2>1
  <2>. QED
    BY <2>1, <2>2
<1>. QED
  BY <1>4

Regroup(s, t, u) == (s \o t) \o u = s \o (t \o u)

\* Joining strings is associative.
LEMMA Regroups ==
    ASSUME NEW S, NEW s \in Seq(S), NEW t \in Seq(S), NEW u \in Seq(S)
    PROVE  Regroup(s, t, u)
BY DEF Regroup

\* What is left of a string after its first n octets.
LEMMA DropCuts ==
    ASSUME NEW S, NEW s \in Seq(S), NEW n \in 0 .. Len(s)
    PROVE  /\ Drop(s, n) \in Seq(S) /\ Len(Drop(s, n)) = Len(s) - n
           /\ \A i \in 1 .. Len(s) - n : Drop(s, n)[i] = s[n + i]
<1>1. n + 1 \in Int /\ Len(s) \in Int /\ Len(s) \in Nat /\ n \in Nat /\ n <= Len(s)
  BY LenProperties
<1>2. \A i \in n + 1 .. Len(s) : s[i] \in S
  BY <1>1, ElementOfSeq
<1>3. /\ SubSeq(s, n + 1, Len(s)) \in Seq(S)
      /\ Len(SubSeq(s, n + 1, Len(s))) = IF n + 1 <= Len(s) THEN Len(s) - (n + 1) + 1 ELSE 0
      /\ \A i \in 1 .. Len(s) - (n + 1) + 1 : SubSeq(s, n + 1, Len(s))[i] = s[n + 1 + i - 1]
  BY <1>1, <1>2, SubSeqProperties
<1>. QED  BY <1>1, <1>3 DEF Drop

\* Its first n octets.
LEMMA TakeCuts ==
    ASSUME NEW S, NEW s \in Seq(S), NEW n \in 0 .. Len(s)
    PROVE  /\ Take(s, n) \in Seq(S) /\ Len(Take(s, n)) = n
           /\ \A i \in 1 .. n : Take(s, n)[i] = s[i]
<1>1. Len(s) \in Nat /\ n \in Nat /\ n <= Len(s)
  BY LenProperties
<1>2. \A i \in 1 .. n : s[i] \in S
  BY <1>1, ElementOfSeq
<1>3. /\ SubSeq(s, 1, n) \in Seq(S)
      /\ Len(SubSeq(s, 1, n)) = IF 1 <= n THEN n - 1 + 1 ELSE 0
      /\ \A i \in 1 .. n - 1 + 1 : SubSeq(s, 1, n)[i] = s[1 + i - 1]
  BY <1>1, <1>2, SubSeqProperties
<1>. QED  BY <1>1, <1>3 DEF Take

\* More octets behind a string are behind what is left of it, and leave what was
\* taken from it alone.
LEMMA CutOfLonger ==
    ASSUME NEW S, NEW s \in Seq(S), NEW t \in Seq(S), NEW n \in 0 .. Len(s)
    PROVE  Drop(s \o t, n) = Drop(s, n) \o t /\ Take(s \o t, n) = Take(s, n)
<1>1. Len(s) \in Nat /\ Len(t) \in Nat /\ n \in Nat /\ n <= Len(s)
  BY LenProperties
<1>2. /\ s \o t \in Seq(S) /\ Len(s \o t) = Len(s) + Len(t)
      /\ \A i \in 1 .. Len(s) + Len(t) :
            (s \o t)[i] = IF i <= Len(s) THEN s[i] ELSE t[i - Len(s)]
  BY ConcatProperties, Zenon
<1>3. n \in 0 .. Len(s \o t)
  BY <1>1, <1>2
<1>4. Drop(s \o t, n) = Drop(s, n) \o t
  <2>1. /\ Drop(s \o t, n) \in Seq(S) /\ Len(Drop(s \o t, n)) = Len(s) + Len(t) - n
        /\ \A i \in 1 .. Len(s) + Len(t) - n : Drop(s \o t, n)[i] = (s \o t)[n + i]
    <3>1. /\ Drop(s \o t, n) \in Seq(S) /\ Len(Drop(s \o t, n)) = Len(s \o t) - n
          /\ \A i \in 1 .. Len(s \o t) - n : Drop(s \o t, n)[i] = (s \o t)[n + i]
      BY ONLY <1>2, <1>3, DropCuts, ZenonT(40)
    <3>2. Len(s \o t) - n = Len(s) + Len(t) - n
      BY <1>2, SMT
    <3>. QED  BY ONLY <3>1, <3>2, Zenon
  <2>2. /\ Drop(s, n) \in Seq(S) /\ Len(Drop(s, n)) = Len(s) - n
        /\ \A i \in 1 .. Len(s) - n : Drop(s, n)[i] = s[n + i]
    BY DropCuts, Zenon
  <2>3. /\ Drop(s, n) \o t \in Seq(S)
        /\ Len(Drop(s, n) \o t) = Len(Drop(s, n)) + Len(t)
        /\ \A i \in 1 .. Len(Drop(s, n)) + Len(t) :
              (Drop(s, n) \o t)[i] =
                  IF i <= Len(Drop(s, n)) THEN Drop(s, n)[i] ELSE t[i - Len(Drop(s, n))]
    BY <2>2, ConcatProperties, Zenon
  <2>4. ASSUME NEW i \in 1 .. Len(s) + Len(t) - n
        PROVE  Drop(s \o t, n)[i] = (Drop(s, n) \o t)[i]
    <3>1. Drop(s \o t, n)[i] = IF n + i <= Len(s) THEN s[n + i] ELSE t[n + i - Len(s)]
      <4>1. n + i \in 1 .. Len(s) + Len(t)
        BY ONLY <1>1, i \in 1 .. Len(s) + Len(t) - n, SMT
      <4>. QED  BY <1>2, <2>1, <4>1
    <3>2. CASE n + i <= Len(s)
      <4>1. i \in 1 .. Len(s) - n /\ i <= Len(Drop(s, n)) /\ i \in 1 .. Len(Drop(s, n)) + Len(t)
        BY <1>1, <2>2, <3>2
      <4>. QED  BY <3>1, <3>2, <2>2, <2>3, <4>1, Zenon
    <3>3. CASE ~(n + i <= Len(s))
      <4>1. /\ ~(i <= Len(Drop(s, n))) /\ i \in 1 .. Len(Drop(s, n)) + Len(t)
            /\ i - Len(Drop(s, n)) = n + i - Len(s)
        <5>1. Len(Drop(s, n)) = Len(s) - n
          BY <2>2
        <5>. QED
          BY ONLY <1>1, <5>1, <3>3, i \in 1 .. Len(s) + Len(t) - n, SMT
      <4>. QED  BY <3>1, <3>3, <2>3, <4>1, Zenon
    <3>. QED  BY <3>2, <3>3, Zenon
  <2>5. Len(Drop(s \o t, n)) = Len(Drop(s, n) \o t)
    BY <1>1, <2>1, <2>2, <2>3
  <2>. QED  BY <2>1, <2>3, <2>4, <2>5, SeqEqual, Zenon
<1>5. Take(s \o t, n) = Take(s, n)
  <2>1. /\ Take(s \o t, n) \in Seq(S) /\ Len(Take(s \o t, n)) = n
        /\ \A i \in 1 .. n : Take(s \o t, n)[i] = (s \o t)[i]
    BY <1>2, <1>3, TakeCuts, Zenon
  <2>2. /\ Take(s, n) \in Seq(S) /\ Len(Take(s, n)) = n
        /\ \A i \in 1 .. n : Take(s, n)[i] = s[i]
    BY TakeCuts, Zenon
  <2>3. ASSUME NEW i \in 1 .. n PROVE Take(s \o t, n)[i] = Take(s, n)[i]
    <3>1. i \in 1 .. Len(s) + Len(t) /\ i <= Len(s)
      BY <1>1
    <3>. QED  BY <1>2, <2>1, <2>2, <3>1, Zenon
  <2>. QED  BY <2>1, <2>2, <2>3, SeqEqual, Zenon
<1>. QED  BY <1>4, <1>5, Zenon

\* Cutting twice is cutting once, nowhere and at the end included.
LEMMA CutTwice ==
    ASSUME NEW S, NEW s \in Seq(S), NEW n \in 0 .. Len(s), NEW m \in 0 .. Len(s) - n
    PROVE  Drop(Drop(s, n), m) = Drop(s, n + m)
<1>1. Len(s) \in Nat /\ n \in Nat /\ m \in Nat /\ n + m \in 0 .. Len(s) /\ n <= Len(s)
      /\ m <= Len(s) - n
  BY LenProperties
<1>2. /\ Drop(s, n) \in Seq(S) /\ Len(Drop(s, n)) = Len(s) - n
      /\ \A i \in 1 .. Len(s) - n : Drop(s, n)[i] = s[n + i]
  BY DropCuts, Zenon
<1>3. /\ Drop(Drop(s, n), m) \in Seq(S) /\ Len(Drop(Drop(s, n), m)) = Len(s) - n - m
      /\ \A i \in 1 .. Len(s) - n - m : Drop(Drop(s, n), m)[i] = Drop(s, n)[m + i]
  <2>1. m \in 0 .. Len(Drop(s, n))
    BY ONLY <1>2, m \in 0 .. Len(s) - n, Zenon
  <2>2. /\ Drop(Drop(s, n), m) \in Seq(S)
        /\ Len(Drop(Drop(s, n), m)) = Len(Drop(s, n)) - m
        /\ \A i \in 1 .. Len(Drop(s, n)) - m : Drop(Drop(s, n), m)[i] = Drop(s, n)[m + i]
    BY ONLY <1>2, <2>1, DropCuts, Zenon
  <2>. QED  BY ONLY <1>2, <2>2, Zenon
<1>4. /\ Drop(s, n + m) \in Seq(S) /\ Len(Drop(s, n + m)) = Len(s) - (n + m)
      /\ \A i \in 1 .. Len(s) - (n + m) : Drop(s, n + m)[i] = s[n + m + i]
  BY <1>1, DropCuts, Zenon
<1>5. ASSUME NEW i \in 1 .. Len(s) - n - m
      PROVE  Drop(Drop(s, n), m)[i] = Drop(s, n + m)[i]
  <2>1. m + i \in 1 .. Len(s) - n /\ i \in 1 .. Len(s) - (n + m) /\ n + (m + i) = n + m + i
    BY ONLY <1>1, i \in 1 .. Len(s) - n - m, SMT
  <2>. QED  BY <1>2, <1>3, <1>4, <2>1, Zenon
<1>6. Len(Drop(Drop(s, n), m)) = Len(Drop(s, n + m))
  <2>1. Len(Drop(Drop(s, n), m)) = Len(s) - n - m /\ Len(Drop(s, n + m)) = Len(s) - (n + m)
    BY <1>3, <1>4, Zenon
  <2>. QED  BY ONLY <1>1, <2>1, SMT
<1>. QED  BY <1>3, <1>4, <1>5, <1>6, SeqEqual, Zenon

\* Cutting off nothing leaves the string, and cutting off all of it leaves none.
LEMMA CutNothing ==
    ASSUME NEW S, NEW s \in Seq(S)
    PROVE  Drop(s, 0) = s /\ Drop(s, Len(s)) = <<>>
<1>1. Len(s) \in Nat
  BY LenProperties, Zenon
<1>2. Drop(s, Len(s)) = <<>>
  <2>1. Len(s) \in 0 .. Len(s)
    BY <1>1
  <2>2. Drop(s, Len(s)) \in Seq(S) /\ Len(Drop(s, Len(s))) = 0
    BY <1>1, <2>1, DropCuts
  <2>. QED  BY <2>2, EmptySeq, Zenon
<1>3. 0 + 1 = 1
  OBVIOUS
<1>4. Drop(s, 0) = s
  BY <1>3, SubSeqFull, Zenon DEF Drop
<1>. QED  BY <1>2, <1>4, Zenon

(***************************************************************************)
(* Variable-length integers.                                                 *)
(***************************************************************************)
\* One round of the loop of peek_varint, and the table of its rounds.
Shifted(s, f, n) == IF n = 0 THEN 0 ELSE 256 * f[n - 1] + s[n]
IsShifted(s, f) == f = [n \in 0 .. Len(s) |-> Shifted(s, f, n)]

\* An octet behind a natural makes a natural.
LEMMA OctetAppended ==
    ASSUME NEW high \in Nat, NEW low \in Nat
    PROVE  256 * high + low \in Nat
OBVIOUS

\* There is such a table.
LEMMA ShiftedExists ==
    ASSUME NEW s \in Seq(Nat)
    PROVE  \E f : IsShifted(s, f)
<1> DEFINE L == Len(s)
<1>0. L \in Nat
  BY LenProperties, Zenon
<1>a. \A n \in 1 .. L : s[n] \in Nat
  BY ElementOfSeq, Zenon
<1> HIDE DEF L
<1> DEFINE Upto(m) == \E f \in [0 .. L -> Nat] : \A n \in 0 .. m : f[n] = Shifted(s, f, n)
           Bad == {m \in 0 .. L : ~Upto(m)}
<1>1. Bad = {}
  <2>1. SUFFICES ASSUME Bad # {} PROVE FALSE
    BY Zenon
  <2>2. Bad \in SUBSET Nat
    BY <1>0
  <2>3. PICK b \in Bad : \A m \in Bad : b <= m
    <3> HIDE DEF Bad
    <3>. QED  BY <2>1, <2>2, LeastOfNaturals, Zenon
  <2>4. b \in 0 .. L /\ ~Upto(b)
    BY <2>3, Zenon
  <2> HIDE DEF Upto
  <2>5. b # 0
    <3>1. [n \in 0 .. L |-> 0] \in [0 .. L -> Nat]
      BY Zenon
    <3>2. \A n \in 0 .. 0 : [i \in 0 .. L |-> 0][n] = Shifted(s, [i \in 0 .. L |-> 0], n)
      BY <1>0 DEF Shifted
    <3>3. Upto(0)
      BY <3>1, <3>2, Zenon DEF Upto
    <3>. QED  BY <2>4, <3>3, Zenon
  <2>6. b \in Nat /\ b \in 1 .. L /\ b - 1 \in 0 .. L /\ ~(b <= b - 1)
    BY <1>0, <2>4, <2>5
  <2>7. Upto(b - 1)
    BY <2>3, <2>6
  <2>8. PICK f \in [0 .. L -> Nat] : \A n \in 0 .. b - 1 : f[n] = Shifted(s, f, n)
    BY <2>7, Zenon DEF Upto
  <2> DEFINE g == [f EXCEPT ![b] = Shifted(s, f, b)]
  <2>9. Shifted(s, f, b) \in Nat
    <3>1. f[b - 1] \in Nat /\ s[b] \in Nat
      BY ONLY <1>a, <2>6, f \in [0 .. L -> Nat], Zenon
    <3>2. 256 * f[b - 1] + s[b] \in Nat
      BY <3>1, OctetAppended, Zenon
    <3>. QED  BY <2>5, <3>2, Zenon DEF Shifted
  <2>10. g \in [0 .. L -> Nat]
    BY <2>6, <2>9
  <2>11. ASSUME NEW n \in 0 .. b PROVE g[n] = Shifted(s, g, n)
    <3>1. n \in 0 .. L /\ n \in Nat /\ (n # 0 => n - 1 \in 0 .. L /\ n - 1 # b)
          /\ (n # b => n \in 0 .. b - 1) /\ b \in 0 .. L
      BY <1>0, <2>6
    <3>2. n # 0 => g[n - 1] = f[n - 1]
      BY <3>1, Zenon
    <3>3. Shifted(s, g, n) = Shifted(s, f, n)
      BY <3>2 DEF Shifted
    <3>4. g[n] = Shifted(s, f, n)
      <4>1. CASE n = b  BY <4>1, <3>1, Zenon
      <4>2. CASE n # b  BY <4>2, <3>1, <2>8, Zenon
      <4>. QED  BY <4>1, <4>2, Zenon
    <3>. QED  BY <3>3, <3>4
  <2>12. Upto(b)
    BY <2>10, <2>11, Zenon DEF Upto
  <2>. QED  BY <2>4, <2>12, Zenon
<1>2. L \in 0 .. L
  BY <1>0
<1>3. Upto(L)
  <2> HIDE DEF Upto
  <2>. QED  BY <1>1, <1>2, Zenon
<1>4. PICK f \in [0 .. L -> Nat] : \A n \in 0 .. L : f[n] = Shifted(s, f, n)
  BY <1>3, Zenon
<1>5. f = [n \in 0 .. L |-> Shifted(s, f, n)]
  BY <1>4, Zenon
<1>. QED  BY <1>5, Zenon DEF IsShifted, L

\* The number an octet string stands for is a number.
LEMMA BigEndianIsNatural ==
    ASSUME NEW s \in Seq(Nat)
    PROVE  BigEndian(s) \in Nat
<1> DEFINE T == CHOOSE f : IsShifted(s, f)
<1>1. BigEndian(s) = T[Len(s)]
  BY Zenon DEF BigEndian, IsShifted, Shifted
<1>2. IsShifted(s, T)
  BY ShiftedExists, Zenon
<1> HIDE DEF T
<1>3. Len(s) \in Nat /\ \A n \in 1 .. Len(s) : s[n] \in Nat
  BY LenProperties, ElementOfSeq, Zenon
<1>4. \A n \in 0 .. Len(s) : T[n] = Shifted(s, T, n)
  BY <1>2, Zenon DEF IsShifted
<1> DEFINE Bad == {n \in 0 .. Len(s) : T[n] \notin Nat}
<1>5. Bad = {}
  <2>1. SUFFICES ASSUME Bad # {} PROVE FALSE
    BY Zenon
  <2>2. Bad \in SUBSET Nat
    BY <1>3
  <2>3. PICK b \in Bad : \A m \in Bad : b <= m
    <3> HIDE DEF Bad
    <3>. QED  BY <2>1, <2>2, LeastOfNaturals, Zenon
  <2>4. b \in 0 .. Len(s) /\ T[b] \notin Nat /\ b \in Nat
    BY <2>3
  <2>5. b # 0
    BY <1>4, <2>4, Zenon DEF Shifted
  <2>6. b \in 1 .. Len(s) /\ b - 1 \in 0 .. Len(s) /\ ~(b <= b - 1)
    BY ONLY <1>3, <2>4, <2>5, SMT
  <2>7. T[b - 1] \in Nat
    BY <2>3, <2>6, Zenon
  <2>8. T[b] = 256 * T[b - 1] + s[b]
    BY <1>4, <2>4, <2>5, Zenon DEF Shifted
  <2>9. s[b] \in Nat
    BY <1>3, <2>6, Zenon
  <2>. QED  BY ONLY <2>4, <2>7, <2>8, <2>9, SMT
<1>6. Len(s) \in 0 .. Len(s)
  BY <1>3
<1>. QED  BY <1>1, <1>5, <1>6, Zenon

\* The two top bits of an octet give one of four lengths.
LEMMA FourLengths ==
    ASSUME NEW x \in 0 .. 255
    PROVE  2 ^ (x \div 64) \in {1, 2, 4, 8} /\ x % 64 \in Nat
<1>1. x \div 64 \in {0, 1, 2, 3} /\ x % 64 \in Nat
  OBVIOUS
<1>2. 2 ^ 0 = 1 /\ 2 ^ 1 = 2 /\ 2 ^ 2 = 4 /\ 2 ^ 3 = 8
  OBVIOUS
<1>. QED  BY ONLY <1>1, <1>2, Zenon

\* What peek_varint returns: a number, and a length no longer than the buffer; it
\* finds none only in a buffer shorter than the longest.
LEMMA PeekIsTyped ==
    ASSUME NEW w \in Seq(Octets)
    PROVE  /\ peek_varint(w).value \in Nat
           /\ peek_varint(w).length \in {0, 1, 2, 4, 8}
           /\ peek_varint(w).length <= Len(w)
           /\ peek_varint(w).length = 0 => Len(w) < 8
<1>0. Len(w) \in Nat
  BY LenProperties
<1>n. NoVarint.value = 0 /\ NoVarint.length = 0
  BY Zenon DEF NoVarint
<1>1. CASE w = <<>>
  <2>1. peek_varint(w) = NoVarint
    BY <1>1, Zenon DEF peek_varint
  <2>2. Len(w) = 0
    BY <1>1, Zenon
  <2>. QED  BY ONLY <1>n, <2>1, <2>2, SMT
<1>2. CASE w # <<>>
  <2>1. 1 \in 1 .. Len(w)
    BY <1>0, <1>2, EmptySeq
  <2>2. w[1] \in 0 .. 255
    BY <2>1, ElementOfSeq, CapsuleAssumption, Zenon
  <2> DEFINE l == 2 ^ (w[1] \div 64)
             v == <<w[1] % 64>> \o SubSeq(w, 2, l)
  <2>3. l \in {1, 2, 4, 8} /\ w[1] % 64 \in Nat
    BY <2>2, FourLengths, Zenon
  <2>4. CASE Len(w) < l
    <3>1. peek_varint(w) = NoVarint
      BY <1>2, <2>4, Zenon DEF peek_varint
    <3>. QED  BY ONLY <1>0, <1>n, <2>3, <2>4, <3>1, SMT
  <2>5. CASE ~(Len(w) < l)
    <3>1. peek_varint(w) = [value |-> BigEndian(v), length |-> l]
      BY <1>2, <2>5, Zenon DEF peek_varint
    <3>2. v \in Seq(Nat)
      <4>1. <<w[1] % 64>> \in Seq(Nat)
        BY <2>3
      <4>2. l \in Int /\ 2 \in Int /\ \A i \in 2 .. l : i \in 1 .. Len(w)
        BY <1>0, <2>3, <2>5
      <4>3. \A i \in 1 .. Len(w) : w[i] \in Nat
        <5>1. \A i \in 1 .. Len(w) : w[i] \in Octets
          BY ElementOfSeq, Zenon
        <5>2. \A n \in Octets : n \in Nat
          BY CapsuleAssumption
        <5>. QED  BY <5>1, <5>2, Zenon
      <4>4. SubSeq(w, 2, l) \in Seq(Nat)
        <5> HIDE DEF l
        <5>. QED  BY <4>2, <4>3, SubSeqProperties, Zenon
      <4>. QED  BY <4>1, <4>4, ConcatProperties, Zenon
    <3>3. BigEndian(v) \in Nat
      BY <3>2, BigEndianIsNatural, Zenon
    <3> HIDE DEF l, v
    <3>4. peek_varint(w).value = BigEndian(v) /\ peek_varint(w).length = l
      BY <3>1
    <3>. QED  BY ONLY <1>0, <2>3, <2>5, <3>3, <3>4, SMT
  <2>. QED  BY <2>4, <2>5, Zenon
<1>. QED  BY <1>1, <1>2, Zenon

\* An integer that is there is the same when more octets follow it.
LEMMA PeekIsStable ==
    ASSUME NEW w \in Seq(Octets), NEW x \in Seq(Octets), Whole(peek_varint(w))
    PROVE  peek_varint(w \o x) = peek_varint(w)
<1>0. Len(w) \in Nat /\ Len(x) \in Nat
  BY LenProperties
<1>n. ~Whole(NoVarint)
  BY DEF NoVarint, Whole
<1>1. w # <<>>
  BY <1>n, Zenon DEF peek_varint
<1>2. 1 \in 1 .. Len(w)
  BY <1>0, <1>1, EmptySeq
<1>3. w[1] \in 0 .. 255
  BY <1>2, ElementOfSeq, CapsuleAssumption, Zenon
<1> DEFINE l == 2 ^ (w[1] \div 64)
<1>4. l \in {1, 2, 4, 8}
  BY <1>3, FourLengths, Zenon
<1>5. ~(Len(w) < l)
  BY <1>n, <1>1, Zenon DEF peek_varint
<1>6. /\ w \o x \in Seq(Octets) /\ Len(w \o x) = Len(w) + Len(x)
      /\ (w \o x)[1] = w[1]
  <2>1. 1 \in 1 .. Len(w) + Len(x) /\ 1 <= Len(w)
    BY <1>0, <1>2
  <2>. QED  BY <2>1, ConcatProperties
<1>7. w \o x # <<>> /\ ~(Len(w \o x) < l)
  <2>1. Len(w \o x) \in Nat /\ Len(w \o x) >= Len(w) /\ Len(w) >= 1
    BY <1>0, <1>2, <1>6
  <2>2. Len(<<>>) = 0
    BY Zenon
  <2>. QED  BY ONLY <1>0, <1>4, <1>5, <2>1, <2>2, SMT
<1>8. SubSeq(w \o x, 2, l) = SubSeq(w, 2, l)
  <2> HIDE DEF l
  <2>1. CASE l = 1
    <3>1. 2 \in Int /\ l \in Int /\ l < 2
      BY <2>1
    <3>. QED  BY <3>1, SubSeqEmpty, Zenon
  <2>2. CASE l # 1
    <3>1. 2 \in 1 .. Len(w) /\ l \in 1 .. Len(w)
      BY ONLY <1>0, <1>4, <1>5, <2>2, SMT
    <3>. QED  BY <3>1, SubSeqOfConcat1, Zenon
  <2>. QED  BY <2>1, <2>2, Zenon
<1>. QED  BY <1>1, <1>5, <1>6, <1>7, <1>8, Zenon DEF peek_varint

(***************************************************************************)
(* What an octet string means.                                               *)
(***************************************************************************)
Outcomes ==
    [capsules : Seq([context_id : Nat, payload : Seq(Octets)]),
     ending : {"boundary", "midway", "error"}]

\* The strings CapsuleStream speaks of are those of the decoder.
LEMMA SameStrings ==
    /\ \A s, n : Stream!Drop(s, n) = Drop(s, n) /\ Stream!Take(s, n) = Take(s, n)
    /\ \A w : Stream!peek_varint(w) = peek_varint(w)
    /\ \A v : Stream!Whole(v) <=> Whole(v)
<1>1. \A s, n : Stream!Drop(s, n) = Drop(s, n) /\ Stream!Take(s, n) = Take(s, n)
  BY Zenon DEF Stream!Drop, Drop, Stream!Take, Take
<1>2. \A w : Stream!BigEndian(w) = BigEndian(w)
  BY Zenon DEF Stream!BigEndian, BigEndian
<1>3. \A w : Stream!peek_varint(w) = peek_varint(w)
  BY <1>2, Zenon DEF Stream!peek_varint, peek_varint, Stream!NoVarint, NoVarint
<1>4. \A v : Stream!Whole(v) <=> Whole(v)
  BY Zenon DEF Stream!Whole, Whole
<1>. QED  BY <1>1, <1>3, <1>4, Zenon

\* The header of a string, if it has one, is within it.
LEMMA HeaderIsTyped ==
    ASSUME NEW w \in Seq(Octets)
    PROVE  /\ Stream!Type(w) = peek_varint(w)
           /\ Stream!Length(w) = peek_varint(Drop(w, peek_varint(w).length))
           /\ Stream!Type(w).value \in Nat /\ Stream!Length(w).value \in Nat
           /\ Stream!HeaderSize(w) \in 0 .. Len(w) /\ Stream!HeaderSize(w) <= 16
           /\ Stream!HasHeader(w) => Stream!HeaderSize(w) > 0
           /\ ~Stream!HasHeader(w) => Len(w) < 16
<1>1. /\ Stream!Type(w) = peek_varint(w)
      /\ Stream!Length(w) = peek_varint(Drop(w, peek_varint(w).length))
      /\ Stream!HasHeader(w) <=> Whole(Stream!Type(w)) /\ Whole(Stream!Length(w))
      /\ Stream!HeaderSize(w) = Stream!Type(w).length + Stream!Length(w).length
  BY SameStrings, Zenon
     DEF Stream!Type, Stream!Length, Stream!HasHeader, Stream!HeaderSize
<1> DEFINE t == peek_varint(w)
           r == Drop(w, t.length)
           l == peek_varint(r)
<1>2. Len(w) \in Nat
  BY LenProperties
<1>3. /\ t.value \in Nat /\ t.length \in {0, 1, 2, 4, 8} /\ t.length <= Len(w)
      /\ t.length = 0 => Len(w) < 8
  BY PeekIsTyped, Zenon
<1> HIDE DEF t
<1>4. r \in Seq(Octets) /\ Len(r) = Len(w) - t.length
  <2>1. t.length \in 0 .. Len(w)
    BY ONLY <1>2, <1>3, SMT
  <2>. QED  BY <2>1, DropCuts, Zenon
<1> HIDE DEF r
<1>5. /\ l.value \in Nat /\ l.length \in {0, 1, 2, 4, 8} /\ l.length <= Len(r)
      /\ l.length = 0 => Len(r) < 8
  BY <1>4, PeekIsTyped, Zenon
<1> HIDE DEF l
<1>6. /\ Stream!Type(w) = t /\ Stream!Length(w) = l
      /\ Stream!HasHeader(w) <=> t.length > 0 /\ l.length > 0
      /\ Stream!HeaderSize(w) = t.length + l.length
  BY <1>1, Zenon DEF t, r, l, Whole
<1>7. /\ t.length + l.length \in 0 .. Len(w) /\ t.length + l.length <= 16
      /\ t.length > 0 /\ l.length > 0 => t.length + l.length > 0
      /\ ~(t.length > 0 /\ l.length > 0) => Len(w) < 16
  <2>1. Len(r) = Len(w) - t.length
    BY <1>4
  <2>2. /\ t.length \in Nat /\ t.length <= 8 /\ t.length <= Len(w)
        /\ t.length = 0 => Len(w) < 8
    BY ONLY <1>3, SMT
  <2>3. /\ l.length \in Nat /\ l.length <= 8 /\ l.length <= Len(r)
        /\ l.length = 0 => Len(r) < 8
    BY ONLY <1>5, SMT
  <2>. QED  BY ONLY <1>2, <2>1, <2>2, <2>3, SMT
<1>. QED  BY <1>1, <1>3, <1>5, <1>6, <1>7, Zenon

\* A string whose first capsule is whole and is taken: what it says depends on
\* what follows.
Continues(w) ==
    w # <<>> /\ Stream!HasHeader(w) /\ ~Stream!TooLarge(w) /\ Stream!IsComplete(w)

\* What follows is within the string, and shorter.
LEMMA ContinuesWithin ==
    ASSUME NEW w \in Seq(Octets)
    PROVE  /\ Stream!CapsuleSize(w) \in Nat
           /\ Continues(w) => Stream!CapsuleSize(w) \in 1 .. Len(w)
<1>1. /\ Stream!Length(w).value \in Nat /\ Stream!HeaderSize(w) \in 0 .. Len(w)
      /\ Stream!HasHeader(w) => Stream!HeaderSize(w) > 0
  BY HeaderIsTyped, Zenon
<1>2. Stream!CapsuleSize(w) = Stream!HeaderSize(w) + Stream!Length(w).value
  BY Zenon DEF Stream!CapsuleSize
<1>3. Continues(w) => Stream!HasHeader(w) /\ Len(w) >= Stream!CapsuleSize(w)
  BY Zenon DEF Continues, Stream!IsComplete
<1>4. Len(w) \in Nat
  BY LenProperties
<1>. QED  BY ONLY <1>1, <1>2, <1>3, <1>4, SMT

\* The value of a whole capsule, where the decoder finds it.
LEMMA ValueIsTyped ==
    ASSUME NEW w \in Seq(Octets), Continues(w)
    PROVE  /\ Stream!Value(w) = Take(Drop(w, Stream!HeaderSize(w)), Stream!Length(w).value)
           /\ Stream!Value(w) \in Seq(Octets)
<1>1. /\ Stream!Length(w).value \in Nat /\ Stream!HeaderSize(w) \in 0 .. Len(w)
      /\ Len(w) \in Nat
  BY HeaderIsTyped, LenProperties, Zenon
<1>2. Stream!CapsuleSize(w) = Stream!HeaderSize(w) + Stream!Length(w).value
      /\ Stream!CapsuleSize(w) \in 1 .. Len(w)
  BY ContinuesWithin, Zenon DEF Stream!CapsuleSize
<1> DEFINE h == Stream!HeaderSize(w)
           n == Stream!Length(w).value
           v == Stream!Value(w)
<1>3. v = SubSeq(w, h + 1, h + n)
  BY <1>2, Zenon DEF Stream!Value
<1> HIDE DEF v
<1>a. h \in Nat /\ n \in Nat /\ h <= Len(w) /\ n <= Len(w) - h /\ n \in 0 .. Len(w) - h
      /\ h \in 0 .. Len(w)
  BY ONLY <1>1, <1>2, SMT
<1> HIDE DEF h, n
<1>4. /\ v \in Seq(Octets) /\ Len(v) = n
      /\ \A i \in 1 .. n : v[i] = w[h + i]
  <2> DEFINE p == h + 1
             q == h + n
  <2>1. /\ p \in Int /\ q \in Int /\ \A i \in p .. q : i \in 1 .. Len(w)
        /\ (IF p <= q THEN q - p + 1 ELSE 0) = n
        /\ \A i \in 1 .. n : i \in 1 .. q - p + 1 /\ p + i - 1 = h + i
    BY ONLY <1>1, <1>a, SMT
  <2>2. v = SubSeq(w, p, q)
    BY <1>3, Zenon
  <2> HIDE DEF p, q
  <2>3. \A i \in p .. q : w[i] \in Octets
    BY <2>1, ElementOfSeq, Zenon
  <2>4. /\ SubSeq(w, p, q) \in Seq(Octets)
        /\ Len(SubSeq(w, p, q)) = IF p <= q THEN q - p + 1 ELSE 0
        /\ \A i \in 1 .. q - p + 1 : SubSeq(w, p, q)[i] = w[p + i - 1]
    BY ONLY <2>1, <2>3, SubSeqProperties
  <2>. QED  BY ONLY <2>1, <2>2, <2>4, Zenon
<1>5. /\ Drop(w, h) \in Seq(Octets) /\ Len(Drop(w, h)) = Len(w) - h
      /\ \A i \in 1 .. Len(w) - h : Drop(w, h)[i] = w[h + i]
  BY <1>a, DropCuts, Zenon
<1>6. /\ Take(Drop(w, h), n) \in Seq(Octets) /\ Len(Take(Drop(w, h), n)) = n
      /\ \A i \in 1 .. n : Take(Drop(w, h), n)[i] = Drop(w, h)[i]
  <2>1. n \in 0 .. Len(Drop(w, h))
    BY <1>a, <1>5, Zenon
  <2>. QED  BY <1>5, <2>1, TakeCuts, Zenon
<1>7. ASSUME NEW i \in 1 .. n PROVE v[i] = Take(Drop(w, h), n)[i]
  <2>1. i \in 1 .. Len(w) - h
    BY ONLY <1>1, <1>a, i \in 1 .. n, SMT
  <2>. QED  BY <2>1, <1>4, <1>5, <1>6, Zenon
<1>8. v = Take(Drop(w, h), n)
  BY <1>4, <1>6, <1>7, SeqEqual, Zenon
<1>. QED  BY <1>4, <1>8, Zenon DEF v, h, n

\* A datagram is made of a Context ID and the octets after it.
LEMMA DatagramIsTyped ==
    ASSUME NEW v \in Seq(Octets)
    PROVE  /\ Stream!Datagram(v) =
                  [context_id |-> peek_varint(v).value,
                   payload |-> Drop(v, peek_varint(v).length)]
           /\ Stream!Datagram(v) \in [context_id : Nat, payload : Seq(Octets)]
<1>1. /\ peek_varint(v).value \in Nat
      /\ peek_varint(v).length \in {0, 1, 2, 4, 8} /\ peek_varint(v).length <= Len(v)
  BY PeekIsTyped, Zenon
<1>2. Len(v) \in Nat
  BY LenProperties
<1>3. peek_varint(v).length \in 0 .. Len(v)
  BY ONLY <1>1, <1>2, SMT
<1>4. Drop(v, peek_varint(v).length) \in Seq(Octets)
  BY <1>3, DropCuts, Zenon
<1>5. Stream!Datagram(v) =
          [context_id |-> peek_varint(v).value,
           payload |-> Drop(v, peek_varint(v).length)]
  BY SameStrings, Zenon DEF Stream!Datagram
<1>. QED  BY <1>1, <1>4, <1>5

\* Only a string that continues depends on what follows, and what it says is of
\* its type.
LEMMA ReadsIsTyped ==
    ASSUME NEW w \in Seq(Octets), NEW m
    PROVE  /\ ~Continues(w) => Stream!Reads(w, m) \in Outcomes
           /\ m \in Outcomes => Stream!Reads(w, m) \in Outcomes
           /\ ~Continues(w) => \A k : Stream!Reads(w, k) = Stream!Reads(w, m)
<1>1. /\ Stream!Stop("boundary") \in Outcomes /\ Stream!Stop("midway") \in Outcomes
      /\ Stream!Stop("error") \in Outcomes
  <2>1. <<>> \in Seq([context_id : Nat, payload : Seq(Octets)])
    OBVIOUS
  <2>. QED  BY <2>1, Zenon DEF Stream!Stop, Outcomes
<1>2. ~Continues(w) =>
          \/ \A k : Stream!Reads(w, k) = Stream!Stop("boundary")
          \/ \A k : Stream!Reads(w, k) = Stream!Stop("midway")
          \/ \A k : Stream!Reads(w, k) = Stream!Stop("error")
  BY Zenon DEF Continues, Stream!Reads
<1>3. ASSUME Continues(w), m \in Outcomes PROVE Stream!Reads(w, m) \in Outcomes
  <2> DEFINE d == Stream!Datagram(Stream!Value(w))
  <2>1. \/ Stream!Reads(w, m) = m
        \/ Stream!Reads(w, m) = Stream!Stop("error")
        \/ Stream!Reads(w, m) = Stream!Prefixed(<<d>>, m)
    BY <1>3, Zenon DEF Continues, Stream!Reads
  <2>2. d \in [context_id : Nat, payload : Seq(Octets)]
    BY <1>3, ValueIsTyped, DatagramIsTyped, Zenon
  <2> HIDE DEF d
  <2>3. Stream!Prefixed(<<d>>, m) \in Outcomes
    <3>1. <<d>> \in Seq([context_id : Nat, payload : Seq(Octets)])
      BY <2>2
    <3>2. /\ m.capsules \in Seq([context_id : Nat, payload : Seq(Octets)])
          /\ m.ending \in {"boundary", "midway", "error"}
      BY <1>3, Zenon DEF Outcomes
    <3>3. <<d>> \o m.capsules \in Seq([context_id : Nat, payload : Seq(Octets)])
      BY <3>1, <3>2, ConcatProperties, Zenon
    <3>. QED  BY <3>2, <3>3, Zenon DEF Stream!Prefixed, Outcomes
  <2>. QED  BY <1>1, <1>3, <2>1, <2>3, Zenon
<1>. QED  BY <1>1, <1>2, <1>3, Zenon

\* The table of what a string says from each of its places on.
Entry(w, f, n) == Stream!Reads(Drop(w, n), f[n + Stream!CapsuleSize(Drop(w, n))])
IsTable(w, f) == f = [n \in 0 .. Len(w) |-> Entry(w, f, n)]

\* An entry depends only on later ones.
LEMMA EntryLooksAhead ==
    ASSUME NEW w \in Seq(Octets), NEW n \in 0 .. Len(w), NEW f, NEW g,
           \A k \in n + 1 .. Len(w) : f[k] = g[k]
    PROVE  Entry(w, f, n) = Entry(w, g, n)
<1> DEFINE r == Drop(w, n)
<1>1. r \in Seq(Octets) /\ Len(r) = Len(w) - n
  BY DropCuts, Zenon
<1>2. Len(w) \in Nat /\ n \in Nat
  BY LenProperties
<1>3. CASE Continues(r)
  <2>1. Stream!CapsuleSize(r) \in 1 .. Len(w) - n
    BY <1>1, <1>3, ContinuesWithin, Zenon
  <2>2. n + Stream!CapsuleSize(r) \in n + 1 .. Len(w)
    BY ONLY <1>2, <2>1, SMT
  <2>. QED  BY <2>2, Zenon DEF Entry
<1>4. CASE ~Continues(r)
  BY <1>1, <1>4, ReadsIsTyped, Zenon DEF Entry
<1>. QED  BY <1>3, <1>4, Zenon

\* There is such a table, and it is of its type.
LEMMA TableExists ==
    ASSUME NEW w \in Seq(Octets)
    PROVE  \E f \in [0 .. Len(w) -> Outcomes] : IsTable(w, f)
<1> DEFINE L == Len(w)
<1>0. L \in Nat
  BY LenProperties, Zenon
<1>a. ASSUME NEW f \in [0 .. L -> Outcomes], NEW n \in 0 .. L PROVE Entry(w, f, n) \in Outcomes
  <2> DEFINE r == Drop(w, n)
  <2>1. r \in Seq(Octets) /\ Len(r) = L - n
    BY <1>a, DropCuts, Zenon
  <2>2. CASE Continues(r)
    <3>1. Stream!CapsuleSize(r) \in 1 .. L - n
      BY <2>1, <2>2, ContinuesWithin, Zenon
    <3>2. n + Stream!CapsuleSize(r) \in 0 .. L
      BY ONLY <1>0, <3>1, n \in 0 .. L, SMT
    <3>3. f[n + Stream!CapsuleSize(r)] \in Outcomes
      BY <1>a, <3>2, Zenon
    <3>. QED  BY <2>1, <3>3, ReadsIsTyped, Zenon DEF Entry
  <2>3. CASE ~Continues(r)
    BY <2>1, <2>3, ReadsIsTyped, Zenon DEF Entry
  <2>. QED  BY <2>2, <2>3
<1>b. ASSUME NEW f, NEW g, NEW n \in 0 .. L, \A k \in n + 1 .. L : f[k] = g[k]
      PROVE  Entry(w, f, n) = Entry(w, g, n)
  BY <1>b, EntryLooksAhead, Zenon
<1> HIDE DEF L
<1> DEFINE From(m) == \E f \in [0 .. L -> Outcomes] : \A n \in m .. L : f[n] = Entry(w, f, n)
           Bad == {j \in 0 .. L : ~From(L - j)}
<1>1. Bad = {}
  <2>1. SUFFICES ASSUME Bad # {} PROVE FALSE
    BY Zenon
  <2>2. Bad \in SUBSET Nat
    BY <1>0
  <2>3. PICK b \in Bad : \A m \in Bad : b <= m
    <3> HIDE DEF Bad
    <3>. QED  BY <2>1, <2>2, LeastOfNaturals, Zenon
  <2>4. b \in 0 .. L /\ ~From(L - b)
    BY <2>3, Zenon
  <2> HIDE DEF From
  <2>5. L - b \in 0 .. L /\ b \in Nat /\ ~(b <= b - 1)
    BY ONLY <1>0, <2>4, SMT
  <2>6. PICK f \in [0 .. L -> Outcomes] : \A n \in L - b + 1 .. L : f[n] = Entry(w, f, n)
    <3>1. CASE b = 0
      <4>1. L - b + 1 .. L = {}
        BY ONLY <1>0, <3>1, SMT
      <4>2. Outcomes # {}
        <5>1. Stream!Reads(<<>>, <<>>) \in Outcomes
          <6>1. <<>> \in Seq(Octets) /\ ~Continues(<<>>)
            BY DEF Continues
          <6>. QED  BY <6>1, ReadsIsTyped, Zenon
        <5>. QED  BY <5>1, Zenon
      <4>3. PICK o \in Outcomes : TRUE
        BY <4>2, Zenon
      <4>4. [n \in 0 .. L |-> o] \in [0 .. L -> Outcomes]
        OBVIOUS
      <4>. QED  BY <4>1, <4>4, Zenon
    <3>2. CASE b # 0
      <4>1. b - 1 \in 0 .. L /\ L - (b - 1) = L - b + 1
        BY ONLY <1>0, <2>4, <3>2, SMT
      <4>2. b - 1 \notin Bad
        BY <2>3, <2>5, Zenon
      <4>3. From(L - (b - 1))
        BY <4>1, <4>2, Zenon
      <4>4. From(L - b + 1)
        BY ONLY <4>1, <4>3, Zenon
      <4>. QED  BY <4>4, Zenon DEF From
    <3>. QED  BY <3>1, <3>2, Zenon
  <2> DEFINE c == L - b
             e == Entry(w, f, c)
             g == [f EXCEPT ![c] = e]
  <2>7. c \in 0 .. L /\ c \in Nat
    BY ONLY <2>5, SMT
  <2> HIDE DEF c
  <2>8. e \in Outcomes
    BY <1>a, <2>7, Zenon
  <2> HIDE DEF e
  <2>9. g \in [0 .. L -> Outcomes] /\ g[c] = e /\ \A n \in 0 .. L : n # c => g[n] = f[n]
    BY ONLY <2>7, <2>8, f \in [0 .. L -> Outcomes], Zenon
  <2> HIDE DEF g
  <2>10. ASSUME NEW n \in c .. L PROVE g[n] = Entry(w, g, n)
    <3>1. n \in 0 .. L /\ (n # c => n \in c + 1 .. L) /\ \A k \in n + 1 .. L : k \in 0 .. L /\ k # c
      BY ONLY <1>0, <2>7, n \in c .. L, SMT
    <3>2. Entry(w, g, n) = Entry(w, f, n)
      BY <1>b, <2>9, <3>1, ZenonT(40)
    <3>3. g[n] = Entry(w, f, n)
      <4>1. CASE n = c  BY <4>1, <2>9, Zenon DEF e
      <4>2. CASE n # c
        <5>1. f[n] = Entry(w, f, n)
          BY <2>6, <3>1, <4>2, Zenon DEF c
        <5>. QED  BY <4>2, <5>1, <2>9, <3>1, Zenon
      <4>. QED  BY <4>1, <4>2, Zenon
    <3>. QED  BY <3>2, <3>3, Zenon
  <2>11. From(L - b)
    BY <2>9, <2>10, Zenon DEF From, c
  <2>. QED  BY <2>4, <2>11, Zenon
<1>2. L \in 0 .. L /\ L - L = 0
  BY ONLY <1>0, SMT
<1>3. From(0)
  <2> HIDE DEF From
  <2>1. From(L - L)
    BY <1>1, <1>2, Zenon
  <2>. QED  BY <1>2, <2>1, Zenon
<1>4. PICK f \in [0 .. L -> Outcomes] : \A n \in 0 .. L : f[n] = Entry(w, f, n)
  BY <1>3, Zenon
<1>5. f = [n \in 0 .. L |-> Entry(w, f, n)]
  BY <1>4, Zenon
<1>. QED  BY <1>4, <1>5, Zenon DEF IsTable, L

\* The table of what is left of a string is the later part of its table.
LEMMA TablesAgree ==
    ASSUME NEW w \in Seq(Octets), NEW n \in 0 .. Len(w), NEW f, NEW g,
           IsTable(w, f), IsTable(Drop(w, n), g)
    PROVE  \A m \in 0 .. Len(w) - n : f[n + m] = g[m]
<1> DEFINE L == Len(w)
           v == Drop(w, n)
           K == L - n
<1>1. L \in Nat /\ n \in Nat /\ n <= L
  BY LenProperties
<1>2. v \in Seq(Octets) /\ Len(v) = K
  BY DropCuts, Zenon
<1>3. K \in Nat /\ K = L - n
  BY ONLY <1>1, SMT
<1>4. \A m \in 0 .. K : g[m] = Entry(v, g, m)
  BY <1>2, Zenon DEF IsTable
<1>5. \A m \in 0 .. L : f[m] = Entry(w, f, m)
  BY Zenon DEF IsTable
<1>6. \A m \in 0 .. K : Drop(v, m) = Drop(w, n + m) /\ Drop(w, n + m) \in Seq(Octets)
                        /\ Len(Drop(w, n + m)) = K - m
  <2> TAKE m \in 0 .. K
  <2>1. n + m \in 0 .. L /\ L - (n + m) = K - m
    BY ONLY <1>1, <1>3, m \in 0 .. K, SMT
  <2>2. Drop(v, m) = Drop(w, n + m)
    BY CutTwice, Zenon
  <2>3. Drop(w, n + m) \in Seq(Octets) /\ Len(Drop(w, n + m)) = L - (n + m)
    BY <2>1, DropCuts, Zenon
  <2>. QED  BY <2>1, <2>2, <2>3, Zenon
<1> HIDE DEF L, v, K
<1> DEFINE Bad == {j \in 0 .. K : f[n + (K - j)] # g[K - j]}
<1>7. Bad = {}
  <2>1. SUFFICES ASSUME Bad # {} PROVE FALSE
    BY Zenon
  <2>2. Bad \in SUBSET Nat
    BY <1>3
  <2>3. PICK b \in Bad : \A j \in Bad : b <= j
    <3> HIDE DEF Bad
    <3>. QED  BY <2>1, <2>2, LeastOfNaturals, Zenon
  <2> DEFINE m == K - b
             r == Drop(w, n + m)
             s == Stream!CapsuleSize(r)
  <2>4. b \in 0 .. K /\ f[n + m] # g[m]
    BY <2>3, Zenon
  <2>5. m \in 0 .. K /\ n + m \in 0 .. L /\ m \in Nat /\ b \in Nat /\ K - m = b
    BY ONLY <1>1, <1>3, <2>4, SMT
  <2>6. r \in Seq(Octets) /\ Len(r) = b /\ Drop(v, m) = r
    BY <1>6, <2>5, Zenon
  <2>7. /\ f[n + m] = Stream!Reads(r, f[n + m + s])
        /\ g[m] = Stream!Reads(r, g[m + s])
    BY <1>4, <1>5, <2>5, <2>6, Zenon DEF Entry
  <2>8. CASE Continues(r)
    <3>1. s \in 1 .. b
      BY <2>6, <2>8, ContinuesWithin, Zenon
    <3> HIDE DEF s, m
    <3>2. /\ b - s \in 0 .. K /\ ~(b <= b - s) /\ K - (b - s) = m + s
          /\ n + (m + s) = n + m + s
      <4>1. m = K - b
        BY DEF m
      <4>2. K \in Nat /\ n \in Nat /\ b \in 0 .. K  BY <1>1, <1>3, <2>4, Zenon
      <4>. QED  BY <3>1, <4>1, <4>2, FromTheEnd, Zenon
    <3>3. f[n + (m + s)] = g[m + s]
      <4>1. b - s \notin Bad
        BY <2>3, <3>2, Zenon
      <4>2. f[n + (K - (b - s))] = g[K - (b - s)]
        BY <3>2, <4>1, Zenon
      <4>. QED  BY ONLY <3>2, <4>2, Zenon
    <3>4. f[n + m + s] = g[m + s]
      BY ONLY <3>2, <3>3, Zenon
    <3>. QED  BY ONLY <2>4, <2>7, <3>4, Zenon
  <2>9. CASE ~Continues(r)
    <3>1. Stream!Reads(r, f[n + m + s]) = Stream!Reads(r, g[m + s])
      BY <2>6, <2>9, ReadsIsTyped, Zenon
    <3>. QED  BY <2>4, <2>7, <3>1, Zenon
  <2>. QED  BY <2>8, <2>9, Zenon
<1>8. ASSUME NEW m \in 0 .. K PROVE f[n + m] = g[m]
  <2>1. K - m \in 0 .. K /\ K - (K - m) = m
    BY ONLY <1>3, m \in 0 .. K, SMT
  <2>2. f[n + (K - (K - m))] = g[K - (K - m)]
    BY <1>7, <2>1, Zenon
  <2>. QED  BY ONLY <2>1, <2>2, Zenon
<1>. QED  BY <1>8, Zenon DEF K, L

\* The meaning of a string is the first entry of its table.
LEMMA MeaningIsEntry ==
    ASSUME NEW w \in Seq(Octets)
    PROVE  \E f \in [0 .. Len(w) -> Outcomes] : IsTable(w, f) /\ Stream!Meaning(w) = f[0]
<1> DEFINE T == CHOOSE f : IsTable(w, f)
<1>1. Stream!Meaning(w) = T[0]
  BY Zenon DEF Stream!Meaning, Stream!Drop, Drop, IsTable, Entry
<1>2. PICK f \in [0 .. Len(w) -> Outcomes] : IsTable(w, f)
  BY TableExists, Zenon
<1>3. IsTable(w, T)
  BY <1>2, Zenon
<1> HIDE DEF T
<1>4. 0 \in 0 .. Len(w) /\ \A m \in 0 .. Len(w) : 0 + m = m /\ m \in 0 .. Len(w) - 0
  BY LenProperties
<1>5. Drop(w, 0) = w
  BY CutNothing, Zenon
<1>6. \A m \in 0 .. Len(w) - 0 : T[0 + m] = f[m]
  <2>1. IsTable(Drop(w, 0), f)
    BY <1>2, <1>5, Zenon
  <2>2. 0 \in 0 .. Len(w)
    BY <1>4, Zenon
  <2>. QED  BY ONLY <1>3, <2>1, <2>2, w \in Seq(Octets), TablesAgree, SMT
<1>7. T[0] = f[0]
  BY <1>4, <1>6, Zenon
<1>. QED  BY <1>1, <1>2, <1>7, Zenon

\* What a string says is a sequence of datagrams and one of three endings.
LEMMA MeaningIsTyped ==
    ASSUME NEW w \in Seq(Octets)
    PROVE  Stream!Meaning(w) \in Outcomes
<1>1. PICK f \in [0 .. Len(w) -> Outcomes] : IsTable(w, f) /\ Stream!Meaning(w) = f[0]
  BY MeaningIsEntry, Zenon
<1>2. 0 \in 0 .. Len(w)
  BY LenProperties
<1>. QED  BY <1>1, <1>2, Zenon

\* The meaning of a string is what its first capsule makes of the meaning of the
\* rest.
LEMMA MeaningUnfolds ==
    ASSUME NEW w \in Seq(Octets)
    PROVE  Stream!Meaning(w) =
               Stream!Reads(w, Stream!Meaning(Drop(w, Stream!CapsuleSize(w))))
<1>1. PICK f \in [0 .. Len(w) -> Outcomes] : IsTable(w, f) /\ Stream!Meaning(w) = f[0]
  BY MeaningIsEntry, Zenon
<1>2. Len(w) \in Nat /\ 0 \in 0 .. Len(w) /\ Drop(w, 0) = w
  BY LenProperties, CutNothing
<1>3. f[0] = Stream!Reads(w, f[0 + Stream!CapsuleSize(w)])
  BY <1>1, <1>2, Zenon DEF IsTable, Entry
<1> DEFINE s == Stream!CapsuleSize(w)
<1>4. CASE Continues(w)
  <2>1. s \in 1 .. Len(w)
    BY <1>4, ContinuesWithin, Zenon
  <2> HIDE DEF s
  <2>2. s \in 0 .. Len(w) /\ 0 + s = s /\ s + 0 = s /\ 0 \in 0 .. Len(w) - s
    BY ONLY <1>2, <2>1, SMT
  <2>3. Drop(w, s) \in Seq(Octets)
    BY <2>2, DropCuts, Zenon
  <2>4. PICK g : IsTable(Drop(w, s), g) /\ Stream!Meaning(Drop(w, s)) = g[0]
    BY <2>3, MeaningIsEntry, Zenon
  <2>5. f[s + 0] = g[0]
    <3>1. \A m \in 0 .. Len(w) - s : f[s + m] = g[m]
      BY <1>1, <2>2, <2>4, TablesAgree, ZenonT(40)
    <3>. QED  BY <2>2, <3>1, Zenon
  <2>6. f[0 + s] = Stream!Meaning(Drop(w, s))
    BY <2>2, <2>4, <2>5, Zenon
  <2>. QED  BY <1>1, <1>3, <2>6, Zenon DEF s
<1>5. CASE ~Continues(w)
  BY <1>1, <1>3, <1>5, ReadsIsTyped, Zenon
<1>. QED  BY <1>4, <1>5, Zenon

(***************************************************************************)
(* The decoder.                                                              *)
(***************************************************************************)
Datagrams == [context_id : Nat, payload : Seq(Octets)]

\* The capsules and the ending of a string that begins with some capsules.
LEMMA PrefixedParts ==
    ASSUME NEW g, NEW m
    PROVE  /\ Stream!Prefixed(g, m).capsules = g \o m.capsules
           /\ Stream!Prefixed(g, m).ending = m.ending
BY Zenon DEF Stream!Prefixed

\* Handing a datagram on moves it from the front of what is to come to the back of
\* what was given.
LEMMA PrefixedByOneMore ==
    ASSUME NEW g \in Seq(Datagrams), NEW d \in Datagrams, NEW m \in Outcomes
    PROVE  /\ Stream!Prefixed(g, Stream!Prefixed(<<d>>, m)) =
                  Stream!Prefixed(Append(g, d), m)
           /\ Append(g, d) \in Seq(Datagrams)
<1>1. m.capsules \in Seq(Datagrams) /\ <<d>> \in Seq(Datagrams)
  BY DEF Outcomes, Datagrams
<1>2. Append(g, d) = g \o <<d>>
  BY AppendIsConcat, Zenon
<1>3. (g \o <<d>>) \o m.capsules = g \o (<<d>> \o m.capsules)
  <2>1. Regroup(g, <<d>>, m.capsules)
    BY <1>1, Regroups, Zenon
  <2>. QED  BY <2>1, Zenon DEF Regroup
<1>4. /\ Stream!Prefixed(<<d>>, m).capsules = <<d>> \o m.capsules
      /\ Stream!Prefixed(<<d>>, m).ending = m.ending
  BY PrefixedParts, Zenon
<1>5. Stream!Prefixed(g, Stream!Prefixed(<<d>>, m)) =
          [capsules |-> g \o (<<d>> \o m.capsules), ending |-> m.ending]
  BY ONLY <1>4, Zenon DEF Stream!Prefixed
<1>6. Stream!Prefixed(Append(g, d), m) =
          [capsules |-> (g \o <<d>>) \o m.capsules, ending |-> m.ending]
  BY ONLY <1>2, Zenon DEF Stream!Prefixed
<1>7. Append(g, d) \in Seq(Datagrams)
  BY <1>1, <1>2, ConcatProperties, Zenon
<1>. QED  BY <1>3, <1>5, <1>6, <1>7, Zenon

\* A string that ends here says what was read of it.
LEMMA PrefixedStops ==
    ASSUME NEW g \in Seq(Datagrams), NEW how
    PROVE  Stream!Prefixed(g, Stream!Stop(how)) = [capsules |-> g, ending |-> how]
<1>1. g \o <<>> = g
  BY ConcatEmptySeq, Zenon
<1>2. Stream!Stop(how).capsules = <<>> /\ Stream!Stop(how).ending = how
  BY DEF Stream!Stop
<1>. QED  BY ONLY <1>1, <1>2, Zenon DEF Stream!Prefixed

\* The header of a string is the same when more octets follow.
LEMMA HeaderIsStable ==
    ASSUME NEW w \in Seq(Octets), NEW x \in Seq(Octets), Stream!HasHeader(w)
    PROVE  /\ Stream!HasHeader(w \o x) /\ Stream!HeaderSize(w \o x) = Stream!HeaderSize(w)
           /\ Stream!Type(w \o x) = Stream!Type(w) /\ Stream!Length(w \o x) = Stream!Length(w)
           /\ Stream!IsDatagram(w \o x) <=> Stream!IsDatagram(w)
           /\ Stream!TooLarge(w \o x) <=> Stream!TooLarge(w)
<1>0. w \o x \in Seq(Octets)
  BY ConcatProperties, Zenon
<1>1. /\ Stream!Type(w) = peek_varint(w)
      /\ Stream!Length(w) = peek_varint(Drop(w, peek_varint(w).length))
      /\ Stream!Type(w \o x) = peek_varint(w \o x)
      /\ Stream!Length(w \o x) = peek_varint(Drop(w \o x, peek_varint(w \o x).length))
  BY <1>0, HeaderIsTyped, Zenon
<1>2. Whole(Stream!Type(w)) /\ Whole(Stream!Length(w))
  BY SameStrings, Zenon DEF Stream!HasHeader
<1>3. peek_varint(w \o x) = peek_varint(w)
  BY <1>1, <1>2, PeekIsStable, Zenon
<1>4. peek_varint(w).length \in 0 .. Len(w)
  <2>1. /\ peek_varint(w).length \in {0, 1, 2, 4, 8} /\ peek_varint(w).length <= Len(w)
        /\ Len(w) \in Nat
    BY PeekIsTyped, LenProperties, Zenon
  <2>. QED  BY ONLY <2>1, SMT
<1>5. /\ Drop(w \o x, peek_varint(w).length) = Drop(w, peek_varint(w).length) \o x
      /\ Drop(w, peek_varint(w).length) \in Seq(Octets)
  BY <1>4, CutOfLonger, DropCuts, Zenon
<1>6. peek_varint(Drop(w, peek_varint(w).length) \o x) =
          peek_varint(Drop(w, peek_varint(w).length))
  BY <1>1, <1>2, <1>5, PeekIsStable, Zenon
<1>7. Stream!Type(w \o x) = Stream!Type(w) /\ Stream!Length(w \o x) = Stream!Length(w)
  BY <1>1, <1>3, <1>5, <1>6, Zenon
<1>. QED  BY <1>7, Zenon DEF Stream!HasHeader, Stream!HeaderSize, Stream!IsDatagram, Stream!TooLarge

\* What octets t say to a decoder that is at a header, or at a value or a skipped
\* capsule of which n octets are to come.
Pending(at, n, t) ==
    IF at = "Header" THEN Stream!Meaning(t)
    ELSE IF Len(t) < n THEN Stream!Stop("midway")
    ELSE IF at = "Skip" THEN Stream!Meaning(Drop(t, n))
    ELSE IF ~Whole(peek_varint(Take(t, n))) THEN Stream!Stop("error")
    ELSE Stream!Prefixed(<<Stream!Datagram(Take(t, n))>>, Stream!Meaning(Drop(t, n)))

\* Reading a header keeps what the octets say.
LEMMA HeaderRead ==
    ASSUME NEW w \in Seq(Octets), Stream!HasHeader(w)
    PROVE  /\ Stream!TooLarge(w) => Stream!Meaning(w) = Stream!Stop("error")
           /\ ~Stream!TooLarge(w) =>
                  Stream!Meaning(w) =
                      Pending(IF Stream!IsDatagram(w) THEN "Value" ELSE "Skip",
                              Stream!Length(w).value, Drop(w, Stream!HeaderSize(w)))
<1> DEFINE h == Stream!HeaderSize(w)
           n == Stream!Length(w).value
           t == Drop(w, h)
           next == Stream!Meaning(Drop(w, Stream!CapsuleSize(w)))
<1>1. h \in 0 .. Len(w) /\ h > 0 /\ n \in Nat /\ Len(w) \in Nat
  BY HeaderIsTyped, LenProperties, Zenon
<1>2. Stream!CapsuleSize(w) = h + n
  BY Zenon DEF Stream!CapsuleSize
<1>3. Stream!Meaning(w) = Stream!Reads(w, next)
  BY MeaningUnfolds, Zenon
<1>4. w # <<>>
  <2>1. Len(w) # 0
    BY ONLY <1>1, SMT
  <2>. QED  BY <2>1
<1>5. t \in Seq(Octets) /\ Len(t) = Len(w) - h
  BY <1>1, DropCuts, Zenon
<1>6. CASE Stream!TooLarge(w)
  BY <1>3, <1>4, <1>6, Zenon DEF Stream!Reads
<1>7. CASE ~Stream!TooLarge(w) /\ ~Stream!IsComplete(w)
  <2>1. Stream!Meaning(w) = Stream!Stop("midway")
    BY <1>3, <1>4, <1>7, Zenon DEF Stream!Reads
  <2>2. ~(Len(w) >= h + n)
    BY <1>2, <1>7, Zenon DEF Stream!IsComplete
  <2> HIDE DEF h, n, t
  <2>3. Len(t) < n
    <3>1. Len(t) = Len(w) - h  BY <1>5, Zenon
    <3>. QED  BY ONLY <1>1, <2>2, <3>1, SMT
  <2>4. /\ Pending("Value", n, t) = Stream!Stop("midway")
        /\ Pending("Skip", n, t) = Stream!Stop("midway")
    BY <2>3, Zenon DEF Pending
  <2>. QED  BY <1>7, <2>1, <2>4, Zenon DEF h, n, t
<1>8. CASE ~Stream!TooLarge(w) /\ Stream!IsComplete(w)
  <2>1. Continues(w)
    BY <1>4, <1>8, Zenon DEF Continues
  <2>2. Stream!Value(w) = Take(t, n) /\ Stream!Value(w) \in Seq(Octets)
    BY <2>1, ValueIsTyped, Zenon
  <2>3. Len(w) >= h + n
    BY <1>2, <1>8, Zenon DEF Stream!IsComplete
  <2> HIDE DEF h, n
  <2>4. n \in 0 .. Len(w) - h
    BY ONLY <1>1, <2>3, SMT
  <2>5. Drop(t, n) = Drop(w, h + n)
    BY <1>1, <2>4, CutTwice, Zenon
  <2>6. ~(Len(t) < n)
    <3>1. Len(t) = Len(w) - h  BY <1>5, Zenon
    <3> HIDE DEF t
    <3>. QED  BY ONLY <1>1, <2>3, <3>1, SMT
  <2>7. next = Stream!Meaning(Drop(t, n))
    BY <1>2, <2>5, Zenon
  <2> HIDE DEF t, next
  <2>8. CASE ~Stream!IsDatagram(w)
    <3>1. Stream!Meaning(w) = next
      BY <1>3, <1>4, <1>8, <2>8, Zenon DEF Stream!Reads
    <3>2. Pending("Skip", n, t) = next
      BY <2>6, <2>7, Zenon DEF Pending
    <3>. QED  BY <1>8, <2>8, <3>1, <3>2, Zenon DEF h, n, t
  <2>9. CASE Stream!IsDatagram(w)
    <3>1. Stream!Meaning(w) =
              IF ~Whole(peek_varint(Take(t, n))) THEN Stream!Stop("error")
              ELSE Stream!Prefixed(<<Stream!Datagram(Take(t, n))>>, next)
      BY <1>3, <1>4, <1>8, <2>2, <2>9, SameStrings, ZenonT(40) DEF Stream!Reads
    <3>2. Pending("Value", n, t) = Stream!Meaning(w)
      BY <2>6, <2>7, <3>1, Zenon DEF Pending
    <3>. QED  BY <1>8, <2>9, <3>2, Zenon DEF h, n, t
  <2>. QED  BY <2>8, <2>9, Zenon
<1>. QED  BY <1>6, <1>7, <1>8, Zenon

\* The same of a header that more octets follow.
LEMMA HeaderReadOn ==
    ASSUME NEW w \in Seq(Octets), NEW x \in Seq(Octets), Stream!HasHeader(w)
    PROVE  /\ Stream!TooLarge(w) => Stream!Meaning(w \o x) = Stream!Stop("error")
           /\ ~Stream!TooLarge(w) =>
                  Stream!Meaning(w \o x) =
                      Pending(IF Stream!IsDatagram(w) THEN "Value" ELSE "Skip",
                              Stream!Length(w).value, Drop(w, Stream!HeaderSize(w)) \o x)
<1>1. w \o x \in Seq(Octets)
  BY ConcatProperties, Zenon
<1>2. /\ Stream!HasHeader(w \o x) /\ Stream!HeaderSize(w \o x) = Stream!HeaderSize(w)
      /\ Stream!Length(w \o x) = Stream!Length(w)
      /\ Stream!IsDatagram(w \o x) <=> Stream!IsDatagram(w)
      /\ Stream!TooLarge(w \o x) <=> Stream!TooLarge(w)
  BY HeaderIsStable, Zenon
<1>3. Drop(w \o x, Stream!HeaderSize(w)) = Drop(w, Stream!HeaderSize(w)) \o x
  BY HeaderIsTyped, CutOfLonger, Zenon
<1>4. /\ Stream!TooLarge(w \o x) => Stream!Meaning(w \o x) = Stream!Stop("error")
      /\ ~Stream!TooLarge(w \o x) =>
             Stream!Meaning(w \o x) =
                 Pending(IF Stream!IsDatagram(w \o x) THEN "Value" ELSE "Skip",
                         Stream!Length(w \o x).value,
                         Drop(w \o x, Stream!HeaderSize(w \o x)))
  BY <1>1, <1>2, HeaderRead, Zenon
<1>5. CASE Stream!IsDatagram(w)
  BY <1>2, <1>3, <1>4, <1>5, ZenonT(40)
<1>6. CASE ~Stream!IsDatagram(w)
  BY <1>2, <1>3, <1>4, <1>6, ZenonT(40)
<1>. QED  BY <1>5, <1>6, ZenonT(40)

\* Discarding some octets of a skipped capsule keeps what is to come.
LEMMA SkippedOn ==
    ASSUME NEW t \in Seq(Octets), NEW x \in Seq(Octets), NEW n \in Nat,
           NEW k \in 0 .. Len(t), k <= n
    PROVE  Pending("Skip", n, t \o x) = Pending("Skip", n - k, Drop(t, k) \o x)
<1> DEFINE u == t \o x
           v == Drop(t, k) \o x
<1>1. u \in Seq(Octets) /\ Len(u) = Len(t) + Len(x) /\ Len(t) \in Nat /\ Len(x) \in Nat
  BY ConcatProperties, LenProperties, Zenon
<1>2. v = Drop(u, k)
  BY CutOfLonger, Zenon
<1> HIDE DEF u, v
<1>3. k \in 0 .. Len(u) /\ n - k \in Nat
  BY ONLY <1>1, k \in 0 .. Len(t), n \in Nat, k <= n, SMT
<1>4. Len(v) = Len(u) - k
  BY <1>1, <1>2, <1>3, DropCuts, ZenonT(40)
<1>5. Len(u) < n <=> Len(v) < n - k
  BY ONLY <1>1, <1>3, <1>4, n \in Nat, SMT
<1>6. ASSUME ~(Len(u) < n)
      PROVE  Drop(v, n - k) = Drop(u, n)
  <2>1. n - k \in 0 .. Len(u) - k /\ k + (n - k) = n
    BY ONLY <1>1, <1>3, <1>6, n \in Nat, SMT
  <2>2. Drop(Drop(u, k), n - k) = Drop(u, k + (n - k))
    BY <1>1, <1>3, <2>1, CutTwice, ZenonT(40)
  <2>. QED  BY <1>2, <2>1, <2>2, Zenon
<1>7. CASE Len(u) < n
  BY <1>5, <1>7, Zenon DEF Pending, u, v
<1>8. CASE ~(Len(u) < n)
  BY <1>5, <1>6, <1>8, Zenon DEF Pending, u, v
<1>. QED  BY <1>7, <1>8, Zenon

\* A skipped capsule of which nothing is to come is followed by a header.
LEMMA SkippedWhole ==
    ASSUME NEW t \in Seq(Octets)
    PROVE  Pending("Skip", 0, t) = Pending("Header", 0, t)
<1>1. ~(Len(t) < 0)
  <2>1. Len(t) \in Nat
    BY LenProperties, Zenon
  <2>. QED  BY ONLY <2>1, SMT
<1>2. Drop(t, 0) = t
  BY CutNothing, Zenon
<1>. QED  BY <1>1, <1>2, Zenon DEF Pending

\* A value that is there whole says its datagram, whatever follows it.
LEMMA ValueReadOn ==
    ASSUME NEW t \in Seq(Octets), NEW x \in Seq(Octets), NEW n \in 0 .. Len(t)
    PROVE  /\ ~Whole(peek_varint(Take(t, n))) =>
                  Pending("Value", n, t \o x) = Stream!Stop("error")
           /\ Whole(peek_varint(Take(t, n))) =>
                  Pending("Value", n, t \o x) =
                      Stream!Prefixed(<<Stream!Datagram(Take(t, n))>>,
                                      Pending("Header", 0, Drop(t, n) \o x))
<1>1. Len(t \o x) = Len(t) + Len(x) /\ Len(t) \in Nat /\ Len(x) \in Nat
  BY ConcatProperties, LenProperties, Zenon
<1>2. Drop(t \o x, n) = Drop(t, n) \o x /\ Take(t \o x, n) = Take(t, n)
  BY CutOfLonger, Zenon
<1>3. ~(Len(t \o x) < n)
  BY ONLY <1>1, n \in 0 .. Len(t), SMT
<1>. QED  BY <1>2, <1>3, Zenon DEF Pending

\* The first part of two joined strings.
LEMMA TakeAll ==
    ASSUME NEW S, NEW s \in Seq(S), NEW t \in Seq(S)
    PROVE  Take(s \o t, Len(s)) = s
<1>1. Len(s) \in 0 .. Len(s)
  <2>1. Len(s) \in Nat
    BY LenProperties, Zenon
  <2>. QED  BY ONLY <2>1, SMT
<1>2. Take(s \o t, Len(s)) = Take(s, Len(s))
  BY <1>1, CutOfLonger, Zenon
<1>3. Take(s, Len(s)) = s
  BY SubSeqFull, Zenon DEF Take
<1>. QED  BY <1>2, <1>3, Zenon

(***************************************************************************)
(* The inductive invariant: what was given, and what the rest of the buffer   *)
(* will say to the state the decoder is in, are what all that arrived says,   *)
(* whatever arrives next.  Stalled is why next_capsule asked for more.        *)
(***************************************************************************)
Stalled ==
    ~decoding /\ end = "open" =>
        \/ state.at = "Header" /\ ~Stream!HasHeader(buffer)
        \/ state.at = "Value" /\ Len(buffer) < state.n
        \/ state.at = "Skip" /\ state.n > 0 /\ buffer = <<>>

SaidSoFar ==
    end = "open" =>
        \A x \in Seq(Octets) :
            Stream!Meaning(arrived \o x) =
                Stream!Prefixed(given, Pending(state.at, state.n, buffer \o x))

InBounds ==
    /\ state.at = "Header" => state = Header
    /\ state.at = "Value" => state.n <= MAX_DATAGRAM_CAPSULE_VALUE
    /\ decoding => end = "open"

CapsuleInv == CapsuleTypeOK /\ InBounds /\ Stalled /\ SaidSoFar

\* With no octet to come, what arrived says what was given and what is held.
LEMMA SaidNow ==
    ASSUME CapsuleInv, end = "open"
    PROVE  Stream!Meaning(arrived) =
               Stream!Prefixed(given, Pending(state.at, state.n, buffer))
<1>1. arrived \in Seq(Octets) /\ buffer \in Seq(Octets)
  BY Zenon DEF CapsuleInv, CapsuleTypeOK
<1>2. <<>> \in Seq(Octets) /\ arrived \o <<>> = arrived /\ buffer \o <<>> = buffer
  BY <1>1, EmptySeq, ConcatEmptySeq, Zenon
<1>3. Stream!Meaning(arrived \o <<>>) =
          Stream!Prefixed(given, Pending(state.at, state.n, buffer \o <<>>))
  BY <1>2, Zenon DEF CapsuleInv, SaidSoFar
<1>. QED  BY <1>2, <1>3, Zenon

\* The decoder starts with nothing read of a string of which nothing has arrived.
LEMMA CapsuleStarts ==
    ASSUME CapsuleInit
    PROVE  CapsuleInv /\ Stream!Init
<1>1. /\ buffer = <<>> /\ state = Header /\ decoding = FALSE
      /\ given = <<>> /\ end = "open" /\ arrived = <<>>
  BY Zenon DEF CapsuleInit
<1>2. state.at = "Header" /\ state.n = 0 /\ state \in [at : {"Header", "Value", "Skip"}, n : Nat]
  BY <1>1 DEF Header
<1>3. CapsuleTypeOK
  BY <1>1, <1>2, EmptySeq, Zenon DEF CapsuleTypeOK
<1>4. InBounds
  BY <1>1, <1>2, Zenon DEF InBounds
<1>5. Stalled
  <2>1. peek_varint(<<>>) = NoVarint /\ NoVarint.length = 0
    BY Zenon DEF peek_varint, NoVarint
  <2>2. Stream!Type(<<>>) = peek_varint(<<>>)
    BY EmptySeq, HeaderIsTyped, Zenon
  <2>3. ~Whole(Stream!Type(<<>>))
    BY <2>1, <2>2 DEF Whole
  <2>. QED  BY <1>1, <1>2, <2>3, SameStrings, Zenon DEF Stalled, Stream!HasHeader
<1>6. SaidSoFar
  <2> SUFFICES ASSUME NEW x \in Seq(Octets)
               PROVE  Stream!Meaning(arrived \o x) =
                          Stream!Prefixed(given, Pending(state.at, state.n, buffer \o x))
    BY Zenon DEF SaidSoFar
  <2>1. arrived \o x = x /\ buffer \o x = x
    BY <1>1, ConcatEmptySeq, Zenon
  <2>2. Pending(state.at, state.n, buffer \o x) = Stream!Meaning(x)
    BY <1>2, <2>1, Zenon DEF Pending
  <2>3. Stream!Meaning(x) \in Outcomes
    BY MeaningIsTyped, Zenon
  <2> DEFINE m == Stream!Meaning(x)
  <2>4. m \in Outcomes
    BY <2>3, Zenon
  <2> HIDE DEF m
  <2>5. Stream!Prefixed(<<>>, m) = m
    <3>1. m.capsules \in Seq(Datagrams) /\ m = [capsules |-> m.capsules, ending |-> m.ending]
      BY <2>4 DEF Outcomes, Datagrams
    <3>2. <<>> \o m.capsules = m.capsules
      BY <3>1, ConcatEmptySeq, Zenon
    <3>. QED  BY <3>1, <3>2, Zenon DEF Stream!Prefixed
  <2>. QED  BY <1>1, <2>1, <2>2, <2>5, Zenon DEF m
<1>7. Stream!Init
  BY <1>1, Zenon DEF Stream!Init
<1>. QED  BY <1>3, <1>4, <1>5, <1>6, <1>7, ZenonT(40) DEF CapsuleInv

\* A chunk is more of the string that was to come.
LEMMA PushStep ==
    ASSUME CapsuleInv, NEW n \in 1 .. MaxChunk, NEW chunk \in [1 .. n -> Octets], push(chunk)
    PROVE  CapsuleInv' /\ Stream!Next
<1>1. /\ end = "open" /\ ~decoding /\ Len(arrived) + Len(chunk) <= MaxBytes
      /\ buffer' = buffer \o chunk /\ arrived' = arrived \o chunk /\ decoding' = TRUE
      /\ state' = state /\ given' = given /\ end' = end
  BY Zenon DEF push
<1>2. arrived \in Seq(Octets) /\ buffer \in Seq(Octets)
  BY Zenon DEF CapsuleInv, CapsuleTypeOK
<1>3. chunk \in Seq(Octets) /\ Len(chunk) \in Nat /\ Len(chunk) >= 1
  <2>1. n \in Nat /\ n >= 1
    BY CapsuleAssumption
  <2>2. chunk \in Seq(Octets) /\ Len(chunk) = n
    BY <2>1
  <2>. QED  BY ONLY <2>1, <2>2, SMT
<1>4. /\ arrived' \in Seq(Octets) /\ buffer' \in Seq(Octets)
      /\ Len(arrived') = Len(arrived) + Len(chunk) /\ Len(arrived) \in Nat
  BY <1>1, <1>2, <1>3, ConcatProperties, LenProperties, ZenonT(40)
<1>5. CapsuleTypeOK'
  BY <1>1, <1>4, Zenon DEF CapsuleInv, CapsuleTypeOK
<1>6. InBounds' /\ Stalled'
  BY <1>1, Zenon DEF CapsuleInv, InBounds, Stalled, Header
<1>7. SaidSoFar'
  <2> SUFFICES ASSUME NEW x \in Seq(Octets)
               PROVE  Stream!Meaning(arrived' \o x) =
                          Stream!Prefixed(given', Pending(state'.at, state'.n, buffer' \o x))
    BY Zenon DEF SaidSoFar, Pending, Stream!Meaning, Stream!Prefixed
  <2>1. /\ arrived' \o x = arrived \o (chunk \o x) /\ buffer' \o x = buffer \o (chunk \o x)
        /\ chunk \o x \in Seq(Octets)
    <3>1. Regroup(arrived, chunk, x) /\ Regroup(buffer, chunk, x)
      BY <1>2, <1>3, Regroups, Zenon
    <3>2. chunk \o x \in Seq(Octets)
      BY <1>3, ConcatProperties, Zenon
    <3>. QED  BY <1>1, <3>1, <3>2, Zenon DEF Regroup
  <2>. QED  BY <1>1, <2>1, Zenon DEF CapsuleInv, SaidSoFar
<1>8. Stream!Receive
  <2>1. Len(arrived') \in Len(arrived) + 1 .. MaxBytes
    <3>1. MaxBytes \in Nat
      BY CapsuleAssumption, Zenon
    <3>2. Len(arrived) + Len(chunk) <= MaxBytes  BY <1>1, <1>4, Zenon
    <3>. QED  BY <1>3, <1>4, <3>1, <3>2, GrowsWithin, Zenon
  <2>2. Stream!Take(arrived', Len(arrived)) = arrived
    BY <1>1, <1>2, <1>3, TakeAll, SameStrings, Zenon
  <2>. QED  BY <1>1, <1>4, <2>1, <2>2, Zenon DEF Stream!Receive
<1>. QED  BY <1>5, <1>6, <1>7, <1>8, Zenon DEF CapsuleInv, Stream!Next

\* A pass of next_capsule that gives nothing and keeps what is to come.
LEMMA MovedOn ==
    ASSUME CapsuleInv, decoding, end = "open",
           decoding' = decoding, given' = given, end' = end, arrived' = arrived,
           buffer' \in Seq(Octets), state' \in [at : {"Header", "Value", "Skip"}, n : Nat],
           InBounds',
           \A x \in Seq(Octets) :
               Pending(state'.at, state'.n, buffer' \o x) =
                   Pending(state.at, state.n, buffer \o x)
    PROVE  CapsuleInv' /\ [Stream!Next]_Stream!abstract
<1>1. CapsuleTypeOK'
  BY Zenon DEF CapsuleInv, CapsuleTypeOK
<1>2. Stalled'
  BY Zenon DEF Stalled
<1>3. SaidSoFar'
  <2> SUFFICES ASSUME NEW x \in Seq(Octets)
               PROVE  Stream!Meaning(arrived' \o x) =
                          Stream!Prefixed(given', Pending(state'.at, state'.n, buffer' \o x))
    BY Zenon DEF SaidSoFar, Pending, Stream!Meaning, Stream!Prefixed
  <2>. QED  BY Zenon DEF CapsuleInv, SaidSoFar
<1>4. UNCHANGED Stream!abstract
  BY Zenon DEF Stream!abstract
<1>. QED  BY <1>1, <1>2, <1>3, <1>4, Zenon DEF CapsuleInv

\* The decoder asks for more with nothing changed, and is stalled for it.
LEMMA NeedsMoreStep ==
    ASSUME CapsuleInv, decoding, NeedsMore,
           \/ state.at = "Header" /\ ~Stream!HasHeader(buffer)
           \/ state.at = "Value" /\ Len(buffer) < state.n
           \/ state.at = "Skip" /\ state.n > 0 /\ buffer = <<>>
    PROVE  CapsuleInv' /\ UNCHANGED Stream!abstract
<1>1. /\ decoding' = FALSE /\ buffer' = buffer /\ state' = state /\ given' = given
      /\ end' = end /\ arrived' = arrived
  BY Zenon DEF NeedsMore
<1>2. CapsuleTypeOK'
  BY <1>1, Zenon DEF CapsuleInv, CapsuleTypeOK
<1>3. InBounds'
  BY <1>1, Zenon DEF CapsuleInv, InBounds, Header
<1>4. Stream!HasHeader(buffer)' <=> Stream!HasHeader(buffer)
  BY <1>1, Zenon DEF Stream!HasHeader, Stream!Type, Stream!Length
<1>5. Stalled'
  BY <1>1, <1>4, Zenon DEF Stalled
<1>6. SaidSoFar'
  <2> SUFFICES ASSUME NEW x \in Seq(Octets)
               PROVE  Stream!Meaning(arrived' \o x) =
                          Stream!Prefixed(given', Pending(state'.at, state'.n, buffer' \o x))
    BY Zenon DEF SaidSoFar, Pending, Stream!Meaning, Stream!Prefixed
  <2>1. end = "open"
    BY Zenon DEF CapsuleInv, InBounds
  <2>. QED  BY <1>1, <2>1, Zenon DEF CapsuleInv, SaidSoFar
<1>7. UNCHANGED Stream!abstract
  BY <1>1, Zenon DEF Stream!abstract
<1>. QED  BY <1>2, <1>3, <1>5, <1>6, <1>7, ZenonT(40) DEF CapsuleInv

\* Octets of a skipped capsule are dropped as they come.
LEMMA DiscardStep ==
    ASSUME CapsuleInv, decoding, Discard
    PROVE  CapsuleInv' /\ [Stream!Next]_Stream!abstract
<1>0. state.at = "Skip"
  BY Zenon DEF Discard
<1>t. /\ arrived \in Seq(Octets) /\ buffer \in Seq(Octets) /\ state.n \in Nat
      /\ end = "open" /\ Len(buffer) \in Nat
  <2>1. /\ arrived \in Seq(Octets) /\ buffer \in Seq(Octets)
        /\ state \in [at : {"Header", "Value", "Skip"}, n : Nat]
    BY Zenon DEF CapsuleInv, CapsuleTypeOK
  <2>2. state.n \in Nat
    BY <2>1
  <2>3. end = "open"
    BY Zenon DEF CapsuleInv, InBounds
  <2>. QED  BY <2>1, <2>2, <2>3, LenProperties, Zenon
<1>1. CASE state.n > 0 /\ buffer = <<>>
  <2>1. NeedsMore
    BY <1>1, Zenon DEF Discard
  <2>. QED  BY <1>0, <1>1, <2>1, NeedsMoreStep, Zenon
<1>2. CASE ~(state.n > 0 /\ buffer = <<>>)
  <2> DEFINE k == IF state.n < Len(buffer) THEN state.n ELSE Len(buffer)
  <2>1. /\ buffer' = Drop(buffer, k)
        /\ state' = IF state.n = 0 THEN Header ELSE Skip(state.n - k)
        /\ decoding' = decoding /\ given' = given /\ end' = end /\ arrived' = arrived
    BY <1>2, Zenon DEF Discard
  <2>2. k \in 0 .. Len(buffer) /\ k <= state.n
    BY ONLY <1>t, SMT
  <2>3. state.n - k \in Nat /\ (state.n = 0 => state.n - k = 0)
    BY ONLY <1>t, <2>2, SMT
  <2> HIDE DEF k
  <2>4. buffer' \in Seq(Octets)
    BY <1>t, <2>1, <2>2, DropCuts, Zenon
  <2>5. CASE state.n = 0
    <3>1. state' = Header /\ state'.at = "Header" /\ state'.n = 0
      BY <2>1, <2>5 DEF Header
    <3>2. \A x \in Seq(Octets) :
              Pending("Header", 0, buffer' \o x) = Pending("Skip", state.n, buffer \o x)
      <4> SUFFICES ASSUME NEW x \in Seq(Octets)
                   PROVE  Pending("Header", 0, buffer' \o x) =
                              Pending("Skip", state.n, buffer \o x)
        BY Zenon
      <4>1. Pending("Skip", state.n, buffer \o x) =
                Pending("Skip", state.n - k, Drop(buffer, k) \o x)
        BY <1>t, <2>2, SkippedOn, Zenon
      <4>2. buffer' \o x \in Seq(Octets)
        BY <2>4, ConcatProperties, Zenon
      <4>3. Pending("Skip", 0, buffer' \o x) = Pending("Header", 0, buffer' \o x)
        BY <4>2, SkippedWhole, Zenon
      <4>. QED  BY <2>1, <2>3, <2>5, <4>1, <4>3, Zenon
    <3>3. state' \in [at : {"Header", "Value", "Skip"}, n : Nat]
      BY <3>1 DEF Header
    <3>4. InBounds'
      BY <1>t, <2>1, <3>1, Zenon DEF InBounds, Header
    <3>. QED  BY <1>0, <1>t, <2>1, <2>4, <3>1, <3>2, <3>3, <3>4, MovedOn, ZenonT(40)
  <2>6. CASE state.n # 0
    <3>1. /\ state'.at = "Skip" /\ state'.n = state.n - k
          /\ state' \in [at : {"Header", "Value", "Skip"}, n : Nat]
      BY <2>1, <2>3, <2>6 DEF Skip
    <3>2. \A x \in Seq(Octets) :
              Pending("Skip", state.n - k, buffer' \o x) = Pending("Skip", state.n, buffer \o x)
      BY <1>t, <2>1, <2>2, SkippedOn, Zenon
    <3>3. InBounds'
      BY <1>t, <2>1, <3>1, Zenon DEF InBounds, Header
    <3>. QED  BY <1>0, <1>t, <2>1, <2>4, <3>1, <3>2, <3>3, MovedOn, ZenonT(40)
  <2>. QED  BY <2>5, <2>6, Zenon
<1>. QED  BY <1>1, <1>2, Zenon

\* The stream ends: all that it says was given, and its ending is what the
\* decoder says of it.
LEMMA Ends ==
    ASSUME CapsuleInv, end = "open", NEW how \in {"boundary", "midway", "error"},
           Stream!Meaning(arrived) = Stream!Prefixed(given, Stream!Stop(how)),
           given' = given, arrived' = arrived,
           end' = IF how = "error" THEN "error"
                  ELSE IF how = "boundary" THEN "complete" ELSE "truncated"
    PROVE  Stream!Next
<1>1. given \in Seq(Datagrams)
  BY Zenon DEF CapsuleInv, CapsuleTypeOK, Datagrams
<1>2. Stream!Meaning(arrived) = [capsules |-> given, ending |-> how]
  BY <1>1, PrefixedStops, Zenon
<1>3. Stream!Meaning(arrived).capsules = given /\ Stream!Meaning(arrived).ending = how
  BY <1>2
<1>4. end' = CASE Stream!Meaning(arrived).ending = "error" -> "error"
               [] Stream!Meaning(arrived).ending = "boundary" -> "complete"
               [] Stream!Meaning(arrived).ending = "midway" -> "truncated"
  <2>1. CASE how = "error"
    BY ONLY <2>1, <1>3, end' = (IF how = "error" THEN "error"
                  ELSE IF how = "boundary" THEN "complete" ELSE "truncated"), Zenon
  <2>2. CASE how = "boundary"
    BY ONLY <2>2, <1>3, end' = (IF how = "error" THEN "error"
                  ELSE IF how = "boundary" THEN "complete" ELSE "truncated"), Zenon
  <2>3. CASE how = "midway"
    BY ONLY <2>3, <1>3, end' = (IF how = "error" THEN "error"
                  ELSE IF how = "boundary" THEN "complete" ELSE "truncated")
  <2>. QED  BY <2>1, <2>2, <2>3, Zenon
<1>5. Stream!End
  BY <1>3, <1>4, Zenon DEF Stream!End
<1>. QED  BY <1>5, Zenon DEF Stream!Next

\* After a fault nothing is promised of what is held.
LEMMA Faulted ==
    ASSUME CapsuleInv, decoding, end = "open",
           end' = "error", decoding' = FALSE, given' = given, arrived' = arrived,
           buffer' \in Seq(Octets), state' = Header \/ state' = state,
           Stream!Meaning(arrived) = Stream!Prefixed(given, Stream!Stop("error"))
    PROVE  CapsuleInv' /\ Stream!Next
<1>1. state' \in [at : {"Header", "Value", "Skip"}, n : Nat]
  <2>1. state \in [at : {"Header", "Value", "Skip"}, n : Nat]
    BY Zenon DEF CapsuleInv, CapsuleTypeOK
  <2>2. Header \in [at : {"Header", "Value", "Skip"}, n : Nat]
    BY Zenon DEF Header
  <2>. QED  BY <2>1, <2>2, Zenon
<1>2. CapsuleTypeOK'
  BY <1>1, Zenon DEF CapsuleInv, CapsuleTypeOK
<1>3. InBounds'
  <2>1. CASE state' = Header
    <3>1. state'.at = "Header"
      BY <2>1 DEF Header
    <3>. QED  BY <2>1, <3>1, Zenon DEF InBounds, Header
  <2>2. CASE state' = state
    BY <2>2, Zenon DEF CapsuleInv, InBounds, Header
  <2>. QED  BY <2>1, <2>2, Zenon
<1>4. Stalled' /\ SaidSoFar'
  BY Zenon DEF Stalled, SaidSoFar
<1>5. Stream!Next
  BY Ends, Zenon
<1>. QED  BY <1>2, <1>3, <1>4, <1>5, Zenon DEF CapsuleInv

\* Both integers of a header are there, or neither is taken.
LEMMA HeaderStep ==
    ASSUME CapsuleInv, decoding, ReadHeader
    PROVE  CapsuleInv' /\ [Stream!Next]_Stream!abstract
<1> DEFINE type == peek_varint(buffer)
           length == peek_varint(Drop(buffer, type.length))
           after == Drop(buffer, type.length + length.length)
<1>0. state.at = "Header"
  BY Zenon DEF ReadHeader
<1>t. arrived \in Seq(Octets) /\ buffer \in Seq(Octets) /\ end = "open"
  BY Zenon DEF CapsuleInv, CapsuleTypeOK, InBounds
<1>1. /\ Stream!Type(buffer) = type /\ Stream!Length(buffer) = length
      /\ type.value \in Nat /\ length.value \in Nat
      /\ Stream!HeaderSize(buffer) \in 0 .. Len(buffer)
  BY <1>t, HeaderIsTyped, Zenon
<1>2. /\ Stream!HasHeader(buffer) <=> Whole(type) /\ Whole(length)
      /\ Stream!HeaderSize(buffer) = type.length + length.length
      /\ Stream!IsDatagram(buffer) <=> type.value = CAPSULE_TYPE_DATAGRAM
      /\ Stream!TooLarge(buffer) <=>
             /\ type.value = CAPSULE_TYPE_DATAGRAM
             /\ length.value > MAX_DATAGRAM_CAPSULE_VALUE
  BY <1>1, SameStrings, Zenon
     DEF Stream!HasHeader, Stream!HeaderSize, Stream!IsDatagram, Stream!TooLarge,
         Stream!CAPSULE_TYPE_DATAGRAM, CAPSULE_TYPE_DATAGRAM
<1>3. CASE ~Whole(type) \/ ~Whole(length)
  <2>1. NeedsMore
    BY <1>3, Zenon DEF ReadHeader
  <2>2. ~Stream!HasHeader(buffer)
    BY <1>2, <1>3, Zenon
  <2>. QED  BY <1>0, <2>1, <2>2, NeedsMoreStep, Zenon
<1>4. CASE Whole(type) /\ Whole(length)
  <2>1. Declared(type.value, length.value, after)
    BY <1>4, Zenon DEF ReadHeader
  <2>2. buffer' = after /\ given' = given /\ arrived' = arrived
    BY <2>1, Zenon DEF Declared
  <2>3. Stream!HasHeader(buffer)
    BY <1>2, <1>4, Zenon
  <2>4. after = Drop(buffer, Stream!HeaderSize(buffer)) /\ after \in Seq(Octets)
    BY <1>t, <1>1, <1>2, DropCuts, Zenon
  <2>5. \A x \in Seq(Octets) :
            Pending(state.at, state.n, buffer \o x) = Stream!Meaning(buffer \o x)
    BY <1>0, Zenon DEF Pending
  <2>6. \A x \in Seq(Octets) :
            /\ Stream!TooLarge(buffer) => Stream!Meaning(buffer \o x) = Stream!Stop("error")
            /\ ~Stream!TooLarge(buffer) =>
                   Stream!Meaning(buffer \o x) =
                       Pending(IF Stream!IsDatagram(buffer) THEN "Value" ELSE "Skip",
                               length.value, after \o x)
    BY <1>t, <1>1, <2>3, <2>4, HeaderReadOn, ZenonT(40)
  <2> HIDE DEF after, type, length
  <2>7. CASE Stream!TooLarge(buffer)
    <3>1. end' = "error" /\ decoding' = FALSE /\ state' = state
      BY <1>2, <2>1, <2>7, ZenonT(40) DEF Declared
    <3>2. Stream!Meaning(arrived) = Stream!Prefixed(given, Stream!Stop("error"))
      <4>1. <<>> \in Seq(Octets) /\ buffer \o <<>> = buffer
        BY <1>t, EmptySeq, ConcatEmptySeq, Zenon
      <4>2. Pending(state.at, state.n, buffer) = Stream!Stop("error")
        BY <2>5, <2>6, <2>7, <4>1, ZenonT(40)
      <4>. QED  BY <1>t, <4>2, SaidNow, ZenonT(40)
    <3>. QED  BY <1>t, <2>2, <2>4, <3>1, <3>2, Faulted, ZenonT(40)
  <2>8. CASE ~Stream!TooLarge(buffer) /\ Stream!IsDatagram(buffer)
    <3>1. state' = ValueOf(length.value) /\ decoding' = decoding /\ end' = end
      BY <1>2, <2>1, <2>8, ZenonT(40) DEF Declared
    <3>2. /\ state'.at = "Value" /\ state'.n = length.value
          /\ state' \in [at : {"Header", "Value", "Skip"}, n : Nat]
      BY <1>1, <3>1 DEF ValueOf
    <3>3. length.value <= MAX_DATAGRAM_CAPSULE_VALUE
      <4>1. ~(length.value > MAX_DATAGRAM_CAPSULE_VALUE)
        BY <1>2, <2>8, Zenon
      <4>2. MAX_DATAGRAM_CAPSULE_VALUE \in Nat
        BY CapsuleAssumption, Zenon
      <4>. QED  BY ONLY <1>1, <4>1, <4>2, SMT
    <3>4. InBounds'
      BY <1>t, <3>1, <3>2, <3>3, Zenon DEF InBounds, Header
    <3>5. \A x \in Seq(Octets) :
              Pending(state'.at, state'.n, buffer' \o x) = Pending(state.at, state.n, buffer \o x)
      BY <2>2, <2>5, <2>6, <2>8, <3>2, ZenonT(40)
    <3>. QED  BY <1>t, <2>2, <2>4, <3>1, <3>2, <3>4, <3>5, MovedOn, ZenonT(40)
  <2>9. CASE ~Stream!IsDatagram(buffer)
    <3>1. state' = Skip(length.value) /\ decoding' = decoding /\ end' = end
      BY <1>2, <2>1, <2>9, ZenonT(40) DEF Declared
    <3>2. /\ state'.at = "Skip" /\ state'.n = length.value
          /\ state' \in [at : {"Header", "Value", "Skip"}, n : Nat]
      BY <1>1, <3>1 DEF Skip
    <3>3. ~Stream!TooLarge(buffer)
      BY <2>9, Zenon DEF Stream!TooLarge
    <3>4. InBounds'
      BY <1>t, <3>1, <3>2, Zenon DEF InBounds, Header
    <3>5. \A x \in Seq(Octets) :
              Pending(state'.at, state'.n, buffer' \o x) = Pending(state.at, state.n, buffer \o x)
      BY <2>2, <2>5, <2>6, <2>9, <3>2, <3>3, ZenonT(40)
    <3>. QED  BY <1>t, <2>2, <2>4, <3>1, <3>2, <3>4, <3>5, MovedOn, ZenonT(40)
  <2>. QED  BY <2>7, <2>8, <2>9, Zenon
<1>. QED  BY <1>3, <1>4, Zenon

\* A value is taken whole, and its datagram is the next that the stream says.
LEMMA ValueStep ==
    ASSUME CapsuleInv, decoding, ReadValue
    PROVE  CapsuleInv' /\ [Stream!Next]_Stream!abstract
<1> DEFINE value == Take(buffer, state.n)
           context == peek_varint(value)
           after == Drop(buffer, state.n)
           d == [context_id |-> context.value, payload |-> Drop(value, context.length)]
<1>0. state.at = "Value"
  BY Zenon DEF ReadValue
<1>t. /\ arrived \in Seq(Octets) /\ buffer \in Seq(Octets) /\ given \in Seq(Datagrams)
      /\ end = "open" /\ state.n \in Nat /\ Len(buffer) \in Nat
  <2>1. /\ arrived \in Seq(Octets) /\ buffer \in Seq(Octets) /\ given \in Seq(Datagrams)
        /\ state \in [at : {"Header", "Value", "Skip"}, n : Nat]
    BY Zenon DEF CapsuleInv, CapsuleTypeOK, Datagrams
  <2>2. state.n \in Nat
    BY <2>1
  <2>3. end = "open"
    BY Zenon DEF CapsuleInv, InBounds
  <2>. QED  BY <2>1, <2>2, <2>3, LenProperties, ZenonT(40)
<1>1. CASE Len(buffer) < state.n
  <2>1. NeedsMore
    BY <1>1, Zenon DEF ReadValue
  <2>. QED  BY <1>0, <1>1, <2>1, NeedsMoreStep, Zenon
<1>2. CASE ~(Len(buffer) < state.n)
  <2>1. /\ buffer' = after /\ state' = Header /\ arrived' = arrived
        /\ Whole(context) => given' = Append(given, d) /\ decoding' = decoding /\ end' = end
        /\ ~Whole(context) => end' = "error" /\ decoding' = FALSE /\ given' = given
    BY <1>2, Zenon DEF ReadValue
  <2>2. state.n \in 0 .. Len(buffer)
    BY ONLY <1>t, <1>2, SMT
  <2>3. after \in Seq(Octets) /\ value \in Seq(Octets)
    BY <1>t, <2>2, DropCuts, TakeCuts, Zenon
  <2>4. \A x \in Seq(Octets) :
            /\ ~Whole(context) =>
                   Pending("Value", state.n, buffer \o x) = Stream!Stop("error")
            /\ Whole(context) =>
                   Pending("Value", state.n, buffer \o x) =
                       Stream!Prefixed(<<Stream!Datagram(value)>>,
                                       Pending("Header", 0, after \o x))
    BY <1>t, <2>2, ValueReadOn, Zenon
  <2>5. Stream!Datagram(value) = d /\ Stream!Datagram(value) \in Datagrams
    <3>1. Stream!Datagram(value) \in Datagrams
      BY <2>3, DatagramIsTyped, Zenon DEF Datagrams
    <3>2. Stream!Datagram(value) = d
      BY SameStrings, Zenon DEF Stream!Datagram
    <3>. QED  BY <3>1, <3>2, Zenon
  <2> HIDE DEF value, context, after, d
  <2>6. CASE ~Whole(context)
    <3>1. <<>> \in Seq(Octets) /\ buffer \o <<>> = buffer
      BY <1>t, EmptySeq, ConcatEmptySeq, Zenon
    <3>2. Pending(state.at, state.n, buffer) = Stream!Stop("error")
      BY <1>0, <2>4, <2>6, <3>1, ZenonT(40)
    <3>3. Stream!Meaning(arrived) = Stream!Prefixed(given, Stream!Stop("error"))
      BY <1>t, <3>2, SaidNow, Zenon
    <3>. QED  BY <1>t, <2>1, <2>3, <2>6, <3>3, Faulted, ZenonT(40)
  <2>7. CASE Whole(context)
    <3>0. /\ state'.at = "Header" /\ state'.n = 0
          /\ state' \in [at : {"Header", "Value", "Skip"}, n : Nat]
      BY <2>1 DEF Header
    <3>a. /\ given' = Append(given, d) /\ decoding' = decoding /\ end' = end
          /\ arrived' = arrived /\ buffer' = after
      BY <2>1, <2>7, Zenon
    <3>b. d \in Datagrams
      BY <2>5, Zenon
    <3>1. Append(given, d) \in Seq(Datagrams) /\ Len(Append(given, d)) = Len(given) + 1
      BY <1>t, <3>b, AppendProperties, ZenonT(40)
    <3>2. CapsuleTypeOK'
      BY <2>3, <3>0, <3>a, <3>1, ZenonT(40) DEF CapsuleInv, CapsuleTypeOK, Datagrams
    <3>3. InBounds'
      BY <1>t, <2>1, <3>0, <3>a, ZenonT(40) DEF InBounds, Header
    <3>4. Stalled'
      BY <3>a, Zenon DEF Stalled
    <3>5. ASSUME NEW x \in Seq(Octets)
          PROVE  Stream!Meaning(arrived \o x) =
                     Stream!Prefixed(Append(given, d), Stream!Meaning(after \o x))
      <4>1. Stream!Meaning(arrived \o x) =
                Stream!Prefixed(given, Pending(state.at, state.n, buffer \o x))
        BY <1>t, Zenon DEF CapsuleInv, SaidSoFar
      <4>2. Pending(state.at, state.n, buffer \o x) =
                Stream!Prefixed(<<d>>, Pending("Header", 0, after \o x))
        BY <1>0, <2>4, <2>5, <2>7, ZenonT(40)
      <4>3. Pending("Header", 0, after \o x) = Stream!Meaning(after \o x)
        BY Zenon DEF Pending
      <4>4. Stream!Meaning(after \o x) \in Outcomes
        <5>1. after \o x \in Seq(Octets)
          BY <2>3, ConcatProperties, Zenon
        <5>. QED  BY <5>1, MeaningIsTyped, Zenon
      <4>5. Stream!Prefixed(given, Stream!Prefixed(<<d>>, Stream!Meaning(after \o x))) =
                Stream!Prefixed(Append(given, d), Stream!Meaning(after \o x))
        BY <1>t, <3>b, <4>4, PrefixedByOneMore, ZenonT(40)
      <4>. QED  BY <4>1, <4>2, <4>3, <4>5, ZenonT(40)
    <3>6. SaidSoFar'
      <4> SUFFICES ASSUME NEW x \in Seq(Octets)
                   PROVE  Stream!Meaning(arrived' \o x) =
                              Stream!Prefixed(given', Pending(state'.at, state'.n, buffer' \o x))
        BY Zenon DEF SaidSoFar, Pending, Stream!Meaning, Stream!Prefixed
      <4>1. Pending(state'.at, state'.n, buffer' \o x) = Stream!Meaning(after \o x)
        BY <3>0, <3>a, Zenon DEF Pending
      <4>. QED  BY <3>a, <3>5, <4>1, ZenonT(40)
    <3>7. Stream!Give
      <4> DEFINE rest == Stream!Meaning(after).capsules
                 all == Stream!Meaning(arrived).capsules
      <4>1. rest \in Seq(Datagrams)
        <5>1. Stream!Meaning(after) \in Outcomes
          BY <2>3, MeaningIsTyped, Zenon
        <5>. QED  BY <5>1 DEF Outcomes, Datagrams
      <4>2. all = Append(given, d) \o rest
        <5>1. <<>> \in Seq(Octets) /\ arrived \o <<>> = arrived /\ after \o <<>> = after
          BY <1>t, <2>3, EmptySeq, ConcatEmptySeq, ZenonT(40)
        <5>2. Stream!Meaning(arrived) = Stream!Prefixed(Append(given, d), Stream!Meaning(after))
          BY <3>5, <5>1, Zenon
        <5>. QED  BY <5>2, PrefixedParts, Zenon
      <4> HIDE DEF rest, all
      <4>3. Take(all, Len(given) + 1) = Append(given, d)
        BY <3>1, <4>1, <4>2, TakeAll, Zenon
      <4>4. /\ Len(all) = Len(Append(given, d)) + Len(rest)
            /\ Len(rest) \in Nat /\ Len(given) \in Nat
        <5>1. Len(Append(given, d) \o rest) = Len(Append(given, d)) + Len(rest)
          BY <3>1, <4>1, ConcatProperties, Zenon
        <5>2. Len(rest) \in Nat /\ Len(given) \in Nat
          BY <1>t, <4>1, LenProperties, Zenon
        <5>. QED  BY <4>2, <5>1, <5>2, Zenon
      <4>5. Len(given) < Len(all)
        BY ONLY <3>1, <4>4, SMT
      <4>6. given' = Stream!Take(all, Len(given) + 1)
        BY <3>a, <4>3, SameStrings, Zenon
      <4>. QED  BY <1>t, <3>a, <4>5, <4>6, ZenonT(40) DEF Stream!Give, all
    <3>. QED  BY <3>2, <3>3, <3>4, <3>6, <3>7, ZenonT(40) DEF CapsuleInv, Stream!Next
  <2>. QED  BY <2>6, <2>7, Zenon
<1>. QED  BY <1>1, <1>2, Zenon

\* The peer ends the stream while the decoder is stalled: at a boundary exactly
\* when nothing is held and nothing is awaited.
LEMMA FinStep ==
    ASSUME CapsuleInv, Fin
    PROVE  CapsuleInv' /\ Stream!Next
<1>1. /\ end = "open" /\ ~decoding /\ buffer' = buffer /\ state' = state /\ decoding' = decoding
      /\ given' = given /\ arrived' = arrived
      /\ end' = IF at_capsule_boundary THEN "complete" ELSE "truncated"
  BY Zenon DEF Fin, decoder
<1>2. end' \in {"complete", "truncated"}
  BY <1>1, Zenon
<1>3. CapsuleTypeOK'
  BY <1>1, <1>2, Zenon DEF CapsuleInv, CapsuleTypeOK
<1>4. InBounds'
  BY <1>1, Zenon DEF CapsuleInv, InBounds, Header
<1>5. end' # "open"
  BY ONLY <1>2
<1>6. Stalled' /\ SaidSoFar'
  BY <1>5, Zenon DEF Stalled, SaidSoFar
<1>t. buffer \in Seq(Octets) /\ state \in [at : {"Header", "Value", "Skip"}, n : Nat]
  BY Zenon DEF CapsuleInv, CapsuleTypeOK
<1>m. Stream!Meaning(arrived) = Stream!Prefixed(given, Pending(state.at, state.n, buffer))
  BY <1>1, SaidNow, Zenon
<1>7. CASE state.at = "Header" /\ buffer = <<>>
  <2>1. at_capsule_boundary
    BY <1>7, Zenon DEF at_capsule_boundary, CapsuleInv, InBounds
  <2>2. Stream!Meaning(buffer) = Stream!Stop("boundary")
    <3>1. Stream!Meaning(buffer) =
              Stream!Reads(buffer, Stream!Meaning(Drop(buffer, Stream!CapsuleSize(buffer))))
      BY <1>t, MeaningUnfolds, Zenon
    <3>. QED  BY <1>7, <3>1, Zenon DEF Stream!Reads
  <2>3. Pending(state.at, state.n, buffer) = Stream!Stop("boundary")
    BY <1>7, <2>2, Zenon DEF Pending
  <2>4. end' = "complete"
    BY <1>1, <2>1, Zenon
  <2>5. Stream!Next
    <3>1. "boundary" \in {"boundary", "midway", "error"} /\ "boundary" # "error"
      OBVIOUS
    <3>. QED  BY <1>1, <1>m, <2>3, <2>4, <3>1, Ends, ZenonT(40)
  <2>. QED  BY <1>3, <1>4, <1>6, <2>5, Zenon DEF CapsuleInv
<1>8. CASE ~(state.at = "Header" /\ buffer = <<>>)
  <2>1. /\ Pending(state.at, state.n, buffer) = Stream!Stop("midway")
        /\ ~at_capsule_boundary
    <3>1. CASE state.at = "Header" /\ ~Stream!HasHeader(buffer)
      <4>1. buffer # <<>>
        BY <1>8, <3>1, Zenon
      <4>2. Stream!Meaning(buffer) =
                Stream!Reads(buffer, Stream!Meaning(Drop(buffer, Stream!CapsuleSize(buffer))))
        BY <1>t, MeaningUnfolds, Zenon
      <4>3. Stream!Meaning(buffer) = Stream!Stop("midway")
        BY <3>1, <4>1, <4>2, Zenon DEF Stream!Reads
      <4>. QED  BY <3>1, <4>1, <4>3, Zenon DEF Pending, at_capsule_boundary
    <3>2. CASE state.at = "Value" /\ Len(buffer) < state.n
      <4>1. state # Header /\ state # Skip(0)
        BY <3>2 DEF Header, Skip
      <4>2. Pending(state.at, state.n, buffer) = Stream!Stop("midway")
        BY <3>2, Zenon DEF Pending
      <4>. QED  BY <4>1, <4>2, Zenon DEF at_capsule_boundary
    <3>3. CASE state.at = "Skip" /\ state.n > 0 /\ buffer = <<>>
      <4>0. state.n \in Nat /\ Len(buffer) = 0
        BY <1>t, <3>3, Zenon
      <4>1. state # Header /\ state # Skip(0)
        BY <3>3, <4>0 DEF Header, Skip
      <4>2. Len(buffer) < state.n
        BY ONLY <3>3, <4>0, SMT
      <4>3. Pending(state.at, state.n, buffer) = Stream!Stop("midway")
        BY <3>3, <4>2 DEF Pending
      <4>. QED  BY <4>1, <4>3, Zenon DEF at_capsule_boundary
    <3>. QED  BY <1>1, <3>1, <3>2, <3>3, Zenon DEF CapsuleInv, Stalled
  <2>2. end' = "truncated"
    BY <1>1, <2>1, Zenon
  <2>3. Stream!Next
    <3>1. "midway" \in {"boundary", "midway", "error"} /\ "midway" # "error" /\ "midway" # "boundary"
      OBVIOUS
    <3>. QED  BY <1>1, <1>m, <2>1, <2>2, <3>1, Ends, ZenonT(40)
  <2>. QED  BY <1>3, <1>4, <1>6, <2>3, Zenon DEF CapsuleInv
<1>. QED  BY <1>7, <1>8, Zenon

\* Every step keeps the invariant, and is a step of CapsuleStream or none.
LEMMA CapsuleStep ==
    ASSUME CapsuleInv, [CapsuleNext]_CapsuleVars
    PROVE  CapsuleInv' /\ [Stream!Next]_Stream!abstract
<1>1. CASE \E n \in 1 .. MaxChunk : \E chunk \in [1 .. n -> Octets] : push(chunk)
  BY <1>1, PushStep, Zenon
<1>2. CASE next_capsule
  <2>1. decoding /\ (Discard \/ ReadHeader \/ ReadValue)
    BY <1>2, Zenon DEF next_capsule
  <2>. QED  BY <2>1, DiscardStep, HeaderStep, ValueStep, ZenonT(40)
<1>3. CASE Fin
  BY <1>3, FinStep, Zenon
<1>4. CASE UNCHANGED CapsuleVars
  <2>1. /\ decoding' = decoding /\ buffer' = buffer /\ state' = state /\ given' = given
        /\ end' = end /\ arrived' = arrived
    BY <1>4, Zenon DEF CapsuleVars, decoder
  <2>2. CapsuleTypeOK'
    BY <2>1, Zenon DEF CapsuleInv, CapsuleTypeOK
  <2>3. InBounds'
    BY <2>1, Zenon DEF CapsuleInv, InBounds, Header
  <2>4. Stream!HasHeader(buffer)' <=> Stream!HasHeader(buffer)
    BY <2>1, Zenon DEF Stream!HasHeader, Stream!Type, Stream!Length
  <2>5. Stalled'
    BY <2>1, <2>4, Zenon DEF CapsuleInv, Stalled
  <2>6. ASSUME end = "open"
        PROVE  SaidSoFar'
    <3> SUFFICES ASSUME NEW x \in Seq(Octets)
                 PROVE  Stream!Meaning(arrived' \o x) =
                            Stream!Prefixed(given', Pending(state'.at, state'.n, buffer' \o x))
      BY Zenon DEF SaidSoFar, Pending, Stream!Meaning, Stream!Prefixed
    <3>. QED  BY <2>1, <2>6, Zenon DEF CapsuleInv, SaidSoFar
  <2>7. ASSUME end # "open"
        PROVE  SaidSoFar'
    BY <2>1, <2>7, Zenon DEF SaidSoFar
  <2>8. UNCHANGED Stream!abstract
    BY <2>1, Zenon DEF Stream!abstract
  <2>. QED  BY <2>2, <2>3, <2>5, <2>6, <2>7, <2>8, ZenonT(40) DEF CapsuleInv
<1>. QED  BY <1>1, <1>2, <1>3, <1>4, ZenonT(40) DEF CapsuleNext

\* At every moment the decoder has given the first datagrams of what arrived, and
\* its state and buffer say the rest of it, whatever arrives next.
THEOREM DecoderInvariant == CapsuleSpec => []CapsuleInv
<1>1. CapsuleInit => CapsuleInv
  BY CapsuleStarts, Zenon
<1>2. CapsuleInv /\ [CapsuleNext]_CapsuleVars => CapsuleInv'
  BY CapsuleStep, Zenon
<1>. QED  BY <1>1, <1>2, PTL DEF CapsuleSpec

\* CapsuleDecoder implements CapsuleStream: however the octets are cut into
\* chunks, the datagrams it hands on are those of the whole string, in order, and
\* its verdict is the verdict on the whole string.
THEOREM DecoderImplementsStream == CapsuleSpec => DecodesWhole
<1>1. CapsuleInit => Stream!Init
  BY CapsuleStarts, Zenon
<1>2. CapsuleInv /\ [CapsuleNext]_CapsuleVars => [Stream!Next]_Stream!abstract
  BY CapsuleStep, Zenon
<1>. QED  BY <1>1, <1>2, DecoderInvariant, PTL DEF CapsuleSpec, DecodesWhole, Stream!Spec

\* Between two chunks the decoder holds less than one datagram's largest value,
\* or an unfinished header of fewer than sixteen octets; nothing of a skipped
\* capsule is kept.
THEOREM DecoderHoldsOneCapsule == CapsuleSpec => []HoldsOneCapsule
<1>1. CapsuleInv => HoldsOneCapsule
  <2> SUFFICES ASSUME CapsuleInv, ~decoding, end = "open"
               PROVE  Len(buffer) < (IF state.at = "Value" THEN MAX_DATAGRAM_CAPSULE_VALUE
                                     ELSE IF state.at = "Header" THEN 2 * 8 ELSE 1)
    BY Zenon DEF HoldsOneCapsule
  <2>1. /\ buffer \in Seq(Octets) /\ state \in [at : {"Header", "Value", "Skip"}, n : Nat]
        /\ state.at = "Value" => state.n <= MAX_DATAGRAM_CAPSULE_VALUE
    BY Zenon DEF CapsuleInv, CapsuleTypeOK, InBounds
  <2>2. state.n \in Nat /\ Len(buffer) \in Nat /\ MAX_DATAGRAM_CAPSULE_VALUE \in Nat
    BY <2>1, LenProperties, CapsuleAssumption, Zenon
  <2>3. CASE state.at = "Header" /\ ~Stream!HasHeader(buffer)
    <3>1. Len(buffer) < 16
      BY <2>1, <2>3, HeaderIsTyped, ZenonT(40)
    <3>2. Len(buffer) < 2 * 8
      BY ONLY <2>2, <3>1, SMT
    <3>. QED  BY ONLY <2>3, <3>2
  <2>4. CASE state.at = "Value" /\ Len(buffer) < state.n
    BY ONLY <2>1, <2>2, <2>4
  <2>5. CASE state.at = "Skip" /\ state.n > 0 /\ buffer = <<>>
    <3>1. Len(buffer) < 1
      BY <2>5
    <3>. QED  BY ONLY <2>5, <3>1, Zenon
  <2>. QED  BY <2>3, <2>4, <2>5, ZenonT(40) DEF CapsuleInv, Stalled
<1>. QED  BY <1>1, DecoderInvariant, PTL
===============================================================================
