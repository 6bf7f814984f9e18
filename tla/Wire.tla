---------------------------------- MODULE Wire ----------------------------------
(***************************************************************************)
(* What reads what comes from outside: the gate in front of the endpoint, the *)
(* capsules of a session, the configuration file, and the texts of the wire,  *)
(* field sections, settings, requests and their targets, which grow mark by   *)
(* mark.  They share no state; a behaviour is one of them, the others idle.   *)
(***************************************************************************)
EXTENDS Capsules, Gate

CONSTANTS Unset, Default, KeyChoices, MaxEdits, Granted, FdLimits,
          STATIC_TABLE, CODE_BITS, INT_BITS, max_section_size,
          MAX_FIELD_SECTION_SIZE, None, PORT_MAX

VARIABLES reading, text,
          config, edits, fd_soft_limit, phase, transport, buffers, told

startup == <<config, edits, fd_soft_limit, phase, transport, buffers, told>>
vars == <<reading, text, GateVars, CapsuleVars, startup>>

Started == INSTANCE Startup
Qpacked == INSTANCE Qpack
Set == INSTANCE Settings
Asked == INSTANCE Messages
Redacted == INSTANCE Redaction

-------------------------------------------------------------------------------
(* The texts that are read                                                   *)

Field(name, value) == [name |-> name, value |-> value]
RequestFields ==
    {Field(":method", <<"CONNECT">>), Field(":method", <<"GET">>),
     Field(":scheme", <<"https">>), Field(":path", Asked!WELL_KNOWN_PREFIX \o <<"a", "/", "1">>),
     Field(":authority", <<"a", ":", "1">>),
     Field(":protocol", <<"connect-udp">>), Field(":status", <<"1">>),
     Field("host", <<" ", "a", ":", "1">>), Field("host", <<"b", ":", "1", " ">>),
     Field("te", <<"trailers">>), Field("te", <<"a">>), Field("Accept", <<"a">>),
     Field("connection", <<"a">>), Field("keep-alive", <<"NUL">>),
     Field("content-length", <<"0">>), Field("keep-alive", <<"1">>)}

Marks ==
    [section   |-> {0, 1, 33, 41, 81, 95, 129, 193, 255},
     huffman   |-> {octet \in 0 .. 255 : octet % 8 \in {0, 5, 7}},
     settings  |-> {0, 1, 2, 8, 51, 64},
     request   |-> RequestFields,
     authority |-> {"[", "]", ":", "@", "a", "0", "1"},
     path      |-> {"/", "?", "a", "%5B", "%5D", "%31", "%FF", "1"},
     secret    |-> {Redacted!DoubleQuote, Redacted!Backtick, Redacted!Backslash, "a"}]
Longest ==
    [section |-> 6, huffman |-> 2, settings |-> 6, request |-> 6, authority |-> 5,
     path |-> 8, secret |-> 6]

\* Texts whose verdict more marks cannot change are not made longer.
Open ==
    CASE reading = "section" -> Qpacked!decode(text).error \in {"none", "stream"}
      [] reading = "settings" -> Set!parse_settings(text).error # "H3_SETTINGS_ERROR"
      [] reading = "request" -> ~Asked!Collected(text).malformed
      [] reading = "path" -> Len(text) < 3 \/ Asked!Starts(text, Asked!WELL_KNOWN_PREFIX)
      [] OTHER -> TRUE

Grow(mark) ==
    /\ Len(text) < Longest[reading] /\ Open
    /\ text' = Append(text, mark)
    /\ UNCHANGED <<reading, GateVars, CapsuleVars, startup>>

-------------------------------------------------------------------------------
GateIdle == names = <<>> /\ message = NoHello /\ batch = <<>> /\ len = 0 /\ at = 0 /\ blinded = {}
StartupIdle ==
    /\ config = Unset /\ edits = 0 /\ fd_soft_limit = Unset /\ phase = "idle"
    /\ transport = Unset /\ buffers = Unset /\ told = {}

Init ==
    /\ CapsuleInit
    /\ \/ reading = "gate" /\ GateInit /\ StartupIdle /\ text = <<>>
       \/ reading = "capsules" /\ GateIdle /\ StartupIdle /\ text = <<>>
       \/ reading = "startup" /\ Started!Init /\ GateIdle /\ text = <<>>
       \/ reading \in DOMAIN Marks /\ GateIdle /\ StartupIdle /\ text = <<>>
       \/ reading = "path" /\ GateIdle /\ StartupIdle /\ text = Asked!WELL_KNOWN_PREFIX

Next ==
    \/ reading = "gate" /\ GateNext /\ UNCHANGED <<reading, text, CapsuleVars, startup>>
    \/ reading = "capsules" /\ CapsuleNext /\ UNCHANGED <<reading, text, GateVars, startup>>
    \/ reading = "startup" /\ Started!Next /\ UNCHANGED <<reading, text, GateVars, CapsuleVars>>
    \/ reading \in DOMAIN Marks /\ \E mark \in Marks[reading] : Grow(mark)

Spec == Init /\ [][Next]_vars

-------------------------------------------------------------------------------
\* A configuration that is accepted makes a server that can serve and admits every
\* user it names as themselves, and one that starts without a warning has what it
\* was configured for (Startup!AcceptedServes, UserIsAdmitted and SilentIsWhole).
AcceptedServes ==
    Started!AcceptedServes /\ Started!UserIsAdmitted /\ Started!SilentIsWhole

\* A field section is read as what it says: each integer is the number its octets
\* are or is refused, a Huffman string is the codes of what was read and no other
\* string is read, and the fields read, written again, are read again (take_int,
\* huffman::decode, decode and encode).
SectionIsReadBack ==
    /\ reading = "section" =>
           /\ \A prefix_bits \in {3, 4, 7} : Qpacked!IsIntegerExact(text, prefix_bits)
           /\ Qpacked!IsReadBack(text)
    /\ reading = "huffman" => Qpacked!IsHuffmanInverse(text)

\* The order of the settings of a frame never matters, which is why none may occur
\* twice, and this server accepts the settings it sends (parse_settings).
SettingsAreUnordered == reading = "settings" => Set!IsUnordered(text)

\* No accepted request can be read two ways: each part once, and every field that
\* names the host of a request with a target naming the same one; a plain CONNECT
\* goes by its authority alone (build_request).
RequestIsReadOneWay == reading = "request" => Asked!IsReadOneWay(text)

\* A request goes to the one target its text can be taken for, by either way of
\* naming it, and one that names none or two goes nowhere (split_authority,
\* split_target and parse_target).
TargetIsWritten ==
    /\ reading = "authority" =>
           Asked!IsTargetWritten(
               <<Field(":method", <<"CONNECT">>), Field(":authority", text)>>,
               Asked!AuthorityTargets(text))
    /\ reading = "path" =>
           Asked!IsTargetWritten(
               <<Field(":method", <<"CONNECT">>), Field(":protocol", <<"connect-udp">>),
                 Field(":scheme", <<"https">>), Field(":authority", <<"b">>),
                 Field(":path", text)>>,
               Asked!PathTargets(text))

\* Nothing of a value quoted in the parser's message reaches the log, whatever
\* quotes and backslashes the value has (redact_quoted).
SecretIsHidden == reading = "secret" => Redacted!IsHidden(text)
===============================================================================
