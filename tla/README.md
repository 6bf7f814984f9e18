# Verification of volto

volto is a MASQUE proxy: it accepts QUIC connections, speaks HTTP/3 on them, and
carries TCP (CONNECT) and UDP (CONNECT-UDP) tunnels to targets that a policy
admits. This directory holds TLA+ models of its concurrent parts and of the
readers of what comes from outside, the TLC runs that check them on small
instances, and TLAPS proofs of safety properties for every value of the
constants.

Source paths below are relative to `src/`. `PROJECT.json` names the lines each
definition translates.

## The system and its parts

| Part | Source | State | What happens to it |
|---|---|---|---|
| accept loop, roster | `quic/mod.rs`, `quic/roster.rs` | the roster of live connections, one gate and one eviction notification each | accept, admit, evict, register, unregister, drain |
| reload | `quic/reload.rs`, `main.rs` | the live configuration, the transport configuration, the endpoint's own copy, the gate's list | SIGHUP, swap, accept under the swap, close at shutdown |
| shutdown latch | `shutdown.rs` | a sticky flag | fire, wait |
| connection loop | `conn.rs` | accept position, GOAWAY, silence deadline | accept a request, drain, close |
| tunnel quota | `tunnel/quota.rs` | permits, pending count, idle notification | acquire, release, wait for idle |
| TCP tunnel | `tunnel/tcp.rs` | two pumps, a teardown channel, two half-close flags | read, write, finish, tear down, stall |
| UDP tunnel | `tunnel/udp.rs` | a session: socket, queue, decoder, deadline, budget | forward either way, decode, expire, end |
| datagram routing | `h3/connection.rs` | a table of claims with bounded queues | claim, deliver, drop |
| request context | `tunnel/mod.rs`, `auth.rs` | authentication gate and failure counts, unanswered-packet allowance | authenticate, charge, refund |
| name resolution | `net.rs` | reserved, burst and shared permits, blocking threads | acquire, look up, time out |
| HTTP/3 | `h3/*` | control streams, SETTINGS, frame decoders, a buffer budget, QPACK | frames, streams, connection errors |
| capsules, datagrams | `capsule.rs`, `datagram.rs` | incremental decoders | push, next |
| SNI gate | `gate.rs` | the list of expected names and a flag | screen a batch, replace the list |
| destination policy | `policy.rs` | none: a predicate on addresses and ports | admit, bar |
| status answers | `tunnel/status.rs` | none: from errors to answers, and one bounded write | accept, refuse |
| congestion control | `congestion.rs` | a ring of samples, the startup test, the minimum RTT and its probe | acknowledge, lose, probe |
| configuration, transport, sockets, TLS identity | `config.rs`, `quic/transport.rs`, `quic/socket.rs`, `tls.rs` | what a file becomes at bind | validate, warn, bind |

What is hard here is not the data but the schedule. The accept loop, one task for
each connection, one for each request, the endpoint driver and the SIGHUP watcher
run on different threads and share flags, semaphores and a few mutexes. The
questions worth asking are about steps nobody ordered: an eviction that meets an
authentication, a reload that meets an accept or a shutdown, a drain that checks
for idleness just before the last tunnel ends, two pumps that fail at the same
time, a lookup that outlives its caller. Where the data itself is hard, in the
readers of octets, the question is the same one asked of inputs: does the answer
depend on how they were cut, ordered or spelled.

## Modules

Each action is one access to shared state, or everything a task does between two
such accesses. Data is reduced to what the properties tell apart.

### Endpoint (`Endpoint.tla`)

`Server::run`, `admit`, `serve` and `drain`, and `Roster`. A connection is its
accept sequence number. `pc` is the accept loop's position in `admit`; `task[s]`
is how far the task of connection `s` has got; `evict[s]` is its `Notify`. The
roster's mutex is held for whole map operations, which are atomic, and across the
eviction loop, which is the value `"evicting"` of `pc`: there gates still open,
since a gate is an atomic the mutex does not cover. A reload may change
`max_connections` between any two steps.

A connection chosen for eviction while unauthenticated can authenticate before
its task sees the permit, and is still ended. The code accepts this; the property
`AuthenticatedKeepsSlot` is therefore about the moment of choice.

### Connection (`Connection.tla`)

`conn::handle` with `next_request` and `announce_goaway`, the `Quota`, and a
request task as far as these see it. Each of the loop's reads (authentication
flag, clock, permit count, pending count, stored notification) is a step, so a
request may act between any two.

`next_request` reads the flag and then the clock. A request that authenticates
between the two reads is still counted as silent, as a comment in `conn.rs` says;
`AuthenticatedIsNotSilent`, a part of `DeadlineIsFair`, leaves out exactly that
window.

### TcpTunnel (`TcpTunnel.tla`)

`tunnel::tcp::run` from the answer on. The two pumps are arms of one `join!`, so
what one does between awaits is atomic. Every `select!` is biased towards the
teardown, and the guards say so. `up` and `down` count the chunks sent, read and
written in each direction.

A STOP_SENDING that is first noticed by `finish()` failing at the target's EOF
raises no teardown: the other direction goes on. `AbandonedEnds` is about the
clients that are noticed earlier.

The end of a tunnel is the drop of its socket, `Release`. How the kernel closes it
depends on what `abort_target` asked for: `linger` says whether SO_LINGER was never
set, set, or refused by the kernel, which the code only logs. `Closes` has the
outcomes: a FIN, a reset, or, for a socket whose FIN was sent and acknowledged
before, neither. `SeenThroughOrReset` says which of them may follow what.

### Reload (`Reload.tla`)

`watch_for_reload`, `ReloadHandle::reload`, and everything that reads or writes
the same values: `accept_under_the_swap`, `drain`, `shutdown_grace`, the two
stores of `Expected::set` and the two loads of `Gate::poll_recv`. A configuration
is a generation number and a list of names. quinn's pinning of a configuration to
a first Initial is external.

### Resolver (`Resolver.tla`)

`ConnectionResolver::lookup` and `acquire`, the blocking task that holds the
slot, and the timeout around the caller. A lookup is a connection and a name.
`caller`, `slot` and `thread` are separate because they end at different times.
tokio's pool is external: it starts a queued task when it has a thread to spare.

### UdpTunnel (`UdpTunnel.tla`, `MCUdpTunnel.tla`)

`tunnel::udp::run` and `Session`, `register_datagrams`, `deliver` and the drop of
a `DatagramReceiver`, and the allowance of `charge_unanswered` and
`refund_unanswered`. Time is one flag for each session: whether its deadline has
passed. A chunk of the stream is a number of capsules, each forwarded or passed
over, and then possibly the beginning of another. `attempts` and `forfeited` are
history: they count packets independently of the counters in the code.

`IdleEnds` is stated without fairness. `StepsLeft` bounds how many steps a session
can take before it next looks at the clock, and every step it takes past its
deadline lowers that number, whatever its sources have ready.

### RequestStreams (`RequestStreams.tla`, `MCRequestStreams.tla`)

The request streams of a connection as they are read: `FrameDecoder`,
`FrameReader` and `BufferBudget`, `Resolver::resolve` and `Reader::recv_data`
above them, and `Handle::fail`. `script` is what a client sends, frame by frame;
`chunk` is how much of it is in hand. One action is one arm of `next_item`, one
chunk read, or one ending of the task. The state keeps the names of the decoder's
fields. `begun`, `pos` and `delivered` are history and say how far the frames
themselves have been consumed. A field section that is whole decodes to a
request, is too large, is malformed, or ends the connection: which one is left
open. `Fail` and `Close` are separate steps because another task may record its
own violation between them. The MC module keeps the behaviours in which one stream
at most is opened (`Alone`, frames of every kind) and those in which three share
the budget (`Crowd`, one HEADERS frame each that comes byte by byte).

### ControlStreams (`ControlStreams.tla`)

`handshake`, `serve_peer`, `serve_stream`, `serve_control`, `serve_qpack`, the
drop of the `Connection`, `Handle::fail` and `interpret`. Each of the peer's
unidirectional streams has a task; `pc` is where it is, `role` the kind of stream
it has found, `verdict` the violation it is about to record. Recording
(`local_error`) and closing (`wire`) are separate steps, and so is the look at
`close_reason` before them. An aborted task stops at an await only. quinn's own
`close_reason` is kept apart from `wire`, what the peer sees: a close by this
endpoint replaces the peer's as the reason, and cannot be seen by a peer that is
gone.

A peer that leaves closes its critical streams and its connection together. If the
end of a stream is read and `close_reason` looked at before the close arrives, the
violation is recorded, this endpoint closes too, and `interpret` reports the
violation although the peer had said goodbye. `ReportFitsEnding` leaves out this
window, which `judged` marks, and nothing else of it: a stream's end that is looked
at after the close is never a fault.

Outside of what `OneVerdict` states: the connection may be closed by the limit on
failed logins, and a stream's task may record a violation after that. `interpret`
then reports the recorded violation, although its comment speaks of a connection
that "ended because `Self::fail` closed it" (`h3/connection.rs:455`). The close
on the wire is right; only the reason in the log differs.

### Requests (`Requests.tla`, `Policy.tla`, `MCRequests.tla`)

`handle_request`, the failure counters, `authenticate`, `admit_target`, the lookup,
`connect_any_with` and its UDP counterpart, and the answers. A request is a task;
a step is an access to the counters, the quota or the connection, or an await.
`failures` has the three buckets of the code; `log` is history, the sequence of
verdicts from which `Unforgiven` is computed independently. `Policy` has the
predicates of `policy.rs` on octets: an address is four octets or sixteen, a range
a prefix and its bits. The property does not reuse its unwrapping: `Aliases` builds
each embedding of an IPv4 host forwards.

### Congestion (`Congestion.tla`, `MCCongestion.tla`)

`DeliveryRate`, `Startup` and `BbrCapped`, called as quinn calls them, once for
each ACK. The path delivers `capacity` octets a tick after `rtt` ticks, and the
application keeps the sender busy or not; all three change at any time within a
network, a set of paths. Instants are kept as ages. `kept`, `steady` and `calm`
are history: the samples that were stored, and how long the path has not changed.
The two bounded-response properties count ticks (`Learned`) and intervals
(`Settled`) instead of assuming fairness. Their bounds are the smallest that hold
in the networks of the run.

### What is read from outside (`Wire.tla`, `MCWire.tla`)

`Wire` puts the readers side by side. They share no state, so a behaviour is one
of them; text readers have their input grown mark by mark.

- `Capsules` is `CapsuleDecoder`, one pass of its loop a step, fed chunks of any
  size. `CapsuleStream` is what it promises, defined on the whole octet string.
  `DecodesWhole` is the refinement: `Capsules` implements `CapsuleStream`. The run
  checks it and `FramingProofs` proves it. `Wire` extends `Capsules` and `Gate` and
  has the other readers as instances. `Varints` has the integers of `datagram.rs`.
- `Gate` is the SNI gate: a batch of datagrams end to end, the tests of `judge` in
  their order, the reassembly of CRYPTO frames, the reading of the ClientHello.
  Whether an Initial opens is a choice; what is in it is not. The code sorts the
  fragments by offset and walks them; `crypto_stream_prefix` goes up the offsets and
  takes the fragments of each, which is the same walk since the order of fragments
  with one offset makes no difference. `GateIsExact` is proved too.
- `Startup` goes from an edited configuration through `validate`, `warnings` and
  `bind` to a server, with the transport parameters and buffers it gets. What the
  kernel grants and what it says when asked differ: Linux says twice the size, so that
  on Linux a start without a warning has at least half of what was asked for, and
  elsewhere all of it.
  `Credentials`, the reading of Basic credentials, is used there to ask whether
  each configured user is admitted as themselves.
- `Redaction` is `redact_quoted`, which keeps a secret out of a parser's message.
- `Qpack` is field sections and Huffman strings, `Settings` the SETTINGS payload,
  `Messages` the way from fields to a request and its target.

## Runs

| Run | Module | Bounds | Shows |
|---|---|---|---|
| `endpoint` | Endpoint | 3 connections, caps 0 (none), 1, 2 | the roster is exact, eviction is never of an authenticated connection, an evicted connection ends, a fired shutdown finishes |
| `connection` | Connection | 3 requests, 1 tunnel | quota exact, GOAWAY kept, draining ends, the silence deadline is neither stepped over nor unfair |
| `tcp_tunnel` | TcpTunnel | 2 chunks each way | a clean end towards the target means completeness, an abandoned or half-closed tunnel ends |
| `reload` | Reload | 2 rewrites, an empty and a non-empty list | a connection runs on one generation, the last SIGHUP wins |
| `resolver` | Resolver | 2 connections, 2 names each, burst 1, shared 1; only one connection is answered | the pool suffices while places are not taken over; the answered connection is never starved |
| `resolver_churn` | Resolver | 4 connections, 1 at a time, 1 spare thread | a violation, see below |
| `udp_sessions` | MCUdpTunnel | 2 sessions at a time, any number in turn; budget 1, allowance 2 (`U32_MAX`, where the product saturates), queue 1 | the allowance is exact, no truncated capsule is finished, an overdue session approaches its end |
| `request_streams` | MCRequestStreams | 1 stream, 3 frames of any kind, length 0 to 3 (limit 2), headers of 2 octets, chunks up to 4; or 3 streams, one HEADERS frame each within the limit, octet by octet, budget of 2 full frames | the decoder is in step with the frames, the budget is what is being buffered, the verdict fits the frame |
| `control_streams` | ControlStreams | 2 streams of the peer, identifiers 0 and 1, octets at both ends of a QPACK prefix, 1 continuation octet | one verdict, a report that fits the ending, critical streams kept, everything ends |
| `requests` | MCRequests | 2 requests at a time, 3 in all, 2 users and a stranger, limit 2, 1 tunnel, 5 answers of up to 2 addresses, a budget of 2 ticks | guesses cost, only admitted addresses are dialled, within one budget, and the answer is true |
| `congestion` | MCCongestion | 5 networks of 2 or 3 paths, window of 2 samples | the estimate is the window's maximum, a rise of the RTT is learned, startup settles |
| `wire` | MCWire | first flights of 3 units in up to 3 frames, 2 datagrams; 6 octets of capsules in chunks of 3; 2 edits of the example configuration; texts of 2 to 8 marks | each reader against its reference |

The bounds let each interesting case happen. Three connections and two caps give
an eviction that must choose, one that finds nobody, and a cap lowered in
between. Three requests and one permit give a refusal, a drain with work left and
one more stream in the queue. Two chunks let a pump fail before, between and
after writes. Two rewrites give a reload on top of a reload and a broken file
before or after a good one. Two names with a burst of one give a lookup on each
of the queues. Sessions are reused when they end, so two at a time are
enough to spend the allowance of two and come back to it. Three frames are an
unknown one, the request and one that follows it; a chunk of four holds the end
of one frame, a whole header and the start of a payload. Three streams overrun a
budget of two full frames. Two streams can claim one role, or fail for two
reasons. Three requests reach the limit of failures, with a success of either
user before, between or after. The answers of `requests` have an address behind
an embedding, this host's own, the unspecified one, and lists that mix them. The
networks of `congestion` fall and climb back, fail altogether, idle, and change
their RTT. In `wire`, six octets hold two capsules, or one skipped across three
chunks; edits stand on both sides of each bound of `validate`, and two of them
meet where it compares keys; the Huffman code is shorter than the RFC's but has an
eight-bit EOS, and the static table reaches past a four-bit prefix. A text is not
made longer once more marks cannot change its verdict. No cap on states or on
depth is used; every run is exhaustive. Symmetry is used in three MC modules, whose
runs have no liveness property.

Deadlock is not checked in four runs, which may stop: `request_streams` and
`control_streams` when the connection is closed and its tasks are over, `requests`
when every request is answered, `wire` when an input is at its bound. Elsewhere a
tunnel or a connection that is over has a stuttering step (`Finished`, `TunnelOver`).

Many properties are proved for every value of the constants and not repeated in
the runs: the type invariants; `OldestFirst`, `AdmissionWithinCap`,
`RefusedOnlyWhenAllAuthenticated` and `NoNeedlessEviction` (Endpoint);
`DrainedMeansIdle`, `NoLostWakeup` and `RaisedOnce` (Connection); `SameVerdict`,
`CompleteResponse`, `FinAfterEverything` and `TeardownOnce` (TcpTunnel);
`WriteOrder`, `GraceAgreed`, `ListenerStaysClosed`, `GateFollowsConfiguration` and
`SettledWhole` (Reload); `SlotsAreThreads` (Resolver); `RoutesExact`, `SameVerdict`
and `AnsweredIsFree` (UdpTunnel).

Among them are the only answers to eight schedules worth knowing of: several
requests raise the stream allowance at once (`RaisedOnce`); both pumps, or both
halves of a UDP session's stream, end for different reasons (`SameVerdict`); a
reload re-opens the listener that a drain has closed (`ListenerStaysClosed`); the
gate's flag and list are replaced between its two reads
(`GateFollowsConfiguration`); the grace period is read twice around a reload
(`GraceAgreed`); a session that was answered is muted by its neighbours'
spending (`AnsweredIsFree`); a datagram meets a route that is not there yet or no
longer (`RoutesExact`).

### The resolver's headroom

`docs/architecture.md` says that the blocking pool "has a thread for every slot
the budget can hand out, plus headroom". It is sized for `max_connections`
reserved slots, the shared allowance and 64 spare threads. A lookup holds its
slot until getaddrinfo returns, and request tasks are detached, so a lookup
outlives the connection it was made for. The next connection is given a reserved
slot of its own. `resolver`, where a place is taken again only once the
lookups of its last holder are through, confirms the arithmetic.
`resolver_churn` lets connections come and go, and a reserved lookup is left
queued for a thread. In the real numbers this takes more than 64 closed
connections with a lookup outstanding beyond what the live ones hold; the effect
is a delay, until the system resolver gives up on one of them.

## Fairness

- Tasks are polled while they can move: weak fairness on the steps of the accept
  loop, of each task and of each pump.
- A mutex or a semaphore that keeps changing hands is eventually had: strong
  fairness for `Unregister` (the roster's mutex), `Hold` (the swap) and
  `TakeReserved` (tokio semaphores serve in order).
- In ControlStreams the one fairness condition is on `Progress`, the steps that
  need nothing from the peer: a task that has a violation to record or to close
  with, one that is to be aborted or has lost its connection, and the timer over
  a stream's type.
- Peers owe nothing. No client needs to send, read, authenticate or close, no
  target needs to answer, and in `resolver` one connection's lookups never
  return.
- A timeout fires only where the code sets one. `connect_timeout` can be turned
  off, so no lookup is assumed to give up.

## Proofs

Seven modules prove the safety properties of their models for every value of the
constants, and `Sums` has the lemmas about sums they share. Each rests on one
inductive invariant, proved from `Init` and by cases on the actions, one lemma for
each group of conjuncts. Every safety property of the runs is proved except two of
Congestion and those of six readers of Wire.

- `EndpointProofs`, from `MaxSeq \in Nat` and `Caps \subseteq Nat`. `RosterExact`
  and `OldestFirst` need that sequence numbers from `next` on are unused
  (`FreshUnused`) and what the loop has established at each step of `admit`
  (`LoopKnows`): in particular that past the eviction loop a full roster has no
  candidate left. The four action properties follow from it.

  Its second part is about Reload, from `MaxGen \in Nat`, for any lists of names.
  `Mutex` says who holds the swap, `Progress` which of the four values a reload has
  written, `Order` that generations only decrease along the order of writes,
  `Drained` that nobody writes after the drain, `Pair` what an accept has read.

  Its third part is about Resolver, from finite sets of connections and names and
  natural limits. `SlotsAreThreads` is inductive with the types and `Stages`, which
  says what slot a lookup can hold at each stage of its caller; the work is in how
  each step moves one lookup in or out of the sets whose sizes the semaphores mirror.
  From it, `PoolSuffices`: two lookups never hold the same reserved slot, so
  `EverySlotHasThread` holds in every state in which no more connections have theirs
  out than the pool has reserved and spare threads. That is what the headroom is
  worth, and `resolver_churn` steps just outside this hypothesis.
- `ConnectionProofs`, from `MaxReq \in Nat` and `Limit \in Nat`. `QuotaExact` is
  a statement about cardinalities, so `CountStep` says how each step moves a
  request into or out of the counted sets. `NoLostWakeup` is strengthened to
  every position between the check and the wait (`WakeupComing`), `GoawayKept`
  by the order in which streams are accepted (`AcceptedInOrder`). The safety half
  of `DeadlineIsFair` is proved (`LoginIsNoticed`); that the deadline closes a
  silent connection in the end stays with the run.

  Its second part is about TcpTunnel, from `MaxChunks \in Nat`. `UpInv` and
  `DownInv` relate the position of each pump to the three counts, `DoneInv` says
  what a finished pump leaves behind, `VerdictInv` which codes each teardown
  allows, and `CloseInv` which close can follow which request for SO_LINGER.
- `RequestsProofs`, from finite sets of requests and users, natural limits, and
  any answers that are lists of addresses. It has two halves.

  The first is about the policy and needs no behaviour. `AliasIsJudgedAsHost`:
  unwrapping any of the five spellings of an IPv4 host gives that host, for all
  2^32 of them; so an address that is allowed leads to no barred host
  (`AllowedLeadsNowhereBarred`).

  The second is the invariant of a request (`RequestInv`) and of the counters
  (`CountersInv`). A request owes guesses only while it is charged for them, and is
  admitted, given addresses, dialled and answered in that order; what is on its list
  has been judged, and stays judged as the list is consumed. `GuessesCost` speaks of
  a sum, which is not inductive: a request that is let in clears two buckets at
  once. The invariant says what each bucket counts, and that a total at the limit
  has been noticed by the request that reached it.
- `DatagramProofs`, first about Gate, from lengths and counts that are natural
  numbers, for any configurations and any lists of extensions whose names end in at
  most one dot where they are configured. `GateIsAlwaysExact` has two sides. What the
  walk over a buffer has done is its inductive invariant (`GateInv`): of `n` datagrams
  the first `k` have been judged, the position is `k` strides or the end, and the
  datagrams made unreadable are those of the `k` that are refused. What a verdict
  means needs no behaviour. Frames that carry every octet of the message are put
  together whole, whatever their order, number and overlap (`WholeIsRead`): going up
  the offsets no gap opens (`NoGap`), by a minimal counterexample over the table of
  prefix lengths, whose existence is proved the same way (`LengthsExist`). The name
  that is read is the first host name of the first server_name extension (`NameIsRead`),
  and it is accepted exactly when it is one of this server's, in any case and with or
  without the final dot (`AcceptsTheSame`). So a client that asks for a name is never
  refused (`WelcomePasses`), and a whole hello for another one always (`StrangerRefused`).

  Its second part is about UdpTunnel, from a finite set of sessions and natural budgets. `IInv` is
  the types, `RoutesExact`, `SameVerdict` and `Undecided`: no half of a stream is
  ended before its session is. `FinIsWhole`, `AnsweredIsFree`
  and `IdleEnds` are action properties and follow from the types. `BudgetExact` is
  the sum of what the silent sessions have tried, and needs that a session's own
  charge is what it tried while it is silent, and nothing once it was answered
  (`Accounts`): that is what a refund gives back.
- `CongestionProofs`, for any networks and any number of slots.
  `EstimateIsWindowMax` compares the ring of slots with the history of samples.
  `Holding` says which sample each slot holds, counted back from the next one to be
  written, that it has the sample's age, and that it is zero exactly when the sample
  has left the window. There is one lemma for each thing an interval can do to it:
  close without a sample (`HoldsOlder`), store one (`HoldsStored`), and let the
  oldest sample of a full history go (`HoldsDropped`). Every sample of the history
  has its slot (`SlotOfSample`), so the two maxima agree.
- `RequestStreamsProofs`, from the arithmetic the source asserts about its own
  limits. `PhaseKnows` says what each phase of a stream implies about the frame in
  hand and the ones before it, for example that a stream being resolved has only
  skipped unknown frames; `FrameVerdict` is `VerdictFitsFrame` for one stream. A
  step concerns one stream (`Elsewhere`), which leaves one case for each action.

  `DecodersExact` has an invariant of its own, `DInv`. `Stepped` places the decoder:
  the bytes consumed are those of the frames begun and of the header in hand, without
  what is left of the payload. `Owing` says that a stream has of the budget what the
  frame it buffers announced, and `HeldIsSum` that the budget is the sum of these. A
  header is read only where the client has sent one (`HasHeader`); that this guard
  never holds a decoder back follows from `Stepped`: what is in hand was sent, so
  bytes past the last frame begun belong to another one.
- `FramingProofs`, first about ControlStreams, from a finite set of streams, any identifiers and
  octets, and tasks and absent values that are distinct from the rest.
  `VerdictsKnow` says that a task about to close holds what was recorded first,
  which `OneVerdict` needs; `ReasonKnows` what quinn's reason says of the wire, and
  that no stream's end is judged after the close, which `ReportFitsEnding` needs;
  `RolesKnow` that a claimed role is in `seen` and a stopped stream has no reader.
  Most steps move one task (`Moves`), and `Ending` is proved once for those.

  Its second part is about Capsules, for any octets, any size of chunk and any limit
  on a value. `DecoderImplementsStream` is the refinement `DecodesWhole`: each step of
  the decoder is a `Receive`, a `Give` or an `End` of `CapsuleStream`, or a stutter.
  What the decoder has given is not enough to say so: it may be in the middle of a
  capsule, with its header consumed. `Pending` is what the octets in the buffer say to
  a decoder in a given state, and the invariant (`SaidSoFar`) is about every
  continuation `x`: the whole string with `x` after it means the capsules given,
  followed by what `Pending` makes of the buffer with `x` after it. With `x` empty this
  is the refinement; a chunk that arrives is one particular `x`, so a `push` preserves
  it by associativity alone. `Stalled` adds why the decoder asked for more: it holds no
  whole header or value, so nothing was left to give when the peer ends the stream.
  `DecoderHoldsOneCapsule` follows from the same invariant.

  The lemmas under it are about octet strings. A header that is whole stays the same
  when more arrives (`HeaderIsStable`), and the meaning of a string is one capsule and
  the meaning of the rest (`MeaningUnfolds`). `Meaning` is a recursive function over
  the positions of the string that jumps ahead by the size of a capsule. That there is
  such a function, and only one, is proved by a minimal counterexample over tables of
  its values (`TableExists`, `TablesAgree`); that a capsule skipped in pieces is skipped
  whole needs no induction, since the continuation in `SaidSoFar` carries it.
- `Sums`: a sum over a finite set is a natural number, gains what a new element
  brings, loses what a removed one had, and follows a change of one value. The fold
  that defines it is recursive, and the library's rules of induction take an operator
  that the provers cannot instantiate. The lemmas use a minimal counterexample
  instead: among the subsets for which one fails there is a smallest
  (`SmallestSet`), and without one of its elements it does not fail.

The definitions of Reload, TcpTunnel, Resolver, Congestion, Capsules and Gate that every
module has carry a prefix (`ReloadInit`, `TcpSpec`), so that one module can extend two
of them.

Only model-checked:

- Every liveness property. Fairness is outside the prover's reach.
- `RiseIsLearned` and `StartupSettles` of Congestion: bounded responses whose bounds
  (`Learned`, `Settled`) depend on the networks of the run.
- `AcceptedServes` of Wire: that every configured user is admitted as themselves needs
  that decoding undoes encoding for a text of any length, an induction over data.
- `SectionIsReadBack`, `SettingsAreUnordered`, `RequestIsReadOneWay`,
  `TargetIsWritten` and `SecretIsHidden` of Wire: what a reader makes of every text is
  a recursive function of the text, and its proof an induction over data.

The other way round, the inductive invariants of Capsules and of Gate are proved and
not run: `SaidSoFar` quantifies over every continuation of the stream, `GateInv` over
the natural numbers. The properties they yield are both.

## Not modelled

- Logging: `logfmt.rs`, the wording and sampling of log lines. Nothing reads them.
- Facades and documentation: `h3api.rs`, `lib.rs`, `h3/mod.rs`.
- The contents of the QPACK static table and of the Huffman code. They are data
  copied from the RFCs; the algorithms over them are modelled with smaller tables.
- Packet protection, TLS and QUIC themselves. They belong to rustls and quinn and
  appear as choices: an Initial opens or not, a read returns data or the loss of
  the connection.
- System calls: socket options, raising the descriptor limit, reading files, and
  the grammar of TOML.
- The wording of responses (`Proxy-Status` and other fields this server writes),
  and the constant time of the password comparison, which is not a property of
  states.
- Real time and width in congestion control: it is in whole ticks and octets.
  Overflow of the wide integers the code compares is out of reach of the bounds.
