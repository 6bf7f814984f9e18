------------------------------- MODULE TcpTunnel -------------------------------
(***************************************************************************)
(* A TCP CONNECT tunnel from its 200 on: `run` of tunnel/tcp.rs with its two *)
(* pumps, the teardown channel between them and the half-close watchdogs.   *)
(*                                                                         *)
(* The pumps are two arms of one tokio::join!, so they share a task: what a *)
(* pump does between two awaits is one step, and every select is biased     *)
(* towards the teardown, so a pump acts on anything else only while the     *)
(* teardown is still "Running".  The client and the target act in between:  *)
(* they send, finish, reset, or stop taking what the pumps write.           *)
(***************************************************************************)
EXTENDS Integers

CONSTANT MaxChunks    \* bound: chunks either side ever sends

ASSUME MaxChunksAssumption == MaxChunks \in Nat

VARIABLES
    client,           \* the client's sending side: "open", "fin" or "reset"
    stop,             \* the client asked us to stop sending
    target,           \* the target's side: "open", "eof" or "error"
    up, down,         \* what became of the chunks of each direction
    c2t, t2c,         \* where client_to_target and target_to_client are
    teardown,         \* the watch channel
    client_finished,  \* HalfClose flag of client_to_target
    target_eof,       \* HalfClose flag of target_to_client
    linger,           \* SO_LINGER: "unset", "armed", or "refused" by the kernel
    socket,           \* the target's socket: "open", or how its close went
    write_half,       \* the socket's write half: "open", "fin" or "forgotten"
    recv,             \* our half of the client's stream, as it ended
    send              \* our half of the response stream, as it ended

clientVars == <<client, stop>>
upVars == <<up, c2t, client_finished, write_half, recv>>
downVars == <<down, t2c, target_eof, send>>
sharedVars == <<teardown, linger, socket>>
tcpVars == <<clientVars, target, upVars, downVars, sharedVars>>

\* sent by its source, read by its pump, written to its sink
Chunks == [sent : 0 .. MaxChunks, read : 0 .. MaxChunks, written : 0 .. MaxChunks]

Pumping == {"reading", "writing"}

\* Where either end's sending side is, where a pump is, the watch channel's value,
\* and what became of the three halves the tunnel owns.
ClientSides == {"open", "fin", "reset"}
TargetSides == {"open", "eof", "error"}
Pumps == {"responding", "done"} \union Pumping
Teardowns == {"Running", "ClientAbort", "TargetError"}
WriteHalves == {"open", "fin", "forgotten"}
Lingers == {"unset", "armed", "refused"}
Sockets == {"open", "closed", "silent", "reset"}
RecvHalves == {"open", "ended", "reset", "dropped", "H3_CONNECT_ERROR",
               "H3_REQUEST_CANCELLED"}
SendHalves == {"open", "finished", "stopped", "H3_CONNECT_ERROR", "H3_REQUEST_CANCELLED"}

TcpTypeOK ==
    /\ client \in ClientSides /\ stop \in BOOLEAN
    /\ target \in TargetSides
    /\ up \in Chunks /\ down \in Chunks
    /\ c2t \in Pumps /\ t2c \in Pumps
    /\ teardown \in Teardowns
    /\ client_finished \in BOOLEAN /\ target_eof \in BOOLEAN
    /\ linger \in Lingers /\ socket \in Sockets
    /\ write_half \in WriteHalves /\ recv \in RecvHalves /\ send \in SendHalves

\* The target is connected and the 200 is about to be sent.
TcpInit ==
    /\ client = "open" /\ stop = FALSE
    /\ target = "open"
    /\ up = [sent |-> 0, read |-> 0, written |-> 0]
    /\ down = [sent |-> 0, read |-> 0, written |-> 0]
    /\ c2t = "responding" /\ t2c = "responding"
    /\ teardown = "Running"
    /\ client_finished = FALSE /\ target_eof = FALSE
    /\ linger = "unset" /\ socket = "open"
    /\ write_half = "open"
    /\ recv = "open" /\ send = "open"

\* Teardown::code
code(reason) ==
    IF reason = "TargetError" THEN "H3_CONNECT_ERROR" ELSE "H3_REQUEST_CANCELLED"

\* abort_target: SO_LINGER at zero, which the kernel may refuse.
abort_target == linger' \in {"armed", "refused"}

-------------------------------------------------------------------------------
(* run: the 200, and the pumps it starts.                                    *)

\* The response landed: both pumps start.
Respond ==
    /\ c2t = "responding"
    /\ c2t' = "reading" /\ t2c' = "reading"
    /\ UNCHANGED <<clientVars, target, up, client_finished, write_half, recv,
                   down, target_eof, send, sharedVars>>

\* It did not: the write failed, or lapsed and was reset.  The target is aborted,
\* and run returns, dropping the stream and the socket.
RespondFails ==
    /\ c2t = "responding"
    /\ abort_target
    /\ c2t' = "done" /\ t2c' = "done"
    /\ send' = IF stop THEN "stopped" ELSE "H3_REQUEST_CANCELLED"
    /\ recv' = "dropped"
    /\ UNCHANGED <<clientVars, target, up, client_finished, write_half,
                   down, target_eof, teardown, socket>>

-------------------------------------------------------------------------------
(* client_to_target                                                          *)

\* The other pump ended the tunnel: the same verdict on this half, and no FIN.
C2TTornDown ==
    /\ c2t \in Pumping
    /\ teardown # "Running"
    /\ recv' = code(teardown)
    /\ write_half' = "forgotten"
    /\ c2t' = "done"
    /\ UNCHANGED <<clientVars, target, up, client_finished, downVars, sharedVars>>

\* recv_data yields a chunk.  A reset discards what had not been read.
C2TRead ==
    /\ c2t = "reading" /\ teardown = "Running"
    /\ client # "reset"
    /\ up.read < up.sent
    /\ up' = [up EXCEPT !.read = @ + 1]
    /\ c2t' = "writing"
    /\ UNCHANGED <<clientVars, target, client_finished, write_half, recv, downVars,
                   sharedVars>>

\* write_all completes: the target took the chunk.
C2TWritten ==
    /\ c2t = "writing" /\ teardown = "Running"
    /\ target # "error"
    /\ up' = [up EXCEPT !.written = @ + 1]
    /\ c2t' = "reading"
    /\ UNCHANGED <<clientVars, target, client_finished, write_half, recv, downVars,
                   sharedVars>>

\* write_all fails, the target being gone.  Dropping the write half shuts it down.
C2TWriteFails ==
    /\ c2t = "writing" /\ teardown = "Running"
    /\ target = "error"
    /\ recv' = "H3_CONNECT_ERROR"
    /\ write_half' = "fin"
    /\ teardown' = "TargetError"
    /\ c2t' = "done"
    /\ UNCHANGED <<clientVars, target, up, client_finished, downVars, linger, socket>>

MutantStallNoReset ==
    /\ c2t = "writing" /\ teardown = "Running"
    /\ target = "eof" /\ client # "reset"
    /\ target_eof
    /\ recv' = "H3_CONNECT_ERROR"
    /\ write_half' = "forgotten"
    /\ teardown' = "TargetError"
    /\ c2t' = "done"
    /\ UNCHANGED <<clientVars, target, up, client_finished, downVars, linger, socket>>

\* The target sent its EOF and then left this write parked for the budget.  The
\* watchdog is the last arm of the select.
C2TStalled ==
    /\ c2t = "writing" /\ teardown = "Running"
    /\ target = "eof" /\ client # "reset"
    /\ target_eof
    /\ recv' = "H3_CONNECT_ERROR"
    /\ abort_target
    /\ write_half' = "forgotten"
    /\ teardown' = "TargetError"
    /\ c2t' = "done"
    /\ UNCHANGED <<clientVars, target, up, client_finished, downVars, socket>>

MutantUnwatchedWrite ==
    /\ c2t = "reading" /\ teardown = "Running"
    /\ client = "reset"
    /\ recv' = "reset"
    /\ abort_target
    /\ write_half' = "forgotten"
    /\ teardown' = "ClientAbort"
    /\ c2t' = "done"
    /\ UNCHANGED <<clientVars, target, up, client_finished, downVars, socket>>

\* client_aborted: the read fails with the client's reset (or with what its
\* frames did wrong), or the reset lands while a write is parked.
ClientAborted ==
    /\ teardown = "Running"
    /\ \/ c2t = "reading"
       \/ c2t = "writing" /\ target # "error"
    /\ client = "reset"
    /\ recv' = "reset"
    /\ abort_target
    /\ write_half' = "forgotten"
    /\ teardown' = "ClientAbort"
    /\ c2t' = "done"
    /\ UNCHANGED <<clientVars, target, up, client_finished, downVars, socket>>

\* The client finished: its FIN becomes the target's, and the other direction
\* goes on under its watchdog.
C2TFinished ==
    /\ c2t = "reading" /\ teardown = "Running"
    /\ client = "fin" /\ up.read = up.sent
    /\ client_finished' = TRUE
    /\ write_half' = "fin"
    /\ recv' = "ended"
    /\ c2t' = "done"
    /\ UNCHANGED <<clientVars, target, up, downVars, sharedVars>>

-------------------------------------------------------------------------------
(* target_to_client                                                          *)

\* The other pump ended the tunnel: a reset, because dropping the writer would
\* finish the response.
T2CTornDown ==
    /\ t2c \in Pumping
    /\ teardown # "Running"
    /\ send' = code(teardown)
    /\ t2c' = "done"
    /\ UNCHANGED <<clientVars, target, upVars, down, target_eof, sharedVars>>

\* read_buf yields bytes.
T2CRead ==
    /\ t2c = "reading" /\ teardown = "Running"
    /\ target # "error"
    /\ down.read < down.sent
    /\ down' = [down EXCEPT !.read = @ + 1]
    /\ t2c' = "writing"
    /\ UNCHANGED <<clientVars, target, upVars, target_eof, send, sharedVars>>

\* send_data completes: the client granted the window.
T2CSent ==
    /\ t2c = "writing" /\ teardown = "Running"
    /\ ~stop
    /\ down' = [down EXCEPT !.written = @ + 1]
    /\ t2c' = "reading"
    /\ UNCHANGED <<clientVars, target, upVars, target_eof, send, sharedVars>>

\* send_data fails, or the wait for the target notices with nothing to read,
\* that the client stopped the response.  The writer is dropped: quinn resets
\* a stopped stream.
T2CStopped ==
    /\ teardown = "Running"
    /\ stop
    /\ \/ t2c = "writing"
       \/ t2c = "reading" /\ target = "open" /\ down.read = down.sent
    /\ abort_target
    /\ teardown' = "ClientAbort"
    /\ send' = "stopped"
    /\ t2c' = "done"
    /\ UNCHANGED <<clientVars, target, upVars, down, target_eof, socket>>

MutantOwnFlag ==
    /\ t2c = "writing" /\ teardown = "Running"
    /\ ~stop
    /\ target_eof
    /\ abort_target
    /\ send' = "H3_REQUEST_CANCELLED"
    /\ teardown' = "ClientAbort"
    /\ t2c' = "done"
    /\ UNCHANGED <<clientVars, target, upVars, down, target_eof, socket>>

\* The client finished and then left this write parked for the budget.
T2CStalled ==
    /\ t2c = "writing" /\ teardown = "Running"
    /\ ~stop
    /\ client_finished
    /\ abort_target
    /\ send' = "H3_REQUEST_CANCELLED"
    /\ teardown' = "ClientAbort"
    /\ t2c' = "done"
    /\ UNCHANGED <<clientVars, target, upVars, down, target_eof, socket>>

\* The target's EOF finishes the response, and the other direction goes on
\* under its watchdog.
T2CFinished ==
    /\ t2c = "reading" /\ teardown = "Running"
    /\ target = "eof" /\ down.read = down.sent
    /\ target_eof' = TRUE
    /\ send' = IF stop THEN "stopped" ELSE "finished"
    /\ t2c' = "done"
    /\ UNCHANGED <<clientVars, target, upVars, down, sharedVars>>

\* Reading from the target fails.
T2CReadFails ==
    /\ t2c = "reading" /\ teardown = "Running"
    /\ target = "error"
    /\ send' = "H3_CONNECT_ERROR"
    /\ teardown' = "TargetError"
    /\ t2c' = "done"
    /\ UNCHANGED <<clientVars, target, upVars, down, target_eof, linger, socket>>

-------------------------------------------------------------------------------
(* The client and the target.                                                *)

ClientSends ==
    /\ client = "open" /\ up.sent < MaxChunks
    /\ up' = [up EXCEPT !.sent = @ + 1]
    /\ UNCHANGED <<clientVars, target, c2t, client_finished, write_half, recv,
                   downVars, sharedVars>>

\* A stream whose every byte and whose FIN have arrived can no longer be reset.
Resettable == client = "open" \/ (client = "fin" /\ up.read < up.sent)

\* A FIN, or a RESET_STREAM.
ClientEnds ==
    /\ \/ client = "open" /\ client' = "fin"
       \/ Resettable /\ client' = "reset"
    /\ UNCHANGED <<stop, target, upVars, downVars, sharedVars>>

\* STOP_SENDING; together with a reset it is also the whole connection going.
ClientStops ==
    /\ ~stop
    /\ stop' = TRUE
    /\ client' \in {client} \union (IF Resettable THEN {"reset"} ELSE {})
    /\ UNCHANGED <<target, upVars, downVars, sharedVars>>

TargetSends ==
    /\ target = "open" /\ down.sent < MaxChunks
    /\ down' = [down EXCEPT !.sent = @ + 1]
    /\ UNCHANGED <<clientVars, target, upVars, t2c, target_eof, send, sharedVars>>

\* The target's FIN, or its reset, which may also follow its FIN.
TargetEnds ==
    /\ \/ target = "open" /\ target' \in {"eof", "error"}
       \/ target = "eof" /\ target' = "error"
    /\ UNCHANGED <<clientVars, upVars, downVars, sharedVars>>

BothDone == c2t = "done" /\ t2c = "done"

\* How the socket closes: with a reset where one was armed, unless the FIN is out
\* already, where it is the kernel that decides (macOS resets from FIN_WAIT_2,
\* Linux closes in silence); otherwise with no more than a FIN.
Closes ==
    IF linger # "armed" THEN {"closed"}
    ELSE {"reset"} \union (IF write_half = "fin" THEN {"silent"} ELSE {})

\* run returns: the slot, the stream and the socket are released.
Release ==
    /\ BothDone /\ socket = "open"
    /\ socket' \in Closes
    /\ UNCHANGED <<clientVars, target, upVars, downVars, teardown, linger>>

\* The tunnel is gone.
TunnelOver == socket # "open" /\ UNCHANGED tcpVars

\* What a pump does without the peer on its far side taking anything.
C2T == \/ C2TTornDown \/ C2TRead \/ C2TWriteFails \/ C2TStalled
       \/ ClientAborted \/ C2TFinished
T2C == \/ T2CTornDown \/ T2CRead \/ T2CStopped \/ T2CStalled \/ T2CFinished
       \/ T2CReadFails

TcpNext ==
    \/ Respond \/ RespondFails
    \/ C2T \/ C2TWritten
    \/ T2C \/ T2CSent
    \/ Release
    \/ ClientSends \/ ClientEnds \/ ClientStops \/ TargetSends \/ TargetEnds
    \/ TunnelOver

TcpSpec == TcpInit /\ [][TcpNext]_tcpVars

\* The task is polled while a pump can move, the answer is bounded by the stall
\* budget, and so is a parked write of a half-closed tunnel.  Nothing makes
\* either side take what is written to it.
TcpFairSpec ==
    /\ TcpSpec
    /\ WF_tcpVars(Respond \/ RespondFails)
    /\ WF_tcpVars(C2T) /\ WF_tcpVars(T2C) /\ WF_tcpVars(Release)

-------------------------------------------------------------------------------
(* Safety                                                                    *)

\* A response that ends in a clean FIN is complete: the target reached its own
\* EOF and everything it sent was delivered, whatever else ended meanwhile.
CompleteResponse ==
    send = "finished" => target_eof /\ down.written = down.sent

\* A tunnel that was cut short closes its socket politely only when the kernel
\* refused SO_LINGER: otherwise a close that says no more than a FIN means that the
\* tunnel was seen through in both directions, or that the target broke it.  And a
\* close in silence, where the kernel drops the reset, leaves the target with a FIN
\* that was true: everything the client sent had been written.  abort_target is
\* only ever called on a path that cuts a tunnel short.
SeenThroughOrReset ==
    /\ socket = "closed" /\ linger # "refused" =>
        \/ target = "error"
        \/ /\ client_finished /\ up.written = up.sent
           /\ target_eof /\ down.written = down.sent
    /\ socket = "silent" => client_finished /\ up.written = up.sent
    /\ linger # "unset" => ~(client_finished /\ target_eof)

\* A FIN reaches the target only after every byte the client sent before its
\* own, unless the target is gone.
FinAfterEverything ==
    write_half = "fin" =>
        target = "error" \/ (client_finished /\ up.written = up.sent)

\* The two halves of the stream never carry different verdicts on one event.
SameVerdict ==
    /\ recv = "H3_CONNECT_ERROR" => send \in {"open", "finished", "stopped", recv}
    /\ recv = "H3_REQUEST_CANCELLED" => send \in {"stopped", recv}
    /\ recv = "reset" => send # "H3_CONNECT_ERROR"

\* The first teardown stands: the other pump repeats it and never adds its own.
TeardownOnce ==
    [][teardown # "Running" => teardown' = teardown]_tcpVars

-------------------------------------------------------------------------------
(* Liveness                                                                  *)

\* A client that abandons the tunnel, by a reset or by what dropping a request
\* stream is, a FIN and a STOP_SENDING, frees the socket and the slot, whatever
\* the two pumps are doing and even while a write to either side is parked.  A
\* STOP_SENDING alone does, unless the target's own EOF ended the response.
AbandonedEnds ==
    /\ (client = "reset" \/ (client = "fin" /\ stop)) ~> socket # "open"
    /\ (stop /\ send = "open") ~> (socket # "open" \/ target_eof)

\* A half-closed tunnel is not held by a parked write of its surviving direction.
HalfClosedEnds ==
    /\ (client_finished /\ t2c = "writing") ~> (t2c # "writing")
    /\ (target_eof /\ c2t = "writing") ~> (c2t # "writing")
===============================================================================
