----------------------------- MODULE DubboClient -----------------------------
(***************************************************************************)
(* The asynchronous benchmark client of src/dubbo_client.c, driven by one  *)
(* iteration after another of aeProcessEvents (src/lib/ae/ae.c) over the   *)
(* epoll backend, against a TCP connection and a Dubbo server.             *)
(*                                                                         *)
(* The client is one thread.  A step of it is the code between two system  *)
(* calls, so that the kernel and the server may act between any two calls. *)
(* Bytes are abstracted to units: a request is ReqUnits of them and a      *)
(* response ResUnits, of which the first HdrUnits are the Dubbo header.    *)
(***************************************************************************)
EXTENDS Integers, Sequences

CONSTANTS
    PipeN,      \* -c, after cli_create has capped it by -n
    ReqN,       \* -n
    ReqUnits,   \* units of an encoded request
    HdrUnits,   \* units of the header of a response (DUBBO_HDR_LEN)
    ResUnits,   \* units of a whole response
    SndCap,     \* units the kernel buffers for a peer that does not read
    ResKinds,   \* kinds of response the server may give
    Faults,     \* what may go wrong around the client
    MaxFaults   \* how often, in one behaviour

AllKinds == {"ok", "fail", "bad", "badlen", "heartbeat"}
AllFaults == {"connfail", "refuse", "timeout", "fin", "reset", "heartbeat",
              "immediate"}

ASSUME SizesAssumption ==
    /\ PipeN \in Nat \ {0} /\ ReqN \in Nat \ {0} /\ PipeN <= ReqN
    /\ ReqUnits \in Nat \ {0} /\ SndCap \in Nat /\ ReqUnits <= SndCap
    /\ HdrUnits \in Nat \ {0} /\ ResUnits \in Nat /\ HdrUnits < ResUnits

ASSUME EnvironmentAssumption ==
    /\ ResKinds \subseteq AllKinds \ {"heartbeat"} /\ Faults \subseteq AllFaults
    /\ MaxFaults \in Nat

VARIABLES
    phase,      \* where aeMain / aeProcessEvents stands
    pc,         \* which part of a callback runs, "idle" between callbacks
    frame,      \* a while loop of cli_pipe_send is on the stack
    run, connected, pipe_left, req_left, ok_n, ko_n,    \* struct dubbo_client
    timerid,    \* cli->timerid # AE_NOMORE
    rcv, snd,   \* units in rcv_buf and in snd_buf
    rmask,      \* AE_READABLE is registered (always with cli_on_read)
    wproc,      \* the callback registered for AE_WRITABLE, or "none"
    fired,      \* the mask epoll reported for the descriptor
    live,       \* time events of the loop that are not marked deleted
    sock,       \* the kernel's state of cli->fd
    fin,        \* the server has closed its end
    outq,       \* request units in the socket, not read by the server
    pend,       \* requests the server has read and not answered
    resq,       \* kinds of the packets sent to the client and not consumed
    beats,      \* how many of them are heartbeats
    inflight,   \* response units under way
    kin,        \* response units in the receive queue of the client's kernel
    budget      \* faults that may still happen

cliVars == <<run, connected, pipe_left, req_left, ok_n, ko_n, timerid, rcv, snd>>
aeVars == <<rmask, wproc, fired, live>>
peerVars == <<fin, outq, pend, resq, beats, inflight, kin>>
vars == <<phase, pc, frame, cliVars, aeVars, sock, peerVars, budget>>

-----------------------------------------------------------------------------
(* Helpers of the client: what a callee leaves for its caller.             *)

\* The callback returns to aeProcessEvents, which goes on with the other half
\* of the fired mask, with the time events, or with the next iteration.
AfterCallback ==
    IF phase = "read" THEN "write" ELSE IF phase = "write" THEN "timers" ELSE "poll"

CallbackReturns ==
    /\ pc' = "idle"
    /\ phase' = AfterCallback

\* Control is back in the caller of cli_write or cli_reconnect: the loop of
\* cli_pipe_send if one is active, and otherwise the end of the callback.
BackToCaller ==
    IF frame THEN pc' = "pipe" /\ phase' = phase ELSE CallbackReturns

cli_clear_timer ==
    /\ timerid' = FALSE
    /\ live' = IF timerid THEN live - 1 ELSE live

\* Faulty variants, each a slip the properties are meant to notice, stand
\* before the definition they would replace.
cli_connected_keeps_timer ==
    connected' = TRUE /\ rmask' = TRUE /\ pc' = "pipe" /\ frame' = TRUE
    /\ UNCHANGED <<timerid, live>>

cli_connected_deaf ==
    connected' = TRUE /\ cli_clear_timer /\ pc' = "pipe" /\ frame' = TRUE
    /\ UNCHANGED rmask

\* cli_connected, up to its call of cli_pipe_send.
cli_connected ==
    /\ connected' = TRUE
    /\ cli_clear_timer
    /\ rmask' = TRUE
    /\ pc' = "pipe"
    /\ frame' = TRUE

cli_reset_keeps_snd ==
    connected' = FALSE /\ cli_clear_timer /\ pipe_left' = PipeN /\ rcv' = 0
    /\ UNCHANGED snd

cli_reset_keeps_window ==
    connected' = FALSE /\ cli_clear_timer /\ rcv' = 0 /\ snd' = 0
    /\ UNCHANGED pipe_left

\* buf_retrieveAll of both buffers, the window reopened.
cli_reset ==
    /\ connected' = FALSE
    /\ cli_clear_timer
    /\ pipe_left' = PipeN
    /\ rcv' = 0
    /\ snd' = 0

NoConnection ==
    /\ sock' = "closed"
    /\ fin' = FALSE
    /\ outq' = 0 /\ pend' = 0 /\ inflight' = 0 /\ kin' = 0
    /\ resq' = <<>> /\ beats' = 0

cli_close_keeps_reader ==
    wproc' = "none" /\ NoConnection /\ cli_reset /\ UNCHANGED rmask

cli_close_keeps_writer ==
    rmask' = FALSE /\ NoConnection /\ cli_reset /\ UNCHANGED wproc

\* Closing the descriptor drops what the connection still carried.
cli_close ==
    /\ rmask' = FALSE
    /\ wproc' = "none"
    /\ NoConnection
    /\ cli_reset

-----------------------------------------------------------------------------
(* cli_reconnect, cli_connect, cli_pipe_send, cli_write and cli_end.       *)

Reconnect_then_sends ==
    /\ pc = "reconnect"
    /\ cli_close
    /\ pc' = "connect" /\ frame' = TRUE
    /\ UNCHANGED <<phase, run, req_left, ok_n, ko_n, fired, budget>>

Reconnect ==
    /\ pc = "reconnect"
    /\ cli_close
    /\ pc' = "connect"
    /\ UNCHANGED <<phase, frame, run, req_left, ok_n, ko_n, fired, budget>>

\* connect() answers EINPROGRESS.
ConnectInProgress ==
    /\ pc = "connect"
    /\ sock' = "connecting"
    /\ wproc' = "cli_on_connect"
    /\ timerid' = TRUE
    /\ live' = live + 1
    /\ BackToCaller
    /\ UNCHANGED <<frame, run, connected, pipe_left, req_left, ok_n, ko_n, rcv, snd,
                   rmask, fired, peerVars, budget>>

\* connect() succeeds at once.
ConnectNow ==
    /\ pc = "connect"
    /\ "immediate" \in Faults
    /\ sock' = "established"
    /\ cli_connected
    /\ UNCHANGED <<phase, run, pipe_left, req_left, ok_n, ko_n, rcv, snd, wproc,
                   fired, peerVars, budget>>

\* socket() or connect() fails: the caller only logs it.  From cli_start the
\* failure reaches main, which gives up.
ConnectFails ==
    /\ pc = "connect"
    /\ "connfail" \in Faults /\ budget > 0
    /\ budget' = budget - 1
    /\ IF phase = "init" /\ ~frame
       THEN phase' = "failed" /\ pc' = "idle"
       ELSE BackToCaller
    /\ UNCHANGED <<frame, cliVars, aeVars, sock, peerVars>>

\* One turn of the loop of cli_pipe_send: a request is encoded and appended
\* to snd_buf, and cli_write is entered.
PipeTurn ==
    /\ pc = "pipe"
    /\ pipe_left > 0
    /\ pipe_left' = pipe_left - 1
    /\ snd' = snd + ReqUnits
    /\ pc' = "flush"
    /\ UNCHANGED <<phase, frame, run, connected, req_left, ok_n, ko_n, timerid, rcv,
                   aeVars, sock, peerVars, budget>>

PipeDone_unrestored ==
    /\ pc = "pipe"
    /\ pipe_left = 0
    /\ pipe_left' = -1
    /\ frame' = FALSE
    /\ CallbackReturns
    /\ UNCHANGED <<run, connected, req_left, ok_n, ko_n, timerid, rcv, snd, aeVars,
                   sock, peerVars, budget>>

PipeDone ==
    /\ pc = "pipe"
    /\ pipe_left = 0
    /\ frame' = FALSE
    /\ CallbackReturns
    /\ UNCHANGED <<cliVars, aeVars, sock, peerVars, budget>>

Space == SndCap - outq

WriteAccepted_stays_registered ==
    /\ pc = "flush"
    /\ sock = "established" /\ Space > 0
    /\ LET n == IF snd <= Space THEN snd ELSE Space IN
        /\ snd' = snd - n
        /\ outq' = outq + n
        /\ IF n = snd THEN BackToCaller ELSE UNCHANGED <<pc, phase>>
    /\ UNCHANGED <<frame, run, connected, pipe_left, req_left, ok_n, ko_n, timerid,
                   rcv, rmask, wproc, fired, live, sock, fin, pend, resq, beats,
                   inflight, kin, budget>>

WriteAccepted_clears_timer ==
    /\ pc = "flush"
    /\ sock = "established" /\ Space > 0
    /\ LET n == IF snd <= Space THEN snd ELSE Space IN
        /\ snd' = snd - n
        /\ outq' = outq + n
        /\ IF n = snd
           THEN wproc' = "none" /\ BackToCaller
           ELSE UNCHANGED <<wproc, pc, phase>>
    /\ cli_clear_timer
    /\ UNCHANGED <<frame, run, connected, pipe_left, req_left, ok_n, ko_n, rcv, rmask,
                   fired, sock, fin, pend, resq, beats, inflight, kin, budget>>

\* write() takes what fits.  The rest is offered again by the while loop of
\* cli_write, after the kernel and the server had time to act.
WriteAccepted ==
    /\ pc = "flush"
    /\ sock = "established" /\ Space > 0
    /\ LET n == IF snd <= Space THEN snd ELSE Space IN
        /\ snd' = snd - n
        /\ outq' = outq + n
        /\ IF n = snd
           THEN wproc' = "none" /\ BackToCaller
           ELSE UNCHANGED <<wproc, pc, phase>>
    /\ UNCHANGED <<frame, run, connected, pipe_left, req_left, ok_n, ko_n, timerid,
                   rcv, rmask, fired, live, sock, fin, pend, resq, beats, inflight, kin,
                   budget>>

\* write() answers EAGAIN: a full socket, or one still connecting.
WriteWouldBlock ==
    /\ pc = "flush"
    /\ \/ sock = "connecting"
       \/ sock = "established" /\ Space <= 0
    /\ wproc' = "cli_on_write"
    /\ BackToCaller
    /\ UNCHANGED <<frame, cliVars, rmask, fired, live, sock, peerVars, budget>>

\* write() fails: a dead connection, or a descriptor cli_connect has closed.
WriteFails ==
    /\ pc = "flush"
    /\ sock \in {"refused", "reset", "closed"}
    /\ pc' = "reconnect"
    /\ UNCHANGED <<phase, frame, cliVars, aeVars, sock, peerVars, budget>>

End ==
    /\ pc = "end"
    /\ cli_close
    /\ run' = FALSE
    /\ CallbackReturns
    /\ UNCHANGED <<frame, req_left, ok_n, ko_n, fired, budget>>

-----------------------------------------------------------------------------
(* One iteration of aeProcessEvents: aeApiPoll, the readable half, the     *)
(* writable half, processTimeEvents.                                       *)

Broken == sock \in {"refused", "reset"}     \* epoll: EPOLLERR | EPOLLHUP

\* The mask epoll reports: it always reports errors for a descriptor it
\* watches, and aeApiPoll turns them into AE_WRITABLE.
Ready ==
    {e \in {"R", "W"} :
        \/ e = "R" /\ rmask /\ (kin > 0 \/ Broken \/ (fin /\ inflight = 0))
        \/ e = "W" /\ wproc # "none" /\ (Broken \/ (sock = "established" /\ Space > 0))
        \/ e = "W" /\ rmask /\ Broken}

AtLoop(p) == phase = p /\ pc = "idle"

Poll ==
    /\ AtLoop("poll")
    /\ run
    /\ Ready # {}
    /\ fired' = Ready
    /\ phase' = "read"
    /\ UNCHANGED <<pc, frame, cliVars, rmask, wproc, live, sock, peerVars, budget>>

\* cli_connect_timeout, called by processTimeEvents: epoll_wait slept until
\* the timer was due, or it came due while the file events were served.
TimerFires ==
    /\ \/ AtLoop("poll") /\ run /\ Ready = {}
       \/ AtLoop("timers")
    /\ live > 0
    /\ "timeout" \in Faults /\ budget > 0
    /\ budget' = budget - 1
    /\ phase' = "timers"
    /\ pc' = "reconnect"
    /\ UNCHANGED <<frame, cliVars, aeVars, sock, peerVars>>

NoTimerDue ==
    /\ AtLoop("timers")
    /\ phase' = "poll"
    /\ UNCHANGED <<pc, frame, cliVars, aeVars, sock, peerVars, budget>>

\* cli_end has stopped the loop: aeMain returns.
LoopStops ==
    /\ AtLoop("poll")
    /\ ~run
    /\ phase' = "ended"
    /\ UNCHANGED <<pc, frame, cliVars, aeVars, sock, peerVars, budget>>

\* The test fe->mask & mask & AE_READABLE, and the one for AE_WRITABLE.
CallsReader == "R" \in fired /\ rmask
CallsWriter == "W" \in fired /\ wproc # "none"

SkipReader ==
    /\ AtLoop("read")
    /\ ~CallsReader
    /\ phase' = "write"
    /\ UNCHANGED <<pc, frame, cliVars, aeVars, sock, peerVars, budget>>

SkipWriter ==
    /\ AtLoop("write")
    /\ ~CallsWriter
    /\ phase' = "timers"
    /\ UNCHANGED <<pc, frame, cliVars, aeVars, sock, peerVars, budget>>

\* cli_on_connect: whatever woke the descriptor, the connection is taken as made.
OnConnect ==
    /\ AtLoop("write") /\ CallsWriter
    /\ wproc = "cli_on_connect"
    /\ wproc' = "none"
    /\ cli_connected
    /\ UNCHANGED <<phase, run, pipe_left, req_left, ok_n, ko_n, rcv, snd, fired,
                   sock, peerVars, budget>>

\* cli_on_write, with its assert(cli->connected).
OnWrite ==
    /\ AtLoop("write") /\ CallsWriter
    /\ wproc = "cli_on_write"
    /\ IF connected
       THEN pc' = "flush" /\ phase' = phase
       ELSE pc' = "idle" /\ phase' = "aborted"
    /\ UNCHANGED <<frame, cliVars, aeVars, sock, peerVars, budget>>

-----------------------------------------------------------------------------
(* cli_on_read.                                                            *)

AtReader == AtLoop("read") /\ CallsReader /\ connected

ReadFails_ignored ==
    /\ AtReader
    /\ kin = 0
    /\ CallbackReturns
    /\ UNCHANGED <<frame, cliVars, aeVars, sock, peerVars, budget>>

\* buf_readFd drains the kernel's queue.  It reports end of file by 0 and every
\* error by -1, also in errno_, which no branch of cli_on_read recognises.
ReadFails ==
    /\ AtReader
    /\ kin = 0
    /\ pc' = "reconnect"
    /\ UNCHANGED <<phase, frame, cliVars, aeVars, sock, peerVars, budget>>

Received == rcv + kin

\* is_completed_dubbo_pkt: what is missing of the packet rcv_buf starts with.
remaining == ResUnits - Received

\* is_dubbo_pkt or is_completed_dubbo_pkt rejects what rcv_buf starts with: less
\* than a header, or a header without a usable length.
ReadRejected ==
    /\ AtReader
    /\ kin > 0
    /\ \/ Received < HdrUnits
       \/ Received >= HdrUnits /\ Head(resq) = "badlen"
    /\ rcv' = Received
    /\ kin' = 0
    /\ pc' = "reconnect"
    /\ UNCHANGED <<phase, frame, run, connected, pipe_left, req_left, ok_n, ko_n,
                   timerid, snd, aeVars, sock, fin, outq, pend, resq, beats, inflight, budget>>

ReadIncomplete_rejected ==
    /\ AtReader
    /\ kin > 0
    /\ Received >= HdrUnits /\ remaining # 0
    /\ pc' = "reconnect"
    /\ UNCHANGED <<phase, frame, cliVars, aeVars, sock, peerVars, budget>>

ReadIncomplete ==
    /\ AtReader
    /\ kin > 0
    /\ Received >= HdrUnits /\ Head(resq) # "badlen"
    /\ remaining # 0
    /\ rcv' = Received
    /\ kin' = 0
    /\ CallbackReturns
    /\ UNCHANGED <<frame, run, connected, pipe_left, req_left, ok_n, ko_n, timerid,
                   snd, aeVars, sock, fin, outq, pend, resq, beats, inflight, budget>>

cli_decode_resp_misses_failures(kind) ==
    /\ ok_n' = IF kind = "ok" THEN ok_n + 1 ELSE ok_n
    /\ ko_n' = ko_n

\* cli_decode_resp, for a response that dubbo_decode accepts: both branches on
\* res->ok count a success.
cli_decode_resp(kind) ==
    /\ ok_n' = IF kind \in {"ok", "fail"} THEN ok_n + 1 ELSE ok_n
    /\ ko_n' = ko_n

AfterResponse_off_by_one(left, kind) ==
    IF left < 0 THEN "end" ELSE IF kind \in {"bad", "heartbeat"} THEN "reconnect" ELSE "pipe"

\* What cli_on_read does after a response: end the run, send the next request,
\* or reconnect when the response could not be decoded.
AfterResponse(left, kind) ==
    IF left <= 0 THEN "end" ELSE IF kind \in {"bad", "heartbeat"} THEN "reconnect" ELSE "pipe"

\* A complete packet is counted and consumed: all of it, or the header alone when
\* decode_res_hdr finds a heartbeat and gives up.
ReadResponse ==
    /\ AtReader
    /\ kin > 0
    /\ Received >= HdrUnits /\ Head(resq) # "badlen"
    /\ remaining = 0
    /\ rcv' = IF Head(resq) = "heartbeat" THEN ResUnits - HdrUnits ELSE 0
    /\ kin' = 0
    /\ pipe_left' = pipe_left + 1
    /\ req_left' = req_left - 1
    /\ resq' = Tail(resq)
    /\ beats' = IF Head(resq) = "heartbeat" THEN beats - 1 ELSE beats
    /\ cli_decode_resp(Head(resq))
    /\ pc' = AfterResponse(req_left', Head(resq))
    /\ frame' = (pc' = "pipe")
    /\ UNCHANGED <<phase, run, connected, timerid, snd, aeVars, sock, fin, outq, pend,
                   inflight, budget>>

-----------------------------------------------------------------------------
(* The server and the network, as src/ uses them.                          *)

SynAck ==
    /\ sock = "connecting"
    /\ sock' = "established"
    /\ UNCHANGED <<phase, pc, frame, cliVars, aeVars, peerVars, budget>>

\* The handshake is refused, or the kernel gives it up.
Refuse ==
    /\ "refuse" \in Faults /\ budget > 0
    /\ sock = "connecting"
    /\ sock' = "refused"
    /\ budget' = budget - 1
    /\ UNCHANGED <<phase, pc, frame, cliVars, aeVars, peerVars>>

ServerLives == sock = "established" /\ ~fin

ServerReads ==
    /\ ServerLives
    /\ outq >= ReqUnits
    /\ outq' = outq - ReqUnits
    /\ pend' = pend + 1
    /\ UNCHANGED <<phase, pc, frame, cliVars, aeVars, sock, fin, resq, beats, inflight, kin,
                   budget>>

Send(kind) ==
    /\ resq' = Append(resq, kind)
    /\ inflight' = inflight + ResUnits

ServerAnswers(kind) ==
    /\ ServerLives
    /\ pend > 0
    /\ pend' = pend - 1
    /\ Send(kind)
    /\ UNCHANGED <<phase, pc, frame, cliVars, aeVars, sock, fin, outq, beats, kin, budget>>

\* A heartbeat of the server is a request packet: dubbo_decode rejects it.
ServerHeartbeat ==
    /\ "heartbeat" \in Faults /\ budget > 0
    /\ ServerLives
    /\ Send("heartbeat")
    /\ beats' = beats + 1
    /\ budget' = budget - 1
    /\ UNCHANGED <<phase, pc, frame, cliVars, aeVars, sock, fin, outq, pend, kin>>

\* TCP hands over what it has in pieces of its own choosing.
Deliver ==
    /\ sock = "established"
    /\ \E n \in 1 .. inflight :
        /\ inflight' = inflight - n
        /\ kin' = kin + n
    /\ UNCHANGED <<phase, pc, frame, cliVars, aeVars, sock, fin, outq, pend, resq,
                   beats, budget>>

ServerCloses ==
    /\ "fin" \in Faults /\ budget > 0
    /\ ServerLives
    /\ fin' = TRUE
    /\ pend' = 0
    /\ budget' = budget - 1
    /\ UNCHANGED <<phase, pc, frame, cliVars, aeVars, sock, outq, resq, beats, inflight, kin>>

\* The connection is reset by a fault, or because the client wrote to a server
\* that had closed.
Reset ==
    /\ sock = "established"
    /\ IF fin /\ outq > 0
       THEN budget' = budget
       ELSE "reset" \in Faults /\ budget > 0 /\ budget' = budget - 1
    /\ sock' = "reset"
    /\ outq' = 0 /\ pend' = 0 /\ inflight' = 0
    /\ UNCHANGED <<phase, pc, frame, cliVars, aeVars, fin, resq, beats, kin>>

-----------------------------------------------------------------------------

Init ==
    /\ phase = "init" /\ pc = "connect" /\ frame = FALSE
    /\ run = TRUE /\ connected = FALSE /\ timerid = FALSE
    /\ pipe_left = PipeN /\ req_left = ReqN /\ ok_n = 0 /\ ko_n = 0
    /\ rcv = 0 /\ snd = 0
    /\ rmask = FALSE /\ wproc = "none" /\ fired = {} /\ live = 0
    /\ sock = "closed" /\ fin = FALSE
    /\ outq = 0 /\ pend = 0 /\ resq = <<>> /\ beats = 0 /\ inflight = 0 /\ kin = 0
    /\ budget = MaxFaults

\* The callbacks and what they call.
Callback ==
    \/ Reconnect \/ ConnectInProgress \/ ConnectNow \/ ConnectFails
    \/ PipeTurn \/ PipeDone
    \/ WriteAccepted \/ WriteWouldBlock \/ WriteFails
    \/ End

\* The event loop and the entries of the callbacks.
Loop ==
    \/ Poll \/ TimerFires \/ NoTimerDue \/ LoopStops
    \/ SkipReader \/ ReadFails \/ ReadRejected \/ ReadIncomplete \/ ReadResponse
    \/ SkipWriter \/ OnConnect \/ OnWrite

Client == Callback \/ Loop

ServerAnswersAny == \E kind \in ResKinds : ServerAnswers(kind)

Peer ==
    \/ SynAck \/ Refuse \/ ServerReads \/ ServerAnswersAny \/ ServerHeartbeat
    \/ Deliver \/ ServerCloses \/ Reset

Stopped == phase \in {"ended", "failed", "aborted"}

\* The process has exited.
Exited == Stopped /\ UNCHANGED vars

Next == Client \/ Peer \/ Exited

Spec == Init /\ [][Next]_vars

\* The client runs when it can; the network carries what it was given and a
\* server that lives reads and answers.  Nothing is assumed of the faults.
Fairness ==
    /\ WF_vars(Client)
    /\ WF_vars(SynAck)
    /\ WF_vars(ServerReads)
    /\ WF_vars(ServerAnswersAny)
    /\ WF_vars(Deliver)

FairSpec == Spec /\ Fairness

-----------------------------------------------------------------------------
(* Properties.                                                             *)

Flags ==
    /\ frame \in BOOLEAN /\ run \in BOOLEAN /\ connected \in BOOLEAN
    /\ timerid \in BOOLEAN /\ rmask \in BOOLEAN /\ fin \in BOOLEAN

Places ==
    /\ phase \in {"init", "poll", "read", "write", "timers", "ended", "failed",
                  "aborted"}
    /\ pc \in {"idle", "connect", "pipe", "flush", "reconnect", "end"}
    /\ wproc \in {"none", "cli_on_connect", "cli_on_write"}
    /\ fired \in SUBSET {"R", "W"}
    /\ sock \in {"closed", "connecting", "established", "refused", "reset"}

Counts ==
    /\ pipe_left \in 0 .. PipeN /\ req_left \in 0 .. ReqN
    /\ ok_n \in Nat /\ ko_n \in Nat /\ rcv \in Nat /\ snd \in Nat
    /\ live \in Nat /\ budget \in Nat
    /\ outq \in 0 .. SndCap /\ pend \in Nat /\ inflight \in Nat /\ kin \in Nat
    /\ resq \in Seq(AllKinds) /\ beats \in Int

\* The values the variables take.  pipe_left stays within the window although
\* cli_on_read increments it unconditionally.
TypeOK == Flags /\ Places /\ Counts

\* At most one connect timer is alive, it is the one cli->timerid names, and
\* none is once the client holds the connection for established.  Otherwise
\* cli_connect_timeout tears down a working connection.
OneConnectTimer ==
    /\ timerid => live = 1
    /\ ~timerid => live = 0
    /\ connected => ~timerid

\* AE_READABLE is registered exactly while the client is connected, and
\* cli_on_connect only while it is not: so assert(cli->connected) of
\* cli_on_read never fails and no second cli_connected runs on a connection.
ReaderConnected ==
    /\ rmask = connected
    /\ wproc = "cli_on_connect" => ~connected

\* The requests appended to snd_buf since cli_reset and not answered fill
\* exactly what pipe_left leaves open of the window of -c requests, as long as
\* the server lives.  A credit lost here would be a slot of -c never used
\* again, a credit too many would overrun the window.
WindowKept ==
    (sock \in {"connecting", "established"} /\ ~fin /\ pc \notin {"reconnect", "end"}) =>
        ReqUnits * (pipe_left + pend + Len(resq) - beats) + snd + outq
            = ReqUnits * PipeN

\* Both streams of a connection stay aligned: what is left of the request
\* stream ends at a request boundary, and what is left of the response stream
\* is the whole responses the server has sent, until the client gives the
\* connection up.  A byte of an old connection surviving cli_reset in snd_buf or
\* rcv_buf would shift every later packet.
Framed ==
    (sock = "established" /\ pc \notin {"reconnect", "end"}) =>
        /\ (snd + outq) % ReqUnits = 0
        /\ rcv + kin + inflight = ResUnits * Len(resq)

\* REQ of the summary is the sum of SUCC and FAIL as long as every packet of
\* the server can be decoded.
Accounted ==
    (ResKinds \subseteq {"ok", "fail"} /\ "heartbeat" \notin Faults) =>
        ok_n + ko_n = ReqN - req_left

\* cli_end frees the client: no callback runs afterwards, nothing of the
\* client is left for the event loop to call, and every request was counted.
NothingAfterEnd ==
    /\ pc # "idle" => run
    /\ ~run => rmask = FALSE /\ wproc = "none" /\ live = 0 /\ sock = "closed"
    /\ ~run => req_left = 0

\* A client with a socket never sleeps in epoll_wait without an event or a
\* timer to wake it.  (Without a socket it does: cli_reconnect only logs that
\* cli_connect failed.)
SocketWatched ==
    (AtLoop("poll") /\ run /\ sock # "closed") =>
        rmask \/ wproc # "none" \/ live > 0

\* AE_WRITABLE stays registered for cli_on_write only while snd_buf holds
\* something, and cli_write is never entered with an empty one: otherwise the
\* level-triggered epoll would wake the client for ever with nothing to do.
WritableNeeded == (wproc = "cli_on_write" \/ pc = "flush") => snd > 0

\* The client implements the promise of RequestWindow, whatever fails.
Window == INSTANCE RequestWindow
              WITH N <- PipeN, R <- ReqN,
                   under <- PipeN - pipe_left, left <- req_left, over <- ~run
ImplementsWindow == Window!WSpec

\* A socket the client does not hold for established has its connect timer, at
\* every step and whatever fails.  Nothing else is sure to end the wait: inside
\* cli_pipe_send, cli_write may put cli_on_write in the place of cli_on_connect,
\* or delete the writable event once it has written all, and then nobody notices
\* that the handshake was answered.
HandshakeTimed == (sock # "closed" /\ ~connected) => timerid

\* ae.c, "we check if the event is still valid": an event reported for one
\* connection never makes the client take the next one as established.
ConnectedIsEstablished == connected => sock # "connecting"

\* assert(cli->connected) of cli_on_write holds.
NeverAborts == phase # "aborted"

\* As long as nothing went wrong around the client, it does not leave the
\* connection: cli_on_read takes no partial read of a packet for a foreign one,
\* and cli_on_write no partial write for a failed one.
NeverReconnects == budget = MaxFaults => pc # "reconnect"

\* The run comes to its end with every request answered.
Completes == <>(phase = "ended" /\ ok_n + ko_n = ReqN)

\* The client sleeps in epoll_wait with no socket, no timer and requests left.
Stranded == AtLoop("poll") /\ run /\ sock = "closed" /\ live = 0

\* Only a cli_connect that fails inside cli_reconnect keeps a run from its end,
\* and it does so for good: cli_reconnect logs the failure and arms nothing.  In
\* cli_start the same failure ends the program.
CompletesOrStrands == Completes \/ <>[]Stranded \/ <>(phase = "failed")

=============================================================================
