---------------------------------- MODULE Process -----------------------------
(***************************************************************************)
(* main of src/dubbo.c: the synchronous call, or the asynchronous client   *)
(* from its first connection to exit(3), with signals that arrive between  *)
(* any two steps.  The client is reduced to what cli_close and cli_end     *)
(* touch; DubboClient models what happens inside the loop.                 *)
(***************************************************************************)
EXTENDS SyncInvoke, Sequences

CONSTANTS
    Signals,    \* SIGINT and SIGTERM
    MaxSignals  \* how many are delivered

VARIABLES
    mode,       \* "sync" or "bench"
    stack,      \* the functions that run, the innermost last, and where they are
    started,    \* the first cli_connect has succeeded
    loop, cli,  \* the event loop and the client: "none", "live" or "freed"
    fd,         \* cli->fd: "open", "stale" when it was closed elsewhere, or "none", -1
    g_cli, run, \* g_cli is set; cli->run
    stop,       \* the loop's flag
    bad,        \* uses of what is not there, and what was going on
    signals     \* signals delivered so far

benchVars == <<stack, started, loop, cli, fd, g_cli, run, stop, bad, signals>>
vars == <<mode, syncVars, benchVars>>

Top == stack[Len(stack)]
At(label) == mode = "bench" /\ stack # << >> /\ Top.fn = label
Frame(label) == [fn |-> label, sig |-> "none"]
Pop == SubSeq(stack, 1, Len(stack) - 1)

\* The innermost function goes on at a label; calls another; returns.
Goto(label) == stack' = Append(Pop, [Top EXCEPT !.fn = label])
CallThen(callee, label) ==
    stack' = Pop \o <<[Top EXCEPT !.fn = label], Frame(callee)>>
Returns == stack' = Pop

\* A use of something, recorded if it is wrong.
Uses(wrong, what) ==
    bad' = IF wrong THEN bad \cup {[what |-> what, started |-> started, signalled |-> signals > 0]}
           ELSE bad

-----------------------------------------------------------------------------
(* main and cli_start.                                                     *)

\* cli_create; the handlers are installed, and only then g_cli and run are set.
InstallHandlers ==
    /\ At("cli_start")
    /\ cli' = "live" /\ loop' = "live" /\ Goto("cli_start_set")
    /\ UNCHANGED <<started, fd, g_cli, run, stop, bad, signals>>

SetClient ==
    /\ At("cli_start_set") /\ g_cli' = TRUE /\ run' = TRUE
    /\ CallThen("cli_connect", "started")
    /\ UNCHANGED <<started, loop, cli, fd, stop, bad, signals>>

\* A socket that connects or is in progress; no socket; or one that was closed again.
cli_connect ==
    /\ At("cli_connect") /\ Returns
    /\ fd' \in {"open", "stale", fd}
    /\ UNCHANGED <<started, loop, cli, g_cli, run, stop, bad, signals>>

\* main deletes the loop when the client did not start.  cli_connect returns
\* true, too, when a write in cli_pipe_send failed and the reconnection in it.
Started ==
    /\ At("started")
    /\ \/ Goto("aeMain") /\ started' = TRUE /\ UNCHANGED loop
       \/ fd # "open" /\ Goto("exit") /\ loop' = "freed" /\ UNCHANGED started
    /\ UNCHANGED <<cli, fd, g_cli, run, stop, bad, signals>>

\* A callback of the loop ends the client, or reconnects; DubboClient says when.
\* Without a connection and its timer there is no callback.
Callback ==
    /\ At("aeMain") /\ ~stop /\ fd = "open"
    /\ CallThen("cli_end", "aeMain") \/ CallThen("cli_reconnect", "aeMain")
    /\ UNCHANGED <<started, loop, cli, fd, g_cli, run, stop, bad, signals>>

MainReturns ==
    /\ At("aeMain") /\ stop
    /\ loop' = "freed" /\ Goto("exit")
    /\ UNCHANGED <<started, cli, fd, g_cli, run, stop, bad, signals>>

-----------------------------------------------------------------------------
(* The client.                                                             *)

cli_reconnect ==
    /\ At("cli_reconnect") /\ stack' = Pop \o <<Frame("cli_connect"), Frame("cli_close")>>
    /\ UNCHANGED <<started, loop, cli, fd, g_cli, run, stop, bad, signals>>

\* aeDeleteFileEvent reads the events of the descriptor, in the loop.
cli_close ==
    /\ At("cli_close") /\ Goto("close")
    /\ Uses(loop = "freed" \/ fd = "none", IF loop = "freed" THEN "loop" ELSE "fd")
    /\ UNCHANGED <<started, loop, cli, fd, g_cli, run, stop, signals>>

CloseFd ==
    /\ At("close") /\ Goto("reset") /\ fd' = IF fd = "open" THEN "stale" ELSE fd
    /\ Uses(fd # "open", "fd")
    /\ UNCHANGED <<started, loop, cli, g_cli, run, stop, signals>>

cli_reset ==
    /\ At("reset") /\ Returns /\ fd' = "none"
    /\ Uses(cli = "freed", "client")
    /\ UNCHANGED <<started, loop, cli, g_cli, run, stop, signals>>

cli_end ==
    /\ At("cli_end")
    /\ IF run THEN CallThen("cli_close", "end_clear") ELSE Returns
    /\ Uses(cli = "freed", "client")
    /\ UNCHANGED <<started, loop, cli, fd, g_cli, run, stop, signals>>

EndClear ==
    /\ At("end_clear") /\ g_cli' = FALSE /\ Goto("end_stop")
    /\ UNCHANGED <<started, loop, cli, fd, run, stop, bad, signals>>

EndStop ==
    /\ At("end_stop") /\ run' = FALSE /\ stop' = TRUE /\ Goto("end_release")
    /\ Uses(loop = "freed", "loop")
    /\ UNCHANGED <<started, loop, cli, fd, g_cli, signals>>

cli_release ==
    /\ At("end_release") /\ cli' = "freed" /\ Returns
    /\ Uses(cli = "freed", "client")
    /\ UNCHANGED <<started, loop, fd, g_cli, run, stop, signals>>

-----------------------------------------------------------------------------
(* Signals and exit(3).                                                    *)

\* A signal between two steps; the same one waits while its handler runs.
Signal(s) ==
    /\ mode = "bench" /\ signals < MaxSignals /\ stack # << >> /\ ~At("cli_start")
    /\ \A k \in DOMAIN stack : stack[k].sig # s
    /\ stack' = Append(stack, [fn |-> "sig_handler", sig |-> s])
    /\ signals' = signals + 1
    /\ UNCHANGED <<started, loop, cli, fd, g_cli, run, stop, bad>>

\* Without a client that runs the handler does nothing.
sig_handler ==
    /\ At("sig_handler")
    /\ IF g_cli /\ run THEN CallThen("cli_end", "handled") ELSE Returns
    /\ UNCHANGED <<started, loop, cli, fd, g_cli, run, stop, bad, signals>>

Handled_returns == /\ At("handled") /\ Returns
                   /\ UNCHANGED <<started, loop, cli, fd, g_cli, run, stop, bad, signals>>

\* exit(0): nothing below the handler goes on.
Handled ==
    /\ At("handled") /\ stack' = <<[Top EXCEPT !.fn = "exit"]>>
    /\ UNCHANGED <<started, loop, cli, fd, g_cli, run, stop, bad, signals>>

exit_handler ==
    /\ At("exit")
    /\ IF g_cli /\ run THEN CallThen("cli_end", "exited") ELSE Goto("exited")
    /\ UNCHANGED <<started, loop, cli, fd, g_cli, run, stop, bad, signals>>

Exited ==
    /\ At("exited") /\ Len(stack) = 1 /\ stack' = << >>
    /\ UNCHANGED <<started, loop, cli, fd, g_cli, run, stop, bad, signals>>

-----------------------------------------------------------------------------

Init ==
    /\ mode \in {"sync", "bench"} /\ InitSync
    /\ stack = <<Frame("cli_start")>> /\ started = FALSE
    /\ loop = "none" /\ cli = "none" /\ fd = "none" /\ g_cli = FALSE /\ run = FALSE
    /\ stop = FALSE /\ bad = {} /\ signals = 0

Sync == mode = "sync" /\ InvokeSync /\ UNCHANGED <<mode, benchVars>>
Environment == mode = "sync" /\ Network /\ UNCHANGED <<mode, benchVars>>

Run ==
    \/ InstallHandlers \/ SetClient \/ cli_connect \/ Started \/ MainReturns
    \/ cli_reconnect \/ cli_close \/ CloseFd \/ cli_reset
    \/ cli_end \/ EndClear \/ EndStop \/ cli_release
    \/ sig_handler \/ Handled \/ exit_handler \/ Exited

Bench == Run /\ UNCHANGED <<mode, syncVars>>
Interrupt == (Callback \/ \E s \in Signals : Signal(s)) /\ UNCHANGED <<mode, syncVars>>

Next == Sync \/ Environment \/ Bench \/ Interrupt

\* The process runs; the kernel answers each call of it, at the latest when
\* the timeout of the socket expires.
Spec == Init /\ [][Next]_vars /\ WF_vars(Sync) /\ WF_vars(Bench)

-----------------------------------------------------------------------------
(* Properties.                                                             *)

\* The client is released at most once and not used afterwards, however many
\* signals interrupt cli_end: the handler of the last one calls exit.  The
\* loop is used after it was deleted only when the first connection failed:
\* main deletes it while the client runs, and exit_handler ends the client.
\* Only then, or in the handler of a signal, does cli_close work on a
\* descriptor that is -1 or closed.
ShutdownExact ==
    \A b \in bad :
        /\ b.what # "client"
        /\ b.what = "loop" => ~b.started
        /\ b.what = "fd" => ~b.started \/ b.signalled

\* A synchronous call returns, unless the server closes the connection before
\* the packet is complete or after more than the packet has been read; then it
\* reads 0 bytes for ever.  A client that was ended, by its last response or a
\* signal, lets the process end.
Ends ==
    /\ mode = "sync" => <>SyncEnded \/ <>[]Spins
    /\ mode = "bench" => ((stop \/ \E k \in DOMAIN stack : stack[k].fn \in {"cli_end", "handled", "exit"})
                            ~> stack = << >>)
=============================================================================
