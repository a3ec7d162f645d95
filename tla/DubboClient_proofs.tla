------------------------- MODULE DubboClient_proofs -------------------------
(***************************************************************************)
(* The safety of DubboClient for every size of the window, of the run and  *)
(* of the packets, and for every combination of faults.                    *)
(***************************************************************************)
EXTENDS DubboClient, TLAPS

(***************************************************************************)
(* The strengthening that makes the properties inductive.                  *)
(***************************************************************************)

\* Where a callback can stand, and what holds there.
Control ==
    /\ pc # "idle" => phase \in {"init", "read", "write", "timers"}
    /\ pc = "pipe" => frame
    /\ frame => pc \in {"connect", "pipe", "flush", "reconnect"}

\* Between callbacks a connected client has used its whole window, and so it
\* has when cli_on_write flushes: cli_pipe_send runs until pipe_left is 0.
WindowUsed ==
    (connected /\ ~frame /\ pc \in {"idle", "flush"}) => pipe_left = 0

\* The run goes on while requests are left to be counted.
Unfinished ==
    /\ (run /\ pc # "end") => req_left > 0
    /\ pc = "end" => req_left = 0

\* cli_connect starts from what cli_close and cli_reset left.
FreshConnect ==
    pc = "connect" =>
        /\ ~connected /\ ~timerid /\ wproc = "none" /\ sock = "closed"
        /\ pipe_left = PipeN /\ rcv = 0 /\ snd = 0
        /\ outq = 0 /\ pend = 0 /\ resq = <<>> /\ beats = 0
        /\ inflight = 0 /\ kin = 0

\* What the client has read of a connection, or can still read, never exceeds
\* what the server has sent on it.
NothingUnsent ==
    pc \notin {"reconnect", "end"} => rcv + kin + inflight <= ResUnits * Len(resq)

ControlParts ==
    /\ OneConnectTimer /\ ReaderConnected /\ NothingAfterEnd /\ WritableNeeded
    /\ Control /\ WindowUsed /\ Unfinished /\ FreshConnect

ControlInv == TypeOK /\ ControlParts /\ NothingUnsent

-----------------------------------------------------------------------------

\* The queue of a new connection.
LEMMA EmptyQueue == <<>> \in Seq(AllKinds) /\ Len(<<>>) = 0
OBVIOUS

\* Every step keeps the types.
LEMMA TypesKept ==
  ASSUME ControlInv, [Next]_vars
  PROVE  TypeOK'
<1> USE SizesAssumption, EnvironmentAssumption
<1> USE DEF ControlInv, ControlParts, TypeOK, cliVars, aeVars, peerVars
<1>1. CASE Reconnect
  <2>1. timerid' = FALSE /\ live' = 0
    BY <1>1 DEF Reconnect, cli_close, NoConnection, cli_reset, cli_clear_timer,
       OneConnectTimer, Flags, Counts
  <2>2. Flags' /\ Places'
    BY <1>1 DEF Reconnect, cli_close, NoConnection, cli_reset, cli_clear_timer, Flags,
       Places
  <2>3. Counts'
    BY <1>1, <2>1, EmptyQueue DEF Reconnect, cli_close, NoConnection, cli_reset,
       cli_clear_timer, Counts
  <2>. QED
    BY <2>2, <2>3
<1>2. CASE ConnectInProgress
  BY <1>2 DEF ConnectInProgress, BackToCaller, CallbackReturns, AfterCallback, Flags,
     Places, Counts
<1>3. CASE ConnectNow
  <2>1. timerid' = FALSE /\ live' = 0
    BY <1>3 DEF ConnectNow, cli_connected, cli_clear_timer, OneConnectTimer, Flags, Counts
  <2>2. Flags' /\ Places'
    BY <1>3 DEF ConnectNow, cli_connected, cli_clear_timer, Flags, Places
  <2>3. Counts'
    BY <1>3, <2>1, EmptyQueue DEF ConnectNow, cli_connected, cli_clear_timer, Counts
  <2>. QED
    BY <2>2, <2>3
<1>4. CASE ConnectFails
  BY <1>4 DEF ConnectFails, BackToCaller, CallbackReturns, AfterCallback, Flags, Places,
     Counts
<1>5. CASE PipeTurn
  BY <1>5 DEF PipeTurn, Flags, Places, Counts
<1>6. CASE PipeDone
  BY <1>6 DEF PipeDone, CallbackReturns, AfterCallback, Flags, Places, Counts
<1>7. CASE WriteAccepted
  BY <1>7 DEF WriteAccepted, Space, BackToCaller, CallbackReturns, AfterCallback, Flags,
     Places, Counts
<1>8. CASE WriteWouldBlock
  BY <1>8 DEF WriteWouldBlock, BackToCaller, CallbackReturns, AfterCallback, Flags, Places,
     Counts
<1>9. CASE WriteFails
  BY <1>9 DEF WriteFails, Flags, Places, Counts
<1>10. CASE End
  <2>1. timerid' = FALSE /\ live' = 0
    BY <1>10 DEF End, cli_close, NoConnection, cli_reset, cli_clear_timer, CallbackReturns,
       AfterCallback, OneConnectTimer, Flags, Counts
  <2>2. Flags' /\ Places'
    BY <1>10 DEF End, cli_close, NoConnection, cli_reset, cli_clear_timer, CallbackReturns,
       AfterCallback, Flags, Places
  <2>3. Counts'
    BY <1>10, <2>1, EmptyQueue DEF End, cli_close, NoConnection, cli_reset,
       cli_clear_timer, CallbackReturns, AfterCallback, Counts
  <2>. QED
    BY <2>2, <2>3
<1>11. CASE Poll
  BY <1>11 DEF Poll, AtLoop, Ready, Flags, Places, Counts
<1>12. CASE TimerFires
  BY <1>12 DEF TimerFires, AtLoop, Flags, Places, Counts
<1>13. CASE NoTimerDue
  BY <1>13 DEF NoTimerDue, AtLoop, Flags, Places, Counts
<1>14. CASE LoopStops
  BY <1>14 DEF LoopStops, AtLoop, Flags, Places, Counts
<1>15. CASE SkipReader
  BY <1>15 DEF SkipReader, AtLoop, Flags, Places, Counts
<1>16. CASE ReadFails
  BY <1>16 DEF ReadFails, AtReader, AtLoop, CallsReader, Flags, Places, Counts
<1>17. CASE ReadRejected
  BY <1>17 DEF ReadRejected, AtReader, AtLoop, CallsReader, Received, Flags, Places, Counts
<1>18. CASE ReadIncomplete
  BY <1>18 DEF ReadIncomplete, AtReader, AtLoop, CallsReader, Received, remaining,
     CallbackReturns, AfterCallback, Flags, Places, Counts
<1>19. CASE ReadResponse
  <2>1. Flags'
    BY <1>19 DEF ReadResponse, AtReader, AtLoop, CallsReader, Received, remaining,
       cli_decode_resp, AfterResponse, Flags
  <2>2. Places'
    BY <1>19 DEF ReadResponse, AtReader, AtLoop, CallsReader, Received, remaining,
       cli_decode_resp, AfterResponse, Places
  <2>3. resq # <<>> /\ req_left > 0 /\ pipe_left = 0
    BY <1>19, EmptyQueue DEF AtReader, AtLoop, CallsReader, NothingUnsent, Counts,
       ReadResponse, Unfinished, WindowUsed, Control, NothingAfterEnd
  <2>4. Counts'
    BY <1>19, <2>3 DEF ReadResponse, AtReader, AtLoop, CallsReader, Received, remaining,
       cli_decode_resp, AfterResponse, Counts
  <2>. QED
    BY <2>1, <2>2, <2>4
<1>20. CASE SkipWriter
  BY <1>20 DEF SkipWriter, AtLoop, Flags, Places, Counts
<1>21. CASE OnConnect
  <2>1. timerid' = FALSE /\ live' = 0
    BY <1>21 DEF OnConnect, AtLoop, CallsWriter, cli_connected, cli_clear_timer,
       OneConnectTimer, Flags, Counts
  <2>2. Flags' /\ Places'
    BY <1>21 DEF OnConnect, AtLoop, CallsWriter, cli_connected, cli_clear_timer, Flags,
       Places
  <2>3. Counts'
    BY <1>21, <2>1, EmptyQueue DEF OnConnect, AtLoop, CallsWriter, cli_connected,
       cli_clear_timer, Counts
  <2>. QED
    BY <2>2, <2>3
<1>22. CASE OnWrite
  BY <1>22 DEF OnWrite, AtLoop, CallsWriter, Flags, Places, Counts
<1>23. CASE SynAck
  BY <1>23 DEF SynAck, Flags, Places, Counts
<1>24. CASE Refuse
  BY <1>24 DEF Refuse, Flags, Places, Counts
<1>25. CASE ServerReads
  BY <1>25 DEF ServerReads, ServerLives, Flags, Places, Counts
<1>26. CASE ServerAnswersAny
  BY <1>26 DEF ServerAnswersAny, ServerAnswers, ServerLives, Send, Flags, Places, Counts
<1>27. CASE ServerHeartbeat
  <2>1. Flags'
    BY <1>27 DEF ServerHeartbeat, ServerLives, Send, Flags
  <2>2. Places'
    BY <1>27 DEF ServerHeartbeat, ServerLives, Send, Places
  <2>3. Counts'
    BY <1>27, EmptyQueue DEF ServerHeartbeat, ServerLives, Send, Counts, AllKinds
  <2>. QED
    BY <2>1, <2>2, <2>3
<1>28. CASE Deliver
  BY <1>28 DEF Deliver, Flags, Places, Counts
<1>29. CASE ServerCloses
  BY <1>29 DEF ServerCloses, ServerLives, Flags, Places, Counts
<1>30. CASE Reset
  BY <1>30 DEF Reset, Flags, Places, Counts
<1>31. CASE UNCHANGED vars
  BY <1>31 DEF vars, Flags, Places, Counts
<1>. QED
  BY <1>1, <1>2, <1>3, <1>4, <1>5, <1>6, <1>7, <1>8, <1>9, <1>10, <1>11, <1>12, <1>13,
     <1>14, <1>15, <1>16, <1>17, <1>18, <1>19, <1>20, <1>21, <1>22, <1>23, <1>24, <1>25,
     <1>26, <1>27, <1>28, <1>29, <1>30, <1>31
     DEF Next, Client, Callback, Loop, Peer, Exited

\* Every step keeps the timer, the registrations and the place of a callback.
LEMMA ControlKept ==
  ASSUME ControlInv, [Next]_vars
  PROVE  ControlParts'
<1> USE SizesAssumption, EnvironmentAssumption
<1> USE DEF ControlInv, ControlParts, TypeOK, Flags, Places, Counts, OneConnectTimer,
            ReaderConnected, NothingAfterEnd, WritableNeeded, Control, WindowUsed,
            Unfinished, FreshConnect, cliVars, aeVars, peerVars
<1>1. CASE Reconnect
  <2>1. OneConnectTimer'
    BY <1>1 DEF Reconnect, cli_close, NoConnection, cli_reset, cli_clear_timer
  <2>2. ReaderConnected' /\ NothingAfterEnd' /\ Control' /\ WindowUsed' /\ Unfinished'
    BY <1>1, <2>1 DEF Reconnect, cli_close, NoConnection, cli_reset, cli_clear_timer
  <2>3. FreshConnect' /\ WritableNeeded'
    BY <1>1, <2>1 DEF Reconnect, cli_close, NoConnection, cli_reset, cli_clear_timer
  <2>. QED
    BY <2>1, <2>2, <2>3
<1>2. CASE ConnectInProgress
  BY <1>2 DEF ConnectInProgress, BackToCaller, CallbackReturns, AfterCallback
<1>3. CASE ConnectNow
  BY <1>3 DEF ConnectNow, cli_connected, cli_clear_timer
<1>4. CASE ConnectFails
  BY <1>4 DEF ConnectFails, BackToCaller, CallbackReturns, AfterCallback
<1>5. CASE PipeTurn
  BY <1>5 DEF PipeTurn
<1>6. CASE PipeDone
  BY <1>6 DEF PipeDone, CallbackReturns, AfterCallback
<1>7. CASE WriteAccepted
  BY <1>7 DEF WriteAccepted, Space, BackToCaller, CallbackReturns, AfterCallback
<1>8. CASE WriteWouldBlock
  BY <1>8 DEF WriteWouldBlock, BackToCaller, CallbackReturns, AfterCallback
<1>9. CASE WriteFails
  BY <1>9 DEF WriteFails
<1>10. CASE End
  <2>1. OneConnectTimer'
    BY <1>10 DEF End, cli_close, NoConnection, cli_reset, cli_clear_timer, CallbackReturns,
       AfterCallback
  <2>2. ReaderConnected' /\ NothingAfterEnd' /\ Control' /\ WindowUsed' /\ Unfinished'
    BY <1>10, <2>1 DEF End, cli_close, NoConnection, cli_reset, cli_clear_timer,
       CallbackReturns, AfterCallback
  <2>3. FreshConnect' /\ WritableNeeded'
    BY <1>10, <2>1 DEF End, cli_close, NoConnection, cli_reset, cli_clear_timer,
       CallbackReturns, AfterCallback
  <2>. QED
    BY <2>1, <2>2, <2>3
<1>11. CASE Poll
  BY <1>11 DEF Poll, AtLoop, Ready
<1>12. CASE TimerFires
  BY <1>12 DEF TimerFires, AtLoop
<1>13. CASE NoTimerDue
  BY <1>13 DEF NoTimerDue, AtLoop
<1>14. CASE LoopStops
  BY <1>14 DEF LoopStops, AtLoop
<1>15. CASE SkipReader
  BY <1>15 DEF SkipReader, AtLoop
<1>16. CASE ReadFails
  BY <1>16 DEF ReadFails, AtReader, AtLoop, CallsReader
<1>17. CASE ReadRejected
  BY <1>17 DEF ReadRejected, AtReader, AtLoop, CallsReader, Received
<1>18. CASE ReadIncomplete
  BY <1>18 DEF ReadIncomplete, AtReader, AtLoop, CallsReader, Received, remaining,
     CallbackReturns, AfterCallback
<1>19. CASE ReadResponse
  BY <1>19 DEF ReadResponse, AtReader, AtLoop, CallsReader, Received, remaining,
     cli_decode_resp, AfterResponse
<1>20. CASE SkipWriter
  BY <1>20 DEF SkipWriter, AtLoop
<1>21. CASE OnConnect
  BY <1>21 DEF OnConnect, AtLoop, CallsWriter, cli_connected, cli_clear_timer
<1>22. CASE OnWrite
  BY <1>22 DEF OnWrite, AtLoop, CallsWriter
<1>23. CASE SynAck
  BY <1>23 DEF SynAck
<1>24. CASE Refuse
  BY <1>24 DEF Refuse
<1>25. CASE ServerReads
  BY <1>25 DEF ServerReads, ServerLives
<1>26. CASE ServerAnswersAny
  BY <1>26 DEF ServerAnswersAny, ServerAnswers, ServerLives, Send
<1>27. CASE ServerHeartbeat
  BY <1>27 DEF ServerHeartbeat, ServerLives, Send
<1>28. CASE Deliver
  BY <1>28 DEF Deliver
<1>29. CASE ServerCloses
  BY <1>29 DEF ServerCloses, ServerLives
<1>30. CASE Reset
  BY <1>30 DEF Reset
<1>31. CASE UNCHANGED vars
  BY <1>31 DEF vars
<1>. QED
  BY <1>1, <1>2, <1>3, <1>4, <1>5, <1>6, <1>7, <1>8, <1>9, <1>10, <1>11, <1>12, <1>13,
     <1>14, <1>15, <1>16, <1>17, <1>18, <1>19, <1>20, <1>21, <1>22, <1>23, <1>24, <1>25,
     <1>26, <1>27, <1>28, <1>29, <1>30, <1>31
     DEF Next, Client, Callback, Loop, Peer, Exited

\* No step makes the client hold units the server has not sent.
LEMMA StreamKept ==
  ASSUME ControlInv, [Next]_vars
  PROVE  NothingUnsent'
<1> USE SizesAssumption, EnvironmentAssumption
<1> USE DEF ControlInv, ControlParts, TypeOK, Places, Counts, NothingUnsent, cliVars,
            aeVars, peerVars
<1>1. CASE Reconnect
  BY <1>1 DEF Reconnect, cli_close, NoConnection, cli_reset, cli_clear_timer
<1>2. CASE ConnectInProgress
  BY <1>2 DEF ConnectInProgress, BackToCaller, CallbackReturns, AfterCallback
<1>3. CASE ConnectNow
  BY <1>3 DEF ConnectNow, cli_connected, cli_clear_timer
<1>4. CASE ConnectFails
  BY <1>4 DEF ConnectFails, BackToCaller, CallbackReturns, AfterCallback
<1>5. CASE PipeTurn
  BY <1>5 DEF PipeTurn
<1>6. CASE PipeDone
  BY <1>6 DEF PipeDone, CallbackReturns, AfterCallback
<1>7. CASE WriteAccepted
  BY <1>7 DEF WriteAccepted, Space, BackToCaller, CallbackReturns, AfterCallback
<1>8. CASE WriteWouldBlock
  BY <1>8 DEF WriteWouldBlock, BackToCaller, CallbackReturns, AfterCallback
<1>9. CASE WriteFails
  BY <1>9 DEF WriteFails
<1>10. CASE End
  BY <1>10 DEF End, cli_close, NoConnection, cli_reset, cli_clear_timer, CallbackReturns,
     AfterCallback
<1>11. CASE Poll
  BY <1>11 DEF Poll, AtLoop, Ready
<1>12. CASE TimerFires
  BY <1>12 DEF TimerFires, AtLoop
<1>13. CASE NoTimerDue
  BY <1>13 DEF NoTimerDue, AtLoop
<1>14. CASE LoopStops
  BY <1>14 DEF LoopStops, AtLoop
<1>15. CASE SkipReader
  BY <1>15 DEF SkipReader, AtLoop
<1>16. CASE ReadFails
  BY <1>16 DEF ReadFails, AtReader, AtLoop, CallsReader
<1>17. CASE ReadRejected
  BY <1>17 DEF ReadRejected, AtReader, AtLoop, CallsReader, Received
<1>18. CASE ReadIncomplete
  BY <1>18 DEF ReadIncomplete, AtReader, AtLoop, CallsReader, Received, remaining,
     CallbackReturns, AfterCallback
<1>19. CASE ReadResponse
  BY <1>19 DEF ReadResponse, AtReader, AtLoop, CallsReader, Received, remaining,
     cli_decode_resp, AfterResponse
<1>20. CASE SkipWriter
  BY <1>20 DEF SkipWriter, AtLoop
<1>21. CASE OnConnect
  BY <1>21 DEF OnConnect, AtLoop, CallsWriter, cli_connected, cli_clear_timer
<1>22. CASE OnWrite
  BY <1>22 DEF OnWrite, AtLoop, CallsWriter
<1>23. CASE SynAck
  BY <1>23 DEF SynAck
<1>24. CASE Refuse
  BY <1>24 DEF Refuse
<1>25. CASE ServerReads
  BY <1>25 DEF ServerReads, ServerLives
<1>26. CASE ServerAnswersAny
  BY <1>26 DEF ServerAnswersAny, ServerAnswers, ServerLives, Send
<1>27. CASE ServerHeartbeat
  BY <1>27 DEF ServerHeartbeat, ServerLives, Send
<1>28. CASE Deliver
  BY <1>28 DEF Deliver
<1>29. CASE ServerCloses
  BY <1>29 DEF ServerCloses, ServerLives
<1>30. CASE Reset
  BY <1>30 DEF Reset
<1>31. CASE UNCHANGED vars
  BY <1>31 DEF vars
<1>. QED
  BY <1>1, <1>2, <1>3, <1>4, <1>5, <1>6, <1>7, <1>8, <1>9, <1>10, <1>11, <1>12, <1>13,
     <1>14, <1>15, <1>16, <1>17, <1>18, <1>19, <1>20, <1>21, <1>22, <1>23, <1>24, <1>25,
     <1>26, <1>27, <1>28, <1>29, <1>30, <1>31
     DEF Next, Client, Callback, Loop, Peer, Exited

\* The strengthening holds in every state the program reaches.
THEOREM ControlInvariant == Spec => []ControlInv
<1>1. Init => ControlInv
  <2> SUFFICES ASSUME Init PROVE ControlInv
    OBVIOUS
  <2> USE SizesAssumption, EnvironmentAssumption DEF Init
  <2>1. Flags /\ Places
    BY DEF Flags, Places
  <2>2. Counts
    BY EmptyQueue DEF Counts
  <2>3. NothingUnsent
    BY EmptyQueue DEF NothingUnsent
  <2>4. OneConnectTimer /\ ReaderConnected /\ NothingAfterEnd /\ WritableNeeded
    BY DEF OneConnectTimer, ReaderConnected, NothingAfterEnd, WritableNeeded
  <2>5. Control /\ WindowUsed /\ Unfinished /\ FreshConnect
    BY DEF Control, WindowUsed, Unfinished, FreshConnect
  <2>. QED
    BY <2>1, <2>2, <2>3, <2>4, <2>5 DEF ControlInv, TypeOK, ControlParts
<1>2. ControlInv /\ [Next]_vars => ControlInv'
  BY TypesKept, ControlKept, StreamKept DEF ControlInv
<1>. QED
  BY <1>1, <1>2, PTL DEF Spec

-----------------------------------------------------------------------------

\* Every step of the client is a step of RequestWindow or leaves what it speaks
\* of unchanged.
LEMMA StepImplementsWindow ==
  ASSUME ControlInv, [Next]_vars
  PROVE  [Window!WNext]_(Window!wvars)
<1> USE SizesAssumption
<1> USE DEF ControlInv, ControlParts, TypeOK, Counts, Window!WNext, Window!wvars
<1>1. CASE PipeTurn
  <2>1. run /\ req_left > 0
    BY <1>1 DEF PipeTurn, NothingAfterEnd, Unfinished
  <2>. QED
    BY <1>1, <2>1 DEF PipeTurn, Window!Issue
<1>2. CASE ReadResponse
  <2>1. run /\ req_left > 0 /\ pipe_left = 0
    BY <1>2 DEF ReadResponse, AtReader, AtLoop, CallsReader, NothingAfterEnd, Unfinished,
                WindowUsed, Control
  <2>2. pipe_left' = 1 /\ req_left' = req_left - 1 /\ run' = run
    BY <1>2, <2>1 DEF ReadResponse
  <2>. QED
    BY <2>1, <2>2 DEF Window!Count
<1>3. CASE Reconnect
  <2>1. run
    BY <1>3 DEF Reconnect, NothingAfterEnd
  <2>. QED
    BY <1>3, <2>1 DEF Reconnect, cli_close, cli_reset, Window!Lose
<1>4. CASE End
  <2>1. run /\ req_left = 0
    BY <1>4 DEF End, NothingAfterEnd, Unfinished
  <2>. QED
    BY <1>4, <2>1 DEF End, cli_close, cli_reset, Window!Finish
<1>5. CASE ConnectInProgress
  BY <1>5 DEF ConnectInProgress, cliVars
<1>6. CASE ConnectNow
  BY <1>6 DEF ConnectNow, cli_connected, cliVars
<1>7. CASE ConnectFails
  BY <1>7 DEF ConnectFails, cliVars
<1>8. CASE PipeDone
  BY <1>8 DEF PipeDone, cliVars
<1>9. CASE WriteAccepted
  BY <1>9 DEF WriteAccepted, cliVars
<1>10. CASE WriteWouldBlock
  BY <1>10 DEF WriteWouldBlock, cliVars
<1>11. CASE WriteFails
  BY <1>11 DEF WriteFails, cliVars
<1>12. CASE Poll
  BY <1>12 DEF Poll, cliVars
<1>13. CASE TimerFires
  BY <1>13 DEF TimerFires, cliVars
<1>14. CASE NoTimerDue
  BY <1>14 DEF NoTimerDue, cliVars
<1>15. CASE LoopStops
  BY <1>15 DEF LoopStops, cliVars
<1>16. CASE SkipReader
  BY <1>16 DEF SkipReader, cliVars
<1>17. CASE ReadFails
  BY <1>17 DEF ReadFails, cliVars
<1>18. CASE ReadRejected
  BY <1>18 DEF ReadRejected, cliVars
<1>19. CASE ReadIncomplete
  BY <1>19 DEF ReadIncomplete, cliVars
<1>20. CASE SkipWriter
  BY <1>20 DEF SkipWriter, cliVars
<1>21. CASE OnConnect
  BY <1>21 DEF OnConnect, cli_connected, cliVars
<1>22. CASE OnWrite
  BY <1>22 DEF OnWrite, cliVars
<1>23. CASE SynAck
  BY <1>23 DEF SynAck, cliVars
<1>24. CASE Refuse
  BY <1>24 DEF Refuse, cliVars
<1>25. CASE ServerReads
  BY <1>25 DEF ServerReads, cliVars
<1>26. CASE ServerAnswersAny
  BY <1>26 DEF ServerAnswersAny, ServerAnswers, cliVars
<1>27. CASE ServerHeartbeat
  BY <1>27 DEF ServerHeartbeat, cliVars
<1>28. CASE Deliver
  BY <1>28 DEF Deliver, cliVars
<1>29. CASE ServerCloses
  BY <1>29 DEF ServerCloses, cliVars
<1>30. CASE Reset
  BY <1>30 DEF Reset, cliVars
<1>31. CASE UNCHANGED vars
  BY <1>31 DEF vars, cliVars
<1>. QED
  BY <1>1, <1>2, <1>3, <1>4, <1>5, <1>6, <1>7, <1>8, <1>9, <1>10, <1>11, <1>12, <1>13,
     <1>14, <1>15, <1>16, <1>17, <1>18, <1>19, <1>20, <1>21, <1>22, <1>23, <1>24, <1>25,
     <1>26, <1>27, <1>28, <1>29, <1>30, <1>31
     DEF Next, Client, Callback, Loop, Peer, Exited

\* The client keeps the promise of RequestWindow: never more than -c requests
\* under way, each one counted at most once, the run over after -n of them,
\* whatever the network, the server and the connect timer do to cli_on_read,
\* cli_pipe_send, cli_reconnect and cli_end.
THEOREM WindowImplemented == Spec => ImplementsWindow
<1>1. Init => Window!WInit
  <2>1. Init => PipeN - pipe_left = 0 /\ req_left = ReqN
    BY SizesAssumption DEF Init
  <2>2. Init => ~run = FALSE
    BY DEF Init
  <2>. QED
    BY <2>1, <2>2 DEF Window!WInit
<1>2. ControlInv /\ [Next]_vars => [Window!WNext]_(Window!wvars)
  BY StepImplementsWindow
<1>. QED
  BY <1>1, <1>2, ControlInvariant, PTL DEF Spec, ImplementsWindow, Window!WSpec

-----------------------------------------------------------------------------

\* No step gains or loses a credit of the window.
LEMMA WindowStep ==
  ASSUME ControlInv, WindowKept, [Next]_vars
  PROVE  WindowKept'
<1> USE SizesAssumption, EnvironmentAssumption
<1> USE DEF ControlInv, ControlParts, TypeOK, Counts, Places, WindowKept, cliVars, aeVars,
            peerVars, FreshConnect
<1>1. CASE Reconnect
  BY <1>1 DEF Reconnect, cli_close, NoConnection, cli_reset, cli_clear_timer
<1>2. CASE ConnectInProgress
  BY <1>2 DEF ConnectInProgress, BackToCaller, CallbackReturns, AfterCallback
<1>3. CASE ConnectNow
  BY <1>3 DEF ConnectNow, cli_connected, cli_clear_timer
<1>4. CASE ConnectFails
  BY <1>4 DEF ConnectFails, BackToCaller, CallbackReturns, AfterCallback
<1>5. CASE PipeTurn
  BY <1>5 DEF PipeTurn
<1>6. CASE PipeDone
  BY <1>6 DEF PipeDone, CallbackReturns, AfterCallback
<1>7. CASE WriteAccepted
  BY <1>7 DEF WriteAccepted, Space, BackToCaller, CallbackReturns, AfterCallback
<1>8. CASE WriteWouldBlock
  BY <1>8 DEF WriteWouldBlock, BackToCaller, CallbackReturns, AfterCallback
<1>9. CASE WriteFails
  BY <1>9 DEF WriteFails
<1>10. CASE End
  BY <1>10 DEF End, cli_close, NoConnection, cli_reset, cli_clear_timer, CallbackReturns,
     AfterCallback
<1>11. CASE Poll
  BY <1>11 DEF Poll, AtLoop, Ready
<1>12. CASE TimerFires
  BY <1>12 DEF TimerFires, AtLoop
<1>13. CASE NoTimerDue
  BY <1>13 DEF NoTimerDue, AtLoop
<1>14. CASE LoopStops
  BY <1>14 DEF LoopStops, AtLoop
<1>15. CASE SkipReader
  BY <1>15 DEF SkipReader, AtLoop
<1>16. CASE ReadFails
  BY <1>16 DEF ReadFails, AtReader, AtLoop, CallsReader
<1>17. CASE ReadRejected
  BY <1>17 DEF ReadRejected, AtReader, AtLoop, CallsReader, Received
<1>18. CASE ReadIncomplete
  BY <1>18 DEF ReadIncomplete, AtReader, AtLoop, CallsReader, Received, remaining,
     CallbackReturns, AfterCallback
<1>19. CASE ReadResponse
  <2>1. resq # <<>>
    BY <1>19, EmptyQueue DEF ReadResponse, AtReader, AtLoop, NothingUnsent
  <2>2. Len(Tail(resq)) = Len(resq) - 1
    BY <2>1
  <2>3. pc' \notin {"reconnect", "end"} => beats' = beats
    BY <1>19 DEF ReadResponse, AfterResponse
  <2>4. CASE pc' \in {"reconnect", "end"}
    BY <2>4
  <2>5. CASE pc' \notin {"reconnect", "end"}
    <3>1. pipe_left' = pipe_left + 1 /\ pend' = pend
      BY <1>19 DEF ReadResponse
    <3>2. Len(resq') = Len(resq) - 1 /\ Len(resq) \in Nat
      BY <1>19, <2>2 DEF ReadResponse
    <3>3. beats' = beats
      BY <2>3, <2>5
    <3>4. pipe_left' + pend' + Len(resq') - beats' = pipe_left + pend + Len(resq) - beats
      BY <3>1, <3>2, <3>3
    <3>5. UNCHANGED <<sock, fin, snd, outq>> /\ pc = "idle"
      BY <1>19 DEF ReadResponse, AtReader, AtLoop
    <3>. QED
      BY <3>4, <3>5
  <2>. QED
    BY <2>4, <2>5
<1>20. CASE SkipWriter
  BY <1>20 DEF SkipWriter, AtLoop
<1>21. CASE OnConnect
  BY <1>21 DEF OnConnect, AtLoop, CallsWriter, cli_connected, cli_clear_timer
<1>22. CASE OnWrite
  BY <1>22 DEF OnWrite, AtLoop, CallsWriter
<1>23. CASE SynAck
  BY <1>23 DEF SynAck
<1>24. CASE Refuse
  BY <1>24 DEF Refuse
<1>25. CASE ServerReads
  BY <1>25 DEF ServerReads, ServerLives
<1>26. CASE ServerAnswersAny
  BY <1>26 DEF ServerAnswersAny, ServerAnswers, ServerLives, Send
<1>27. CASE ServerHeartbeat
  BY <1>27 DEF ServerHeartbeat, ServerLives, Send
<1>28. CASE Deliver
  BY <1>28 DEF Deliver
<1>29. CASE ServerCloses
  BY <1>29 DEF ServerCloses, ServerLives
<1>30. CASE Reset
  BY <1>30 DEF Reset
<1>31. CASE UNCHANGED vars
  BY <1>31 DEF vars
<1>. QED
  BY <1>1, <1>2, <1>3, <1>4, <1>5, <1>6, <1>7, <1>8, <1>9, <1>10, <1>11, <1>12, <1>13,
     <1>14, <1>15, <1>16, <1>17, <1>18, <1>19, <1>20, <1>21, <1>22, <1>23, <1>24, <1>25,
     <1>26, <1>27, <1>28, <1>29, <1>30, <1>31
     DEF Next, Client, Callback, Loop, Peer, Exited

\* No credit of the window of -c requests is lost or made up while the server
\* lives: cli_pipe_send, cli_on_read and cli_reset balance.
THEOREM WindowInvariant == Spec => []WindowKept
<1>1. Init => WindowKept
  BY EmptyQueue DEF Init, WindowKept
<1>2. ControlInv /\ WindowKept /\ [Next]_vars => WindowKept'
  BY WindowStep
<1>. QED
  BY <1>1, <1>2, ControlInvariant, PTL DEF Spec

-----------------------------------------------------------------------------

\* A connection that may still carry packets carries whole ones.
Aligned ==
    sock \in {"connecting", "established"} =>
        /\ \E k \in Int : snd + outq = ReqUnits * k
        /\ pc \notin {"reconnect", "end"} => rcv + kin + inflight = ResUnits * Len(resq)

\* No step leaves part of a packet behind.
LEMMA AlignedStep ==
  ASSUME ControlInv, Aligned, [Next]_vars
  PROVE  Aligned'
<1> USE SizesAssumption, EnvironmentAssumption
<1> USE DEF ControlInv, ControlParts, TypeOK, Counts, Places, Aligned, cliVars, aeVars,
            peerVars, FreshConnect
<1>1. CASE Reconnect
  BY <1>1 DEF Reconnect, cli_close, NoConnection, cli_reset, cli_clear_timer
<1>2. CASE ConnectInProgress
  BY <1>2 DEF ConnectInProgress, BackToCaller, CallbackReturns, AfterCallback
<1>3. CASE ConnectNow
  BY <1>3 DEF ConnectNow, cli_connected, cli_clear_timer
<1>4. CASE ConnectFails
  BY <1>4 DEF ConnectFails, BackToCaller, CallbackReturns, AfterCallback
<1>5. CASE PipeTurn
  <2> SUFFICES ASSUME sock' \in {"connecting", "established"} PROVE Aligned'
    BY DEF Aligned
  <2>1. PICK k \in Int : snd + outq = ReqUnits * k
    BY <1>5 DEF PipeTurn
  <2>2. snd' + outq' = ReqUnits * (k + 1)
    BY <1>5, <2>1 DEF PipeTurn
  <2>3. \E j \in Int : snd' + outq' = ReqUnits * j
    BY <2>2, k + 1 \in Int
  <2>4. UNCHANGED <<sock, rcv, kin, inflight, resq>>
    BY <1>5 DEF PipeTurn
  <2>5. pc \notin {"reconnect", "end"}
    BY <1>5 DEF PipeTurn
  <2>. QED
    BY <2>3, <2>4, <2>5
<1>6. CASE PipeDone
  BY <1>6 DEF PipeDone, CallbackReturns, AfterCallback
<1>7. CASE WriteAccepted
  <2>1. snd' + outq' = snd + outq
    BY <1>7 DEF WriteAccepted, Space
  <2>2. UNCHANGED <<sock, rcv, kin, inflight, resq>>
    BY <1>7 DEF WriteAccepted
  <2>3. pc \notin {"reconnect", "end"}
    BY <1>7 DEF WriteAccepted
  <2>. QED
    BY <2>1, <2>2, <2>3
<1>8. CASE WriteWouldBlock
  BY <1>8 DEF WriteWouldBlock, BackToCaller, CallbackReturns, AfterCallback
<1>9. CASE WriteFails
  BY <1>9 DEF WriteFails
<1>10. CASE End
  BY <1>10 DEF End, cli_close, NoConnection, cli_reset, cli_clear_timer, CallbackReturns,
     AfterCallback
<1>11. CASE Poll
  BY <1>11 DEF Poll, AtLoop, Ready
<1>12. CASE TimerFires
  BY <1>12 DEF TimerFires, AtLoop
<1>13. CASE NoTimerDue
  BY <1>13 DEF NoTimerDue, AtLoop
<1>14. CASE LoopStops
  BY <1>14 DEF LoopStops, AtLoop
<1>15. CASE SkipReader
  BY <1>15 DEF SkipReader, AtLoop
<1>16. CASE ReadFails
  BY <1>16 DEF ReadFails, AtReader, AtLoop, CallsReader
<1>17. CASE ReadRejected
  BY <1>17 DEF ReadRejected, AtReader, AtLoop, CallsReader, Received
<1>18. CASE ReadIncomplete
  BY <1>18 DEF ReadIncomplete, AtReader, AtLoop, CallsReader, Received, remaining,
     CallbackReturns, AfterCallback
<1>19. CASE ReadResponse
  BY <1>19 DEF ReadResponse, AtReader, AtLoop, CallsReader, Received, remaining,
     cli_decode_resp, AfterResponse
<1>20. CASE SkipWriter
  BY <1>20 DEF SkipWriter, AtLoop
<1>21. CASE OnConnect
  BY <1>21 DEF OnConnect, AtLoop, CallsWriter, cli_connected, cli_clear_timer
<1>22. CASE OnWrite
  BY <1>22 DEF OnWrite, AtLoop, CallsWriter
<1>23. CASE SynAck
  BY <1>23 DEF SynAck
<1>24. CASE Refuse
  BY <1>24 DEF Refuse
<1>25. CASE ServerReads
  <2>1. PICK k \in Int : snd + outq = ReqUnits * k
    BY <1>25 DEF ServerReads, ServerLives
  <2>2. snd' + outq' = ReqUnits * (k - 1)
    BY <1>25, <2>1 DEF ServerReads
  <2>3. \E j \in Int : snd' + outq' = ReqUnits * j
    BY <2>2, k - 1 \in Int
  <2>4. UNCHANGED <<pc, sock, rcv, kin, inflight, resq>>
    BY <1>25 DEF ServerReads
  <2>. QED
    BY <2>3, <2>4
<1>26. CASE ServerAnswersAny
  BY <1>26 DEF ServerAnswersAny, ServerAnswers, ServerLives, Send
<1>27. CASE ServerHeartbeat
  BY <1>27 DEF ServerHeartbeat, ServerLives, Send
<1>28. CASE Deliver
  BY <1>28 DEF Deliver
<1>29. CASE ServerCloses
  BY <1>29 DEF ServerCloses, ServerLives
<1>30. CASE Reset
  BY <1>30 DEF Reset
<1>31. CASE UNCHANGED vars
  BY <1>31 DEF vars
<1>. QED
  BY <1>1, <1>2, <1>3, <1>4, <1>5, <1>6, <1>7, <1>8, <1>9, <1>10, <1>11, <1>12, <1>13,
     <1>14, <1>15, <1>16, <1>17, <1>18, <1>19, <1>20, <1>21, <1>22, <1>23, <1>24, <1>25,
     <1>26, <1>27, <1>28, <1>29, <1>30, <1>31
     DEF Next, Client, Callback, Loop, Peer, Exited

\* A multiple leaves no remainder.
LEMMA MultipleModulo ==
  ASSUME NEW a \in Nat \ {0}, NEW k \in Int
  PROVE  (a * k) % a = 0
OBVIOUS

\* Both byte streams of a connection keep their packet boundaries, across every
\* partial write, partial read and reconnection.
THEOREM FramingInvariant == Spec => []Framed
<1>1. Init => Aligned
  BY DEF Init, Aligned
<1>2. ControlInv /\ Aligned /\ [Next]_vars => Aligned'
  BY AlignedStep
<1>3. Aligned => Framed
  BY MultipleModulo, SizesAssumption DEF Aligned, Framed
<1>. QED
  BY <1>1, <1>2, <1>3, ControlInvariant, PTL DEF Spec

-----------------------------------------------------------------------------

\* No step leaves a socket without a reader and without a timer.
LEMMA HandshakeTimedStep ==
  ASSUME ControlInv, HandshakeTimed, [Next]_vars
  PROVE  HandshakeTimed'
<1> USE DEF ControlInv, ControlParts, FreshConnect, HandshakeTimed, cliVars, aeVars, peerVars
<1>1. CASE Reconnect
  BY <1>1 DEF Reconnect, cli_close, NoConnection, cli_reset, cli_clear_timer
<1>2. CASE ConnectInProgress
  BY <1>2 DEF ConnectInProgress, BackToCaller, CallbackReturns, AfterCallback
<1>3. CASE ConnectNow
  BY <1>3 DEF ConnectNow, cli_connected, cli_clear_timer
<1>4. CASE ConnectFails
  BY <1>4 DEF ConnectFails, BackToCaller, CallbackReturns, AfterCallback
<1>5. CASE PipeTurn
  BY <1>5 DEF PipeTurn
<1>6. CASE PipeDone
  BY <1>6 DEF PipeDone, CallbackReturns, AfterCallback
<1>7. CASE WriteAccepted
  BY <1>7 DEF WriteAccepted, Space, BackToCaller, CallbackReturns, AfterCallback
<1>8. CASE WriteWouldBlock
  BY <1>8 DEF WriteWouldBlock, BackToCaller, CallbackReturns, AfterCallback
<1>9. CASE WriteFails
  BY <1>9 DEF WriteFails
<1>10. CASE End
  BY <1>10 DEF End, cli_close, NoConnection, cli_reset, cli_clear_timer, CallbackReturns,
     AfterCallback
<1>11. CASE Poll
  BY <1>11 DEF Poll, AtLoop, Ready
<1>12. CASE TimerFires
  BY <1>12 DEF TimerFires, AtLoop
<1>13. CASE NoTimerDue
  BY <1>13 DEF NoTimerDue, AtLoop
<1>14. CASE LoopStops
  BY <1>14 DEF LoopStops, AtLoop
<1>15. CASE SkipReader
  BY <1>15 DEF SkipReader, AtLoop
<1>16. CASE ReadFails
  BY <1>16 DEF ReadFails, AtReader, AtLoop, CallsReader
<1>17. CASE ReadRejected
  BY <1>17 DEF ReadRejected, AtReader, AtLoop, CallsReader, Received
<1>18. CASE ReadIncomplete
  BY <1>18 DEF ReadIncomplete, AtReader, AtLoop, CallsReader, Received, remaining,
     CallbackReturns, AfterCallback
<1>19. CASE ReadResponse
  BY <1>19 DEF ReadResponse, AtReader, AtLoop, CallsReader, Received, remaining,
     cli_decode_resp, AfterResponse
<1>20. CASE SkipWriter
  BY <1>20 DEF SkipWriter, AtLoop
<1>21. CASE OnConnect
  BY <1>21 DEF OnConnect, AtLoop, CallsWriter, cli_connected, cli_clear_timer
<1>22. CASE OnWrite
  BY <1>22 DEF OnWrite, AtLoop, CallsWriter
<1>23. CASE SynAck
  BY <1>23 DEF SynAck
<1>24. CASE Refuse
  BY <1>24 DEF Refuse
<1>25. CASE ServerReads
  BY <1>25 DEF ServerReads, ServerLives
<1>26. CASE ServerAnswersAny
  BY <1>26 DEF ServerAnswersAny, ServerAnswers, ServerLives, Send
<1>27. CASE ServerHeartbeat
  BY <1>27 DEF ServerHeartbeat, ServerLives, Send
<1>28. CASE Deliver
  BY <1>28 DEF Deliver
<1>29. CASE ServerCloses
  BY <1>29 DEF ServerCloses, ServerLives
<1>30. CASE Reset
  BY <1>30 DEF Reset
<1>31. CASE UNCHANGED vars
  BY <1>31 DEF vars
<1>. QED
  BY <1>1, <1>2, <1>3, <1>4, <1>5, <1>6, <1>7, <1>8, <1>9, <1>10, <1>11, <1>12, <1>13,
     <1>14, <1>15, <1>16, <1>17, <1>18, <1>19, <1>20, <1>21, <1>22, <1>23, <1>24, <1>25,
     <1>26, <1>27, <1>28, <1>29, <1>30, <1>31
     DEF Next, Client, Callback, Loop, Peer, Exited

\* The connect timer bounds every handshake, whatever fails around the client and
\* whatever cli_write makes of the writable event.
THEOREM HandshakeIsTimed == Spec => []HandshakeTimed
<1>1. Init => HandshakeTimed
  BY DEF Init, HandshakeTimed
<1>2. ControlInv /\ HandshakeTimed /\ [Next]_vars => HandshakeTimed'
  BY HandshakeTimedStep
<1>. QED
  BY <1>1, <1>2, ControlInvariant, PTL DEF Spec

\* A client that owns a socket is always woken: by the reader it registered or
\* by the connect timer, whatever became of its writable event.
THEOREM SocketIsWatched == Spec => []SocketWatched
<1>1. ControlInv /\ HandshakeTimed => SocketWatched
  BY DEF ControlInv, ControlParts, TypeOK, Flags, Counts, OneConnectTimer, ReaderConnected,
         HandshakeTimed, SocketWatched
<1>. QED
  BY <1>1, ControlInvariant, HandshakeIsTimed, PTL

-----------------------------------------------------------------------------

\* The server gives decodable answers only, and sends no heartbeats.
Decodes == ResKinds \subseteq {"ok", "fail"} /\ "heartbeat" \notin Faults

\* Then no other packet is ever on its way, and every response was counted.
OnlyAnswers == Decodes => resq \in Seq({"ok", "fail"})

\* No step counts a response twice or drops one.
LEMMA AccountedStep ==
  ASSUME ControlInv, OnlyAnswers, Accounted, [Next]_vars
  PROVE  OnlyAnswers' /\ Accounted'
<1> USE DEF ControlInv, ControlParts, TypeOK, Counts, FreshConnect, OnlyAnswers,
            Accounted, Decodes, cliVars, aeVars, peerVars
<1>1. CASE Reconnect
  BY <1>1, EmptyQueue DEF Reconnect, cli_close, NoConnection, cli_reset, cli_clear_timer
<1>2. CASE ConnectInProgress
  BY <1>2 DEF ConnectInProgress, BackToCaller, CallbackReturns, AfterCallback
<1>3. CASE ConnectNow
  BY <1>3 DEF ConnectNow, cli_connected, cli_clear_timer
<1>4. CASE ConnectFails
  BY <1>4 DEF ConnectFails, BackToCaller, CallbackReturns, AfterCallback
<1>5. CASE PipeTurn
  BY <1>5 DEF PipeTurn
<1>6. CASE PipeDone
  BY <1>6 DEF PipeDone, CallbackReturns, AfterCallback
<1>7. CASE WriteAccepted
  BY <1>7 DEF WriteAccepted, Space, BackToCaller, CallbackReturns, AfterCallback
<1>8. CASE WriteWouldBlock
  BY <1>8 DEF WriteWouldBlock, BackToCaller, CallbackReturns, AfterCallback
<1>9. CASE WriteFails
  BY <1>9 DEF WriteFails
<1>10. CASE End
  BY <1>10, EmptyQueue DEF End, cli_close, NoConnection, cli_reset, cli_clear_timer,
     CallbackReturns, AfterCallback
<1>11. CASE Poll
  BY <1>11 DEF Poll, AtLoop, Ready
<1>12. CASE TimerFires
  BY <1>12 DEF TimerFires, AtLoop
<1>13. CASE NoTimerDue
  BY <1>13 DEF NoTimerDue, AtLoop
<1>14. CASE LoopStops
  BY <1>14 DEF LoopStops, AtLoop
<1>15. CASE SkipReader
  BY <1>15 DEF SkipReader, AtLoop
<1>16. CASE ReadFails
  BY <1>16 DEF ReadFails, AtReader, AtLoop, CallsReader
<1>17. CASE ReadRejected
  BY <1>17 DEF ReadRejected, AtReader, AtLoop, CallsReader, Received
<1>18. CASE ReadIncomplete
  BY <1>18 DEF ReadIncomplete, AtReader, AtLoop, CallsReader, Received, remaining,
     CallbackReturns, AfterCallback
<1>19. CASE ReadResponse
  <2>1. resq # <<>>
    BY <1>19, SizesAssumption, EmptyQueue DEF ReadResponse, AtReader, AtLoop, NothingUnsent
  <2>2. Decodes => Head(resq) \in {"ok", "fail"} /\ Tail(resq) \in Seq({"ok", "fail"})
    BY <2>1
  <2>3. OnlyAnswers'
    BY <1>19, <2>2 DEF ReadResponse
  <2>4. Decodes => ok_n' = ok_n + 1 /\ ko_n' = ko_n
    BY <1>19, <2>2 DEF ReadResponse, cli_decode_resp
  <2>5. req_left' = req_left - 1
    BY <1>19 DEF ReadResponse
  <2>6. Accounted'
    BY <2>4, <2>5, SizesAssumption
  <2>. QED
    BY <2>3, <2>6
<1>20. CASE SkipWriter
  BY <1>20 DEF SkipWriter, AtLoop
<1>21. CASE OnConnect
  BY <1>21 DEF OnConnect, AtLoop, CallsWriter, cli_connected, cli_clear_timer
<1>22. CASE OnWrite
  BY <1>22 DEF OnWrite, AtLoop, CallsWriter
<1>23. CASE SynAck
  BY <1>23 DEF SynAck
<1>24. CASE Refuse
  BY <1>24 DEF Refuse
<1>25. CASE ServerReads
  BY <1>25 DEF ServerReads, ServerLives
<1>26. CASE ServerAnswersAny
  BY <1>26 DEF ServerAnswersAny, ServerAnswers, ServerLives, Send
<1>27. CASE ServerHeartbeat
  BY <1>27 DEF ServerHeartbeat, ServerLives, Send
<1>28. CASE Deliver
  BY <1>28 DEF Deliver
<1>29. CASE ServerCloses
  BY <1>29 DEF ServerCloses, ServerLives
<1>30. CASE Reset
  BY <1>30 DEF Reset
<1>31. CASE UNCHANGED vars
  BY <1>31 DEF vars
<1>. QED
  BY <1>1, <1>2, <1>3, <1>4, <1>5, <1>6, <1>7, <1>8, <1>9, <1>10, <1>11, <1>12, <1>13,
     <1>14, <1>15, <1>16, <1>17, <1>18, <1>19, <1>20, <1>21, <1>22, <1>23, <1>24, <1>25,
     <1>26, <1>27, <1>28, <1>29, <1>30, <1>31
     DEF Next, Client, Callback, Loop, Peer, Exited

\* REQ of the summary is SUCC plus FAIL for a server whose answers can be
\* decoded: cli_decode_resp counts each response cli_on_read takes exactly once.
THEOREM ResponsesAccounted == Spec => []Accounted
<1>1. Init => OnlyAnswers /\ Accounted
  BY SizesAssumption, EmptyQueue DEF Init, OnlyAnswers, Accounted
<1>2. ControlInv /\ OnlyAnswers /\ Accounted /\ [Next]_vars => OnlyAnswers' /\ Accounted'
  BY AccountedStep
<1>. QED
  BY <1>1, <1>2, ControlInvariant, PTL DEF Spec

-----------------------------------------------------------------------------

\* No writable event stays registered without anything to write, and the early
\* return of cli_write for an empty snd_buf is never taken.
THEOREM WritableIsNeeded == Spec => []WritableNeeded
<1>1. ControlInv => WritableNeeded
  BY DEF ControlInv, ControlParts
<1>. QED
  BY <1>1, ControlInvariant, PTL

\* The variables keep their types; in particular the unconditional increment of
\* pipe_left in cli_on_read never leaves the window.
THEOREM TypeCorrect == Spec => []TypeOK
<1>1. ControlInv => TypeOK
  BY DEF ControlInv
<1>. QED
  BY <1>1, ControlInvariant, PTL

\* No connect timer is leaked by cli_connect, cli_clear_timer and
\* cli_connect_timeout, and none can fire on an established connection.
THEOREM TimerSafe == Spec => []OneConnectTimer
<1>1. ControlInv => OneConnectTimer
  BY DEF ControlInv, ControlParts
<1>. QED
  BY <1>1, ControlInvariant, PTL

\* cli_on_read is registered while the client is connected and only then:
\* assert(cli->connected) of cli_on_read never fails.
THEOREM ReaderSafe == Spec => []ReaderConnected
<1>1. ControlInv => ReaderConnected
  BY DEF ControlInv, ControlParts
<1>. QED
  BY <1>1, ControlInvariant, PTL

\* Nothing calls into the client after cli_end, which runs only when -n requests
\* have been counted.
THEOREM EndSafe == Spec => []NothingAfterEnd
<1>1. ControlInv => NothingAfterEnd
  BY DEF ControlInv, ControlParts
<1>. QED
  BY <1>1, ControlInvariant, PTL

-----------------------------------------------------------------------------
(* What the client does where only some of the faults happen.              *)

\* No handshake is refused, no connection is reset and the server does not
\* close: a write is accepted or answered by EAGAIN.
WritesAccepted == Faults \cap {"refuse", "reset", "fin"} = {}

\* Then cli_pipe_send is never left for a reconnection, and whatever the
\* client writes on is connected and open.
Writing ==
    /\ sock \notin {"refused", "reset"} /\ ~fin
    /\ (frame \/ pc \in {"pipe", "flush"} \/ wproc = "cli_on_write") => connected
    /\ (connected \/ wproc = "cli_on_connect") => sock # "closed"
    /\ pc \in {"connect", "reconnect"} => ~frame
    /\ phase # "aborted"

\* Every step keeps that.
LEMMA WritingStep ==
  ASSUME WritesAccepted, ControlInv, Writing, [Next]_vars
  PROVE  Writing'
<1> USE DEF WritesAccepted, ControlInv, ControlParts, TypeOK, Flags, Places, ReaderConnected,
            Control, NothingAfterEnd, FreshConnect, Writing, cliVars, aeVars, peerVars
<1>1. CASE Reconnect
  BY <1>1 DEF Reconnect, cli_close, NoConnection, cli_reset, cli_clear_timer
<1>2. CASE ConnectInProgress
  BY <1>2 DEF ConnectInProgress, BackToCaller, CallbackReturns, AfterCallback
<1>3. CASE ConnectNow
  BY <1>3 DEF ConnectNow, cli_connected, cli_clear_timer
<1>4. CASE ConnectFails
  BY <1>4 DEF ConnectFails, BackToCaller, CallbackReturns, AfterCallback
<1>5. CASE PipeTurn
  BY <1>5 DEF PipeTurn
<1>6. CASE PipeDone
  BY <1>6 DEF PipeDone, CallbackReturns, AfterCallback
<1>7. CASE WriteAccepted
  BY <1>7 DEF WriteAccepted, Space, BackToCaller, CallbackReturns, AfterCallback
<1>8. CASE WriteWouldBlock
  BY <1>8 DEF WriteWouldBlock, BackToCaller, CallbackReturns, AfterCallback
<1>9. CASE WriteFails
  BY <1>9 DEF WriteFails
<1>10. CASE End
  BY <1>10 DEF End, cli_close, NoConnection, cli_reset, cli_clear_timer,
     CallbackReturns, AfterCallback
<1>11. CASE Poll
  BY <1>11 DEF Poll, AtLoop, Ready
<1>12. CASE TimerFires
  BY <1>12 DEF TimerFires, AtLoop
<1>13. CASE NoTimerDue
  BY <1>13 DEF NoTimerDue, AtLoop
<1>14. CASE LoopStops
  BY <1>14 DEF LoopStops, AtLoop
<1>15. CASE SkipReader
  BY <1>15 DEF SkipReader, AtLoop
<1>16. CASE ReadFails
  BY <1>16 DEF ReadFails, AtReader, AtLoop, CallsReader
<1>17. CASE ReadRejected
  BY <1>17 DEF ReadRejected, AtReader, AtLoop, CallsReader, Received
<1>18. CASE ReadIncomplete
  BY <1>18 DEF ReadIncomplete, AtReader, AtLoop, CallsReader, Received, remaining,
     CallbackReturns, AfterCallback
<1>19. CASE ReadResponse
  BY <1>19 DEF ReadResponse, AtReader, AtLoop, CallsReader, Received, remaining,
     cli_decode_resp, AfterResponse
<1>20. CASE SkipWriter
  BY <1>20 DEF SkipWriter, AtLoop
<1>21. CASE OnConnect
  BY <1>21 DEF OnConnect, AtLoop, CallsWriter, cli_connected, cli_clear_timer
<1>22. CASE OnWrite
  BY <1>22 DEF OnWrite, AtLoop, CallsWriter
<1>23. CASE SynAck
  BY <1>23 DEF SynAck
<1>24. CASE Refuse
  BY <1>24 DEF Refuse
<1>25. CASE ServerReads
  BY <1>25 DEF ServerReads, ServerLives
<1>26. CASE ServerAnswersAny
  BY <1>26 DEF ServerAnswersAny, ServerAnswers, ServerLives, Send
<1>27. CASE ServerHeartbeat
  BY <1>27 DEF ServerHeartbeat, ServerLives, Send
<1>28. CASE Deliver
  BY <1>28 DEF Deliver
<1>29. CASE ServerCloses
  BY <1>29 DEF ServerCloses, ServerLives
<1>30. CASE Reset
  BY <1>30 DEF Reset
<1>31. CASE UNCHANGED vars
  BY <1>31 DEF vars
<1>. QED
  BY <1>1, <1>2, <1>3, <1>4, <1>5, <1>6, <1>7, <1>8, <1>9, <1>10, <1>11, <1>12, <1>13,
     <1>14, <1>15, <1>16, <1>17, <1>18, <1>19, <1>20, <1>21, <1>22, <1>23, <1>24, <1>25,
     <1>26, <1>27, <1>28, <1>29, <1>30, <1>31
     DEF Next, Client, Callback, Loop, Peer, Exited

\* Timeouts, failed connects, heartbeats and rejected packets alone never make
\* assert(cli->connected) of cli_on_write fail: it takes a write that fails
\* inside cli_pipe_send.
THEOREM AssertHolds ==
    ASSUME WritesAccepted
    PROVE  Spec => []NeverAborts
<1>1. Init => Writing
  BY DEF Init, Writing
<1>2. ControlInv /\ Writing /\ [Next]_vars => Writing'
  BY WritingStep
<1>3. Writing => NeverAborts
  BY DEF Writing, NeverAborts
<1>. QED
  BY <1>1, <1>2, <1>3, ControlInvariant, PTL DEF Spec

\* The window is one request, no handshake is refused and no fault resets a
\* connection.  The server may still close, and then a write resets it.
OneSlot == PipeN = 1 /\ Faults \cap {"refuse", "reset"} = {}

\* No packet but heartbeats is on its way to the client.
NoResponse == \A i \in 1 .. Len(resq) : resq[i] = "heartbeat"

\* The one slot of the window: it is open, or its request is on the way to the
\* server, or the server has it, or the response is on the way back.
SlotHeld ==
    /\ sock \in {"connecting", "established"} =>
          /\ pipe_left + pend <= 1 /\ snd + outq <= ReqUnits
          /\ pipe_left + pend > 0 => snd + outq = 0 /\ NoResponse
          /\ snd + outq > 0 => NoResponse
    /\ sock = "reset" => pipe_left = 0 /\ NoResponse
    /\ \A i, j \in 1 .. Len(resq) : resq[i] # "heartbeat" /\ resq[j] # "heartbeat" => i = j

\* So a connection on which cli_pipe_send writes carries nothing that a server
\* which has closed would answer by a reset: its write never fails.
WriteSafe ==
    /\ sock # "refused"
    /\ pc \in {"connect", "reconnect"} => ~frame
    /\ (pc \in {"pipe", "flush"} \/ wproc = "cli_on_write") => connected
    /\ (connected \/ wproc = "cli_on_connect") => sock # "closed"
    /\ (frame /\ pc = "flush") => sock # "reset" /\ outq = 0
    /\ phase # "aborted"

SlotInv == WriteSafe /\ (pc \notin {"reconnect", "end"} => SlotHeld)

\* Every step keeps the first half.
LEMMA WriteSafeStep ==
  ASSUME OneSlot, ControlInv, SlotInv, [Next]_vars
  PROVE  WriteSafe'
<1> USE SizesAssumption
<1> USE DEF OneSlot, ControlInv, ControlParts, TypeOK, Flags, Places, Counts, ReaderConnected,
            Control, NothingAfterEnd, FreshConnect, WriteSafe, SlotInv, SlotHeld,
            cliVars, aeVars, peerVars
<1>1. CASE Reconnect
  BY <1>1 DEF Reconnect, cli_close, NoConnection, cli_reset, cli_clear_timer
<1>2. CASE ConnectInProgress
  BY <1>2 DEF ConnectInProgress, BackToCaller, CallbackReturns, AfterCallback
<1>3. CASE ConnectNow
  BY <1>3 DEF ConnectNow, cli_connected, cli_clear_timer
<1>4. CASE ConnectFails
  BY <1>4 DEF ConnectFails, BackToCaller, CallbackReturns, AfterCallback
<1>5. CASE PipeTurn
  BY <1>5 DEF PipeTurn
<1>6. CASE PipeDone
  BY <1>6 DEF PipeDone, CallbackReturns, AfterCallback
<1>7. CASE WriteAccepted
  BY <1>7 DEF WriteAccepted, Space, BackToCaller, CallbackReturns, AfterCallback
<1>8. CASE WriteWouldBlock
  BY <1>8 DEF WriteWouldBlock, BackToCaller, CallbackReturns, AfterCallback
<1>9. CASE WriteFails
  BY <1>9 DEF WriteFails
<1>10. CASE End
  BY <1>10 DEF End, cli_close, NoConnection, cli_reset, cli_clear_timer,
     CallbackReturns, AfterCallback
<1>11. CASE Poll
  BY <1>11 DEF Poll, AtLoop, Ready
<1>12. CASE TimerFires
  BY <1>12 DEF TimerFires, AtLoop
<1>13. CASE NoTimerDue
  BY <1>13 DEF NoTimerDue, AtLoop
<1>14. CASE LoopStops
  BY <1>14 DEF LoopStops, AtLoop
<1>15. CASE SkipReader
  BY <1>15 DEF SkipReader, AtLoop
<1>16. CASE ReadFails
  BY <1>16 DEF ReadFails, AtReader, AtLoop, CallsReader
<1>17. CASE ReadRejected
  BY <1>17 DEF ReadRejected, AtReader, AtLoop, CallsReader, Received
<1>18. CASE ReadIncomplete
  BY <1>18 DEF ReadIncomplete, AtReader, AtLoop, CallsReader, Received, remaining,
     CallbackReturns, AfterCallback
<1>19. CASE ReadResponse
  BY <1>19 DEF ReadResponse, AtReader, AtLoop, CallsReader, Received, remaining,
     cli_decode_resp, AfterResponse
<1>20. CASE SkipWriter
  BY <1>20 DEF SkipWriter, AtLoop
<1>21. CASE OnConnect
  BY <1>21 DEF OnConnect, AtLoop, CallsWriter, cli_connected, cli_clear_timer
<1>22. CASE OnWrite
  BY <1>22 DEF OnWrite, AtLoop, CallsWriter
<1>23. CASE SynAck
  BY <1>23 DEF SynAck
<1>24. CASE Refuse
  BY <1>24 DEF Refuse
<1>25. CASE ServerReads
  BY <1>25 DEF ServerReads, ServerLives
<1>26. CASE ServerAnswersAny
  BY <1>26 DEF ServerAnswersAny, ServerAnswers, ServerLives, Send
<1>27. CASE ServerHeartbeat
  BY <1>27 DEF ServerHeartbeat, ServerLives, Send
<1>28. CASE Deliver
  BY <1>28 DEF Deliver
<1>29. CASE ServerCloses
  BY <1>29 DEF ServerCloses, ServerLives
<1>30. CASE Reset
  BY <1>30 DEF Reset
<1>31. CASE UNCHANGED vars
  BY <1>31 DEF vars
<1>. QED
  BY <1>1, <1>2, <1>3, <1>4, <1>5, <1>6, <1>7, <1>8, <1>9, <1>10, <1>11, <1>12, <1>13,
     <1>14, <1>15, <1>16, <1>17, <1>18, <1>19, <1>20, <1>21, <1>22, <1>23, <1>24, <1>25,
     <1>26, <1>27, <1>28, <1>29, <1>30, <1>31
     DEF Next, Client, Callback, Loop, Peer, Exited

\* And the second.
LEMMA SlotStep ==
  ASSUME OneSlot, ControlInv, SlotInv, [Next]_vars, pc' \notin {"reconnect", "end"}
  PROVE  SlotHeld'
<1> USE SizesAssumption, EnvironmentAssumption
<1> USE DEF OneSlot, ControlInv, ControlParts, TypeOK, Places, Counts, FreshConnect,
            SlotInv, SlotHeld, NoResponse, cliVars, aeVars, peerVars
<1>1. CASE Reconnect
  BY <1>1 DEF Reconnect, cli_close, NoConnection, cli_reset, cli_clear_timer
<1>2. CASE ConnectInProgress
  BY <1>2 DEF ConnectInProgress, BackToCaller, CallbackReturns, AfterCallback
<1>3. CASE ConnectNow
  BY <1>3 DEF ConnectNow, cli_connected, cli_clear_timer
<1>4. CASE ConnectFails
  BY <1>4 DEF ConnectFails, BackToCaller, CallbackReturns, AfterCallback
<1>5. CASE PipeTurn
  BY <1>5 DEF PipeTurn
<1>6. CASE PipeDone
  BY <1>6 DEF PipeDone, CallbackReturns, AfterCallback
<1>7. CASE WriteAccepted
  BY <1>7 DEF WriteAccepted, Space, BackToCaller, CallbackReturns, AfterCallback
<1>8. CASE WriteWouldBlock
  BY <1>8 DEF WriteWouldBlock, BackToCaller, CallbackReturns, AfterCallback
<1>9. CASE WriteFails
  BY <1>9 DEF WriteFails
<1>10. CASE End
  BY <1>10 DEF End, cli_close, NoConnection, cli_reset, cli_clear_timer,
     CallbackReturns, AfterCallback
<1>11. CASE Poll
  BY <1>11 DEF Poll, AtLoop, Ready
<1>12. CASE TimerFires
  BY <1>12 DEF TimerFires, AtLoop
<1>13. CASE NoTimerDue
  BY <1>13 DEF NoTimerDue, AtLoop
<1>14. CASE LoopStops
  BY <1>14 DEF LoopStops, AtLoop
<1>15. CASE SkipReader
  BY <1>15 DEF SkipReader, AtLoop
<1>16. CASE ReadFails
  BY <1>16 DEF ReadFails, AtReader, AtLoop, CallsReader
<1>17. CASE ReadRejected
  BY <1>17 DEF ReadRejected, AtReader, AtLoop, CallsReader, Received
<1>18. CASE ReadIncomplete
  BY <1>18 DEF ReadIncomplete, AtReader, AtLoop, CallsReader, Received, remaining,
     CallbackReturns, AfterCallback
<1>19. CASE ReadResponse
  <2>1. resq # <<>>
    BY <1>19, EmptyQueue DEF ReadResponse, AtReader, AtLoop, NothingUnsent
  <2>2. resq[1] # "heartbeat" /\ 1 \in 1 .. Len(resq)
    BY <1>19, <2>1 DEF ReadResponse, AfterResponse
  <2>3. Len(resq') = Len(resq) - 1 /\ \A i \in 1 .. Len(resq') : resq'[i] = resq[i + 1]
    BY <1>19, <2>1 DEF ReadResponse
  <2>4. NoResponse'
    <3>1. Len(resq) \in Nat /\ pc = "idle"
      BY <1>19 DEF ReadResponse, AtReader, AtLoop
    <3>2. \A i, j \in 1 .. Len(resq) : resq[i] # "heartbeat" /\ resq[j] # "heartbeat" => i = j
      BY <3>1
    <3>3. \A i \in 1 .. Len(resq') : i + 1 \in 1 .. Len(resq) /\ i + 1 # 1
      BY <2>3, <3>1
    <3>4. \A i \in 1 .. Len(resq') : resq'[i] = "heartbeat"
      BY <2>2, <2>3, <3>2, <3>3
    <3> QED BY <3>4
  <2>5. ~NoResponse
    BY <2>2
  <2>6. UNCHANGED <<sock, snd, outq, pend>> /\ pipe_left' = pipe_left + 1 /\ pc = "idle"
    BY <1>19 DEF ReadResponse, AtReader, AtLoop
  <2> HIDE DEF NoResponse
  <2>7. /\ sock # "reset"
        /\ sock \in {"connecting", "established"} => pipe_left + pend = 0 /\ snd + outq = 0
    BY <2>5, <2>6
  <2>8. \A i, j \in 1 .. Len(resq') : resq'[i] # "heartbeat" /\ resq'[j] # "heartbeat" => i = j
    BY <2>4 DEF NoResponse
  <2> QED BY <2>4, <2>6, <2>7, <2>8
<1>20. CASE SkipWriter
  BY <1>20 DEF SkipWriter, AtLoop
<1>21. CASE OnConnect
  BY <1>21 DEF OnConnect, AtLoop, CallsWriter, cli_connected, cli_clear_timer
<1>22. CASE OnWrite
  BY <1>22 DEF OnWrite, AtLoop, CallsWriter
<1>23. CASE SynAck
  BY <1>23 DEF SynAck
<1>24. CASE Refuse
  BY <1>24 DEF Refuse
<1>25. CASE ServerReads
  BY <1>25 DEF ServerReads, ServerLives
<1>26. CASE ServerAnswersAny
  BY <1>26 DEF ServerAnswersAny, ServerAnswers, ServerLives, Send
<1>27. CASE ServerHeartbeat
  BY <1>27 DEF ServerHeartbeat, ServerLives, Send
<1>28. CASE Deliver
  BY <1>28 DEF Deliver
<1>29. CASE ServerCloses
  BY <1>29 DEF ServerCloses, ServerLives
<1>30. CASE Reset
  BY <1>30 DEF Reset
<1>31. CASE UNCHANGED vars
  BY <1>31 DEF vars
<1>. QED
  BY <1>1, <1>2, <1>3, <1>4, <1>5, <1>6, <1>7, <1>8, <1>9, <1>10, <1>11, <1>12, <1>13,
     <1>14, <1>15, <1>16, <1>17, <1>18, <1>19, <1>20, <1>21, <1>22, <1>23, <1>24, <1>25,
     <1>26, <1>27, <1>28, <1>29, <1>30, <1>31
     DEF Next, Client, Callback, Loop, Peer, Exited

\* With a window of one request the closing of connections by the server does
\* not make assert(cli->connected) of cli_on_write fail either: nothing is
\* outstanding when cli_pipe_send writes, so a connection that dies under the
\* write is always left for a reconnection from cli_on_read or cli_on_write.
THEOREM AssertHoldsForOne ==
    ASSUME OneSlot
    PROVE  Spec => []NeverAborts
<1>1. Init => SlotInv
  BY EmptyQueue, SizesAssumption DEF Init, SlotInv, WriteSafe, SlotHeld, NoResponse, OneSlot
<1>2. ControlInv /\ SlotInv /\ [Next]_vars => SlotInv'
  BY WriteSafeStep, SlotStep DEF SlotInv
<1>3. SlotInv => NeverAborts
  BY DEF SlotInv, WriteSafe, NeverAborts
<1>. QED
  BY <1>1, <1>2, <1>3, ControlInvariant, PTL DEF Spec

\* Nothing goes wrong around the client, the server gives responses that can be
\* decoded, and no read ends inside a header.
Undisturbed ==
    /\ Faults \subseteq {"immediate"}
    /\ ResKinds \subseteq {"ok", "fail"}
    /\ HdrUnits = 1

\* Then the one handshake is answered in its turn, the event epoll reports
\* for the reader is never stale, and there is no reason to reconnect.
Smooth ==
    /\ resq \in Seq({"ok", "fail"})
    /\ pc # "reconnect"
    /\ sock = "closed" => pc = "connect" \/ ~run
    /\ pc = "connect" => phase = "init" /\ fired = {}
    /\ sock = "connecting" =>
          pc = "idle" /\ timerid /\ wproc = "cli_on_connect" /\ "W" \notin fired
    /\ (AtLoop("read") /\ CallsReader) => kin > 0

\* Every step keeps that.
LEMMA SmoothStep ==
  ASSUME Undisturbed, ControlInv, Writing, Smooth, [Next]_vars
  PROVE  Smooth'
<1> USE DEF Undisturbed, ControlInv, ControlParts, TypeOK, Flags, Places, Counts, ReaderConnected,
            Control, NothingAfterEnd, FreshConnect, Writing, Smooth, AtLoop, CallsReader, cliVars,
            aeVars, peerVars
<1>1. CASE Reconnect
  BY <1>1 DEF Reconnect, cli_close, NoConnection, cli_reset, cli_clear_timer
<1>2. CASE ConnectInProgress
  BY <1>2 DEF ConnectInProgress, BackToCaller, CallbackReturns, AfterCallback
<1>3. CASE ConnectNow
  BY <1>3 DEF ConnectNow, cli_connected, cli_clear_timer
<1>4. CASE ConnectFails
  BY <1>4 DEF ConnectFails, BackToCaller, CallbackReturns, AfterCallback
<1>5. CASE PipeTurn
  BY <1>5 DEF PipeTurn
<1>6. CASE PipeDone
  BY <1>6 DEF PipeDone, CallbackReturns, AfterCallback
<1>7. CASE WriteAccepted
  BY <1>7 DEF WriteAccepted, Space, BackToCaller, CallbackReturns, AfterCallback
<1>8. CASE WriteWouldBlock
  BY <1>8 DEF WriteWouldBlock, BackToCaller, CallbackReturns, AfterCallback
<1>9. CASE WriteFails
  BY <1>9 DEF WriteFails
<1>10. CASE End
  BY <1>10 DEF End, cli_close, NoConnection, cli_reset, cli_clear_timer,
     CallbackReturns, AfterCallback
<1>11. CASE Poll
  BY <1>11 DEF Poll, AtLoop, Ready, Broken
<1>12. CASE TimerFires
  BY <1>12 DEF TimerFires, AtLoop
<1>13. CASE NoTimerDue
  BY <1>13 DEF NoTimerDue, AtLoop
<1>14. CASE LoopStops
  BY <1>14 DEF LoopStops, AtLoop
<1>15. CASE SkipReader
  BY <1>15 DEF SkipReader, AtLoop
<1>16. CASE ReadFails
  BY <1>16 DEF ReadFails, AtReader, AtLoop, CallsReader
<1>17. CASE ReadRejected
  <2>1. resq # <<>> /\ Received >= HdrUnits
    BY <1>17, SizesAssumption, EmptyQueue DEF ReadRejected, AtReader, NothingUnsent, Received
  <2>2. Head(resq) \in {"ok", "fail"}
    BY <2>1
  <2>. QED
    BY <1>17, <2>1, <2>2 DEF ReadRejected, Received
<1>18. CASE ReadIncomplete
  BY <1>18 DEF ReadIncomplete, AtReader, AtLoop, CallsReader, Received, remaining,
     CallbackReturns, AfterCallback
<1>19. CASE ReadResponse
  <2>1. resq # <<>>
    BY <1>19, SizesAssumption, EmptyQueue DEF ReadResponse, AtReader, NothingUnsent
  <2>2. Head(resq) \in {"ok", "fail"} /\ Tail(resq) \in Seq({"ok", "fail"})
    BY <2>1
  <2>. QED
    BY <1>19, <2>2 DEF ReadResponse, AtReader, AfterResponse
<1>20. CASE SkipWriter
  BY <1>20 DEF SkipWriter, AtLoop
<1>21. CASE OnConnect
  BY <1>21 DEF OnConnect, AtLoop, CallsWriter, cli_connected, cli_clear_timer
<1>22. CASE OnWrite
  BY <1>22 DEF OnWrite, AtLoop, CallsWriter
<1>23. CASE SynAck
  BY <1>23 DEF SynAck
<1>24. CASE Refuse
  BY <1>24 DEF Refuse
<1>25. CASE ServerReads
  BY <1>25 DEF ServerReads, ServerLives
<1>26. CASE ServerAnswersAny
  BY <1>26 DEF ServerAnswersAny, ServerAnswers, ServerLives, Send
<1>27. CASE ServerHeartbeat
  BY <1>27 DEF ServerHeartbeat, ServerLives, Send
<1>28. CASE Deliver
  BY <1>28 DEF Deliver
<1>29. CASE ServerCloses
  BY <1>29 DEF ServerCloses, ServerLives
<1>30. CASE Reset
  BY <1>30 DEF Reset
<1>31. CASE UNCHANGED vars
  BY <1>31 DEF vars
<1>. QED
  BY <1>1, <1>2, <1>3, <1>4, <1>5, <1>6, <1>7, <1>8, <1>9, <1>10, <1>11, <1>12, <1>13,
     <1>14, <1>15, <1>16, <1>17, <1>18, <1>19, <1>20, <1>21, <1>22, <1>23, <1>24, <1>25,
     <1>26, <1>27, <1>28, <1>29, <1>30, <1>31
     DEF Next, Client, Callback, Loop, Peer, Exited

\* Where nothing goes wrong, the client keeps its one connection to the end.
THEOREM KeepsConnection ==
    ASSUME Undisturbed
    PROVE  Spec => []NeverReconnects
<1>1. Init => Writing /\ Smooth
  BY EmptyQueue DEF Init, Writing, Smooth, AtLoop, CallsReader
<1>2. ControlInv /\ Writing /\ Smooth /\ [Next]_vars => Writing' /\ Smooth'
  BY WritingStep, SmoothStep DEF Undisturbed, WritesAccepted
<1>3. Smooth => NeverReconnects
  BY DEF Smooth, NeverReconnects
<1>. QED
  BY <1>1, <1>2, <1>3, ControlInvariant, PTL DEF Spec

=============================================================================
