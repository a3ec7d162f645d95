---------------------------- MODULE Process_proofs ----------------------------
(***************************************************************************)
(* The synchronous call for every size of header, request, body and        *)
(* surplus, and the end of the client under any number of signals.         *)
(***************************************************************************)
EXTENDS Process, SequenceTheorems, TLAPS

-----------------------------------------------------------------------------
(* The synchronous call.                                                   *)

SyncTypes ==
    /\ answer \in [body : Bodies, surplus : Surplus, kind : Kinds]
    /\ got \in Nat /\ arrived \in Nat /\ coming \in Nat /\ remaining \in Int

\* A request with its strings and the array, and its buffer.
Request == {"req", "service", "method", "arr"}
Encoded == Request \cup {"buf"}

\* What a call that has connected has left when it has returned.
Unreleased == IF printed THEN LeftByAnswer(answer.kind) ELSE {}

\* What is still to be read is counted from the first read on, what was printed
\* is the packet, and heap and socket are what the place in the code says.
SyncInv ==
    /\ SyncTypes
    /\ at \in {"create", "encode", "connect", "send", "first read"} => got = 0
    /\ at = "more" => remaining = Packet - got
    /\ printed => at \in {"release", "returned"} /\ got = Packet /\ Decodes
    /\ at \in {"create", "encode", "connect"} => sockfd = "none"
    /\ at \in {"send", "first read", "more"} => sockfd = "open"
    /\ at = "create" => heap = {}
    /\ at = "encode" => heap = Request
    /\ at \in {"connect", "send", "first read", "more"} => heap = Encoded
    /\ at = "release" => heap = Encoded \cup Unreleased
    /\ at = "returned" =>
          \/ sockfd # "open" /\ heap = {"service", "method", "arr"} \cup Unreleased
          \/ sockfd = "none" /\ heap \in {{"req", "service", "method"}, Request}
          \/ sockfd = "open" /\ ~Decodes /\ got = Packet /\ heap = Encoded \cup LeftByAnswer(answer.kind)

\* The sizes of a packet.
LEMMA PacketType ==
    ASSUME SyncTypes
    PROVE  Packet \in Nat
<1>1. answer.body \in Bodies
  BY DEF SyncTypes
<1>2. answer.body \in Nat /\ Hdr \in Nat
  BY <1>1, SyncAssumption
<1> QED
  BY <1>2 DEF Packet

\* A read adds to the bytes received, of this connection and this answer.
LEMMA ReceivesType ==
    ASSUME SyncTypes, NEW n, Receives(n)
    PROVE  /\ n \in Nat /\ got' = got + n /\ got' \in Nat /\ arrived' \in Nat
           /\ Packet' = Packet
           /\ UNCHANGED <<sockfd, sent, printed, heap, answer, coming>>
BY DEF Receives, SyncTypes, Packet

\* Each step of the call keeps the invariant.
LEMMA CallStep ==
    ASSUME SyncInv, InvokeSync
    PROVE  SyncInv'
<1>1. SyncTypes /\ Packet \in Nat
  BY PacketType DEF SyncInv
<1>2. CASE CreateRequest
  BY <1>2 DEF SyncInv, SyncTypes, CreateRequest, local, net, Packet, Request, Encoded,
              Unreleased, Decodes
<1>3. CASE EncodeRequest
  BY <1>3 DEF SyncInv, SyncTypes, EncodeRequest, local, net, Packet, Request, Encoded,
              Unreleased, Decodes
<1>4. CASE Connect
  BY <1>4 DEF SyncInv, SyncTypes, Connect, local, net, Packet, Request, Encoded,
              Unreleased, Decodes
<1>5. CASE Send
  BY <1>5 DEF SyncInv, SyncTypes, Send, net, Packet, Request, Encoded,
              Unreleased, Decodes
<1>6. CASE SendFails
  BY <1>6 DEF SyncInv, SyncTypes, SendFails, local, net, Packet, Request, Encoded,
              Unreleased, Decodes
<1>7. CASE FirstRead
  <2>1. PICK n \in 0 .. arrived :
            /\ Receives(n)
            /\ at' = IF n < Hdr THEN "release" ELSE "more"
            /\ remaining' = IF n < Hdr THEN remaining ELSE Packet - n
    BY <1>7 DEF FirstRead
  <2>2. /\ n \in Nat /\ got' = got + n /\ got' \in Nat /\ arrived' \in Nat
        /\ Packet' = Packet
        /\ UNCHANGED <<sockfd, sent, printed, heap, answer, coming>>
    BY <1>1, <2>1, ReceivesType
  <2>3. at = "first read" /\ got = 0 /\ ~printed
    BY <1>7 DEF FirstRead, SyncInv
  <2>4. SyncTypes'
    BY <1>1, <2>1, <2>2 DEF SyncTypes
  <2>5. at' = "more" => remaining' = Packet' - got'
    <3>1. CASE n < Hdr
      BY <2>1, <3>1
    <3>2. CASE ~(n < Hdr)
      <4>1. remaining' = Packet - n
        BY <2>1, <3>2, Zenon
      <4>2. got' = n
        <5>1. n \in Nat /\ got' = got + n /\ got = 0
          BY <2>2, <2>3, Zenon
        <5> QED
          BY <5>1
      <4> QED
        BY <2>2, <4>1, <4>2, Zenon
    <3> QED
      BY <3>1, <3>2
  <2> QED
    BY <2>1, <2>2, <2>3, <2>4, <2>5 DEF SyncInv, Unreleased
<1>8. CASE ReadMore
  <2>1. PICK n \in 0 .. arrived : Receives(n) /\ remaining' = remaining - n
    BY <1>8 DEF ReadMore
  <2>2. /\ n \in Nat /\ got' = got + n /\ got' \in Nat /\ arrived' \in Nat
        /\ Packet' = Packet
        /\ UNCHANGED <<sockfd, sent, printed, heap, answer, coming>>
    BY <1>1, <2>1, ReceivesType
  <2>3. at = "more" /\ at' = at /\ remaining' = remaining - n
    BY <1>8, <2>1 DEF ReadMore
  <2>4. remaining = Packet - got /\ ~printed
    BY <2>3 DEF SyncInv
  <2>5. SyncTypes'
    BY <1>1, <2>2, <2>3 DEF SyncTypes
  <2>6. remaining' = Packet' - got'
    BY <1>1, <2>2, <2>3, <2>4 DEF SyncTypes
  <2> QED
    BY <2>2, <2>3, <2>4, <2>5, <2>6 DEF SyncInv
<1>9. CASE ReadGivesUp
  BY <1>9 DEF SyncInv, SyncTypes, ReadGivesUp, local, net, Packet, Request, Encoded,
              Unreleased, Decodes
<1>10. CASE DecodeAndPrint
  <2>1. /\ at = "more" /\ remaining = 0 /\ printed' = Decodes /\ at' = IF Decodes THEN "release" ELSE "returned"
        /\ heap' = heap \cup LeftByAnswer(answer.kind)
        /\ UNCHANGED <<sockfd, sent, got, remaining, answer, arrived, coming>>
    BY <1>10 DEF DecodeAndPrint, net
  <2>2. remaining = Packet - got /\ sockfd = "open" /\ heap = Encoded /\ got \in Nat
    BY <2>1 DEF SyncInv, SyncTypes
  <2>3. got' = Packet'
    <3>1. Packet - got = 0 /\ got' = got /\ Packet' = Packet
      BY <2>1, <2>2 DEF Packet
    <3> QED
      BY <1>1, <2>2, <3>1
  <2>4. heap' = Encoded \cup LeftByAnswer(answer'.kind) /\ (printed' <=> Decodes')
    BY <2>1, <2>2 DEF Decodes
  <2>5. SyncTypes'
    BY <1>1, <2>1 DEF SyncTypes
  <2>6. CASE Decodes
    BY <2>1, <2>2, <2>3, <2>4, <2>5, <2>6 DEF SyncInv, Unreleased, Decodes
  <2>7. CASE ~Decodes
    BY <2>1, <2>2, <2>3, <2>4, <2>5, <2>7 DEF SyncInv, Decodes
  <2> QED
    BY <2>6, <2>7
<1>11. CASE Release
  <2>1. /\ at = "release" /\ at' = "returned" /\ heap' = heap \ {"req", "buf"} /\ sockfd' # "open"
        /\ UNCHANGED <<got, remaining, printed, answer, arrived, coming>>
    BY <1>11 DEF Release, local, net
  <2>2. heap = Encoded \cup Unreleased /\ (printed => got = Packet /\ Decodes)
    BY <2>1 DEF SyncInv
  <2>3. Unreleased \subseteq {"desc", "text"}
    BY DEF Unreleased, LeftByAnswer
  <2>4. heap' = {"service", "method", "arr"} \cup Unreleased
    BY <2>1, <2>2, <2>3 DEF Encoded, Request
  <2>5. SyncTypes' /\ Unreleased' = Unreleased /\ Packet' = Packet /\ (Decodes' <=> Decodes)
    BY <1>1, <2>1 DEF SyncTypes, Unreleased, Packet, Decodes
  <2> QED
    BY <2>1, <2>2, <2>4, <2>5 DEF SyncInv
<1> QED
  BY <1>2, <1>3, <1>4, <1>5, <1>6, <1>7, <1>8, <1>9, <1>10, <1>11 DEF InvokeSync

\* So does the network, which only moves bytes.
LEMMA NetworkStep ==
    ASSUME SyncInv, Network
    PROVE  SyncInv'
<1>1. CASE Deliver
  <2>1. PICK n \in 1 .. coming : arrived' = arrived + n /\ coming' = coming - n
    BY <1>1 DEF Deliver
  <2>2. SyncTypes /\ arrived \in Nat /\ coming \in Nat
    BY DEF SyncInv, SyncTypes
  <2>3. arrived' \in Nat /\ coming' \in Nat
    BY <2>1, <2>2
  <2>4. UNCHANGED <<at, sockfd, got, remaining, printed, heap, answer>>
    BY <1>1 DEF Deliver, local
  <2> QED
    BY <2>3, <2>4 DEF SyncInv, SyncTypes, Packet, Unreleased, Decodes
<1>2. CASE ServerCloses
  BY <1>2 DEF SyncInv, SyncTypes, ServerCloses, local, Packet, Unreleased, Decodes
<1>3. CASE Reset
  BY <1>3 DEF SyncInv, SyncTypes, Reset, local, Packet, Unreleased, Decodes
<1> QED
  BY <1>1, <1>2, <1>3 DEF Network

\* The synchronous call prints whole packets only, and leaves what SyncExact says:
\* two strings and an array of every request, and more where it returns early.
THEOREM SyncCorrect == Spec => []SyncExact
<1>1. Init => SyncInv
  <2> SUFFICES ASSUME Init PROVE SyncInv
    OBVIOUS
  <2>1. /\ at = "create" /\ sockfd = "none" /\ heap = {} /\ got = 0 /\ remaining = 0
        /\ printed = FALSE /\ arrived = 0 /\ coming = Packet + answer.surplus
        /\ answer \in [body : Bodies, surplus : Surplus, kind : Kinds]
    BY Zenon DEF Init, InitSync
  <2>2. answer.body \in Nat /\ answer.surplus \in Nat /\ Hdr \in Nat
    BY <2>1, SyncAssumption
  <2>3. coming \in Nat
    BY <2>1, <2>2 DEF Packet
  <2> QED
    BY <2>1, <2>3 DEF SyncInv, SyncTypes
<1>2. SyncInv /\ [Next]_vars => SyncInv'
  <2> SUFFICES ASSUME SyncInv, [Next]_vars PROVE SyncInv'
    OBVIOUS
  <2>1. ASSUME UNCHANGED syncVars PROVE SyncInv'
    BY <2>1 DEF SyncInv, SyncTypes, syncVars, local, net, Packet, Unreleased, Decodes
  <2> QED
    BY <2>1, CallStep, NetworkStep, Zenon DEF Next, Sync, Environment, Bench, Interrupt, vars
<1>3. SyncInv => SyncExact
  BY DEF SyncInv, SyncExact, Request, Encoded, Unreleased
<1> QED
  BY <1>1, <1>2, <1>3, PTL DEF Spec

-----------------------------------------------------------------------------
(* The stack of functions.                                                 *)

Starting == {"cli_start", "cli_start_set"}
Base == Starting \cup {"started", "aeMain", "exit", "exited"}
Ending == {"cli_end", "end_clear", "end_stop", "end_release"}
Closing == {"cli_close", "close", "reset"}
Handler == {"sig_handler", "handled"}
ClientCode == Ending \cup Closing \cup {"cli_connect", "cli_reconnect"}

\* A function at label f may be called from one at label b; a handler from anywhere.
May(b, f) ==
    \/ f \in Handler
    \/ f = "cli_connect" /\ b \in {"started", "aeMain"}
    \/ f = "cli_reconnect" /\ b = "aeMain"
    \/ f \in Closing /\ b \in {"end_clear", "cli_connect"}
    \/ f \in Ending /\ b \in {"aeMain", "handled", "exited"}

Labels == Base \cup ClientCode \cup Handler
FrameType == [fn : Labels, sig : Signals \cup {"none"}]

\* main at the bottom, and every function on top of one that calls it.
Shape ==
    /\ stack \in Seq(FrameType)
    /\ stack # << >> => stack[1].fn \in Base
    /\ \A k \in 2 .. Len(stack) : May(stack[k - 1].fn, stack[k].fn)

\* A function at this label may stand where the innermost one is.
Fits(l) ==
    \/ l \in Base /\ Len(stack) = 1
    \/ Len(stack) > 1 /\ May(stack[Len(stack) - 1].fn, l)

\* The innermost function, and the frames below it.
LEMMA StackTop ==
    ASSUME Shape, stack # << >>
    PROVE  /\ Len(stack) \in Nat /\ Len(stack) >= 1
           /\ \A k \in 1 .. Len(stack) : stack[k] \in FrameType
           /\ Top = stack[Len(stack)] /\ Top \in FrameType
           /\ Pop \in Seq(FrameType) /\ Len(Pop) = Len(stack) - 1
           /\ \A k \in 1 .. Len(stack) - 1 : Pop[k] = stack[k]
<1>1. stack \in Seq(FrameType) /\ Len(stack) \in Nat /\ Len(stack) >= 1
  BY DEF Shape
<1>2. \A k \in 1 .. Len(stack) : stack[k] \in FrameType
  BY <1>1
<1>3. Top = stack[Len(stack)] /\ Top \in FrameType
  BY <1>1, <1>2 DEF Top
<1>4. /\ Pop \in Seq(FrameType) /\ Len(Pop) = Len(stack) - 1
      /\ \A k \in 1 .. Len(stack) - 1 : Pop[k] = stack[k]
  <2> DEFINE m == Len(stack) - 1
  <2>1. 1 \in Int /\ m \in Int /\ m >= 0 /\ \A k \in 1 .. m : stack[k] \in FrameType
    BY <1>1, <1>2
  <2> HIDE DEF m
  <2>2. /\ SubSeq(stack, 1, m) \in Seq(FrameType)
        /\ Len(SubSeq(stack, 1, m)) = IF 1 <= m THEN m - 1 + 1 ELSE 0
        /\ \A k \in 1 .. m - 1 + 1 : SubSeq(stack, 1, m)[k] = stack[1 + k - 1]
    BY <2>1, SubSeqProperties
  <2>3. Pop = SubSeq(stack, 1, m)
    BY DEF Pop, m
  <2>4. Pop \in Seq(FrameType) /\ Len(Pop) = m
    BY <2>1, <2>2, <2>3
  <2>5. ASSUME NEW k \in 1 .. m PROVE Pop[k] = stack[k]
    <3>1. k \in 1 .. m - 1 + 1 /\ 1 + k - 1 = k
      BY <2>1
    <3> QED
      BY <2>2, <2>3, <3>1
  <2> QED
    BY <2>4, <2>5 DEF m
<1> QED
  BY <1>1, <1>2, <1>3, <1>4

\* A label of main is the first frame, and so the innermost one stands alone.
LEMMA BaseFirst ==
    ASSUME Shape, NEW k \in 1 .. Len(stack), stack[k].fn \in Base
    PROVE  k = 1
<1>1. SUFFICES ASSUME k # 1 PROVE FALSE
  OBVIOUS
<1>2. k \in 2 .. Len(stack)
  BY <1>1 DEF Shape
<1>3. May(stack[k - 1].fn, stack[k].fn)
  BY <1>2 DEF Shape
<1> QED
  BY <1>3 DEF May, Base, Starting, Closing, Ending, Handler

\* The innermost frame is replaced.
LEMMA Replaced ==
    ASSUME Shape, stack # << >>, NEW f \in FrameType, Fits(f.fn), stack' = Append(Pop, f)
    PROVE  /\ Shape' /\ Len(stack') = Len(stack) /\ stack'[Len(stack)] = f
           /\ \A k \in 1 .. Len(stack) - 1 : stack'[k] = stack[k]
<1> DEFINE n == Len(stack)
<1>1. /\ n \in Nat /\ n >= 1 /\ Pop \in Seq(FrameType) /\ Len(Pop) = n - 1
      /\ \A k \in 1 .. n - 1 : Pop[k] = stack[k]
  BY StackTop
<1>2. /\ stack' \in Seq(FrameType) /\ Len(stack') = n /\ stack'[n] = f
      /\ \A k \in 1 .. n - 1 : stack'[k] = stack[k]
  BY <1>1
<1> HIDE DEF n
<1>3. stack' # << >> => stack'[1].fn \in Base
  BY <1>1, <1>2 DEF Shape, Fits, n
<1>4. ASSUME NEW k \in 2 .. n PROVE May(stack'[k - 1].fn, stack'[k].fn)
  <2>1. CASE k = n
    <3>1. stack'[n - 1] = stack[n - 1] /\ stack'[n] = f
      BY <1>1, <1>2, <2>1
    <3>2. May(stack[n - 1].fn, f.fn)
      <4>1. Len(stack) # 1
        BY <2>1 DEF n
      <4> QED
        BY <4>1, Zenon DEF n, Fits
    <3> QED
      BY <2>1, <3>1, <3>2, Zenon
  <2>2. CASE k # n
    <3>1. stack'[k - 1] = stack[k - 1] /\ stack'[k] = stack[k]
      BY <1>1, <1>2, <2>2
    <3>2. May(stack[k - 1].fn, stack[k].fn)
      BY <1>1 DEF Shape, n
    <3> QED
      BY <3>1, <3>2, Zenon
  <2> QED
    BY <2>1, <2>2
<1> QED
  BY <1>2, <1>3, <1>4 DEF Shape, n

\* Two frames on top of what is below the innermost one.
LEMMA PairOnTop ==
    ASSUME NEW f \in FrameType, NEW g \in FrameType, Pop \in Seq(FrameType),
           stack' = Pop \o <<f, g>>
    PROVE  /\ stack' \in Seq(FrameType) /\ Len(stack') = Len(Pop) + 2
           /\ stack'[Len(Pop) + 1] = f /\ stack'[Len(Pop) + 2] = g
           /\ \A k \in 1 .. Len(Pop) : stack'[k] = Pop[k]
OBVIOUS

\* The innermost frame is replaced and calls another one.
LEMMA Called ==
    ASSUME Shape, stack # << >>, NEW f \in FrameType, NEW g \in FrameType, Fits(f.fn),
           May(f.fn, g.fn), stack' = Pop \o <<f, g>>
    PROVE  /\ Shape' /\ Len(stack') = Len(stack) + 1
           /\ stack'[Len(stack)] = f /\ stack'[Len(stack) + 1] = g
           /\ \A k \in 1 .. Len(stack) - 1 : stack'[k] = stack[k]
<1> DEFINE n == Len(stack)
<1>1. /\ n \in Nat /\ n >= 1 /\ Pop \in Seq(FrameType) /\ Len(Pop) = n - 1
      /\ \A k \in 1 .. n - 1 : Pop[k] = stack[k]
  BY StackTop
<1>2. /\ stack' \in Seq(FrameType) /\ Len(stack') = n + 1 /\ stack'[n] = f /\ stack'[n + 1] = g
      /\ \A k \in 1 .. n - 1 : stack'[k] = stack[k]
  <2>1. Len(Pop) + 1 = n /\ Len(Pop) + 2 = n + 1
    BY <1>1
  <2>2. /\ stack' \in Seq(FrameType) /\ Len(stack') = Len(Pop) + 2
        /\ stack'[Len(Pop) + 1] = f /\ stack'[Len(Pop) + 2] = g
        /\ \A k \in 1 .. Len(Pop) : stack'[k] = Pop[k]
    BY <1>1, PairOnTop, Zenon
  <2> QED
    BY <1>1, <2>1, <2>2
<1> HIDE DEF n
<1>3. stack' # << >> => stack'[1].fn \in Base
  BY <1>1, <1>2 DEF Shape, Fits, n
<1>4. ASSUME NEW k \in 2 .. n + 1 PROVE May(stack'[k - 1].fn, stack'[k].fn)
  <2>1. CASE k = n + 1
    <3>1. k - 1 = n
      BY <1>1, <2>1
    <3> QED
      BY <1>2, <2>1, <3>1, Zenon
  <2>2. CASE k = n
    <3>1. stack'[n - 1] = stack[n - 1] /\ stack'[n] = f
      BY <1>1, <1>2, <2>2
    <3>2. May(stack[n - 1].fn, f.fn)
      <4>1. Len(stack) # 1
        BY <2>2 DEF n
      <4> QED
        BY <4>1, Zenon DEF n, Fits
    <3> QED
      BY <2>2, <3>1, <3>2, Zenon
  <2>3. CASE k < n
    <3>1. stack'[k - 1] = stack[k - 1] /\ stack'[k] = stack[k]
      BY <1>1, <1>2, <2>3
    <3>2. May(stack[k - 1].fn, stack[k].fn)
      BY <1>1, <2>3 DEF Shape, n
    <3> QED
      BY <3>1, <3>2, Zenon
  <2> QED
    BY <1>1, <2>1, <2>2, <2>3
<1> QED
  BY <1>2, <1>3, <1>4 DEF Shape, n

\* The innermost frame goes.
LEMMA Returned ==
    ASSUME Shape, stack # << >>, Returns
    PROVE  /\ Shape' /\ Len(stack') = Len(stack) - 1
           /\ \A k \in 1 .. Len(stack) - 1 : stack'[k] = stack[k]
<1>1. /\ Len(stack) \in Nat /\ Len(stack) >= 1
      /\ stack' \in Seq(FrameType) /\ Len(stack') = Len(stack) - 1
      /\ \A k \in 1 .. Len(stack) - 1 : stack'[k] = stack[k]
  BY StackTop DEF Returns
<1>2. stack' # << >> => stack'[1].fn \in Base
  BY <1>1 DEF Shape
<1>3. \A k \in 2 .. Len(stack') : May(stack'[k - 1].fn, stack'[k].fn)
  BY <1>1 DEF Shape
<1> QED
  BY <1>1, <1>2, <1>3 DEF Shape

\* A handler comes on top.
LEMMA Interrupted ==
    ASSUME Shape, stack # << >>, NEW f \in FrameType, f.fn \in Handler, stack' = Append(stack, f)
    PROVE  /\ Shape' /\ Len(stack') = Len(stack) + 1 /\ stack'[Len(stack) + 1] = f
           /\ \A k \in 1 .. Len(stack) : stack'[k] = stack[k]
<1>1. /\ Len(stack) \in Nat /\ Len(stack) >= 1
      /\ stack' \in Seq(FrameType) /\ Len(stack') = Len(stack) + 1
      /\ stack'[Len(stack) + 1] = f
      /\ \A k \in 1 .. Len(stack) : stack'[k] = stack[k]
  BY StackTop DEF Shape
<1>2. stack'[1].fn \in Base
  BY <1>1 DEF Shape
<1>3. ASSUME NEW k \in 2 .. Len(stack') PROVE May(stack'[k - 1].fn, stack'[k].fn)
  <2>1. CASE k = Len(stack) + 1
    <3>1. stack'[k].fn \in Handler
      BY <1>1, <2>1
    <3> QED
      BY <3>1 DEF May
  <2>2. CASE k # Len(stack) + 1
    <3>1. stack'[k - 1] = stack[k - 1] /\ stack'[k] = stack[k] /\ k \in 2 .. Len(stack)
      BY <1>1, <2>2
    <3>2. May(stack[k - 1].fn, stack[k].fn)
      BY <3>1 DEF Shape
    <3> QED
      BY <3>1, <3>2, Zenon
  <2> QED
    BY <2>1, <2>2
<1> QED
  BY <1>1, <1>2, <1>3 DEF Shape

-----------------------------------------------------------------------------
(* The end of the client.                                                  *)

\* Until the client is set, signals find nothing to end.
StartInv ==
    (stack # << >> /\ stack[1].fn \in Starting) =>
        /\ ~run /\ ~stop /\ ~started /\ cli # "freed" /\ loop # "freed"
        /\ \A k \in 2 .. Len(stack) : stack[k].fn = "sig_handler"

\* main deletes the loop before exit, and after a start when the client is gone.
LoopInv ==
    /\ (stack # << >> /\ stack[1].fn = "started") => ~started
    /\ loop = "freed" =>
          /\ stack # << >> => stack[1].fn \in {"exit", "exited"}
          /\ ~started \/ cli = "freed"

\* Once the loop is stopped only cli_release is left of the client's end.
StopInv ==
    /\ \A j \in 1 .. Len(stack) : stack[j].fn = "end_release" => stop
    /\ stop => ~run
    /\ (stop /\ cli # "freed") =>
          \E j \in 1 .. Len(stack) :
              /\ stack[j].fn = "end_release"
              /\ \A k \in j + 1 .. Len(stack) : stack[k].fn = "sig_handler"

\* When the client is freed, no function of it will go on: each that is still on
\* the stack is below a handler that calls exit.
FreedInv ==
    cli = "freed" =>
        /\ stop
        /\ \A j \in 1 .. Len(stack) :
              stack[j].fn \in ClientCode =>
                  \E k \in j + 1 .. Len(stack) : stack[k].fn = "handled"

\* Without a signal and after a start, what closes the descriptor finds it open.
CalmInv ==
    /\ signals \in Nat
    /\ signals = 0 => \A j \in 1 .. Len(stack) : stack[j].fn \notin Handler
    /\ (started /\ signals = 0 /\ stack # << >>) =>
          /\ Top.fn \in {"cli_end", "cli_reconnect", "cli_close", "close"} => fd = "open"
          /\ stack[1].fn = "exit" => ~run

EndInv == Shape /\ StartInv /\ LoopInv /\ StopInv /\ FreedInv /\ CalmInv /\ ShutdownExact

\* The stack when nothing runs.
LEMMA EmptyStack == Len(<<>>) = 0
OBVIOUS

\* A use that is wrong only in the ways the code allows.
LEMMA UseAllowed ==
    ASSUME ShutdownExact, NEW wrong \in BOOLEAN, NEW what, Uses(wrong, what),
           wrong => /\ what # "client"
                    /\ what = "loop" => ~started
                    /\ what = "fd" => ~started \/ signals > 0
    PROVE  ShutdownExact'
<1> DEFINE b == [what |-> what, started |-> started, signalled |-> signals > 0]
<1>1. bad' = IF wrong THEN bad \cup {b} ELSE bad
  BY DEF Uses
<1>2. b.what = what /\ b.started = started /\ b.signalled = (signals > 0)
  OBVIOUS
<1> HIDE DEF b
<1>3. ASSUME NEW c \in bad'
      PROVE  /\ c.what # "client"
             /\ c.what = "loop" => ~c.started
             /\ c.what = "fd" => ~c.started \/ c.signalled
  <2>1. CASE c \in bad
    BY <2>1, Zenon DEF ShutdownExact
  <2>2. CASE c \notin bad
    <3>1. wrong /\ c = b
      BY <1>1, <2>2, Zenon
    <3> QED
      BY <1>2, <3>1, Zenon
  <2> QED
    BY <2>1, <2>2, Zenon
<1> QED
  BY <1>3, Zenon DEF ShutdownExact

\* While a function of the client runs it is not freed, and only cli_release
\* runs after the loop was stopped.
LEMMA ClientRuns ==
    ASSUME EndInv, stack # << >>, Top.fn \in ClientCode
    PROVE  /\ Len(stack) >= 2 /\ stack[1].fn \notin Starting
           /\ cli # "freed" /\ (stop => Top.fn = "end_release") /\ (loop = "freed" => ~started)
<1> DEFINE n == Len(stack)
<1>1. n \in Nat /\ n >= 1 /\ Top = stack[n]
  BY StackTop DEF EndInv
<1>2. n >= 2 /\ Top.fn \notin Base \cup Handler
  <2>1. Top.fn \notin Base \cup Handler
    BY DEF ClientCode, Ending, Closing, Base, Starting, Handler
  <2>2. stack[1].fn \in Base
    BY DEF EndInv, Shape
  <2> QED
    BY <1>1, <2>1, <2>2
<1> HIDE DEF n
<1>3. stack[1].fn \notin Starting
  BY <1>1, <1>2 DEF EndInv, StartInv, Handler, n
<1>4. cli # "freed"
  BY <1>1, <1>2 DEF EndInv, FreedInv, n
<1>5. stop => Top.fn = "end_release"
  <2> SUFFICES ASSUME stop PROVE Top.fn = "end_release"
    OBVIOUS
  <2>1. PICK j \in 1 .. n : /\ stack[j].fn = "end_release"
                            /\ \A k \in j + 1 .. n : stack[k].fn = "sig_handler"
    BY <1>4 DEF EndInv, StopInv, n
  <2>2. j = n
    <3>1. SUFFICES ASSUME j # n PROVE FALSE
      OBVIOUS
    <3>2. n \in j + 1 .. n
      BY <1>1, <3>1
    <3> QED
      BY <1>1, <1>2, <2>1, <3>2 DEF Handler
  <2> QED
    BY <1>1, <2>1, <2>2
<1> QED
  BY <1>2, <1>3, <1>4, <1>5 DEF EndInv, LoopInv, n

\* A step from one function of the client to another, or back into one or into
\* main, that leaves what the end of the client is about alone.
StaysInClient ==
    /\ Shape' /\ Len(stack') \in Len(stack) - 1 .. Len(stack) + 1
    /\ \A k \in 1 .. Len(stack) - 1 : stack'[k] = stack[k]
    /\ \A k \in Len(stack) .. Len(stack') : stack'[k].fn \in ClientCode \ {"end_release"}
    /\ UNCHANGED <<started, loop, cli, run, stop, signals>>
    /\ (started /\ signals = 0
           /\ stack'[Len(stack')].fn \in {"cli_end", "cli_reconnect", "cli_close", "close"})
               => fd' = "open"

\* Such a step keeps the invariant, before the loop is stopped.
LEMMA ClientGoesOn ==
    ASSUME EndInv, stack # << >>, Top.fn \in ClientCode \ {"end_release"}, StaysInClient
    PROVE  StartInv' /\ LoopInv' /\ StopInv' /\ FreedInv' /\ CalmInv'
<1> DEFINE n == Len(stack)
<1> HIDE DEF n
<1>1. n \in Nat /\ n >= 2 /\ Len(stack') \in Nat /\ Len(stack') >= 1 /\ Len(stack') <= n + 1
  <2>1. n \in Nat
    BY StackTop DEF EndInv, n
  <2>2. n >= 2
    BY ClientRuns DEF n
  <2>3. Len(stack') \in n - 1 .. n + 1
    BY DEF n, StaysInClient
  <2> QED
    BY <2>1, <2>2, <2>3
<1>2. /\ stack[1].fn \notin Starting /\ cli # "freed" /\ ~stop /\ (loop = "freed" => ~started)
  BY ClientRuns
<1>3. stack'[1] = stack[1] /\ stack' # << >>
  <2>1. 1 \in 1 .. n - 1
    BY <1>1
  <2>2. stack'[1] = stack[1]
    BY <2>1 DEF n, StaysInClient
  <2>3. stack' # << >>
    BY <1>1, EmptyStack
  <2> QED
    BY <2>2, <2>3
<1>4. ASSUME NEW j \in 1 .. Len(stack')
      PROVE  \/ j \in 1 .. n /\ stack'[j] = stack[j]
             \/ stack'[j].fn \in ClientCode \ {"end_release"}
  <2>1. CASE j < n
    <3>1. j \in 1 .. n - 1 /\ j \in 1 .. n
      BY <1>1, <2>1
    <3> QED
      BY <3>1 DEF n, StaysInClient
  <2>2. CASE j >= n
    <3>1. j \in n .. Len(stack')
      BY <1>1, <2>2
    <3> QED
      BY <3>1 DEF n, StaysInClient
  <2> QED
    BY <1>1, <2>1, <2>2
<1>5. StartInv' /\ LoopInv'
  BY <1>2, <1>3 DEF EndInv, StartInv, LoopInv, StaysInClient
<1>6. \A j \in 1 .. Len(stack') : stack'[j].fn # "end_release"
  BY <1>2, <1>4 DEF EndInv, StopInv, n
<1>7. StopInv' /\ FreedInv'
  BY <1>2, <1>6 DEF StopInv, FreedInv, StaysInClient
<1>8. signals = 0 => \A j \in 1 .. Len(stack') : stack'[j].fn \notin Handler
  BY <1>4 DEF EndInv, CalmInv, ClientCode, Ending, Closing, Handler, n
<1>9. CalmInv'
  BY <1>3, <1>8, StackTop DEF EndInv, CalmInv, Top, StaysInClient
<1> QED
  BY <1>5, <1>7, <1>9

-----------------------------------------------------------------------------

\* The function that called the innermost one, unless that is a handler.
LEMMA Caller ==
    ASSUME Shape, stack # << >>, Len(stack) >= 2
    PROVE  /\ May(stack[Len(stack) - 1].fn, Top.fn)
           /\ Top.fn \notin Handler =>
                 stack[Len(stack) - 1].fn \in
                     {"started", "aeMain", "end_clear", "cli_connect", "handled", "exited"}
<1>1. Len(stack) \in 2 .. Len(stack) /\ Top = stack[Len(stack)]
  BY StackTop
<1>2. May(stack[Len(stack) - 1].fn, Top.fn)
  BY <1>1 DEF Shape
<1> QED
  BY <1>2 DEF May

\* The innermost function goes on at another label.
LEMMA GoesTo ==
    ASSUME Shape, stack # << >>, NEW l \in Labels, Fits(l), Goto(l)
    PROVE  /\ Shape' /\ Len(stack') = Len(stack) /\ stack'[Len(stack)].fn = l
           /\ \A k \in 1 .. Len(stack) - 1 : stack'[k] = stack[k]
<1> DEFINE f == [Top EXCEPT !.fn = l]
<1>1. f \in FrameType /\ f.fn = l
  BY StackTop DEF FrameType
<1>2. stack' = Append(Pop, f)
  BY DEF Goto
<1> HIDE DEF f
<1>3. Fits(f.fn)
  BY <1>1, Zenon
<1> QED
  BY <1>1, <1>2, <1>3, Replaced, Zenon

\* It calls another function.
LEMMA Calls ==
    ASSUME Shape, stack # << >>, NEW l \in Labels, NEW c \in Labels, Fits(l), May(l, c),
           CallThen(c, l)
    PROVE  /\ Shape' /\ Len(stack') = Len(stack) + 1
           /\ stack'[Len(stack)].fn = l /\ stack'[Len(stack) + 1].fn = c
           /\ \A k \in 1 .. Len(stack) - 1 : stack'[k] = stack[k]
<1> DEFINE f == [Top EXCEPT !.fn = l]
           g == Frame(c)
<1>1. f \in FrameType /\ f.fn = l
  BY StackTop DEF FrameType
<1>2. g \in FrameType /\ g.fn = c
  BY DEF FrameType, Frame
<1>3. stack' = Pop \o <<f, g>>
  BY DEF CallThen
<1> HIDE DEF f, g
<1>4. Fits(f.fn) /\ May(f.fn, g.fn)
  BY <1>1, <1>2, Zenon
<1> QED
  BY <1>1, <1>2, <1>3, <1>4, Called, Zenon

\* A return to a function of the client or to main.
LEMMA ReturnStays ==
    ASSUME EndInv, stack # << >>, Top.fn \in ClientCode \ {"end_release"}, Returns,
           UNCHANGED <<started, loop, cli, run, stop, signals>>
    PROVE  StaysInClient
<1>1. Shape' /\ Len(stack') = Len(stack) - 1 /\ \A k \in 1 .. Len(stack) - 1 : stack'[k] = stack[k]
  BY Returned DEF EndInv
<1>2. Len(stack) \in Nat /\ Len(stack) >= 2
  BY StackTop, ClientRuns DEF EndInv
<1>3. stack'[Len(stack')] = stack[Len(stack) - 1]
  BY <1>1, <1>2
<1>4. stack[Len(stack) - 1].fn \in
          {"started", "aeMain", "end_clear", "cli_connect", "handled", "exited"}
  BY <1>2, Caller DEF EndInv, ClientCode, Ending, Closing, Handler
<1> QED
  BY <1>1, <1>2, <1>3, <1>4 DEF StaysInClient

\* A label in the place of another one of the client's functions.
LEMMA GotoStays ==
    ASSUME EndInv, stack # << >>, Top.fn \in ClientCode \ {"end_release"},
           NEW l \in ClientCode \ {"end_release", "cli_end", "cli_reconnect", "cli_close"},
           Fits(l), Goto(l), l = "close" /\ started /\ signals = 0 => fd' = "open",
           UNCHANGED <<started, loop, cli, run, stop, signals>>
    PROVE  StaysInClient
<1>1. l \in Labels
  BY DEF Labels
<1>2. /\ Shape' /\ Len(stack') = Len(stack) /\ stack'[Len(stack)].fn = l
      /\ \A k \in 1 .. Len(stack) - 1 : stack'[k] = stack[k]
  BY <1>1, GoesTo, Zenon DEF EndInv
<1>3. Len(stack) \in Nat /\ Len(stack) >= 2
  BY StackTop, ClientRuns DEF EndInv
<1> QED
  BY <1>2, <1>3 DEF StaysInClient

\* cli_connect keeps the invariant.
LEMMA ConnectEnds ==
    ASSUME EndInv, cli_connect
    PROVE  EndInv'
<1>1. stack # << >> /\ Top.fn \in ClientCode \ {"end_release"}
  BY DEF cli_connect, At, ClientCode
<1>2. StaysInClient
  BY <1>1, ReturnStays DEF cli_connect
<1>3. ShutdownExact'
  BY DEF cli_connect, EndInv, ShutdownExact
<1> QED
  BY <1>1, <1>2, <1>3, ClientGoesOn DEF EndInv, StaysInClient

\* cli_reconnect calls cli_close, and cli_connect after it.
LEMMA ReconnectEnds ==
    ASSUME EndInv, cli_reconnect
    PROVE  EndInv'
<1>1. stack # << >> /\ Top.fn = "cli_reconnect" /\ Top.fn \in ClientCode \ {"end_release"}
  BY DEF cli_reconnect, At, ClientCode
<1>2. Len(stack) \in Nat /\ Len(stack) >= 2
  BY <1>1, StackTop, ClientRuns DEF EndInv
<1> DEFINE f == Frame("cli_connect")
           g == Frame("cli_close")
<1>3. f \in FrameType /\ g \in FrameType /\ f.fn = "cli_connect" /\ g.fn = "cli_close"
  BY DEF Frame, FrameType, Labels, ClientCode, Closing
<1>4. stack' = Pop \o <<f, g>>
  BY DEF cli_reconnect
<1> HIDE DEF f, g
<1>5. Fits(f.fn) /\ May(f.fn, g.fn)
  BY <1>1, <1>2, <1>3, Caller DEF EndInv, Fits, May, Handler, Closing, Ending
<1>6. /\ Shape' /\ Len(stack') = Len(stack) + 1
      /\ stack'[Len(stack)] = f /\ stack'[Len(stack) + 1] = g
      /\ \A k \in 1 .. Len(stack) - 1 : stack'[k] = stack[k]
  BY <1>1, <1>3, <1>4, <1>5, Called, Zenon DEF EndInv
<1>7. (started /\ signals = 0) => fd' = "open"
  BY <1>1 DEF EndInv, CalmInv, cli_reconnect
<1>8. StaysInClient
  <2>1. stack'[Len(stack)].fn = "cli_connect" /\ stack'[Len(stack) + 1].fn = "cli_close"
    BY <1>3, <1>6, Zenon
  <2>2. UNCHANGED <<started, loop, cli, run, stop, signals>>
    BY DEF cli_reconnect
  <2> QED
    BY <1>2, <1>6, <1>7, <2>1, <2>2 DEF StaysInClient, ClientCode, Closing
<1>9. ShutdownExact'
  BY DEF cli_reconnect, EndInv, ShutdownExact
<1> QED
  BY <1>1, <1>8, <1>9, ClientGoesOn DEF EndInv, StaysInClient

\* cli_close finds the loop, and the descriptor unless a signal came or nothing started.
LEMMA CloseBegins ==
    ASSUME EndInv, cli_close
    PROVE  EndInv'
<1>1. stack # << >> /\ Top.fn = "cli_close" /\ Top.fn \in ClientCode \ {"end_release"}
  BY DEF cli_close, At, ClientCode, Closing
<1>2. Len(stack) >= 2 /\ (loop = "freed" => ~started)
  BY <1>1, ClientRuns
<1>3. Fits("close")
  BY <1>1, <1>2, Caller DEF EndInv, Fits, May, Handler, Closing, Ending
<1>4. (started /\ signals = 0) => fd = "open"
  BY <1>1 DEF EndInv, CalmInv
<1>5. "close" \in ClientCode \ {"end_release", "cli_end", "cli_reconnect", "cli_close"}
  BY DEF ClientCode, Closing
<1>6. StaysInClient
  BY <1>1, <1>3, <1>4, <1>5, GotoStays DEF cli_close
<1>7. ShutdownExact'
  <2> DEFINE wrong == loop = "freed" \/ fd = "none"
             what == IF loop = "freed" THEN "loop" ELSE "fd"
  <2>1. wrong \in BOOLEAN /\ ShutdownExact /\ Uses(wrong, what)
    BY DEF cli_close, EndInv
  <2>2. wrong => /\ what # "client"
                 /\ what = "loop" => ~started
                 /\ what = "fd" => ~started \/ signals > 0
    BY <1>2, <1>4 DEF EndInv, CalmInv
  <2> HIDE DEF wrong, what
  <2> QED
    BY <2>1, <2>2, UseAllowed, Zenon
<1> QED
  BY <1>1, <1>6, <1>7, ClientGoesOn DEF EndInv, StaysInClient

\* So does the call of close that follows.
LEMMA CloseGoesOn ==
    ASSUME EndInv, CloseFd
    PROVE  EndInv'
<1>1. stack # << >> /\ Top.fn = "close" /\ Top.fn \in ClientCode \ {"end_release"}
  BY DEF CloseFd, At, ClientCode, Closing
<1>2. Len(stack) >= 2
  BY <1>1, ClientRuns
<1>3. Fits("reset")
  BY <1>1, <1>2, Caller DEF EndInv, Fits, May, Handler, Closing, Ending
<1>4. "reset" \in ClientCode \ {"end_release", "cli_end", "cli_reconnect", "cli_close"}
  BY DEF ClientCode, Closing
<1>5. StaysInClient
  BY <1>1, <1>3, <1>4, GotoStays DEF CloseFd
<1>6. ShutdownExact'
  <2> DEFINE wrong == fd # "open"
  <2>1. wrong \in BOOLEAN /\ ShutdownExact /\ Uses(wrong, "fd")
    BY DEF CloseFd, EndInv
  <2>2. wrong => ~started \/ signals > 0
    BY <1>1 DEF EndInv, CalmInv
  <2> HIDE DEF wrong
  <2> QED
    BY <2>1, <2>2, UseAllowed
<1> QED
  BY <1>1, <1>5, <1>6, ClientGoesOn DEF EndInv, StaysInClient

\* cli_reset works on a client that is not freed.
LEMMA ResetEnds ==
    ASSUME EndInv, cli_reset
    PROVE  EndInv'
<1>1. stack # << >> /\ Top.fn \in ClientCode \ {"end_release"}
  BY DEF cli_reset, At, ClientCode, Closing
<1>2. StaysInClient
  BY <1>1, ReturnStays DEF cli_reset
<1>3. ShutdownExact'
  <2> DEFINE wrong == cli = "freed"
  <2>1. wrong \in BOOLEAN /\ ShutdownExact /\ Uses(wrong, "client")
    BY DEF cli_reset, EndInv
  <2>2. ~wrong
    BY <1>1, ClientRuns
  <2> HIDE DEF wrong
  <2> QED
    BY <2>1, <2>2, UseAllowed
<1> QED
  BY <1>1, <1>2, <1>3, ClientGoesOn DEF EndInv, StaysInClient

\* cli_end works on a client that is not freed, and calls cli_close if it runs.
LEMMA EndBegins ==
    ASSUME EndInv, cli_end
    PROVE  EndInv'
<1>1. stack # << >> /\ Top.fn = "cli_end" /\ Top.fn \in ClientCode \ {"end_release"}
  BY DEF cli_end, At, ClientCode, Ending
<1>2. Len(stack) \in Nat /\ Len(stack) >= 2 /\ cli # "freed"
  BY <1>1, StackTop, ClientRuns DEF EndInv
<1>3. (started /\ signals = 0) => fd = "open"
  BY <1>1 DEF EndInv, CalmInv
<1>4. StaysInClient
  <2>1. CASE run
    <3>1. Fits("end_clear") /\ May("end_clear", "cli_close")
      BY <1>1, <1>2, Caller DEF EndInv, Fits, May, Handler, Closing, Ending
    <3>2. "end_clear" \in Labels /\ "cli_close" \in Labels
      BY DEF Labels, ClientCode, Ending, Closing
    <3>3. CallThen("cli_close", "end_clear")
      BY <2>1 DEF cli_end
    <3>4. /\ Shape' /\ Len(stack') = Len(stack) + 1
          /\ stack'[Len(stack)].fn = "end_clear" /\ stack'[Len(stack) + 1].fn = "cli_close"
          /\ \A k \in 1 .. Len(stack) - 1 : stack'[k] = stack[k]
      BY <1>1, <3>1, <3>2, <3>3, Calls, Zenon DEF EndInv
    <3> QED
      BY <1>2, <1>3, <3>4 DEF StaysInClient, cli_end, ClientCode, Ending, Closing
  <2>2. CASE ~run
    BY <1>1, <2>2, ReturnStays DEF cli_end
  <2> QED
    BY <2>1, <2>2
<1>5. ShutdownExact'
  <2> DEFINE wrong == cli = "freed"
  <2>1. wrong \in BOOLEAN /\ ShutdownExact /\ Uses(wrong, "client")
    BY DEF cli_end, EndInv
  <2>2. ~wrong
    BY <1>2
  <2> HIDE DEF wrong
  <2> QED
    BY <2>1, <2>2, UseAllowed
<1> QED
  BY <1>1, <1>4, <1>5, ClientGoesOn DEF EndInv, StaysInClient

\* It clears g_cli.
LEMMA EndClears ==
    ASSUME EndInv, EndClear
    PROVE  EndInv'
<1>1. stack # << >> /\ Top.fn = "end_clear" /\ Top.fn \in ClientCode \ {"end_release"}
  BY DEF EndClear, At, ClientCode, Ending
<1>2. Len(stack) >= 2
  BY <1>1, ClientRuns
<1>3. Fits("end_stop")
  BY <1>1, <1>2, Caller DEF EndInv, Fits, May, Handler, Closing, Ending
<1>4. "end_stop" \in ClientCode \ {"end_release", "cli_end", "cli_reconnect", "cli_close"}
  BY DEF ClientCode, Ending
<1>5. StaysInClient
  BY <1>1, <1>3, <1>4, GotoStays DEF EndClear
<1>6. ShutdownExact'
  BY DEF EndClear, EndInv, ShutdownExact
<1> QED
  BY <1>1, <1>5, <1>6, ClientGoesOn DEF EndInv, StaysInClient

\* It stops the loop, which is there if the client ever started.
LEMMA EndStops ==
    ASSUME EndInv, EndStop
    PROVE  EndInv'
<1> DEFINE n == Len(stack)
<1>1. stack # << >> /\ Top.fn = "end_stop" /\ Top.fn \in ClientCode \ {"end_release"}
  BY DEF EndStop, At, ClientCode, Ending
<1>2. n \in Nat /\ n >= 2 /\ stack[1].fn \notin Starting /\ cli # "freed" /\ (loop = "freed" => ~started)
  BY <1>1, StackTop, ClientRuns DEF EndInv
<1>3. Fits("end_release")
  BY <1>1, <1>2, Caller DEF EndInv, Fits, May, Handler, Closing, Ending
<1>4. "end_release" \in Labels /\ Goto("end_release")
  BY DEF Labels, ClientCode, Ending, EndStop
<1>5. /\ Shape' /\ Len(stack') = n /\ stack'[n].fn = "end_release"
      /\ \A k \in 1 .. n - 1 : stack'[k] = stack[k]
  BY <1>1, <1>3, <1>4, GoesTo, Zenon DEF EndInv
<1>6. /\ run' = FALSE /\ stop' = TRUE
      /\ UNCHANGED <<started, loop, cli, signals>>
  BY DEF EndStop
<1> HIDE DEF n
<1>7. stack'[1] = stack[1]
  BY <1>2, <1>5
<1>8. StartInv' /\ LoopInv'
  BY <1>1, <1>2, <1>6, <1>7 DEF StartInv, LoopInv, EndInv
<1>9. StopInv' /\ FreedInv'
  <2>1. n \in 1 .. n /\ n + 1 .. n = {}
    BY <1>2
  <2>2. stack'[n].fn = "end_release" /\ \A k \in n + 1 .. n : stack'[k].fn = "sig_handler"
    BY <1>5, <2>1
  <2>3. \E j \in 1 .. Len(stack') : /\ stack'[j].fn = "end_release"
                                    /\ \A k \in j + 1 .. Len(stack') : stack'[k].fn = "sig_handler"
    BY <1>5, <2>1, <2>2
  <2> QED
    BY <1>2, <1>6, <2>3 DEF StopInv, FreedInv
<1>10. CalmInv'
  <2>1. signals = 0 => \A j \in 1 .. n : stack'[j].fn \notin Handler
    BY <1>2, <1>5 DEF EndInv, CalmInv, Handler, n
  <2>2. Top'.fn = "end_release"
    BY <1>5 DEF Top
  <2> QED
    BY <1>5, <1>6, <2>1, <2>2 DEF EndInv, CalmInv
<1>11. ShutdownExact'
  <2> DEFINE wrong == loop = "freed"
  <2>1. wrong \in BOOLEAN /\ ShutdownExact /\ Uses(wrong, "loop")
    BY DEF EndStop, EndInv
  <2>2. wrong => ~started
    BY <1>2
  <2> HIDE DEF wrong
  <2> QED
    BY <2>1, <2>2, UseAllowed
<1> QED
  BY <1>5, <1>8, <1>9, <1>10, <1>11 DEF EndInv

\* It frees the client, and is the last of its functions that goes on.
LEMMA EndReleases ==
    ASSUME EndInv, cli_release
    PROVE  EndInv'
<1> DEFINE n == Len(stack)
<1>1. stack # << >> /\ Top.fn = "end_release" /\ Top.fn \in ClientCode
  BY DEF cli_release, At, ClientCode, Ending
<1>2. n \in Nat /\ n >= 2 /\ stack[1].fn \notin Starting /\ cli # "freed" /\ Top = stack[n]
  BY <1>1, StackTop, ClientRuns DEF EndInv
<1>3. /\ Shape' /\ Len(stack') = n - 1 /\ \A k \in 1 .. n - 1 : stack'[k] = stack[k]
  BY <1>1, Returned DEF EndInv, cli_release
<1>4. cli' = "freed" /\ UNCHANGED <<started, loop, fd, run, stop, signals>>
  BY DEF cli_release
<1>5. stack[n - 1].fn \in {"aeMain", "handled", "exited"}
  BY <1>1, <1>2, Caller DEF EndInv, May, Handler, Closing, Ending
<1> HIDE DEF n
<1>6. stop /\ ~run
  BY <1>1, <1>2 DEF EndInv, StopInv, n
<1>7. stack'[1] = stack[1]
  BY <1>2, <1>3
<1>8. StartInv' /\ LoopInv'
  BY <1>1, <1>2, <1>4, <1>7 DEF StartInv, LoopInv, EndInv
<1>9. StopInv'
  BY <1>4, <1>6 DEF StopInv
<1>10. ASSUME NEW j \in 1 .. n - 1, stack'[j].fn \in ClientCode
       PROVE  \E k \in j + 1 .. n - 1 : stack'[k].fn = "handled"
  <2>1. j # n - 1
    BY <1>2, <1>3, <1>5, <1>10 DEF ClientCode, Ending, Closing
  <2>2. stack[n - 1].fn = "handled"
    <3>1. SUFFICES ASSUME stack[n - 1].fn \in Base PROVE FALSE
      BY <1>5 DEF Base
    <3>2. n - 1 \in 1 .. n
      BY <1>2
    <3>3. n - 1 = 1
      BY <3>1, <3>2, BaseFirst, Zenon DEF EndInv, n
    <3> QED
      BY <2>1, <3>3
  <2>3. n - 1 \in j + 1 .. n - 1 /\ stack'[n - 1] = stack[n - 1]
    BY <1>2, <1>3, <2>1
  <2> QED
    BY <2>2, <2>3
<1>11. FreedInv'
  BY <1>3, <1>4, <1>6, <1>10 DEF FreedInv
<1>12. CalmInv'
  <2>1. signals = 0 => \A j \in 1 .. n - 1 : stack'[j].fn \notin Handler
    BY <1>2, <1>3 DEF EndInv, CalmInv, n
  <2>2. Top'.fn \in {"aeMain", "handled", "exited"}
    BY <1>2, <1>3, <1>5 DEF Top
  <2> QED
    BY <1>3, <1>4, <1>6, <2>1, <2>2 DEF EndInv, CalmInv
<1>13. ShutdownExact'
  <2> DEFINE wrong == cli = "freed"
  <2>1. wrong \in BOOLEAN /\ ShutdownExact /\ Uses(wrong, "client")
    BY DEF cli_release, EndInv
  <2>2. ~wrong
    BY <1>2
  <2> HIDE DEF wrong
  <2> QED
    BY <2>1, <2>2, UseAllowed
<1> QED
  BY <1>3, <1>8, <1>9, <1>11, <1>12, <1>13 DEF EndInv

-----------------------------------------------------------------------------

\* A signal puts a handler on top of whatever runs.
LEMMA SignalStep ==
    ASSUME EndInv, NEW s \in Signals, Signal(s)
    PROVE  EndInv'
<1> DEFINE n == Len(stack)
           f == [fn |-> "sig_handler", sig |-> s]
<1>1. stack # << >> /\ stack' = Append(stack, f) /\ f \in FrameType /\ f.fn = "sig_handler"
  BY DEF Signal, FrameType, Labels, Handler
<1> HIDE DEF f
<1>2. f.fn \in Handler
  BY <1>1 DEF Handler
<1>3. /\ Shape' /\ Len(stack') = n + 1 /\ stack'[n + 1] = f
      /\ \A k \in 1 .. n : stack'[k] = stack[k]
  BY <1>1, <1>2, Interrupted DEF EndInv
<1>4. n \in Nat /\ n >= 1 /\ stack'[1] = stack[1]
  BY <1>1, <1>3, StackTop DEF EndInv
<1>5. signals \in Nat /\ signals' = signals + 1
  BY DEF Signal, EndInv, CalmInv
<1>6. UNCHANGED <<started, loop, cli, fd, run, stop, bad>>
  BY DEF Signal
<1> HIDE DEF n
<1>7. StartInv'
  <2>1. stack[1].fn \in Starting => \A k \in 2 .. n + 1 : stack'[k].fn = "sig_handler"
    BY <1>1, <1>3, <1>4 DEF EndInv, StartInv, n
  <2> QED
    BY <1>1, <1>3, <1>4, <1>6, <2>1 DEF EndInv, StartInv
<1>8. LoopInv'
  BY <1>1, <1>4, <1>6 DEF EndInv, LoopInv
<1>9. StopInv'
  <2>1. \A j \in 1 .. n + 1 : stack'[j].fn = "end_release" => stop
    BY <1>1, <1>3, <1>4 DEF EndInv, StopInv, n
  <2>2. ASSUME stop, cli # "freed"
        PROVE  \E j \in 1 .. n + 1 :
                  /\ stack'[j].fn = "end_release"
                  /\ \A k \in j + 1 .. n + 1 : stack'[k].fn = "sig_handler"
    <3>1. PICK j \in 1 .. n : /\ stack[j].fn = "end_release"
                              /\ \A k \in j + 1 .. n : stack[k].fn = "sig_handler"
      BY <2>2 DEF EndInv, StopInv, n
    <3>2. \A k \in j + 1 .. n + 1 : stack'[k].fn = "sig_handler"
      BY <1>1, <1>3, <1>4, <3>1
    <3>3. j \in 1 .. n + 1 /\ stack'[j].fn = "end_release"
      BY <1>3, <1>4, <3>1
    <3> QED
      BY <3>2, <3>3
  <2> QED
    BY <1>3, <1>6, <2>1, <2>2 DEF EndInv, StopInv
<1>10. FreedInv'
  <2>1. ASSUME cli = "freed", NEW j \in 1 .. n + 1, stack'[j].fn \in ClientCode
        PROVE  \E k \in j + 1 .. n + 1 : stack'[k].fn = "handled"
    <3>1. j # n + 1
      BY <1>1, <1>3, <2>1 DEF ClientCode, Ending, Closing
    <3>2. j \in 1 .. n /\ stack[j].fn \in ClientCode
      BY <1>3, <1>4, <2>1, <3>1
    <3>3. PICK k \in j + 1 .. n : stack[k].fn = "handled"
      BY <2>1, <3>2 DEF EndInv, FreedInv, n
    <3>4. k \in j + 1 .. n + 1 /\ stack'[k].fn = "handled"
      BY <1>3, <1>4, <3>2, <3>3
    <3> QED
      BY <3>4
  <2> QED
    BY <1>3, <1>6, <2>1 DEF EndInv, FreedInv
<1>11. CalmInv'
  BY <1>5 DEF CalmInv
<1>12. ShutdownExact'
  BY <1>6 DEF EndInv, ShutdownExact
<1> QED
  BY <1>3, <1>7, <1>8, <1>9, <1>10, <1>11, <1>12 DEF EndInv

\* A handler that finds no client that runs returns.
LEMMA HandlerReturns ==
    ASSUME EndInv, sig_handler, Returns
    PROVE  EndInv'
<1> DEFINE n == Len(stack)
<1>1. stack # << >> /\ Top.fn = "sig_handler"
  BY DEF sig_handler, At
<1>2. n \in Nat /\ n >= 1 /\ Top = stack[n]
  BY <1>1, StackTop DEF EndInv
<1>3. /\ Shape' /\ Len(stack') = n - 1 /\ \A k \in 1 .. n - 1 : stack'[k] = stack[k]
  BY <1>1, Returned DEF EndInv
<1>4. UNCHANGED <<started, loop, cli, fd, run, stop, bad, signals>>
  BY DEF sig_handler
<1>5. n # 1
  BY <1>1, <1>2 DEF EndInv, Shape, Base, Starting
<1> HIDE DEF n
<1>6. stack'[1] = stack[1]
  BY <1>2, <1>3, <1>5
<1>7. StartInv'
  <2>1. stack[1].fn \in Starting => \A k \in 2 .. n - 1 : stack'[k].fn = "sig_handler"
    BY <1>1, <1>2, <1>3 DEF EndInv, StartInv, n
  <2> QED
    BY <1>1, <1>3, <1>4, <1>6, <2>1 DEF EndInv, StartInv
<1>8. LoopInv'
  BY <1>1, <1>4, <1>6 DEF EndInv, LoopInv
<1>9. StopInv'
  <2>1. \A j \in 1 .. n - 1 : stack'[j].fn = "end_release" => stop
    BY <1>2, <1>3 DEF EndInv, StopInv, n
  <2>2. ASSUME stop, cli # "freed"
        PROVE  \E j \in 1 .. n - 1 :
                  /\ stack'[j].fn = "end_release"
                  /\ \A k \in j + 1 .. n - 1 : stack'[k].fn = "sig_handler"
    <3>1. PICK j \in 1 .. n : /\ stack[j].fn = "end_release"
                              /\ \A k \in j + 1 .. n : stack[k].fn = "sig_handler"
      BY <2>2 DEF EndInv, StopInv, n
    <3>2. j \in 1 .. n - 1
      BY <1>1, <1>2, <3>1
    <3>3. \A k \in j + 1 .. n - 1 : stack'[k].fn = "sig_handler"
      BY <1>2, <1>3, <3>1, <3>2
    <3> QED
      BY <1>3, <3>1, <3>2, <3>3
  <2> QED
    BY <1>3, <1>4, <2>1, <2>2 DEF EndInv, StopInv
<1>10. FreedInv'
  <2>1. ASSUME cli = "freed", NEW j \in 1 .. n - 1, stack'[j].fn \in ClientCode
        PROVE  \E k \in j + 1 .. n - 1 : stack'[k].fn = "handled"
    <3>1. j \in 1 .. n /\ stack[j].fn \in ClientCode
      BY <1>2, <1>3, <2>1
    <3>2. PICK k \in j + 1 .. n : stack[k].fn = "handled"
      BY <2>1, <3>1 DEF EndInv, FreedInv, n
    <3>3. k \in j + 1 .. n - 1 /\ k \in 1 .. n - 1
      BY <1>1, <1>2, <3>1, <3>2
    <3> QED
      BY <1>3, <3>2, <3>3
  <2> QED
    BY <1>3, <1>4, <2>1 DEF EndInv, FreedInv
<1>11. CalmInv'
  <2>1. signals # 0
    BY <1>1, <1>2 DEF EndInv, CalmInv, Handler, n
  <2> QED
    BY <1>4, <2>1 DEF EndInv, CalmInv
<1>12. ShutdownExact'
  BY <1>4 DEF EndInv, ShutdownExact
<1> QED
  BY <1>3, <1>7, <1>8, <1>9, <1>10, <1>11, <1>12 DEF EndInv

\* A function that calls into the client before the loop is stopped.
LEMMA EntersClient ==
    ASSUME EndInv, stack # << >>, ~stop, stack[1].fn \notin Starting,
           NEW l \in {"handled", "aeMain", "exited"}, NEW c \in {"cli_end", "cli_reconnect"},
           Fits(l), May(l, c), CallThen(c, l),
           l = "aeMain" => loop # "freed", l = "handled" => Len(stack) > 1 /\ signals # 0,
           (started /\ signals = 0) => fd' = "open",
           UNCHANGED <<started, loop, cli, run, stop, bad, signals>>
    PROVE  EndInv'
<1> DEFINE n == Len(stack)
<1>1. l \in Labels /\ c \in Labels /\ l \notin ClientCode /\ l \notin Starting \cup {"started", "exit"}
  BY DEF Labels, Base, Starting, ClientCode, Ending, Closing, Handler
<1>2. /\ Shape' /\ Len(stack') = n + 1 /\ stack'[n].fn = l /\ stack'[n + 1].fn = c
      /\ \A k \in 1 .. n - 1 : stack'[k] = stack[k]
  BY <1>1, Calls, Zenon DEF EndInv
<1>3. n \in Nat /\ n >= 1
  BY StackTop DEF EndInv
<1>4. n > 1 => stack'[1] = stack[1]
  BY <1>2, <1>3
<1>5. cli # "freed" /\ (loop = "freed" => ~started)
  BY DEF EndInv, FreedInv, LoopInv
<1> HIDE DEF n
<1>6. stack'[1].fn \notin Starting
  BY <1>1, <1>2, <1>3, <1>4
<1>7. StartInv'
  BY <1>6 DEF StartInv
<1>8. LoopInv'
  <2>1. stack'[1].fn = "started" => ~started
    BY <1>1, <1>2, <1>3, <1>4 DEF EndInv, LoopInv
  <2>2. loop = "freed" => stack'[1].fn \in {"exit", "exited"}
    BY <1>2, <1>3, <1>4 DEF EndInv, LoopInv, n
  <2> QED
    BY <1>5, <2>1, <2>2 DEF LoopInv
<1>9. StopInv' /\ FreedInv'
  <2>1. \A j \in 1 .. n + 1 : stack'[j].fn # "end_release"
    BY <1>2, <1>3 DEF EndInv, StopInv, n
  <2> QED
    BY <1>2, <1>5, <2>1 DEF StopInv, FreedInv
<1>10. CalmInv'
  <2>1. signals = 0 => \A j \in 1 .. n + 1 : stack'[j].fn \notin Handler
    BY <1>2, <1>3 DEF EndInv, CalmInv, Handler, n
  <2>2. (started /\ signals = 0) => stack'[1].fn # "exit" \/ ~run
    BY <1>1, <1>2, <1>3, <1>4 DEF EndInv, CalmInv
  <2> QED
    BY <1>2, <2>1, <2>2 DEF EndInv, CalmInv
<1>11. ShutdownExact'
  BY DEF EndInv, ShutdownExact
<1> QED
  BY <1>2, <1>7, <1>8, <1>9, <1>10, <1>11 DEF EndInv

\* A handler that finds a client that runs ends it.
LEMMA HandlerCalls ==
    ASSUME EndInv, sig_handler, CallThen("cli_end", "handled"), run
    PROVE  EndInv'
<1>1. stack # << >> /\ Top.fn = "sig_handler"
  BY DEF sig_handler, At
<1>2. Len(stack) \in Nat /\ Len(stack) >= 1 /\ Top = stack[Len(stack)]
  BY <1>1, StackTop DEF EndInv
<1>3. Len(stack) # 1
  BY <1>1, <1>2 DEF EndInv, Shape, Base, Starting
<1>4. ~stop /\ stack[1].fn \notin Starting
  BY <1>1 DEF EndInv, StopInv, StartInv
<1>5. Fits("handled") /\ May("handled", "cli_end")
  <2>1. Len(stack) > 1
    BY <1>2, <1>3
  <2>2. \A b : May(b, "handled")
    BY DEF May, Handler
  <2> QED
    BY <2>1, <2>2 DEF Fits, May, Ending
<1>6. signals # 0
  BY <1>1, <1>2 DEF EndInv, CalmInv, Handler
<1>7. UNCHANGED <<started, loop, cli, run, stop, bad, signals>>
  BY DEF sig_handler
<1> QED
  BY <1>1, <1>2, <1>3, <1>4, <1>5, <1>6, <1>7, EntersClient

\* A stopped loop, and no cli_release or interrupted one on top: the client is freed.
LEMMA StoppedFreed ==
    ASSUME EndInv, stack # << >>, Top.fn \notin {"end_release", "sig_handler"}, stop
    PROVE  cli = "freed"
<1> DEFINE n == Len(stack)
<1>1. n \in Nat /\ n >= 1 /\ Top = stack[n]
  BY StackTop DEF EndInv
<1> HIDE DEF n
<1>2. SUFFICES ASSUME cli # "freed" PROVE FALSE
  OBVIOUS
<1>3. PICK j \in 1 .. n : /\ stack[j].fn = "end_release"
                          /\ \A k \in j + 1 .. n : stack[k].fn = "sig_handler"
  BY <1>2 DEF EndInv, StopInv, n
<1>4. j # n
  BY <1>1, <1>3
<1>5. n \in j + 1 .. n
  BY <1>1, <1>4
<1> QED
  BY <1>1, <1>3, <1>5

\* main alone on the stack.
LEMMA MainGoesOn ==
    ASSUME EndInv, Shape', Len(stack') = 1, NEW l, stack'[1].fn = l,
           l \in {"aeMain", "exit", "exited"},
           loop' = "freed" => l \in {"exit", "exited"} /\ (~started' \/ cli = "freed"),
           stop => cli = "freed",
           (l = "exit" /\ started' /\ signals = 0) => ~run,
           UNCHANGED <<cli, run, stop, bad, signals>>
    PROVE  EndInv'
<1>1. /\ l \notin Starting \cup ClientCode \cup Handler
      /\ \A j \in 1 .. 1 : stack'[j].fn = l
  BY DEF Starting, ClientCode, Ending, Closing, Handler
<1>2. StartInv' /\ LoopInv'
  BY <1>1 DEF StartInv, LoopInv
<1>3. StopInv' /\ FreedInv'
  BY <1>1 DEF StopInv, FreedInv, EndInv
<1>4. CalmInv'
  <2>1. Top'.fn = l
    BY DEF Top
  <2> QED
    BY <1>1, <2>1 DEF CalmInv, EndInv
<1>5. ShutdownExact'
  BY DEF EndInv, ShutdownExact
<1> QED
  BY <1>2, <1>3, <1>4, <1>5 DEF EndInv

\* After the client was ended a handler calls exit.
LEMMA HandlerExits ==
    ASSUME EndInv, Handled
    PROVE  EndInv'
<1> DEFINE f == [Top EXCEPT !.fn = "exit"]
<1>1. stack # << >> /\ Top.fn = "handled" /\ stack' = <<f>>
  BY DEF Handled, At
<1>2. f \in FrameType /\ f.fn = "exit"
  BY <1>1, StackTop DEF EndInv, FrameType, Labels, Base
<1> HIDE DEF f
<1>3. stack' \in Seq(FrameType) /\ Len(stack') = 1 /\ stack'[1] = f
  BY <1>1, <1>2
<1>4. Shape'
  BY <1>2, <1>3 DEF Shape, Base
<1>5. signals # 0
  <2>1. Len(stack) \in 1 .. Len(stack) /\ Top = stack[Len(stack)]
    BY <1>1, StackTop DEF EndInv
  <2> QED
    BY <1>1, <2>1 DEF EndInv, CalmInv, Handler
<1>6. stop => cli = "freed"
  BY <1>1, StoppedFreed
<1>7. UNCHANGED <<started, loop, cli, run, stop, bad, signals>>
  BY DEF Handled
<1>8. loop = "freed" => ~started \/ cli = "freed"
  BY DEF EndInv, LoopInv
<1>9. stack'[1].fn = "exit"
  BY <1>2, <1>3
<1> QED
  BY <1>3, <1>4, <1>5, <1>6, <1>7, <1>8, <1>9, MainGoesOn

\* main is alone while a label of it is the innermost.
LEMMA MainAlone ==
    ASSUME EndInv, stack # << >>, Top.fn \in Base
    PROVE  Len(stack) = 1 /\ Top = stack[1] /\ \A l \in Base : Fits(l)
<1>1. Len(stack) \in 1 .. Len(stack) /\ Top = stack[Len(stack)]
  BY StackTop DEF EndInv
<1>2. Len(stack) = 1
  BY <1>1, BaseFirst, Zenon DEF EndInv
<1> QED
  BY <1>1, <1>2 DEF Fits

\* The handlers are installed before the client is set.
LEMMA InstallStep ==
    ASSUME EndInv, InstallHandlers
    PROVE  EndInv'
<1>1. stack # << >> /\ Top.fn = "cli_start" /\ Top.fn \in Base /\ "cli_start_set" \in Base
  BY DEF InstallHandlers, At, Base, Starting
<1>2. Len(stack) = 1 /\ Top = stack[1] /\ Fits("cli_start_set")
  BY <1>1, MainAlone, Zenon
<1>3. Shape' /\ Len(stack') = 1 /\ stack'[1].fn = "cli_start_set"
  BY <1>1, <1>2, GoesTo DEF EndInv, InstallHandlers, Labels
<1>4. ~run /\ ~stop /\ ~started
  BY <1>1, <1>2 DEF EndInv, StartInv, Starting
<1>5. /\ cli' = "live" /\ loop' = "live"
      /\ UNCHANGED <<started, fd, run, stop, bad, signals>>
  BY DEF InstallHandlers
<1>6. StartInv' /\ LoopInv' /\ StopInv' /\ FreedInv'
  BY <1>3, <1>4, <1>5 DEF StartInv, LoopInv, StopInv, FreedInv
<1>7. CalmInv'
  BY <1>3, <1>4, <1>5 DEF CalmInv, EndInv, Handler
<1>8. ShutdownExact'
  BY <1>5 DEF EndInv, ShutdownExact
<1> QED
  BY <1>3, <1>6, <1>7, <1>8 DEF EndInv

\* Then the client runs, and connects.
LEMMA SetStep ==
    ASSUME EndInv, SetClient
    PROVE  EndInv'
<1>1. /\ stack # << >> /\ Top.fn = "cli_start_set" /\ Top.fn \in Base /\ "started" \in Base
      /\ CallThen("cli_connect", "started")
  BY DEF SetClient, At, Base, Starting
<1>2. Len(stack) = 1 /\ Top = stack[1] /\ Fits("started")
  BY <1>1, MainAlone, Zenon
<1>3. "started" \in Labels /\ "cli_connect" \in Labels /\ May("started", "cli_connect")
  BY <1>1 DEF Labels, ClientCode, May
<1>4. Shape' /\ Len(stack') = 2 /\ stack'[1].fn = "started" /\ stack'[2].fn = "cli_connect"
  BY <1>1, <1>2, <1>3, Calls DEF EndInv
<1>5. ~stop /\ ~started /\ cli # "freed" /\ loop # "freed"
  BY <1>1, <1>2 DEF EndInv, StartInv, Starting
<1>6. UNCHANGED <<started, loop, cli, fd, stop, bad, signals>>
  BY DEF SetClient
<1>7. StartInv' /\ LoopInv' /\ StopInv' /\ FreedInv'
  BY <1>4, <1>5, <1>6 DEF StartInv, LoopInv, StopInv, FreedInv, Starting
<1>8. CalmInv'
  BY <1>4, <1>5, <1>6 DEF CalmInv, EndInv, Handler
<1>9. ShutdownExact'
  BY <1>6 DEF EndInv, ShutdownExact
<1> QED
  BY <1>4, <1>7, <1>8, <1>9 DEF EndInv

\* main goes into the loop, or deletes it when the start failed.
LEMMA StartedStep ==
    ASSUME EndInv, Started
    PROVE  EndInv'
<1>1. stack # << >> /\ Top.fn = "started" /\ Top.fn \in Base
  BY DEF Started, At, Base
<1>2. Len(stack) = 1 /\ Top = stack[1] /\ \A l \in Base : Fits(l)
  BY <1>1, MainAlone, Zenon
<1>3. ~started /\ loop # "freed"
  BY <1>1, <1>2 DEF EndInv, LoopInv
<1>4. stop => cli = "freed"
  BY <1>1, StoppedFreed
<1>5. UNCHANGED <<cli, run, stop, bad, signals>>
  BY DEF Started
<1>6. CASE Goto("aeMain") /\ loop' = loop
  <2>1. Goto("aeMain") /\ loop' = loop
    BY <1>6
  <2>2. Fits("aeMain") /\ "aeMain" \in Labels
    BY <1>2 DEF Base, Labels
  <2>3. Shape' /\ Len(stack') = 1 /\ stack'[1].fn = "aeMain"
    BY <1>1, <1>2, <2>1, <2>2, GoesTo DEF EndInv
  <2> QED
    BY <1>3, <1>4, <1>5, <2>1, <2>3, MainGoesOn
<1>7. CASE Goto("exit") /\ started' = started
  <2>1. Goto("exit") /\ started' = started
    BY <1>7
  <2>2. Fits("exit") /\ "exit" \in Labels
    BY <1>2 DEF Base, Labels
  <2>3. Shape' /\ Len(stack') = 1 /\ stack'[1].fn = "exit"
    BY <1>1, <1>2, <2>1, <2>2, GoesTo DEF EndInv
  <2> QED
    BY <1>3, <1>4, <1>5, <2>1, <2>3, MainGoesOn
<1> QED
  BY <1>6, <1>7 DEF Started

\* A callback of the loop ends the client or reconnects.
LEMMA CallbackStep ==
    ASSUME EndInv, Callback
    PROVE  EndInv'
<1>1. stack # << >> /\ Top.fn = "aeMain" /\ Top.fn \in Base /\ ~stop /\ fd = "open"
  BY DEF Callback, At, Base
<1>2. Len(stack) = 1 /\ Top = stack[1] /\ Fits("aeMain")
  BY <1>1, MainAlone, Zenon
<1>3. stack[1].fn \notin Starting /\ loop # "freed"
  BY <1>1, <1>2 DEF Starting, EndInv, LoopInv
<1>4. May("aeMain", "cli_end") /\ May("aeMain", "cli_reconnect")
  BY DEF May, Ending
<1>5. UNCHANGED <<started, loop, cli, fd, run, stop, bad, signals>>
  BY DEF Callback
<1>6. CASE CallThen("cli_end", "aeMain")
  BY <1>1, <1>2, <1>3, <1>4, <1>5, <1>6, EntersClient
<1>7. CASE CallThen("cli_reconnect", "aeMain")
  BY <1>1, <1>2, <1>3, <1>4, <1>5, <1>7, EntersClient
<1> QED
  BY <1>6, <1>7 DEF Callback

\* The loop returns to main.
LEMMA MainReturnsStep ==
    ASSUME EndInv, MainReturns
    PROVE  EndInv'
<1>1. stack # << >> /\ Top.fn = "aeMain" /\ Top.fn \in Base /\ stop
  BY DEF MainReturns, At, Base
<1>2. Len(stack) = 1 /\ \A l \in Base : Fits(l)
  BY <1>1, MainAlone, Zenon
<1>3. cli = "freed" /\ ~run
  BY <1>1, StoppedFreed DEF EndInv, StopInv
<1>4. Goto("exit") /\ UNCHANGED <<started, cli, run, stop, bad, signals>>
  BY DEF MainReturns
<1>5. Fits("exit") /\ "exit" \in Labels
  BY <1>2 DEF Base, Labels
<1>6. Shape' /\ Len(stack') = 1 /\ stack'[1].fn = "exit"
  BY <1>1, <1>2, <1>4, <1>5, GoesTo DEF EndInv
<1> QED
  BY <1>3, <1>4, <1>6, MainGoesOn

\* exit_handler ends a client that still runs.
LEMMA ExitStep ==
    ASSUME EndInv, exit_handler
    PROVE  EndInv'
<1>1. stack # << >> /\ Top.fn = "exit" /\ Top.fn \in Base
  BY DEF exit_handler, At, Base
<1>2. Len(stack) = 1 /\ Top = stack[1] /\ \A l \in Base : Fits(l)
  BY <1>1, MainAlone, Zenon
<1>3. UNCHANGED <<started, loop, cli, fd, run, stop, bad, signals>>
  BY DEF exit_handler
<1>4. stack[1].fn \notin Starting /\ Fits("exited") /\ "exited" \in Labels
  BY <1>1, <1>2 DEF Starting, Base, Labels
<1>5. (loop = "freed" => ~started \/ cli = "freed") /\ (stop => cli = "freed")
  BY <1>1, StoppedFreed DEF EndInv, LoopInv
<1>6. CASE g_cli /\ run
  <2>1. CallThen("cli_end", "exited") /\ May("exited", "cli_end")
    BY <1>6 DEF exit_handler, May, Ending
  <2>2. ~stop /\ ~(started /\ signals = 0)
    BY <1>1, <1>2, <1>6 DEF EndInv, StopInv, CalmInv
  <2> QED
    BY <1>1, <1>3, <1>4, <2>1, <2>2, EntersClient
<1>7. CASE ~(g_cli /\ run)
  <2>1. Goto("exited")
    BY <1>7 DEF exit_handler
  <2>2. Shape' /\ Len(stack') = 1 /\ stack'[1].fn = "exited"
    BY <1>1, <1>2, <1>4, <2>1, GoesTo DEF EndInv
  <2> QED
    BY <1>3, <1>5, <2>2, MainGoesOn
<1> QED
  BY <1>6, <1>7

\* The process is gone.
LEMMA ExitedStep ==
    ASSUME EndInv, Exited
    PROVE  EndInv'
<1>1. stack # << >> /\ Top.fn = "exited" /\ stack' = << >>
  BY DEF Exited, At
<1>2. stop => cli = "freed"
  BY <1>1, StoppedFreed
<1>3. stack' \in Seq(FrameType) /\ Len(stack') = 0 /\ 1 .. 0 = {} /\ 2 .. 0 = {}
  BY <1>1
<1>4. UNCHANGED <<started, loop, cli, fd, run, stop, bad, signals>>
  BY DEF Exited
<1>5. Shape' /\ StartInv'
  BY <1>1, <1>3 DEF Shape, StartInv
<1>6. LoopInv' /\ StopInv' /\ FreedInv' /\ CalmInv'
  BY <1>1, <1>2, <1>3, <1>4 DEF EndInv, LoopInv, StopInv, FreedInv, CalmInv
<1>7. ShutdownExact'
  BY <1>4 DEF EndInv, ShutdownExact
<1> QED
  BY <1>5, <1>6, <1>7 DEF EndInv

\* Every step keeps the invariant.
LEMMA EndStep ==
    ASSUME EndInv, [Next]_vars
    PROVE  EndInv'
<1>1. ASSUME UNCHANGED benchVars PROVE EndInv'
  BY <1>1 DEF benchVars, EndInv, Shape, StartInv, LoopInv, StopInv, FreedInv, CalmInv, Top,
              ShutdownExact
<1>2. ASSUME Run PROVE EndInv'
  <2>1. ASSUME sig_handler PROVE EndInv'
    BY <2>1, HandlerCalls, HandlerReturns DEF sig_handler
  <2> QED
    BY <1>2, <2>1, InstallStep, SetStep, ConnectEnds, StartedStep, MainReturnsStep, ReconnectEnds,
       CloseBegins, CloseGoesOn, ResetEnds, EndBegins, EndClears, EndStops, EndReleases,
       HandlerExits, ExitStep, ExitedStep, Zenon DEF Run
<1> QED
  BY <1>1, <1>2, SignalStep, CallbackStep, Zenon
     DEF Next, Sync, Environment, Bench, Interrupt, vars

\* For any number of kinds of signals and of signals, delivered between any two
\* steps: the client is released once and not used afterwards, the loop is used
\* after its deletion only when the start failed, and a descriptor that is not
\* open is closed only then or after a signal.
THEOREM ShutdownCorrect == Spec => []ShutdownExact
<1>1. Init => EndInv
  <2> SUFFICES ASSUME Init PROVE EndInv
    OBVIOUS
  <2> DEFINE f == Frame("cli_start")
  <2>1. stack = <<f>> /\ f \in FrameType /\ f.fn = "cli_start"
    BY DEF Init, Frame, FrameType, Labels, Base, Starting
  <2> HIDE DEF f
  <2>2. stack \in Seq(FrameType) /\ Len(stack) = 1 /\ stack[1].fn = "cli_start"
    BY <2>1
  <2>3. /\ ~started /\ loop = "none" /\ cli = "none" /\ ~run /\ ~stop /\ bad = {}
        /\ signals = 0
    BY DEF Init
  <2>4. Shape /\ StartInv /\ LoopInv /\ StopInv /\ FreedInv
    BY <2>2, <2>3 DEF Shape, StartInv, LoopInv, StopInv, FreedInv, Base, Starting
  <2>5. CalmInv /\ ShutdownExact
    BY <2>2, <2>3 DEF CalmInv, ShutdownExact, Handler
  <2> QED
    BY <2>4, <2>5 DEF EndInv
<1>2. EndInv /\ [Next]_vars => EndInv'
  BY EndStep
<1>3. EndInv => ShutdownExact
  BY DEF EndInv
<1> QED
  BY <1>1, <1>2, <1>3, PTL DEF Spec

=============================================================================
