-------------------------------- MODULE SyncInvoke ----------------------------
(***************************************************************************)
(* dubbo_invoke_sync of src/dubbo_client.c: one request over a blocking    *)
(* socket, and the server at its other end.  Bytes are counted; the packet *)
(* of the server has a header of Hdr bytes and a body, and other packets   *)
(* may follow it.                                                          *)
(***************************************************************************)
EXTENDS Integers, FiniteSets

CONSTANTS
    Hdr,        \* bytes of a packet header
    ReqSize,    \* bytes of the request
    Bodies,     \* sizes of the body of the response
    Surplus     \* how many bytes of other packets follow the response

ASSUME SyncAssumption ==
    /\ Hdr \in Nat \ {0} /\ ReqSize \in Nat \ {0}
    /\ Bodies \subseteq Nat \ {0} /\ Surplus \subseteq Nat

VARIABLES
    at,         \* where dubbo_invoke_sync is
    sockfd,     \* "none", "open" or "closed"
    sent,       \* bytes of the request the kernel took
    got,        \* bytes in buf
    remaining,  \* the local variable of that name
    printed,    \* the response was printed
    heap,       \* blocks allocated; "req" is all that dubbo_req_release frees
    answer,     \* the server's packet: [body, surplus, kind]
    coming,     \* bytes the server has still to send
    arrived,    \* bytes in the kernel's receive queue
    peer        \* the server's side: "open", "closed" or "reset"

local == <<sent, got, remaining, printed>>
net == <<answer, coming, arrived, peer>>
syncVars == <<at, sockfd, local, heap, net>>

Packet == Hdr + answer.body

\* The header is rejected, or the body; the value is JSON, or another or none.
Kinds == {"rejected", "undecodable", "json", "other"}
Decodes == answer.kind \in {"json", "other"}

InitSync ==
    /\ at = "create" /\ sockfd = "none" /\ heap = {}
    /\ sent = 0 /\ got = 0 /\ remaining = 0 /\ printed = FALSE
    /\ answer \in [body : Bodies, surplus : Surplus, kind : Kinds]
    /\ coming = Packet + answer.surplus /\ arrived = 0 /\ peer = "open"

-----------------------------------------------------------------------------
(* The call.                                                               *)

\* Arguments that are refused leave the request behind, and the array of
\* rebuild_json_args if they were JSON (see Codec).
CreateRequest ==
    /\ at = "create"
    /\ \/ heap' = {"req", "service", "method", "arr"} /\ at' \in {"encode", "returned"}
       \/ heap' = {"req", "service", "method"} /\ at' = "returned"
    /\ UNCHANGED <<sockfd, local, net>>

EncodeRequest ==
    /\ at = "encode"
    /\ \/ heap' = heap \cup {"buf"} /\ at' = "connect"
       \/ heap' = heap \ {"req"} /\ at' = "returned"
    /\ UNCHANGED <<sockfd, local, net>>

\* getaddrinfo, socket and connect to the first address, in socket_clientSync:
\* one of them fails and has closed what there was, or the handshake succeeds.
Connect ==
    /\ at = "connect"
    /\ \/ sockfd' = "open" /\ at' = "send"
       \/ sockfd' = "none" /\ at' = "release"
    /\ UNCHANGED <<local, heap, net>>

\* Once all is sent the buffer is emptied.
Send ==
    /\ at = "send" /\ peer # "reset"
    /\ \E n \in 1 .. ReqSize - sent :
          /\ sent' = sent + n
          /\ at' = IF sent' = ReqSize THEN "first read" ELSE at
    /\ UNCHANGED <<sockfd, got, remaining, printed, heap, net>>

\* send fails or its timeout expires; to a connection that was reset it may
\* raise SIGPIPE, which the client does not ignore.
SendFails ==
    /\ at = "send"
    /\ at' = "release" \/ (peer = "reset" /\ at' = "killed")
    /\ UNCHANGED <<sockfd, local, heap, net>>

\* buf_readFd takes what has arrived; 0 bytes are the end of the stream.
Receives(n) ==
    /\ n = arrived /\ (arrived > 0 \/ peer = "closed")
    /\ arrived' = 0 /\ got' = got + n
    /\ UNCHANGED <<sockfd, sent, printed, heap, answer, coming, peer>>

ReadFails_without_timeout == arrived = 0 /\ peer = "reset"
\* An error, or nothing within SO_RCVTIMEO.  The caller sees -1 for errno.
ReadFails == arrived = 0 /\ peer # "closed"

\* is_dubbo_pkt and is_completed_dubbo_pkt look at what the first read returned.
FirstRead ==
    /\ at = "first read"
    /\ \E n \in 0 .. arrived :
          /\ Receives(n)
          /\ at' = IF n < Hdr THEN "release" ELSE "more"
          /\ remaining' = IF n < Hdr THEN remaining ELSE Packet - n

ReadMore ==
    /\ at = "more" /\ remaining # 0
    /\ \E n \in 0 .. arrived : Receives(n) /\ remaining' = remaining - n
    /\ UNCHANGED at

ReadGivesUp ==
    /\ at \in {"first read", "more"} /\ (at = "more" => remaining # 0) /\ ReadFails
    /\ at' = "release"
    /\ UNCHANGED <<sockfd, local, heap, net>>

\* What dubbo_decode does not free of a body, and the string of cJSON_Print.
LeftByAnswer(kind) ==
    IF kind = "undecodable" THEN {"desc"} ELSE IF kind = "json" THEN {"text"} ELSE {}

\* A response that does not decode is the one return that releases nothing.
DecodeAndPrint ==
    /\ at = "more" /\ remaining = 0
    /\ printed' = Decodes
    /\ at' = IF Decodes THEN "release" ELSE "returned"
    /\ heap' = heap \cup LeftByAnswer(answer.kind)
    /\ UNCHANGED <<sockfd, sent, got, remaining, net>>

Release_open_only ==
    /\ at = "release" /\ at' = "returned"
    /\ heap' = IF sockfd = "open" THEN heap \ {"req", "buf"} ELSE heap
    /\ sockfd' = IF sockfd = "open" THEN "closed" ELSE sockfd
    /\ UNCHANGED <<local, net>>

\* The result is false here, too: nothing sets ret.
Release ==
    /\ at = "release" /\ at' = "returned"
    /\ heap' = heap \ {"req", "buf"}
    /\ sockfd' = IF sockfd = "none" THEN "none" ELSE "closed"
    /\ UNCHANGED <<local, net>>

-----------------------------------------------------------------------------
(* The server and the network.                                             *)

\* Some of the answer arrives, once the request is complete.
Deliver ==
    /\ sent = ReqSize /\ sockfd = "open" /\ peer = "open"
    /\ \E n \in 1 .. coming : arrived' = arrived + n /\ coming' = coming - n
    /\ UNCHANGED <<at, sockfd, local, heap, answer, peer>>

ServerCloses ==
    /\ sockfd = "open" /\ peer = "open" /\ peer' = "closed"
    /\ UNCHANGED <<at, sockfd, local, heap, answer, coming, arrived>>

\* A reset discards what was not read.
Reset ==
    /\ sockfd = "open" /\ peer # "reset" /\ peer' = "reset" /\ arrived' = 0
    /\ UNCHANGED <<at, sockfd, local, heap, answer, coming>>

InvokeSync ==
    \/ CreateRequest \/ EncodeRequest \/ Connect \/ Send \/ SendFails
    \/ FirstRead \/ ReadMore \/ ReadGivesUp \/ DecodeAndPrint \/ Release

Network == Deliver \/ ServerCloses \/ Reset

SyncEnded == at \in {"returned", "killed"}

-----------------------------------------------------------------------------
(* Properties.                                                             *)

\* What dubbo_invoke_sync prints is one whole packet and not a byte of the
\* next.  Every return leaves service, method and, once the arguments were
\* parsed, arr; one that has printed JSON leaves its text, too.  The request
\* is left as well when it was refused.  Only when a whole packet does not
\* decode are the request, the buffer and the open socket left.
SyncExact ==
    /\ printed => got = Packet /\ Decodes
    /\ at = "returned" =>
          \/ /\ sockfd # "open"
             /\ heap = {"service", "method", "arr"} \cup (IF printed THEN LeftByAnswer(answer.kind) ELSE {})
          \/ sockfd = "none" /\ heap \in {{"req", "service", "method"}, {"req", "service", "method", "arr"}}
          \/ /\ sockfd = "open" /\ ~Decodes /\ got = Packet
             /\ heap = {"req", "buf", "service", "method", "arr"} \cup LeftByAnswer(answer.kind)

\* The loop that reads the rest has seen the end of the stream, or more than
\* the packet and then the end of the stream: it reads 0 bytes for ever.
Spins == at = "more" /\ remaining # 0 /\ peer = "closed" /\ arrived = 0
=============================================================================
