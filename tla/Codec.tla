---------------------------------- MODULE Codec -------------------------------
(***************************************************************************)
(* The packets of src/dubbo_codec.c: one request encoded for one of its    *)
(* two callers, one response decoded, and what is released of them, step   *)
(* by step.  A field is known by its length, the request buffer by the     *)
(* room behind its header and the bytes written there; heap is the set of  *)
(* blocks that are allocated.  The server's packets follow the grammar in  *)
(* src/dubbo_hessian.c.  A definition with a suffix is a faulty variant of *)
(* the one below it.                                                       *)
(***************************************************************************)
EXTENDS Hessian, FiniteSets, SequencesExt

CONSTANTS
    NoJson,     \* arguments that are no JSON array or object
    Requests,   \* [service, method, args, attach]: lengths; args may be Failed (not UTF-8) or NoJson
    Responses,  \* packets of the server
    MaxReqId    \* the request id that is skipped

DUBBO_BUF_LEN == 8192
DUBBO_MAX_PKT_SZ == 4194304
DUBBO_HDR_LEN == 16
BIN_CHUNK_MAX == 65536

\* The lengths a chunk can announce in each of its forms.
Lengths(tag) == IF tag = "nibble" THEN 0 .. 15 ELSE IF tag = "ten" THEN 0 .. 1023 ELSE 0 .. 65535

\* A binary: chunks <<tag, length>>, of which the last is final and the others are not.
Binary(chunks) ==
    /\ chunks \in Seq({"A", "B", "nibble", "ten"} \X Nat)
    /\ \A k \in DOMAIN chunks : /\ chunks[k][1] = "A" <=> k < Len(chunks)
                              /\ chunks[k][2] \in Lengths(chunks[k][1])

\* The flags of a packet and its type byte, a text, and chunks where the value is binary.
Packet(r) ==
    /\ {r.isreq, r.evt} \subseteq BOOLEAN /\ {r.seri, r.status, r.type} \subseteq Byte
    /\ r.text \in AnyText /\ Binary(r.chunks)
    /\ r.chunks # << >> <=> r.status = 20 /\ ~r.evt /\ r.type = 145

ASSUME CodecAssumption ==
    /\ NoJson \notin Nat
    /\ Requests \subseteq [service : Nat, method : Nat, args : Nat \cup {Failed, NoJson}, attach : BOOLEAN]
    /\ \A r \in Responses : Packet(r)
    /\ MaxReqId \in Nat /\ MaxReqId > 1

SumOf(s) == FoldLeft(LAMBDA n, m : n + m, 0, s)

VARIABLES
    op,         \* the call: a request of the "sync" or "async" caller, "decode", or "none"
    pc,         \* what runs next; "aborted", "crashed" and "panicked" end the process
    req, reqid, \* the request, and its id
    field,      \* the field of the request to be encoded next
    body,       \* the request buffer: [room, len]
    pkt,        \* the response
    chunk,      \* its chunk to be decoded next
    data,       \* res->data: [sz, left, cap], sz bytes in a block of cap
    consumed,   \* bytes of pkt retrieved from the receive buffer
    result,     \* what the function returned: "packet", "res", NULL, or nothing yet
    heap,       \* the blocks allocated
    twice       \* a block was freed that had been freed

encoding == <<op, req, reqid, field, body>>
decoding == <<pkt, chunk, data, consumed>>
memory == <<heap, twice>>
vars == <<pc, encoding, decoding, result, memory>>

NULL == "NULL"
None == [none |-> TRUE]
NoData == [sz |-> 0, left |-> 0, cap |-> 0]

\* free(3) of the blocks bs.
Freed(bs) == /\ heap' = heap \ bs
             /\ twice' = (twice \/ ~(bs \subseteq heap))

-----------------------------------------------------------------------------
(* The request.                                                            *)

next_reqid == IF reqid + 1 = MaxReqId THEN 1 ELSE reqid + 1

\* The constants of a generic call, and what the caller gave, in their order.
Fields(r) ==
    << <<"string", 13>>, <<"string", r.service>>, <<"string", 5>>, <<"string", 19>>,
       <<"string", 40>>, <<"string", r.method>>, <<"null", 0>>, <<"binary", r.args>>,
       <<"null", 0>> >>

StringSize(n) == Len(StringHead(n)) + n
BinarySize(n) == n + 3 * (1 + (IF n = 0 THEN 0 ELSE (n - 1) \div BIN_CHUNK_MAX))
Size(f) ==
    IF f[1] = "null" THEN 1 ELSE IF f[1] = "string" THEN StringSize(f[2]) ELSE BinarySize(f[2])

\* The array that rebuild_json_args makes of the arguments.
Array(r) == IF r.args = NoJson THEN {} ELSE {"arr"}

\* What dubbo_req_release frees of a request.
Released(r) == {"argv_method", "args", "argv", "req"} \cup (IF r.attach THEN {"attach"} ELSE {})

\* A request that is refused is not released, and the benchmark ends in PANIC.
dubbo_req_create(caller, r) ==
    /\ pc = "idle"
    /\ op' = caller /\ req' = r /\ reqid' = next_reqid
    /\ IF r.args \in {Failed, NoJson}
       THEN /\ heap' = {"req", "service", "method"} \cup Array(r)
            /\ result' = NULL /\ pc' = IF caller = "sync" THEN "finished" ELSE "panicked"
       ELSE /\ heap' = {"service", "method", "arr"} \cup Released(r)
            /\ result' = "none" /\ pc' = "dubbo_encode"
    /\ UNCHANGED <<field, body, decoding, twice>>

dubbo_encode ==
    /\ pc = "dubbo_encode"
    /\ field' = 1 /\ body' = [room |-> DUBBO_BUF_LEN, len |-> 0]
    /\ heap' = heap \cup {"buf"}
    /\ pc' = "encode_req_data"
    /\ UNCHANGED <<op, req, reqid, decoding, result, twice>>

Written(n) == /\ body' = [body EXCEPT !.len = @ + n]
              /\ field' = field + 1 /\ UNCHANGED <<pc, result, memory>>

Fixed_unchecked(n) == Written(n)

\* The bytes are stored before buf_has_written asserts that there was room.
Fixed(n) ==
    IF body.len + n > body.room
    THEN pc' = "aborted" /\ UNCHANGED <<field, body, result, memory>>
    ELSE Written(n)

Encoding(kind) ==
    /\ pc = "encode_req_data" /\ field \in DOMAIN Fields(req) /\ Fields(req)[field][1] = kind
    /\ UNCHANGED <<op, req, reqid, decoding>>

write_hs_str ==
    /\ Encoding("string")
    /\ LET n == Fields(req)[field][2]
       IN  IF n > 32768
           THEN /\ result' = NULL /\ pc' = IF op = "sync" THEN "dubbo_req_release" ELSE "panicked"
                /\ Freed({"buf"}) /\ UNCHANGED <<field, body>>
           ELSE Fixed(StringSize(n))

write_hs_null == Encoding("null") /\ Fixed(1)

\* Every append makes the room it needs and no more.
hs_encode_binary ==
    /\ Encoding("binary")
    /\ LET end == body.len + BinarySize(Fields(req)[field][2])
       IN  body' = [room |-> IF end > body.room THEN end ELSE body.room, len |-> end]
    /\ field' = field + 1 /\ UNCHANGED <<pc, result, memory>>

encode_req_hdr ==
    /\ pc = "encode_req_data" /\ field \notin DOMAIN Fields(req)
    /\ result' = "packet" /\ pc' = "send"
    /\ UNCHANGED <<encoding, decoding, memory>>

\* The benchmark appends the packet to snd_buf and forgets the request.
cli_send_req ==
    /\ pc = "send" /\ op = "async" /\ pc' = "finished"
    /\ Freed({"buf"}) /\ UNCHANGED <<encoding, decoding, result>>

\* An answer that cannot be decoded makes the synchronous call return at once.
dubbo_invoke_sync ==
    /\ pc = "send" /\ op = "sync" /\ pc' = "returned"
    /\ UNCHANGED <<encoding, decoding, result, memory>>

\* Otherwise it releases the request, and the buffer if there is one;
\* service, method and arr are not freed.
dubbo_req_release ==
    /\ op = "sync" /\ pc \in {"send", "dubbo_req_release"} /\ pc' = "finished"
    /\ Freed(Released(req) \cup (IF result = "packet" THEN {"buf"} ELSE {}))
    /\ UNCHANGED <<encoding, decoding, result>>

-----------------------------------------------------------------------------
(* The response.                                                           *)

\* What a chunk takes in the body: its head and its data.
ChunkSize(c) ==
    c[2] + (IF c[1] = "nibble" THEN 1 ELSE IF c[1] = "ten" THEN 2 ELSE 3)
Total(r) == SumOf([k \in DOMAIN r.chunks |-> ChunkSize(r.chunks[k])])
DataLen(r) == SumOf([k \in DOMAIN r.chunks |-> r.chunks[k][2]])

HasText(r) == r.status # 20 \/ (~r.evt /\ r.type = 144)
BodySize(r) ==
    IF HasText(r) THEN (IF r.status = 20 THEN 1 ELSE 0) + Len(PeerText(r.text).head) + Bytes(r.text)
    ELSE IF r.evt THEN 1 ELSE 1 + Total(r)

is_completed_dubbo_pkt(r) == BodySize(r) \in 1 .. DUBBO_MAX_PKT_SZ

\* Both callers have checked that the packet is complete.
dubbo_decode(r) ==
    /\ pc = "idle" /\ is_completed_dubbo_pkt(r)
    /\ op' = "decode" /\ pkt' = r /\ chunk' = 1 /\ data' = NoData
    /\ consumed' = 0 /\ result' = "none" /\ heap' = {}
    /\ pc' = "decode_res_hdr"
    /\ UNCHANGED <<req, reqid, field, body, twice>>

\* The header is read even if it is then rejected.
decode_res_hdr ==
    /\ pc = "decode_res_hdr"
    /\ IF BodySize(pkt) > DUBBO_MAX_PKT_SZ \/ pkt.seri # 2 \/ pkt.isreq
       THEN /\ consumed' = DUBBO_HDR_LEN /\ result' = NULL /\ pc' = "finished"
            /\ UNCHANGED heap
       ELSE /\ consumed' = DUBBO_HDR_LEN + BodySize(pkt)
            /\ heap' = {"view", "res"} /\ UNCHANGED result /\ pc' = "decode_res"
    /\ UNCHANGED <<encoding, pkt, chunk, data, twice>>

decode_res ==
    /\ pc = "decode_res"
    /\ heap' = heap \cup {"desc"}
    /\ pc' = IF pkt.status # 20 THEN "read_hs_str" ELSE IF pkt.evt THEN "ok" ELSE "decode_res_data"
    /\ UNCHANGED <<encoding, decoding, result, twice>>

ResultFlag_signed(type) == type - 144
\* The result flag in the one-byte integer that starts the body, as a uint8_t.
ResultFlag(type) == (type - 144) % 256

decode_res_data ==
    /\ pc = "decode_res_data"
    /\ LET flag == ResultFlag(pkt.type)
       IN  pc' = IF pkt.type \notin 128 .. 191 \/ flag > 2 THEN "failed"
                 ELSE IF flag = 0 THEN "read_hs_str"
                 ELSE IF flag = 1 THEN "hs_decode_binary" ELSE "ok"
    /\ UNCHANGED <<encoding, decoding, result, memory>>

read_hs_str ==
    /\ pc = "read_hs_str"
    /\ LET out == hs_decode_string(PeerText(pkt.text))
       IN  IF out = Failed THEN pc' = "failed" /\ UNCHANGED <<data, heap>>
           ELSE IF out \in {Never, Beyond} THEN pc' = "crashed" /\ UNCHANGED <<data, heap>>
           ELSE /\ data' = [sz |-> out.sz, left |-> 0, cap |-> out.sz]
                /\ heap' = IF out.freed THEN heap ELSE heap \cup {"data"}
                /\ pc' = "ok"
    /\ UNCHANGED <<encoding, pkt, chunk, consumed, result, twice>>

\* A compact value is one block of its length; otherwise room for one chunk.
hs_decode_binary ==
    /\ pc = "hs_decode_binary"
    /\ LET c == pkt.chunks[1]
       IN  IF c[1] \in {"nibble", "ten"}
           THEN data' = [sz |-> c[2], left |-> 0, cap |-> c[2] + 1] /\ pc' = "ok"
           ELSE data' = [sz |-> 0, left |-> BIN_CHUNK_MAX, cap |-> BIN_CHUNK_MAX + 1]
                /\ pc' = "hs_decode_binary_chunk"
    /\ heap' = heap \cup {"data"}
    /\ UNCHANGED <<encoding, pkt, chunk, consumed, result, twice>>

\* The length of a chunk, which is read as an int16_t.
ChunkLength(n) == Int16(Be16(n))

GrowData_keeping_cap(sz) == IF data.left < sz THEN [data EXCEPT !.left = BIN_CHUNK_MAX] ELSE data
GrowData_keeping_left(sz) ==
    IF data.left < sz THEN [data EXCEPT !.cap = data.sz + BIN_CHUNK_MAX + 1] ELSE data

\* Room for one more chunk when this one may not fit.
GrowData(sz) ==
    IF data.left < sz
    THEN [data EXCEPT !.cap = data.sz + BIN_CHUNK_MAX + 1, !.left = BIN_CHUNK_MAX] ELSE data

\* After a final chunk the loop ends, and its tag must be 'B'.  A negative
\* length makes memcpy copy the whole address space.
hs_decode_binary_chunk ==
    /\ pc = "hs_decode_binary_chunk"
    /\ LET c == pkt.chunks[chunk]
           sz == ChunkLength(c[2])
           new == GrowData(sz)
       IN  IF c[1] \notin {"A", "B"} THEN pc' = "aborted" /\ UNCHANGED <<data, chunk>>
           ELSE IF sz < 0 THEN pc' = "crashed" /\ UNCHANGED <<data, chunk>>
           ELSE /\ data' = [new EXCEPT !.sz = @ + sz, !.left = @ - sz]
                /\ chunk' = chunk + 1
                /\ pc' = IF c[1] = "A" THEN pc ELSE "ok"
    /\ UNCHANGED <<encoding, pkt, consumed, result, memory>>

DecodeReturns_locked ==
    \/ /\ pc = "ok"
       /\ result' = "res" /\ pc' = "dubbo_res_release"
       /\ Freed({"view"}) /\ UNCHANGED <<encoding, decoding>>
    \/ /\ pc = "failed"
       /\ result' = NULL /\ pc' = "finished"
       /\ Freed({"res"}) /\ UNCHANGED <<encoding, decoding>>

\* The view is released; a failed response is freed, but nothing it points to.
DecodeReturns ==
    \/ /\ pc = "ok"
       /\ result' = "res" /\ pc' = "dubbo_res_release"
       /\ Freed({"view"}) /\ UNCHANGED <<encoding, decoding>>
    \/ /\ pc = "failed"
       /\ result' = NULL /\ pc' = "finished"
       /\ Freed({"view", "res"}) /\ UNCHANGED <<encoding, decoding>>

HasData == pkt.status # 20 \/ (~pkt.evt /\ ResultFlag(pkt.type) \in {0, 1})

\* free of res->data wherever decode_res stored a pointer.
dubbo_res_release ==
    /\ pc = "dubbo_res_release" /\ pc' = "finished"
    /\ Freed({"desc", "res"} \cup (IF HasData THEN {"data"} ELSE {}))
    /\ UNCHANGED <<encoding, decoding, result>>

-----------------------------------------------------------------------------
\* The next call; what this one left allocated is out of sight.
NextCall ==
    /\ pc \in {"finished", "returned"} /\ pc' = "idle"
    /\ op' = "none" /\ result' = "none" /\ heap' = {} /\ twice' = FALSE
    /\ UNCHANGED <<req, reqid, field, body, decoding>>

Init ==
    /\ op = "none" /\ pc = "idle" /\ result = "none"
    /\ req = None /\ reqid = 0 /\ field = 1
    /\ body = [room |-> 0, len |-> 0]
    /\ pkt = None /\ chunk = 1 /\ data = NoData /\ consumed = 0
    /\ heap = {} /\ twice = FALSE

Encode ==
    \/ \E caller \in {"sync", "async"}, r \in Requests : dubbo_req_create(caller, r)
    \/ dubbo_encode \/ write_hs_str \/ write_hs_null \/ hs_encode_binary
    \/ encode_req_hdr \/ cli_send_req \/ dubbo_invoke_sync \/ dubbo_req_release

Decode ==
    \/ \E r \in Responses : dubbo_decode(r)
    \/ decode_res_hdr \/ decode_res \/ decode_res_data \/ read_hs_str
    \/ hs_decode_binary \/ hs_decode_binary_chunk \/ DecodeReturns \/ dubbo_res_release

Next == Encode \/ Decode \/ NextCall

Spec == Init /\ [][Next]_vars

-----------------------------------------------------------------------------
(* Properties.                                                             *)

TypeOK ==
    /\ op \in {"none", "sync", "async", "decode"}
    /\ pc \in {"idle", "dubbo_encode", "encode_req_data", "send", "dubbo_req_release", "finished",
              "decode_res_hdr", "decode_res", "decode_res_data", "read_hs_str", "hs_decode_binary",
              "hs_decode_binary_chunk", "ok", "failed", "dubbo_res_release", "aborted", "crashed",
              "panicked", "returned"}
    /\ req \in Requests \cup {None} /\ reqid \in 0 .. MaxReqId - 1
    /\ field \in 1 .. 10 /\ body \in [room : Nat, len : Nat]
    /\ pkt \in Responses \cup {None} /\ chunk \in Nat \ {0}
    /\ data \in [sz : Nat, left : Nat, cap : Nat] /\ consumed \in Nat
    /\ result \in {"none", "packet", "res", NULL}
    /\ heap \subseteq {"req", "service", "method", "arr", "argv", "argv_method", "args", "attach",
                       "buf", "view", "res", "desc", "data"}
    /\ twice \in BOOLEAN

\* A request becomes a packet if and only if its body fits the 8192 bytes the
\* buffer starts with: one byte more ends the process in the assertion of
\* buf_has_written, although hs_encode_binary has made the buffer grow.  It is
\* refused only for a string of more than 32768 bytes, or arguments that are
\* no JSON or no UTF-8; a refusal ends the benchmark.
Needed(r) == SumOf([k \in DOMAIN Fields(r) |-> Size(Fields(r)[k])])

EncodeExact ==
    op \in {"sync", "async"} =>
        /\ pc = "send" => body.len = Needed(req) /\ Needed(req) <= DUBBO_BUF_LEN
        /\ pc = "aborted" => Needed(req) > DUBBO_BUF_LEN
        /\ result = NULL => req.args \in {Failed, NoJson} \/ req.service > 32768 \/ req.method > 32768
        /\ pc = "panicked" => op = "async" /\ result = NULL

\* A value cut into chunks of which the last is compact.
EndsCompact(r) ==
    r.chunks # << >> /\ r.chunks[1][1] = "A" /\ Last(r.chunks)[1] \in {"nibble", "ten"}

\* A response that is returned holds every byte the server put into its value
\* or its text, and the receive buffer is left at the next packet; only a
\* rejected header leaves the body behind.  A type byte outside the three
\* results is not returned as one of them.  The process ends in an assertion
\* exactly for a value whose last chunk is compact, and by copying a negative
\* length or by endless recursion only for a chunk of 32768 bytes or a text of
\* more than one chunk.
DecodeExact ==
    op = "decode" =>
        /\ result = "res" =>
              /\ data.sz = IF HasText(pkt) THEN Bytes(pkt.text) ELSE DataLen(pkt)
              /\ HasText(pkt) \/ ~EndsCompact(pkt)
              /\ pkt.status # 20 \/ pkt.evt \/ pkt.type \in 144 .. 146
        /\ pc = "aborted" => EndsCompact(pkt)
        /\ pc = "crashed" =>
              IF HasText(pkt) THEN Chars(pkt.text) > 65535
              ELSE \E k \in DOMAIN pkt.chunks : pkt.chunks[k][2] > 32767
        /\ pc = "finished" =>
              (consumed = DUBBO_HDR_LEN + BodySize(pkt) <=> pkt.seri = 2 /\ ~pkt.isreq)

\* The bytes of a value and the zero behind them never leave the block, while
\* it is enlarged chunk by chunk.
NoOverrun ==
    pc \in {"hs_decode_binary_chunk", "ok"} /\ ~HasText(pkt) /\ data.cap > 0 =>
        data.sz + data.left < data.cap

\* What is left when a call is over.  The benchmark frees the packet and
\* nothing of the request.  The synchronous call leaves the two strings and
\* the array of every request, the request itself when its arguments were
\* refused, and everything when the answer could not be decoded.
\* dubbo_decode leaves the description of every response whose body it could
\* not decode, but no view, which would lock the receive buffer, and
\* dubbo_res_release leaves nothing.  Only the text of an empty response is
\* freed twice.
Left ==
    IF op \in {"sync", "async"}
    THEN {"service", "method"} \cup Array(req)
         \cup (IF op = "async" \/ pc = "returned" THEN Released(req) ELSE {})
         \cup (IF pc = "returned" THEN {"buf"} ELSE {})
         \cup (IF req.args \in {Failed, NoJson} THEN {"req"} ELSE {})
    ELSE IF result = NULL /\ consumed > DUBBO_HDR_LEN THEN {"desc"} ELSE {}

HeapExact ==
    /\ pc \in {"finished", "returned"} => heap = Left
    /\ twice <=> /\ op = "decode" /\ pc = "finished" /\ result = "res"
                 /\ HasText(pkt) /\ Bytes(pkt.text) = 0

\* The grammar quoted above hs_decode_binary: a non-final chunk is followed by
\* a binary, of any form.
ChunksDecode == ~(op = "decode" /\ pc = "aborted")
=============================================================================
