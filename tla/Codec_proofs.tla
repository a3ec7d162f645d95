------------------------------- MODULE Codec_proofs -----------------------------
(***************************************************************************)
(* For requests and responses of any size: what is encoded, decoded and    *)
(* left in memory, step by step.                                           *)
(***************************************************************************)
EXTENDS Codec, Hessian_proofs

-----------------------------------------------------------------------------
(* Sums.  FoldLeft is a recursive function on the sets of indexes; that    *)
(* there is one, and how a sum grows by an element, comes from a smallest  *)
(* counterexample.                                                         *)

\* The recursive function behind SumOf.
Sums(s) ==
    LET iter[t \in SUBSET DOMAIN s] == IF t = {} THEN 0 ELSE iter[t \ {Max(t)}] + s[Max(t)]
    IN  iter

\* The sum of the first k elements.
Partial(s, k) == Sums(s)[1 .. k]

\* Max of a set of indexes is its greatest element.
LEMMA MaxIndex ==
    ASSUME NEW n \in Nat, NEW t \in SUBSET (1 .. n), t # {}
    PROVE  Max(t) \in t /\ \A j \in t : j <= Max(t)
<1> DEFINE T == {n - j : j \in t}
<1>1. T \subseteq Nat /\ T # {}
  <2>1. \A j \in t : n - j \in Nat
    OBVIOUS
  <2> QED BY <2>1
<1>2. PICK d \in T : \A e \in T : d <= e
  BY <1>1, Least
<1>3. PICK x \in t : d = n - x
  OBVIOUS
<1>4. \A j \in t : x >= j
  <2>1. SUFFICES ASSUME NEW j \in t PROVE x >= j
    OBVIOUS
  <2>2. d <= n - j
    BY <1>2
  <2>3. x \in 1 .. n /\ j \in 1 .. n
    OBVIOUS
  <2> QED BY <1>3, <2>2, <2>3, SMT
<1> HIDE DEF T
<1>5. Max(t) \in t /\ \A j \in t : Max(t) >= j
  BY <1>4, Zenon DEF Max
<1>6. t \subseteq Int
  OBVIOUS
<1> QED BY <1>5, <1>6

\* There is such a function.
LEMMA SumsExist ==
    ASSUME NEW s \in Seq(Nat)
    PROVE  \E g \in [SUBSET DOMAIN s -> Nat] : \A t \in SUBSET DOMAIN s :
              g[t] = IF t = {} THEN 0 ELSE g[t \ {Max(t)}] + s[Max(t)]
<1> DEFINE Sums_(m, g) == \A t \in SUBSET (1 .. m) :
              g[t] = IF t = {} THEN 0 ELSE g[t \ {Max(t)}] + s[Max(t)]
           Bad == {m \in 0 .. Len(s) : ~\E g \in [SUBSET (1 .. m) -> Nat] : Sums_(m, g)}
<1>1. Len(s) \in Nat /\ DOMAIN s = 1 .. Len(s) /\ \A j \in 1 .. Len(s) : s[j] \in Nat
  OBVIOUS
<1>2. Bad = {}
  <2>1. SUFFICES ASSUME Bad # {} PROVE FALSE
    OBVIOUS
  <2>2. PICK m \in Bad : \A n \in Bad : m <= n
    <3>1. Bad \subseteq Nat
      BY <1>1
    <3> HIDE DEF Bad
    <3> QED BY <2>1, <3>1, Least
  <2>3. ASSUME m = 0 PROVE FALSE
    <3> DEFINE g == [t \in SUBSET (1 .. 0) |-> 0]
    <3>1. g \in [SUBSET (1 .. 0) -> Nat]
      OBVIOUS
    <3>2. Sums_(0, g)
      <4>1. \A t \in SUBSET (1 .. 0) : t = {}
        OBVIOUS
      <4> QED BY <4>1
    <3> HIDE DEF g
    <3>3. \E f \in [SUBSET (1 .. 0) -> Nat] : Sums_(0, f)
      BY <3>1, <3>2
    <3> QED BY <2>2, <2>3, <3>3
  <2>4. ASSUME m # 0 PROVE FALSE
    <3>1. m \in 1 .. Len(s) /\ m - 1 \in 0 .. Len(s) /\ ~(m <= m - 1)
      BY <1>1, <2>4, SMT
    <3>2. m - 1 \notin Bad
      BY <2>2, <3>1
    <3>3. PICK g \in [SUBSET (1 .. m - 1) -> Nat] : Sums_(m - 1, g)
      BY <3>1, <3>2
    <3> DEFINE h == [t \in SUBSET (1 .. m) |-> IF m \in t THEN g[t \ {m}] + s[m] ELSE g[t]]
    <3>4. /\ \A t \in SUBSET (1 .. m) : t \ {m} \in SUBSET (1 .. m - 1)
          /\ \A t \in SUBSET (1 .. m) : m \notin t => t \in SUBSET (1 .. m - 1)
          /\ s[m] \in Nat
      BY <1>1, <3>1
    <3>5. h \in [SUBSET (1 .. m) -> Nat]
      <4>1. \A t \in SUBSET (1 .. m) : (IF m \in t THEN g[t \ {m}] + s[m] ELSE g[t]) \in Nat
        BY <3>4
      <4> QED BY <4>1
    <3>6. \A t \in SUBSET (1 .. m) : h[t] = IF m \in t THEN g[t \ {m}] + s[m] ELSE g[t]
      OBVIOUS
    <3> HIDE DEF h
    <3>7. Sums_(m, h)
      <4> SUFFICES ASSUME NEW t \in SUBSET (1 .. m)
                   PROVE  h[t] = IF t = {} THEN 0 ELSE h[t \ {Max(t)}] + s[Max(t)]
        OBVIOUS
      <4>1. CASE t = {}
        <5>1. h[t] = g[t] /\ t \in SUBSET (1 .. m - 1)
          BY <3>6, <4>1
        <5> QED BY <3>3, <4>1, <5>1
      <4>2. CASE m \in t
        <5>1. Max(t) = m
          <6>1. m \in Nat /\ t # {}
            BY <1>1, <3>1, <4>2
          <6>2. Max(t) \in t /\ m <= Max(t)
            BY <4>2, <6>1, MaxIndex
          <6>3. Max(t) \in 1 .. m
            BY <6>2
          <6> QED BY <6>1, <6>2, <6>3
        <5>2. h[t \ {m}] = g[t \ {m}]
          <6>1. t \ {m} \in SUBSET (1 .. m) /\ m \notin t \ {m}
            OBVIOUS
          <6> QED BY <3>6, <6>1
        <5>3. h[t] = g[t \ {m}] + s[m]
          BY <3>6, <4>2
        <5> QED BY <4>2, <5>1, <5>2, <5>3
      <4>3. CASE t # {} /\ m \notin t
        <5> DEFINE x == Max(t)
        <5>1. x \in t
          <6>1. m \in Nat
            BY <1>1, <3>1
          <6> QED BY <4>3, <6>1, MaxIndex
        <5>2. t \in SUBSET (1 .. m - 1) /\ t \ {x} \in SUBSET (1 .. m) /\ m \notin t \ {x}
          BY <3>4, <4>3
        <5>3. h[t] = g[t] /\ h[t \ {x}] = g[t \ {x}]
          BY <3>6, <4>3, <5>2
        <5>4. g[t] = g[t \ {x}] + s[x]
          BY <3>3, <4>3, <5>2
        <5> QED BY <4>3, <5>3, <5>4
      <4> QED BY <4>1, <4>2, <4>3
    <3>8. \E f \in [SUBSET (1 .. m) -> Nat] : Sums_(m, f)
      BY <3>5, <3>7
    <3> QED BY <2>2, <3>8
  <2> QED BY <2>3, <2>4
<1>3. Len(s) \in 0 .. Len(s) /\ Len(s) \notin Bad
  <2>1. Len(s) \in 0 .. Len(s)
    BY <1>1
  <2> QED BY <1>2, <2>1
<1>4. PICK g \in [SUBSET (1 .. Len(s)) -> Nat] : Sums_(Len(s), g)
  BY <1>3
<1> QED BY <1>1, <1>4

\* A sum is the partial sum of all elements, and each partial sum is the one
\* before and an element.
LEMMA SumLaws ==
    ASSUME NEW s \in Seq(Nat)
    PROVE  /\ SumOf(s) = Partial(s, Len(s)) /\ Partial(s, 0) = 0
           /\ \A k \in 0 .. Len(s) : Partial(s, k) \in Nat
           /\ \A k \in 1 .. Len(s) : Partial(s, k) = Partial(s, k - 1) + s[k]
<1>1. Len(s) \in Nat /\ DOMAIN s = 1 .. Len(s)
  OBVIOUS
<1> DEFINE G == Sums(s)
<1>2. PICK g \in [SUBSET DOMAIN s -> Nat] : \A t \in SUBSET DOMAIN s :
             g[t] = IF t = {} THEN 0 ELSE g[t \ {Max(t)}] + s[Max(t)]
  BY SumsExist
<1>3. g = [t \in SUBSET DOMAIN s |-> IF t = {} THEN 0 ELSE g[t \ {Max(t)}] + s[Max(t)]]
  BY <1>2
<1>4. G = [t \in SUBSET DOMAIN s |-> IF t = {} THEN 0 ELSE G[t \ {Max(t)}] + s[Max(t)]]
  BY <1>3, Zenon DEF Sums
<1> HIDE DEF G
<1>5. \A t \in SUBSET DOMAIN s : G[t] = IF t = {} THEN 0 ELSE G[t \ {Max(t)}] + s[Max(t)]
  BY <1>4
<1>6. SumOf(s) = G[DOMAIN s]
  BY DEF SumOf, FoldLeft, MapThenFoldSet, G, Sums
<1>7. \A k \in 0 .. Len(s) : Partial(s, k) = G[1 .. k]
  BY DEF Partial, G
<1>8. SumOf(s) = Partial(s, Len(s))
  <2>1. Len(s) \in 0 .. Len(s)
    BY <1>1, SMT
  <2> QED BY <1>1, <1>6, <1>7, <2>1
<1>9. Partial(s, 0) = 0
  <2>1. 1 .. 0 = {} /\ {} \in SUBSET DOMAIN s /\ 0 \in 0 .. Len(s)
    BY <1>1
  <2> QED BY <1>5, <1>7, <2>1
<1>10. ASSUME NEW k \in 1 .. Len(s) PROVE Partial(s, k) = Partial(s, k - 1) + s[k]
  <2> DEFINE t == 1 .. k
  <2>1. t \in SUBSET DOMAIN s /\ t # {} /\ k \in t /\ t \ {k} = 1 .. k - 1
    <3>1. k \in Nat /\ 1 <= k /\ k <= Len(s)
      BY <1>1
    <3>2. t \in SUBSET (1 .. Len(s)) /\ k \in t
      BY <1>1, <3>1
    <3>3. \A j : j \in t \ {k} <=> j \in 1 .. k - 1
      BY <3>1
    <3> QED BY <1>1, <3>2, <3>3
  <2>2. Max(t) = k
    <3>1. t \in SUBSET (1 .. Len(s))
      BY <1>1, <2>1
    <3>2. Max(t) \in t /\ k <= Max(t)
      BY <1>1, <2>1, <3>1, MaxIndex
    <3> QED BY <3>2
  <2>3. G[t] = G[1 .. k - 1] + s[k]
    BY <1>5, <2>1, <2>2
  <2>4. k \in 0 .. Len(s) /\ k - 1 \in 0 .. Len(s)
    BY <1>1
  <2> QED BY <1>7, <2>3, <2>4
<1>11. \A k \in 0 .. Len(s) : Partial(s, k) \in Nat
  <2> DEFINE Bad == {k \in 0 .. Len(s) : Partial(s, k) \notin Nat}
  <2>1. SUFFICES ASSUME Bad # {} PROVE FALSE
    OBVIOUS
  <2>2. PICK k \in Bad : \A j \in Bad : k <= j
    <3>1. Bad \subseteq Nat
      BY <1>1
    <3> HIDE DEF Bad
    <3> QED BY <2>1, <3>1, Least
  <2>3. k # 0
    BY <1>9
  <2>4. k \in 1 .. Len(s) /\ k - 1 \in 0 .. Len(s) /\ ~(k <= k - 1)
    BY <1>1, <2>3
  <2>5. Partial(s, k - 1) \in Nat
    BY <2>2, <2>4
  <2>6. s[k] \in Nat
    BY <1>1, <2>4
  <2> QED BY <1>10, <2>4, <2>5, <2>6
<1> QED BY <1>8, <1>9, <1>10, <1>11

\* No partial sum is greater than the sum.
LEMMA PartialBelow ==
    ASSUME NEW s \in Seq(Nat), NEW k \in 0 .. Len(s)
    PROVE  Partial(s, k) <= SumOf(s)
<1>1. Len(s) \in Nat /\ \A j \in 1 .. Len(s) : s[j] \in Nat
  OBVIOUS
<1> DEFINE Bad == {d \in 0 .. Len(s) : ~(Partial(s, Len(s) - d) <= SumOf(s))}
<1>2. Bad = {}
  <2>1. SUFFICES ASSUME Bad # {} PROVE FALSE
    OBVIOUS
  <2>2. PICK d \in Bad : \A e \in Bad : d <= e
    <3>1. Bad \subseteq Nat
      BY <1>1
    <3> HIDE DEF Bad
    <3> QED BY <2>1, <3>1, Least
  <2> DEFINE n == Len(s) - d
  <2>3. d # 0
    <3>1. ASSUME d = 0 PROVE FALSE
      <4>1. Len(s) - d = Len(s) /\ Len(s) \in 0 .. Len(s)
        BY <1>1, <3>1
      <4>2. Partial(s, Len(s)) = SumOf(s) /\ Partial(s, Len(s)) \in Nat
        BY <4>1, SumLaws
      <4> QED BY <2>2, <4>1, <4>2
    <3> QED BY <3>1
  <2>4. /\ d - 1 \in 0 .. Len(s) /\ ~(d <= d - 1) /\ n + 1 \in 1 .. Len(s) /\ n \in 0 .. Len(s)
        /\ Len(s) - (d - 1) = n + 1 /\ (n + 1) - 1 = n /\ n + 1 \in 0 .. Len(s)
        /\ Len(s) \in 0 .. Len(s)
    BY <1>1, <2>3
  <2>5. Partial(s, n + 1) <= SumOf(s)
    BY <2>2, <2>4
  <2>6. ~(Partial(s, n) <= SumOf(s))
    OBVIOUS
  <2> HIDE DEF n, Bad
  <2>7. Partial(s, n + 1) = Partial(s, n) + s[n + 1]
    BY <2>4, SumLaws
  <2>8. Partial(s, n) \in Nat /\ s[n + 1] \in Nat /\ SumOf(s) \in Nat
    BY <1>1, <2>4, SumLaws
  <2> QED BY <2>5, <2>6, <2>7, <2>8
<1>3. Len(s) - k \in 0 .. Len(s) /\ Len(s) - (Len(s) - k) = k
  BY <1>1
<1> QED BY <1>2, <1>3

-----------------------------------------------------------------------------
(* The inductive invariant.                                                *)

\* The sizes of the fields of a request, of the chunks of a response, and the bytes in these.
Sizes(r) == [k \in DOMAIN Fields(r) |-> Size(Fields(r)[k])]
Carried(r) == [k \in DOMAIN r.chunks |-> r.chunks[k][2]]

\* The blocks of a request, and of a response while it is decoded.
RequestBlocks(r) == {"service", "method", "arr"} \cup Released(r)
ResponseBlocks == {"view", "res", "desc"}

\* What the synchronous call leaves of a request that it has released or that was refused.
SyncLeaves(r) ==
    {"service", "method"} \cup Array(r) \cup (IF r.args \in {Failed, NoJson} THEN {"req"} ELSE {})

\* The request buffer holds the fields before the next one.  It has grown only
\* if the arguments did not fit, and then it is full.
Filled ==
    /\ field \in 1 .. 10 /\ body \in [room : Nat, len : Nat]
    /\ body.len = Partial(Sizes(req), field - 1) /\ body.len <= body.room
    /\ IF field = 9 THEN \/ body.room = DUBBO_BUF_LEN
                         \/ body.room = body.len /\ body.len > DUBBO_BUF_LEN
       ELSE body.room = DUBBO_BUF_LEN

Refused == req.args \in {Failed, NoJson} \/ req.service > 32768 \/ req.method > 32768

EncodeInv ==
    op \in {"sync", "async"} =>
        /\ req \in Requests /\ ~twice
        /\ pc \in {"dubbo_encode", "encode_req_data", "send", "dubbo_req_release", "finished", "aborted",
                   "panicked", "returned"}
        /\ pc \notin {"finished", "panicked"} => req.args \in Nat
        /\ pc = "dubbo_encode" => heap = RequestBlocks(req)
        /\ pc = "encode_req_data" => heap = RequestBlocks(req) \cup {"buf"} /\ Filled
        /\ pc \in {"dubbo_encode", "encode_req_data", "aborted"} => result = "none"
        /\ pc = "aborted" => Needed(req) > DUBBO_BUF_LEN
        /\ pc \in {"send", "returned"} => heap = RequestBlocks(req) \cup {"buf"} /\ result = "packet"
        /\ pc = "send" => body.len = Needed(req) /\ Needed(req) <= DUBBO_BUF_LEN
        /\ pc = "returned" => op = "sync"
        /\ pc = "dubbo_req_release" => op = "sync" /\ heap = RequestBlocks(req) /\ result = NULL
        /\ pc = "panicked" => op = "async" /\ result = NULL
        /\ result = NULL => Refused
        /\ pc = "finished" /\ op = "async" => req.args \in Nat /\ heap = RequestBlocks(req)
        /\ pc = "finished" /\ op = "sync" => heap = SyncLeaves(req)

\* The value is a binary.
HasBinary(r) == r.chunks # << >>

\* The type byte, where there is one, is one of the three that are known.
Known(r) == r.status # 20 \/ r.evt \/ r.type \in 144 .. 146

\* All that was sent has been stored, with room for a zero behind a binary.
Stored(r) ==
    /\ HasText(r) => data.sz = Bytes(r.text)
    /\ HasBinary(r) => /\ data.sz = DataLen(r) /\ data.sz + data.left < data.cap
                       /\ ~EndsCompact(r)
    /\ ~HasText(r) /\ ~HasBinary(r) => data = NoData
    /\ Known(r)

\* The block of a text of no bytes has been freed by the realloc.
DataBlock(r) == IF HasBinary(r) \/ (HasText(r) /\ Bytes(r.text) # 0) THEN {"data"} ELSE {}

\* The chunks before the next one have been stored, and there is a next one.
Growing ==
    /\ HasBinary(pkt) /\ chunk \in DOMAIN pkt.chunks /\ pkt.chunks[1][1] \in {"A", "B"}
    /\ data.sz = Partial(Carried(pkt), chunk - 1) /\ data.sz + data.left < data.cap

DecodeInv ==
    op = "decode" =>
        /\ pkt \in Responses /\ BodySize(pkt) \in 1 .. DUBBO_MAX_PKT_SZ
        /\ pc \in {"decode_res_hdr", "decode_res", "decode_res_data", "read_hs_str", "hs_decode_binary",
                    "hs_decode_binary_chunk", "ok", "failed", "dubbo_res_release", "finished",
                    "aborted", "crashed"}
        /\ pc \in {"dubbo_res_release", "finished"} \/ result = "none"
        /\ pc = "decode_res_hdr" => heap = {} /\ consumed = 0
        /\ pc \in {"decode_res_hdr", "decode_res", "decode_res_data", "read_hs_str", "hs_decode_binary"} =>
              chunk = 1 /\ data = NoData
        /\ pc \notin {"decode_res_hdr", "finished"} =>
              pkt.seri = 2 /\ ~pkt.isreq /\ consumed = DUBBO_HDR_LEN + BodySize(pkt)
        /\ pc = "decode_res" => heap = {"view", "res"}
        /\ pc \in {"decode_res_data", "read_hs_str", "hs_decode_binary", "failed"} => heap = ResponseBlocks
        /\ pc = "decode_res_data" => pkt.status = 20 /\ ~pkt.evt
        /\ pc = "read_hs_str" => HasText(pkt)
        /\ pc = "hs_decode_binary" => HasBinary(pkt)
        /\ pc = "hs_decode_binary_chunk" => Growing /\ heap = ResponseBlocks \cup {"data"}
        /\ pc = "ok" => Stored(pkt) /\ heap = ResponseBlocks \cup DataBlock(pkt)
        /\ pc = "dubbo_res_release" =>
              /\ Stored(pkt) /\ heap = {"res", "desc"} \cup DataBlock(pkt) /\ result = "res"
        /\ pc = "aborted" => EndsCompact(pkt)
        /\ pc = "crashed" =>
              IF HasText(pkt) THEN Chars(pkt.text) > 65535
              ELSE \E k \in DOMAIN pkt.chunks : pkt.chunks[k][2] > 32767
        /\ pc # "finished" => ~twice
        /\ pc = "finished" =>
              /\ twice <=> result = "res" /\ HasText(pkt) /\ Bytes(pkt.text) = 0
              /\ result \in {"res", NULL} /\ (result = "res" => Stored(pkt))
              /\ consumed \in {DUBBO_HDR_LEN, DUBBO_HDR_LEN + BodySize(pkt)}
              /\ consumed # DUBBO_HDR_LEN <=> pkt.seri = 2 /\ ~pkt.isreq
              /\ heap = IF result = NULL /\ consumed > DUBBO_HDR_LEN THEN {"desc"} ELSE {}

\* Between two calls nothing is under way.
IdleInv ==
    /\ pc = "idle" <=> op = "none"
    /\ op = "none" => heap = {} /\ ~twice /\ result = "none"

CodecInv == TypeOK /\ IdleInv /\ EncodeInv /\ DecodeInv

-----------------------------------------------------------------------------
(* Requests and responses.                                                 *)

\* Lengths of a request, and arguments that may be missing.
LEMMA RequestFacts ==
    ASSUME NEW r \in Requests
    PROVE  /\ r.service \in Nat /\ r.method \in Nat /\ r.args \in Nat \cup {Failed, NoJson}
           /\ r.attach \in BOOLEAN
<1>1. r \in [service : Nat, method : Nat, args : Nat \cup {Failed, NoJson}, attach : BOOLEAN]
  BY CodecAssumption
<1> QED BY <1>1

\* The nine fields of a request: six strings, and the arguments between two nulls.
LEMMA FieldFacts ==
    ASSUME NEW r
    PROVE  /\ DOMAIN Fields(r) = 1 .. 9
           /\ \A k \in 1 .. 6 : Fields(r)[k][1] = "string"
           /\ Fields(r)[7][1] = "null" /\ Fields(r)[9][1] = "null"
           /\ Fields(r)[8][1] = "binary" /\ Fields(r)[8][2] = r.args
           /\ \A k \in 1 .. 6 : Fields(r)[k][2] \in {13, r.service, 5, 19, 40, r.method}
<1> DEFINE v == r.service
           m == r.method
           a == r.args
<1> HIDE DEF v, m, a
<1> DEFINE s == << <<"string", 13>>, <<"string", v>>, <<"string", 5>>, <<"string", 19>>,
                   <<"string", 40>>, <<"string", m>>, <<"null", 0>>, <<"binary", a>>, <<"null", 0>> >>
<1>1. Fields(r) = s
  BY DEF Fields, v, m, a
<1>2. DOMAIN s = 1 .. 9
  OBVIOUS
<1>3. /\ s[1] = <<"string", 13>> /\ s[2] = <<"string", v>> /\ s[3] = <<"string", 5>>
      /\ s[4] = <<"string", 19>> /\ s[5] = <<"string", 40>> /\ s[6] = <<"string", m>>
      /\ s[7] = <<"null", 0>> /\ s[8] = <<"binary", a>> /\ s[9] = <<"null", 0>>
  OBVIOUS
<1> HIDE DEF s
<1>4. /\ s[7][1] = "null" /\ s[9][1] = "null" /\ s[8][1] = "binary" /\ s[8][2] = a
      /\ s[1][1] = "string" /\ s[2][1] = "string" /\ s[3][1] = "string" /\ s[4][1] = "string"
      /\ s[5][1] = "string" /\ s[6][1] = "string"
      /\ s[1][2] = 13 /\ s[2][2] = v /\ s[3][2] = 5 /\ s[4][2] = 19 /\ s[5][2] = 40 /\ s[6][2] = m
  BY <1>3
<1>5. \A k \in 1 .. 6 : k = 1 \/ k = 2 \/ k = 3 \/ k = 4 \/ k = 5 \/ k = 6
  OBVIOUS
<1>6. \A k \in 1 .. 6 : s[k][1] = "string" /\ s[k][2] \in {13, v, 5, 19, 40, m}
  BY <1>4, <1>5
<1> QED BY <1>1, <1>2, <1>4, <1>6 DEF v, m, a

\* What a string and a binary take.
LEMMA SizeFacts ==
    ASSUME NEW n \in Nat
    PROVE  StringSize(n) \in Nat /\ StringSize(n) >= 1 /\ BinarySize(n) \in Nat /\ BinarySize(n) >= 1
<1>1. Len(StringHead(n)) \in Nat /\ Len(StringHead(n)) >= 1
  BY DEF StringHead
<1>2. (IF n = 0 THEN 0 ELSE (n - 1) \div BIN_CHUNK_MAX) \in Nat
  BY SMT DEF BIN_CHUNK_MAX
<1> DEFINE d == IF n = 0 THEN 0 ELSE (n - 1) \div BIN_CHUNK_MAX
<1> HIDE DEF d
<1>3. BinarySize(n) = n + 3 * (1 + d) /\ d \in Nat
  BY <1>2 DEF BinarySize, d
<1> QED BY <1>1, <1>3 DEF StringSize

\* What a string takes, and when one is too long.
LEMMA SizeOfString ==
    ASSUME NEW r \in Requests, NEW k \in 1 .. 6
    PROVE  /\ Fields(r)[k][2] \in Nat /\ Sizes(r)[k] = StringSize(Fields(r)[k][2])
           /\ Fields(r)[k][2] > 32768 => r.service > 32768 \/ r.method > 32768
<1> DEFINE F == Fields(r)
           n == F[k][2]
<1>1. /\ DOMAIN F = 1 .. 9 /\ F[k][1] = "string" /\ n \in {13, r.service, 5, 19, 40, r.method}
  BY FieldFacts
<1>2. Sizes(r)[k] = Size(F[k])
  <2>1. k \in DOMAIN F
    BY <1>1
  <2> QED BY <2>1 DEF Sizes
<1>3. r.service \in Nat /\ r.method \in Nat
  BY RequestFacts
<1>4. n \in Nat /\ (n > 32768 => r.service > 32768 \/ r.method > 32768)
  <2> HIDE DEF n
  <2> QED BY <1>1, <1>3
<1>5. Size(F[k]) = StringSize(n)
  <2> HIDE DEF F
  <2> QED BY <1>1, Zenon DEF Size
<1> QED BY <1>2, <1>4, <1>5

\* What the nulls and the arguments take.
LEMMA SizeOfOthers ==
    ASSUME NEW r
    PROVE  Sizes(r)[7] = 1 /\ Sizes(r)[8] = BinarySize(r.args) /\ Sizes(r)[9] = 1
<1> DEFINE F == Fields(r)
<1>1. /\ DOMAIN F = 1 .. 9 /\ F[7][1] = "null" /\ F[9][1] = "null" /\ F[8][1] = "binary" /\ F[8][2] = r.args
  BY FieldFacts
<1>2. Sizes(r)[7] = Size(F[7]) /\ Sizes(r)[8] = Size(F[8]) /\ Sizes(r)[9] = Size(F[9])
  <2>1. 7 \in DOMAIN F /\ 8 \in DOMAIN F /\ 9 \in DOMAIN F
    BY <1>1
  <2> QED BY <2>1 DEF Sizes
<1> HIDE DEF F
<1> QED BY <1>1, <1>2 DEF Size

\* Every field takes a byte at least.
LEMMA SizeOfField ==
    ASSUME NEW r \in Requests, r.args \in Nat, NEW k \in 1 .. 9
    PROVE  Sizes(r)[k] \in Nat /\ Sizes(r)[k] >= 1
<1>1. CASE k \in 1 .. 6
  <2> DEFINE n == Fields(r)[k][2]
  <2>1. n \in Nat /\ Sizes(r)[k] = StringSize(n)
    BY <1>1, SizeOfString
  <2> HIDE DEF n
  <2>2. StringSize(n) \in Nat /\ StringSize(n) >= 1
    BY <2>1, SizeFacts
  <2> QED BY <2>1, <2>2
<1>2. CASE k = 7 \/ k = 9
  BY <1>2, SizeOfOthers
<1>3. CASE k = 8
  <2>1. Sizes(r)[k] = BinarySize(r.args)
    BY <1>3, SizeOfOthers
  <2>2. BinarySize(r.args) \in Nat /\ BinarySize(r.args) >= 1
    BY SizeFacts
  <2> QED BY <2>1, <2>2
<1> QED BY <1>1, <1>2, <1>3

\* The sizes of the fields, as long as the request has arguments.
LEMMA SizesFacts ==
    ASSUME NEW r \in Requests, r.args \in Nat
    PROVE  Sizes(r) \in Seq(Nat) /\ Len(Sizes(r)) = 9 /\ Needed(r) = SumOf(Sizes(r))
<1> DEFINE s == Sizes(r)
<1>1. DOMAIN s = 1 .. 9 /\ s = [k \in 1 .. 9 |-> Size(Fields(r)[k])] /\ Needed(r) = SumOf(s)
  <2>1. DOMAIN Fields(r) = 1 .. 9
    BY FieldFacts
  <2> QED BY <2>1 DEF Sizes, Needed
<1>2. \A k \in 1 .. 9 : s[k] \in Nat
  BY SizeOfField
<1> HIDE DEF s
<1>3. s \in [1 .. 9 -> Nat]
  BY <1>1, <1>2
<1>4. \A n \in Nat : \A t \in [1 .. n -> Nat] : t \in Seq(Nat) /\ Len(t) = n
  OBVIOUS
<1>5. 9 \in Nat
  OBVIOUS
<1>6. s \in Seq(Nat) /\ Len(s) = 9
  BY <1>3, <1>4, <1>5, Zenon
<1> QED BY <1>1, <1>6 DEF s

\* The parts of a response: what its flags allow its value to be.
LEMMA PacketFacts ==
    ASSUME NEW r \in Responses
    PROVE  /\ r.isreq \in BOOLEAN /\ r.evt \in BOOLEAN /\ r.seri \in Byte /\ r.status \in Byte /\ r.type \in Byte
           /\ r.text \in AnyText /\ Binary(r.chunks)
           /\ HasBinary(r) <=> r.status = 20 /\ ~r.evt /\ r.type = 145
           /\ ~(HasText(r) /\ HasBinary(r))
           /\ HasText(r) \/ HasBinary(r) => Known(r)
<1>1. Packet(r)
  BY CodecAssumption
<1>2. /\ r.isreq \in BOOLEAN /\ r.evt \in BOOLEAN /\ r.seri \in Byte /\ r.status \in Byte /\ r.type \in Byte
      /\ r.text \in AnyText /\ Binary(r.chunks)
      /\ HasBinary(r) <=> r.status = 20 /\ ~r.evt /\ r.type = 145
  BY <1>1, Zenon DEF Packet, HasBinary
<1>3. ~(HasText(r) /\ HasBinary(r))
  BY <1>2 DEF HasText
<1>4. HasText(r) \/ HasBinary(r) => Known(r)
  BY <1>2 DEF HasText, Known
<1> QED BY <1>2, <1>3, <1>4

\* The chunks of a binary.
LEMMA ChunkFacts ==
    ASSUME NEW c, Binary(c)
    PROVE  /\ Len(c) \in Nat /\ DOMAIN c = 1 .. Len(c) /\ (c # << >> => Len(c) >= 1)
           /\ \A k \in 1 .. Len(c) :
                 /\ c[k][1] \in {"A", "B", "nibble", "ten"} /\ (c[k][1] = "A" <=> k < Len(c))
                 /\ c[k][2] \in Nat /\ c[k][2] \in Lengths(c[k][1])
<1>1. c \in Seq({"A", "B", "nibble", "ten"} \X Nat)
  BY DEF Binary
<1>2. Len(c) \in Nat /\ DOMAIN c = 1 .. Len(c) /\ (c # << >> => Len(c) >= 1)
  BY <1>1
<1>3. \A k \in 1 .. Len(c) : c[k] \in {"A", "B", "nibble", "ten"} \X Nat
  BY <1>1
<1>4. \A k \in 1 .. Len(c) : c[k][1] \in {"A", "B", "nibble", "ten"} /\ c[k][2] \in Nat
  BY <1>3
<1>5. \A k \in DOMAIN c : (c[k][1] = "A" <=> k < Len(c)) /\ c[k][2] \in Lengths(c[k][1])
  BY DEF Binary
<1> QED BY <1>2, <1>4, <1>5

\* The lengths of the chunks, and their sum.
LEMMA CarriedFacts ==
    ASSUME NEW r \in Responses
    PROVE  /\ Carried(r) \in Seq(Nat) /\ Len(Carried(r)) = Len(r.chunks) /\ DataLen(r) = SumOf(Carried(r))
           /\ \A k \in 1 .. Len(r.chunks) : Carried(r)[k] = r.chunks[k][2]
<1> DEFINE c == r.chunks
           s == Carried(r)
<1>1. Binary(c)
  BY PacketFacts
<1>2. Len(c) \in Nat /\ DOMAIN c = 1 .. Len(c) /\ \A k \in 1 .. Len(c) : c[k][2] \in Nat
  BY <1>1, ChunkFacts
<1>3. s = [k \in 1 .. Len(c) |-> c[k][2]]
  BY <1>2 DEF Carried
<1>4. DataLen(r) = SumOf(s)
  BY DEF DataLen, Carried
<1> HIDE DEF c, s
<1>5. s \in [1 .. Len(c) -> Nat] /\ \A k \in 1 .. Len(c) : s[k] = c[k][2]
  BY <1>2, <1>3
<1>6. s \in Seq(Nat) /\ Len(s) = Len(c)
  BY <1>2, <1>5
<1> QED BY <1>4, <1>5, <1>6 DEF c, s

-----------------------------------------------------------------------------
(* The steps that encode.                                                  *)

\* The first call is not under way.
LEMMA InitHolds == Init => CodecInv
<1> SUFFICES ASSUME Init PROVE CodecInv
  OBVIOUS
<1>1. /\ op = "none" /\ pc = "idle" /\ result = "none" /\ req = None /\ reqid = 0 /\ field = 1
      /\ body = [room |-> 0, len |-> 0] /\ pkt = None /\ chunk = 1 /\ data = NoData /\ consumed = 0
      /\ heap = {} /\ twice = FALSE
  BY DEF Init
<1>2. TypeOK
  <2>1. 0 \in 0 .. MaxReqId - 1
    BY CodecAssumption
  <2>2. data \in [sz : Nat, left : Nat, cap : Nat] /\ body \in [room : Nat, len : Nat]
    BY <1>1 DEF NoData
  <2>3. op \in {"none", "sync", "async", "decode"} /\ result \in {"none", "packet", "res", NULL} /\ pc \in {"idle"}
    BY <1>1
  <2>4. field \in 1 .. 10 /\ chunk \in Nat \ {0} /\ consumed \in Nat
    BY <1>1
  <2> QED BY <1>1, <2>1, <2>2, <2>3, <2>4 DEF TypeOK
<1>3. IdleInv /\ EncodeInv /\ DecodeInv
  BY <1>1 DEF IdleInv, EncodeInv, DecodeInv
<1> QED BY <1>2, <1>3 DEF CodecInv

\* The blocks of a request, none of which is the buffer.
LEMMA BlockFacts ==
    ASSUME NEW r
    PROVE  /\ RequestBlocks(r) \subseteq {"req", "service", "method", "arr", "argv", "argv_method", "args",
                                          "attach"}
           /\ RequestBlocks(r) \ Released(r) = {"service", "method", "arr"}
           /\ Released(r) \subseteq RequestBlocks(r)
<1>1. CASE r.attach
  BY <1>1 DEF RequestBlocks, Released
<1>2. CASE ~r.attach
  BY <1>2 DEF RequestBlocks, Released
<1> QED BY <1>1, <1>2

\* Arguments are lengths, or none of the two values that stand for a refusal.
LEMMA RefusedArgs ==
    ASSUME NEW r \in Requests
    PROVE  r.args \in Nat <=> r.args \notin {Failed, NoJson}
<1>1. r.args \in Nat \cup {Failed, NoJson}
  BY RequestFacts
<1>2. Failed \notin Nat
  <2>1. Failed \notin Int
    BY HessianAssumption
  <2> QED BY <2>1
<1>3. NoJson \notin Nat
  BY CodecAssumption
<1> QED BY <1>1, <1>2, <1>3

\* A request is made, or refused for its arguments.
LEMMA CreateStep ==
    ASSUME CodecInv, NEW caller \in {"sync", "async"}, NEW r \in Requests, dubbo_req_create(caller, r)
    PROVE  CodecInv'
<1>1. /\ op' = caller /\ req' = r /\ reqid' = next_reqid /\ field' = field /\ body' = body
      /\ pkt' = pkt /\ chunk' = chunk /\ data' = data /\ consumed' = consumed /\ twice' = twice
  BY DEF dubbo_req_create, decoding
<1>2. ~twice
  BY DEF dubbo_req_create, CodecInv, IdleInv
<1>3. next_reqid \in 0 .. MaxReqId - 1
  <2>1. reqid \in 0 .. MaxReqId - 1
    BY DEF CodecInv, TypeOK
  <2> QED BY <2>1, CodecAssumption, SMT DEF next_reqid
<1>4. req' \in Requests \cup {None} /\ op' \in {"none", "sync", "async", "decode"} /\ op' # "decode"
      /\ op' # "none"
  BY <1>1
<1>5. CASE r.args \in {Failed, NoJson}
  <2>1. /\ heap' = {"req", "service", "method"} \cup Array(r) /\ result' = NULL
        /\ pc' = IF caller = "sync" THEN "finished" ELSE "panicked"
    BY <1>5 DEF dubbo_req_create
  <2>2. heap' = SyncLeaves(r)
    BY <1>5, <2>1 DEF SyncLeaves
  <2>3. Refused'
    BY <1>1, <1>5 DEF Refused
  <2>4. EncodeInv'
    BY <1>1, <1>2, <2>1, <2>2, <2>3 DEF EncodeInv, NULL
  <2>5. TypeOK'
    <3>1. result' \in {"none", "packet", "res", NULL} /\ pc' \in {"finished", "panicked"}
      BY <2>1
    <3>2. heap' \subseteq {"req", "service", "method", "arr", "argv", "argv_method", "args", "attach",
                          "buf", "view", "res", "desc", "data"}
      BY <2>1 DEF Array
    <3> QED BY <1>1, <1>3, <1>4, <3>1, <3>2 DEF CodecInv, TypeOK
  <2>6. pc' # "idle"
    BY <2>1
  <2> QED BY <1>4, <2>4, <2>5, <2>6 DEF CodecInv, IdleInv, DecodeInv
<1>6. CASE r.args \notin {Failed, NoJson}
  <2>1. heap' = RequestBlocks(r) /\ result' = "none" /\ pc' = "dubbo_encode"
    BY <1>6 DEF dubbo_req_create, RequestBlocks
  <2>2. r.args \in Nat
    BY <1>6, RefusedArgs
  <2>3. EncodeInv'
    BY <1>1, <1>2, <2>1, <2>2 DEF EncodeInv, NULL
  <2>4. TypeOK'
    <3>1. heap' \subseteq {"req", "service", "method", "arr", "argv", "argv_method", "args", "attach",
                          "buf", "view", "res", "desc", "data"}
      BY <2>1, BlockFacts
    <3>2. result' \in {"none", "packet", "res", NULL} /\ pc' \in {"dubbo_encode"}
      BY <2>1
    <3> QED BY <1>1, <1>3, <1>4, <3>1, <3>2 DEF CodecInv, TypeOK
  <2> QED BY <1>4, <2>1, <2>3, <2>4 DEF CodecInv, IdleInv, DecodeInv
<1> QED BY <1>5, <1>6

\* A step that leaves the request, its id and the response alone.
LEMMA EncodingKeeps ==
    ASSUME CodecInv, op \in {"sync", "async"}, UNCHANGED <<op, req, reqid, decoding>>,
           pc' \in {"encode_req_data", "send", "dubbo_req_release", "finished", "aborted", "panicked",
                    "returned"},
           field' \in 1 .. 10, body' \in [room : Nat, len : Nat],
           result' \in {"none", "packet", NULL}, heap' \subseteq RequestBlocks(req) \cup {"buf"},
           twice' = twice, EncodeInv'
    PROVE  CodecInv'
<1>1. TypeOK'
  <2>1. heap' \subseteq {"req", "service", "method", "arr", "argv", "argv_method", "args", "attach",
                        "buf", "view", "res", "desc", "data"}
    BY BlockFacts
  <2> QED BY <2>1 DEF CodecInv, TypeOK, decoding
<1> QED BY <1>1 DEF CodecInv, IdleInv, DecodeInv

\* What freeing blocks does when all of them are allocated.
LEMMA FreedOnce ==
    ASSUME CodecInv, NEW bs, bs \subseteq heap, Freed(bs)
    PROVE  heap' = heap \ bs /\ twice' = twice
<1>1. twice \in BOOLEAN
  BY DEF CodecInv, TypeOK
<1> QED BY <1>1 DEF Freed

\* The empty buffer.
LEMMA StartStep ==
    ASSUME CodecInv, dubbo_encode
    PROVE  CodecInv'
<1>1. /\ pc = "dubbo_encode" /\ field' = 1 /\ body' = [room |-> DUBBO_BUF_LEN, len |-> 0]
      /\ heap' = heap \cup {"buf"} /\ pc' = "encode_req_data" /\ result' = result /\ twice' = twice
      /\ UNCHANGED <<op, req, reqid, decoding>>
  BY DEF dubbo_encode
<1>2. op \in {"sync", "async"}
  BY <1>1 DEF CodecInv, TypeOK, IdleInv, DecodeInv
<1>3. /\ req \in Requests /\ req.args \in Nat /\ ~twice /\ heap = RequestBlocks(req) /\ result = "none"
  BY <1>1, <1>2 DEF CodecInv, EncodeInv
<1>4. Filled'
  <2>1. Sizes(req) \in Seq(Nat)
    BY <1>3, SizesFacts
  <2>2. Partial(Sizes(req), 0) = 0
    BY <2>1, SumLaws
  <2>3. /\ body'.len = 0 /\ body'.room = 8192 /\ body' \in [room : Nat, len : Nat] /\ field' = 1
        /\ field' - 1 = 0 /\ field' \in 1 .. 10
    BY <1>1 DEF DUBBO_BUF_LEN
  <2>4. req' = req
    BY <1>1
  <2> QED BY <2>2, <2>3, <2>4 DEF Filled, DUBBO_BUF_LEN
<1>5. EncodeInv'
  BY <1>1, <1>2, <1>3, <1>4 DEF EncodeInv, NULL
<1>6. body' \in [room : Nat, len : Nat] /\ field' \in 1 .. 10
  BY <1>4 DEF Filled
<1> QED BY <1>1, <1>2, <1>3, <1>5, <1>6, EncodingKeeps

\* What is known while the fields are written.
LEMMA WritingFacts ==
    ASSUME CodecInv, pc = "encode_req_data"
    PROVE  /\ op \in {"sync", "async"} /\ req \in Requests /\ req.args \in Nat /\ ~twice /\ result = "none"
           /\ heap = RequestBlocks(req) \cup {"buf"} /\ Filled
           /\ body.len \in Nat /\ body.room \in Nat /\ body = [room |-> body.room, len |-> body.len]
           /\ (field \in DOMAIN Fields(req) <=> field \in 1 .. 9) /\ (field \notin 1 .. 9 => field = 10)
<1>1. op \in {"sync", "async"}
  BY DEF CodecInv, TypeOK, IdleInv, DecodeInv
<1>2. /\ req \in Requests /\ req.args \in Nat /\ ~twice /\ result = "none"
      /\ heap = RequestBlocks(req) \cup {"buf"} /\ Filled
  BY <1>1 DEF CodecInv, EncodeInv
<1>3. body \in [room : Nat, len : Nat] /\ field \in 1 .. 10
  BY <1>2 DEF Filled
<1>4. DOMAIN Fields(req) = 1 .. 9
  BY FieldFacts
<1> QED BY <1>1, <1>2, <1>3, <1>4

\* A string or a null is written where there is room, and ends the process where there is none.
LEMMA FixedStep ==
    ASSUME CodecInv, pc = "encode_req_data", field \in 1 .. 9, field # 8,
           NEW n, n = Sizes(req)[field], Fixed(n), UNCHANGED <<op, req, reqid, decoding>>
    PROVE  CodecInv'
<1>1. /\ op \in {"sync", "async"} /\ req \in Requests /\ req.args \in Nat /\ ~twice /\ result = "none"
      /\ heap = RequestBlocks(req) \cup {"buf"} /\ Filled
      /\ body.len \in Nat /\ body.room \in Nat /\ body = [room |-> body.room, len |-> body.len]
  BY WritingFacts
<1>2. /\ Sizes(req) \in Seq(Nat) /\ Len(Sizes(req)) = 9 /\ Needed(req) = SumOf(Sizes(req))
      /\ n \in Nat /\ n >= 1
  <2>1. Sizes(req)[field] \in Nat /\ Sizes(req)[field] >= 1
    BY <1>1, SizeOfField
  <2>2. Sizes(req) \in Seq(Nat) /\ Len(Sizes(req)) = 9 /\ Needed(req) = SumOf(Sizes(req))
    BY <1>1, SizesFacts
  <2> QED BY <2>1, <2>2
<1> DEFINE before == Partial(Sizes(req), field - 1)
           after == Partial(Sizes(req), field)
<1>3. after = before + n /\ before \in Nat /\ after <= Needed(req) /\ Needed(req) \in Nat
  <2>1. field \in 1 .. Len(Sizes(req)) /\ field - 1 \in 0 .. Len(Sizes(req)) /\ field \in 0 .. Len(Sizes(req))
        /\ Len(Sizes(req)) \in 0 .. Len(Sizes(req))
    BY <1>2
  <2>2. after = before + n /\ before \in Nat /\ Needed(req) \in Nat
    BY <1>2, <2>1, SumLaws
  <2>3. after <= Needed(req)
    BY <1>2, <2>1, PartialBelow
  <2> QED BY <2>2, <2>3
<1>4. body.len = before /\ body.len <= body.room /\ body.room >= 8192
      /\ (field # 9 => body.room = 8192) /\ (field = 9 => body.room = 8192 \/ body.room = body.len)
  BY <1>1 DEF Filled, DUBBO_BUF_LEN
<1> HIDE DEF before, after
<1>5. CASE body.len + n > body.room
  <2>1. pc' = "aborted" /\ field' = field /\ body' = body /\ result' = result /\ heap' = heap /\ twice' = twice
    BY <1>5 DEF Fixed, memory
  <2>2. Needed(req) > 8192
    BY <1>2, <1>3, <1>4, <1>5
  <2>3. EncodeInv'
    BY <1>1, <2>1, <2>2 DEF EncodeInv, DUBBO_BUF_LEN, NULL
  <2>4. body' \in [room : Nat, len : Nat] /\ field' \in 1 .. 10
    BY <1>1, <2>1
  <2> QED BY <1>1, <2>1, <2>3, <2>4, EncodingKeeps
<1>6. CASE ~(body.len + n > body.room)
  <2>1. /\ pc' = pc /\ field' = field + 1 /\ body' = [body EXCEPT !.len = @ + n]
        /\ result' = result /\ heap' = heap /\ twice' = twice
    BY <1>6 DEF Fixed, Written, memory
  <2>2. body' = [room |-> body.room, len |-> body.len + n]
    BY <1>1, <2>1
  <2>3. /\ body'.len = body.len + n /\ body'.room = body.room /\ body' \in [room : Nat, len : Nat]
        /\ field' \in 1 .. 10 /\ field' - 1 = field /\ field' # 9 /\ req' = req
    <3>1. field' = field + 1 /\ field \in 1 .. 9 /\ field # 8 /\ req' = req
      BY <2>1
    <3>2. body.len + n \in Nat /\ body.room \in Nat
      BY <1>1, <1>2
    <3>3. body'.len = body.len + n /\ body'.room = body.room /\ body' \in [room : Nat, len : Nat]
      BY <2>2, <3>2
    <3> QED BY <3>1, <3>3
  <2>4. body'.room = 8192
    BY <1>2, <1>4, <1>6, <2>3
  <2>5. body'.len <= body'.room
    BY <1>1, <1>2, <1>6, <2>3
  <2>6. body'.len = Partial(Sizes(req), field)
    BY <1>3, <1>4, <2>3 DEF after
  <2>7. Filled'
    <3>1. Partial(Sizes(req'), field' - 1) = body'.len
      BY <2>3, <2>6
    <3> QED BY <3>1, <2>3, <2>4, <2>5, <2>6 DEF Filled, DUBBO_BUF_LEN
  <2>8. EncodeInv'
    BY <1>1, <2>1, <2>7 DEF EncodeInv, NULL
  <2> QED BY <1>1, <2>1, <2>3, <2>8, EncodingKeeps
<1> QED BY <1>5, <1>6

\* Strings of more than 32768 bytes are refused, and the buffer is released.
LEMMA StringStep ==
    ASSUME CodecInv, write_hs_str
    PROVE  CodecInv'
<1> DEFINE n == Fields(req)[field][2]
<1>1. /\ pc = "encode_req_data" /\ field \in DOMAIN Fields(req) /\ Fields(req)[field][1] = "string"
      /\ UNCHANGED <<op, req, reqid, decoding>>
  BY DEF write_hs_str, Encoding
<1>2. /\ op \in {"sync", "async"} /\ req \in Requests /\ req.args \in Nat /\ ~twice /\ result = "none"
      /\ heap = RequestBlocks(req) \cup {"buf"} /\ field \in 1 .. 9 /\ Filled
  BY <1>1, WritingFacts
<1>3. field \in 1 .. 6
  <2>1. Fields(req)[7][1] # "string" /\ Fields(req)[8][1] # "string" /\ Fields(req)[9][1] # "string"
    BY FieldFacts
  <2> QED BY <1>1, <1>2, <2>1
<1>4. n \in Nat /\ Sizes(req)[field] = StringSize(n) /\ (n > 32768 => req.service > 32768 \/ req.method > 32768)
  <2>1. req \in Requests /\ req.args \in Nat
    BY <1>2
  <2> QED BY <1>3, <2>1, SizeOfString
<1> HIDE DEF n
<1>5. CASE n > 32768
  <2>1. /\ result' = NULL /\ Freed({"buf"}) /\ field' = field /\ body' = body
        /\ pc' = IF op = "sync" THEN "dubbo_req_release" ELSE "panicked"
    BY <1>5 DEF write_hs_str, n
  <2>2. heap' = RequestBlocks(req) /\ twice' = twice
    <3>1. heap' = heap \ {"buf"} /\ twice' = twice
      BY <1>2, <2>1, FreedOnce
    <3>2. "buf" \notin RequestBlocks(req)
      BY BlockFacts
    <3> QED BY <1>2, <3>1, <3>2
  <2>3. Refused'
    BY <1>1, <1>4, <1>5 DEF Refused
  <2>4. EncodeInv'
    BY <1>1, <1>2, <2>1, <2>2, <2>3 DEF EncodeInv, NULL
  <2>5. body' \in [room : Nat, len : Nat] /\ field' \in 1 .. 10
    BY <1>2, <2>1 DEF Filled
  <2> QED BY <1>1, <1>2, <2>1, <2>2, <2>4, <2>5, EncodingKeeps
<1>6. CASE ~(n > 32768)
  <2>1. Fixed(StringSize(n))
    BY <1>6 DEF write_hs_str, n
  <2>2. field # 8
    BY <1>3
  <2> QED BY <1>1, <1>2, <1>4, <2>1, <2>2, FixedStep
<1> QED BY <1>5, <1>6

\* One byte.
LEMMA NullStep ==
    ASSUME CodecInv, write_hs_null
    PROVE  CodecInv'
<1>1. /\ pc = "encode_req_data" /\ field \in DOMAIN Fields(req) /\ Fields(req)[field][1] = "null"
      /\ UNCHANGED <<op, req, reqid, decoding>> /\ Fixed(1)
  BY DEF write_hs_null, Encoding
<1>2. req \in Requests /\ req.args \in Nat /\ field \in 1 .. 9
  BY <1>1, WritingFacts
<1>3. field = 7 \/ field = 9
  <2>1. \A k \in 1 .. 6 : Fields(req)[k][1] # "null"
    BY FieldFacts
  <2>2. Fields(req)[8][1] # "null"
    BY FieldFacts
  <2> QED BY <1>1, <1>2, <2>1, <2>2
<1>4. Sizes(req)[field] = 1
  BY <1>3, SizeOfOthers
<1> QED BY <1>1, <1>2, <1>3, <1>4, FixedStep

\* The arguments, for which the buffer grows if it must.
LEMMA BinaryStep ==
    ASSUME CodecInv, hs_encode_binary
    PROVE  CodecInv'
<1> DEFINE n == BinarySize(Fields(req)[field][2])
           e == body.len + n
<1>1. /\ pc = "encode_req_data" /\ field \in DOMAIN Fields(req) /\ Fields(req)[field][1] = "binary"
      /\ UNCHANGED <<op, req, reqid, decoding>>
      /\ body' = [room |-> IF e > body.room THEN e ELSE body.room, len |-> e]
      /\ field' = field + 1 /\ pc' = pc /\ result' = result /\ heap' = heap /\ twice' = twice
  BY DEF hs_encode_binary, Encoding, memory
<1>2. /\ op \in {"sync", "async"} /\ req \in Requests /\ req.args \in Nat /\ ~twice /\ result = "none"
      /\ heap = RequestBlocks(req) \cup {"buf"} /\ field \in 1 .. 9 /\ Filled
      /\ body.len \in Nat /\ body.room \in Nat
  BY <1>1, WritingFacts
<1>3. field = 8 /\ n = BinarySize(req.args)
  <2>1. \A k \in 1 .. 6 : Fields(req)[k][1] # "binary"
    BY FieldFacts
  <2>2. Fields(req)[7][1] # "binary" /\ Fields(req)[9][1] # "binary" /\ Fields(req)[8][2] = req.args
    BY FieldFacts
  <2>3. field = 8
    BY <1>1, <1>2, <2>1, <2>2
  <2> QED BY <2>2, <2>3
<1> HIDE DEF n
<1>4. n \in Nat /\ Partial(Sizes(req), 8) = Partial(Sizes(req), 7) + n
  <2>1. Sizes(req) \in Seq(Nat) /\ Len(Sizes(req)) = 9 /\ Sizes(req)[8] = n
    BY <1>2, <1>3, SizesFacts, SizeOfOthers
  <2>0. n \in Nat
    BY <1>2, <1>3, SizeFacts
  <2>2. 8 \in 1 .. Len(Sizes(req)) /\ 8 - 1 = 7
    BY <2>1
  <2> QED BY <2>0, <2>1, <2>2, SumLaws
<1>5. body.len = Partial(Sizes(req), 7) /\ body.room = 8192
  BY <1>2, <1>3 DEF Filled, DUBBO_BUF_LEN
<1>6. /\ body'.len = e /\ e \in Nat /\ body'.room = IF e > 8192 THEN e ELSE 8192
      /\ body' \in [room : Nat, len : Nat]
  BY <1>1, <1>2, <1>4, <1>5
<1>7. field' = 9 /\ field' - 1 = 8 /\ req' = req
  BY <1>1, <1>3
<1>8. e = Partial(Sizes(req), 8)
  BY <1>4, <1>5
<1> HIDE DEF e
<1>9. Filled'
  BY <1>6, <1>7, <1>8 DEF Filled, DUBBO_BUF_LEN
<1>10. EncodeInv'
  BY <1>1, <1>2, <1>9 DEF EncodeInv, NULL
<1>11. field' \in 1 .. 10
  BY <1>7
<1> QED BY <1>1, <1>2, <1>6, <1>10, <1>11, EncodingKeeps

\* The packet is complete when all fields are written.
LEMMA HeaderStep ==
    ASSUME CodecInv, encode_req_hdr
    PROVE  CodecInv'
<1>1. /\ pc = "encode_req_data" /\ field \notin DOMAIN Fields(req) /\ result' = "packet" /\ pc' = "send"
      /\ UNCHANGED <<op, req, reqid, decoding>> /\ field' = field /\ body' = body /\ heap' = heap /\ twice' = twice
  BY DEF encode_req_hdr, encoding, memory
<1>2. /\ op \in {"sync", "async"} /\ req \in Requests /\ req.args \in Nat /\ ~twice
      /\ heap = RequestBlocks(req) \cup {"buf"} /\ field = 10 /\ Filled
  BY <1>1, WritingFacts
<1>3. /\ body.len = Partial(Sizes(req), 9) /\ body.len <= 8192 /\ body \in [room : Nat, len : Nat]
  BY <1>2 DEF Filled, DUBBO_BUF_LEN
<1>4. Needed(req) = Partial(Sizes(req), 9)
  <2>1. Sizes(req) \in Seq(Nat) /\ Len(Sizes(req)) = 9 /\ Needed(req) = SumOf(Sizes(req))
    BY <1>2, SizesFacts
  <2>2. SumOf(Sizes(req)) = Partial(Sizes(req), Len(Sizes(req)))
    BY <2>1, SumLaws
  <2> QED BY <2>1, <2>2
<1>5. EncodeInv'
  BY <1>1, <1>2, <1>3, <1>4 DEF EncodeInv, DUBBO_BUF_LEN, NULL
<1>6. field' \in 1 .. 10 /\ body' \in [room : Nat, len : Nat]
  BY <1>1, <1>2, <1>3
<1> QED BY <1>1, <1>2, <1>5, <1>6, EncodingKeeps

\* What is known of a packet that is sent.
LEMMA SendingFacts ==
    ASSUME CodecInv, pc = "send"
    PROVE  /\ op \in {"sync", "async"} /\ req \in Requests /\ req.args \in Nat /\ ~twice
           /\ heap = RequestBlocks(req) \cup {"buf"} /\ result = "packet"
           /\ body \in [room : Nat, len : Nat] /\ field \in 1 .. 10
<1>1. op \in {"sync", "async"}
  BY DEF CodecInv, TypeOK, IdleInv, DecodeInv
<1>2. body \in [room : Nat, len : Nat] /\ field \in 1 .. 10
  BY DEF CodecInv, TypeOK
<1> QED BY <1>1, <1>2 DEF CodecInv, EncodeInv

\* The benchmark releases the packet alone.
LEMMA SentStep ==
    ASSUME CodecInv, cli_send_req
    PROVE  CodecInv'
<1>1. /\ pc = "send" /\ op = "async" /\ pc' = "finished" /\ Freed({"buf"}) /\ result' = result
      /\ UNCHANGED <<op, req, reqid, decoding>> /\ field' = field /\ body' = body
  BY DEF cli_send_req, encoding
<1>2. /\ req \in Requests /\ req.args \in Nat /\ ~twice /\ heap = RequestBlocks(req) \cup {"buf"}
      /\ result = "packet" /\ body \in [room : Nat, len : Nat] /\ field \in 1 .. 10
  BY <1>1, SendingFacts
<1>3. heap' = RequestBlocks(req) /\ twice' = twice
  <2>1. heap' = heap \ {"buf"} /\ twice' = twice
    BY <1>1, <1>2, FreedOnce
  <2>2. "buf" \notin RequestBlocks(req)
    BY BlockFacts
  <2> QED BY <1>2, <2>1, <2>2
<1>4. EncodeInv'
  BY <1>1, <1>2, <1>3 DEF EncodeInv, NULL
<1> QED BY <1>1, <1>2, <1>3, <1>4, EncodingKeeps

\* The synchronous call returns, and releases nothing.
LEMMA AtOnceStep ==
    ASSUME CodecInv, dubbo_invoke_sync
    PROVE  CodecInv'
<1>1. /\ pc = "send" /\ op = "sync" /\ pc' = "returned" /\ result' = result /\ heap' = heap /\ twice' = twice
      /\ UNCHANGED <<op, req, reqid, decoding>> /\ field' = field /\ body' = body
  BY DEF dubbo_invoke_sync, encoding, memory
<1>2. /\ req \in Requests /\ req.args \in Nat /\ ~twice /\ heap = RequestBlocks(req) \cup {"buf"}
      /\ result = "packet" /\ body \in [room : Nat, len : Nat] /\ field \in 1 .. 10
  BY <1>1, SendingFacts
<1>3. EncodeInv'
  BY <1>1, <1>2 DEF EncodeInv, NULL
<1> QED BY <1>1, <1>2, <1>3, EncodingKeeps

\* The synchronous call frees the request, but for its strings and the array,
\* and the buffer if there is one.
LEMMA ReqReleaseStep ==
    ASSUME CodecInv, dubbo_req_release
    PROVE  CodecInv'
<1> DEFINE bs == Released(req) \cup (IF result = "packet" THEN {"buf"} ELSE {})
<1>1. /\ op = "sync" /\ pc \in {"send", "dubbo_req_release"} /\ pc' = "finished" /\ Freed(bs)
      /\ result' = result /\ UNCHANGED <<op, req, reqid, decoding>> /\ field' = field /\ body' = body
  BY DEF dubbo_req_release, encoding
<1>2. /\ req \in Requests /\ req.args \in Nat /\ ~twice /\ (result = NULL => Refused)
      /\ result \in {"packet", NULL}
      /\ heap = RequestBlocks(req) \cup (IF result = "packet" THEN {"buf"} ELSE {})
  <2>1. CASE pc = "send"
    BY <1>1, <2>1, SendingFacts DEF NULL
  <2>2. CASE pc = "dubbo_req_release"
    BY <1>1, <2>2 DEF CodecInv, EncodeInv, NULL
  <2> QED BY <1>1, <2>1, <2>2
<1>3. heap' = {"service", "method", "arr"} /\ twice' = twice
  <2>1. RequestBlocks(req) \ Released(req) = {"service", "method", "arr"}
        /\ Released(req) \subseteq RequestBlocks(req) /\ "buf" \notin RequestBlocks(req)
    BY BlockFacts
  <2>2. bs \subseteq heap
    BY <1>2, <2>1
  <2>3. heap' = heap \ bs /\ twice' = twice
    <3> HIDE DEF bs
    <3> QED BY <1>1, <2>2, FreedOnce
  <2> QED BY <1>2, <2>1, <2>3
<1> HIDE DEF bs
<1>4. SyncLeaves(req) = {"service", "method", "arr"}
  <2>1. req.args \notin {Failed, NoJson}
    BY <1>2, RefusedArgs
  <2> QED BY <2>1 DEF SyncLeaves, Array
<1>5. (result = NULL => Refused)'
  <2>1. Refused' <=> Refused
    BY <1>1 DEF Refused
  <2> QED BY <1>1, <1>2, <2>1
<1>6. EncodeInv'
  BY <1>1, <1>2, <1>3, <1>4, <1>5 DEF EncodeInv
<1>7. body' \in [room : Nat, len : Nat] /\ field' \in 1 .. 10
  BY <1>1 DEF CodecInv, TypeOK
<1>8. heap' \subseteq RequestBlocks(req) \cup {"buf"}
  BY <1>3 DEF RequestBlocks
<1> QED BY <1>1, <1>2, <1>3, <1>6, <1>7, <1>8, EncodingKeeps

-----------------------------------------------------------------------------
(* The steps that decode.                                                  *)

\* A step that leaves the request and the response alone.
LEMMA DecodingKeeps ==
    ASSUME CodecInv, op = "decode", encoding' = encoding, pkt' = pkt,
           pc' \in {"decode_res", "decode_res_data", "read_hs_str", "hs_decode_binary",
                    "hs_decode_binary_chunk", "ok", "failed", "dubbo_res_release", "finished",
                    "aborted", "crashed"},
           chunk' \in Nat \ {0}, data' \in [sz : Nat, left : Nat, cap : Nat], consumed' \in Nat,
           result' \in {"none", "res", NULL}, heap' \subseteq {"view", "res", "desc", "data"},
           twice' \in BOOLEAN, DecodeInv'
    PROVE  CodecInv'
<1>1. op' = op /\ req' = req /\ reqid' = reqid /\ field' = field /\ body' = body
  BY DEF encoding
<1>2. TypeOK'
  BY <1>1 DEF CodecInv, TypeOK
<1> QED BY <1>1, <1>2 DEF CodecInv, IdleInv, EncodeInv

\* What is known of any response that is being decoded.
LEMMA DecodingFacts ==
    ASSUME CodecInv, pc \in {"decode_res_hdr", "decode_res", "decode_res_data", "read_hs_str",
                             "hs_decode_binary", "hs_decode_binary_chunk", "ok", "failed", "dubbo_res_release"}
    PROVE  /\ op = "decode" /\ pkt \in Responses /\ BodySize(pkt) \in 1 .. DUBBO_MAX_PKT_SZ
           /\ twice = FALSE /\ (pc # "dubbo_res_release" => result = "none") /\ chunk \in Nat \ {0}
           /\ data \in [sz : Nat, left : Nat, cap : Nat] /\ consumed \in Nat
           /\ pc # "decode_res_hdr" =>
                 pkt.seri = 2 /\ ~pkt.isreq /\ consumed = DUBBO_HDR_LEN + BodySize(pkt)
<1>1. op = "decode"
  BY DEF CodecInv, TypeOK, IdleInv, EncodeInv
<1>2. DecodeInv
  BY DEF CodecInv
<1>3. chunk \in Nat \ {0} /\ data \in [sz : Nat, left : Nat, cap : Nat] /\ consumed \in Nat /\ twice \in BOOLEAN
  BY DEF CodecInv, TypeOK
<1>4. /\ pkt \in Responses /\ BodySize(pkt) \in 1 .. DUBBO_MAX_PKT_SZ /\ ~twice
      /\ (pc # "dubbo_res_release" => result = "none")
      /\ pc # "decode_res_hdr" =>
            pkt.seri = 2 /\ ~pkt.isreq /\ consumed = DUBBO_HDR_LEN + BodySize(pkt)
  BY <1>1, <1>2 DEF DecodeInv
<1> QED BY <1>1, <1>3, <1>4

\* A complete packet.
LEMMA DecodeStep ==
    ASSUME CodecInv, NEW r \in Responses, dubbo_decode(r)
    PROVE  CodecInv'
<1>1. /\ pc = "idle" /\ op' = "decode" /\ pkt' = r /\ chunk' = 1 /\ data' = NoData /\ consumed' = 0
      /\ result' = "none" /\ heap' = {} /\ pc' = "decode_res_hdr" /\ twice' = twice
      /\ req' = req /\ reqid' = reqid /\ field' = field /\ body' = body
      /\ BodySize(r) \in 1 .. DUBBO_MAX_PKT_SZ
  BY DEF dubbo_decode, is_completed_dubbo_pkt
<1>2. ~twice
  BY <1>1 DEF CodecInv, IdleInv
<1>3. DecodeInv'
  BY <1>1, <1>2 DEF DecodeInv
<1>4. data' \in [sz : Nat, left : Nat, cap : Nat]
  BY <1>1 DEF NoData
<1>5. TypeOK'
  BY <1>1, <1>4 DEF CodecInv, TypeOK
<1> QED BY <1>1, <1>3, <1>5 DEF CodecInv, IdleInv, EncodeInv

\* The greatest size is a number.
LEMMA MaxSize == DUBBO_MAX_PKT_SZ \in Nat
BY SMT DEF DUBBO_MAX_PKT_SZ

\* A body is not empty.
LEMMA BodyFacts ==
    ASSUME NEW n \in 1 .. DUBBO_MAX_PKT_SZ
    PROVE  n \in Nat /\ n >= 1 /\ 16 + n > 16 /\ 16 + n # 16
BY MaxSize

\* A header that is rejected leaves the body behind.
LEMMA HdrStep ==
    ASSUME CodecInv, decode_res_hdr
    PROVE  CodecInv'
<1>1. /\ pc = "decode_res_hdr" /\ encoding' = encoding /\ pkt' = pkt /\ chunk' = chunk /\ data' = data
      /\ twice' = twice
  BY DEF decode_res_hdr
<1>2. /\ op = "decode" /\ pkt \in Responses /\ BodySize(pkt) \in 1 .. DUBBO_MAX_PKT_SZ /\ twice = FALSE
      /\ result = "none" /\ chunk \in Nat \ {0} /\ data \in [sz : Nat, left : Nat, cap : Nat]
  BY <1>1, DecodingFacts
<1>3. heap = {} /\ chunk = 1 /\ data = NoData
  BY <1>1, <1>2 DEF CodecInv, DecodeInv
<1>4. op' = op /\ BodySize(pkt) \in Nat /\ ~(BodySize(pkt) > DUBBO_MAX_PKT_SZ) /\ BodySize(pkt) >= 1
  BY <1>1, <1>2, MaxSize DEF encoding
<1>5. CASE pkt.seri # 2 \/ pkt.isreq
  <2>1. consumed' = 16 /\ result' = NULL /\ pc' = "finished" /\ heap' = heap
    BY <1>5 DEF decode_res_hdr, DUBBO_HDR_LEN
  <2>2. DecodeInv'
    BY <1>1, <1>2, <1>3, <1>4, <1>5, <2>1 DEF DecodeInv, DUBBO_HDR_LEN, NULL
  <2> QED BY <1>1, <1>2, <1>3, <2>1, <2>2, DecodingKeeps
<1>6. CASE ~(pkt.seri # 2 \/ pkt.isreq)
  <2>1. /\ consumed' = DUBBO_HDR_LEN + BodySize(pkt) /\ heap' = {"view", "res"} /\ result' = result
        /\ pc' = "decode_res"
    BY <1>4, <1>6 DEF decode_res_hdr
  <2>2. DecodeInv'
    BY <1>1, <1>2, <1>3, <1>4, <1>6, <2>1 DEF DecodeInv
  <2>3. consumed' \in Nat
    BY <1>4, <2>1 DEF DUBBO_HDR_LEN
  <2> QED BY <1>1, <1>2, <1>3, <2>1, <2>2, <2>3, DecodingKeeps
<1> QED BY <1>5, <1>6

\* The description, and what the status calls for.
LEMMA ResStep ==
    ASSUME CodecInv, decode_res
    PROVE  CodecInv'
<1>1. /\ pc = "decode_res" /\ encoding' = encoding /\ pkt' = pkt /\ chunk' = chunk /\ data' = data
      /\ consumed' = consumed /\ result' = result /\ twice' = twice /\ heap' = heap \cup {"desc"}
      /\ pc' = IF pkt.status # 20 THEN "read_hs_str" ELSE IF pkt.evt THEN "ok" ELSE "decode_res_data"
  BY DEF decode_res, decoding
<1>2. /\ op = "decode" /\ pkt \in Responses /\ BodySize(pkt) \in 1 .. DUBBO_MAX_PKT_SZ /\ twice = FALSE
      /\ result = "none" /\ chunk \in Nat \ {0} /\ data \in [sz : Nat, left : Nat, cap : Nat]
      /\ pkt.seri = 2 /\ ~pkt.isreq /\ consumed = DUBBO_HDR_LEN + BodySize(pkt) /\ consumed \in Nat
  BY <1>1, DecodingFacts
<1>3. heap = {"view", "res"} /\ chunk = 1 /\ data = NoData
  BY <1>1, <1>2 DEF CodecInv, DecodeInv
<1>4. heap' = ResponseBlocks
  BY <1>1, <1>3 DEF ResponseBlocks
<1>5. op' = op
  BY <1>1 DEF encoding
<1>6. HasBinary(pkt) <=> pkt.status = 20 /\ ~pkt.evt /\ pkt.type = 145
  BY <1>2, PacketFacts
<1>7. pkt.status # 20 => HasText(pkt)
  BY DEF HasText
<1>8. pkt.status = 20 /\ pkt.evt => Stored(pkt) /\ DataBlock(pkt) = {}
  BY <1>3, <1>6 DEF HasText, Stored, DataBlock, Known
<1>9. Stored(pkt)' <=> Stored(pkt)
  BY <1>1 DEF Stored
<1>10. DecodeInv'
  <2>1. CASE pkt.status # 20
    BY <1>1, <1>2, <1>3, <1>4, <1>5, <1>7, <2>1 DEF DecodeInv
  <2>2. CASE pkt.status = 20 /\ pkt.evt
    BY <1>1, <1>2, <1>3, <1>4, <1>5, <1>8, <1>9, <2>2 DEF DecodeInv
  <2>3. CASE pkt.status = 20 /\ ~pkt.evt
    BY <1>1, <1>2, <1>3, <1>4, <1>5, <2>3 DEF DecodeInv
  <2> QED BY <2>1, <2>2, <2>3
<1>11. heap' \subseteq {"view", "res", "desc", "data"}
  BY <1>4 DEF ResponseBlocks
<1> QED BY <1>1, <1>2, <1>10, <1>11, DecodingKeeps

\* The type byte is 144 plus the result flag.
LEMMA FlagFacts ==
    ASSUME NEW y \in Byte
    PROVE  /\ ResultFlag(y) \in Nat /\ (ResultFlag(y) = 0 <=> y = 144) /\ (ResultFlag(y) = 1 <=> y = 145)
           /\ ResultFlag(y) <= 2 => y \in 144 .. 146
<1>1. y \in Int /\ 0 <= y /\ y <= 255
  BY DEF Byte
<1> QED BY <1>1, SMT DEF ResultFlag

\* The flag tells a text from a binary and from nothing.
LEMMA DataStep ==
    ASSUME CodecInv, decode_res_data
    PROVE  CodecInv'
<1> DEFINE flag == ResultFlag(pkt.type)
<1>1. /\ pc = "decode_res_data" /\ encoding' = encoding /\ pkt' = pkt /\ chunk' = chunk /\ data' = data
      /\ consumed' = consumed /\ result' = result /\ twice' = twice /\ heap' = heap
      /\ pc' = IF pkt.type \notin 128 .. 191 \/ flag > 2 THEN "failed"
               ELSE IF flag = 0 THEN "read_hs_str"
               ELSE IF flag = 1 THEN "hs_decode_binary" ELSE "ok"
  BY DEF decode_res_data, decoding, memory
<1>2. /\ op = "decode" /\ pkt \in Responses /\ BodySize(pkt) \in 1 .. DUBBO_MAX_PKT_SZ /\ twice = FALSE
      /\ result = "none" /\ chunk \in Nat \ {0} /\ data \in [sz : Nat, left : Nat, cap : Nat]
      /\ pkt.seri = 2 /\ ~pkt.isreq /\ consumed = DUBBO_HDR_LEN + BodySize(pkt) /\ consumed \in Nat
  BY <1>1, DecodingFacts
<1>3. heap = ResponseBlocks /\ chunk = 1 /\ data = NoData /\ pkt.status = 20 /\ ~pkt.evt
  BY <1>1, <1>2 DEF CodecInv, DecodeInv
<1>4. op' = op
  BY <1>1 DEF encoding
<1>5. HasBinary(pkt) <=> pkt.type = 145
  BY <1>2, <1>3, PacketFacts
<1>6. HasText(pkt) <=> pkt.type = 144
  BY <1>3 DEF HasText
<1>7. /\ flag \in Nat /\ (flag = 0 <=> pkt.type = 144) /\ (flag = 1 <=> pkt.type = 145)
      /\ flag <= 2 => pkt.type \in 144 .. 146
  BY <1>2, PacketFacts, FlagFacts
<1> HIDE DEF flag
<1>8. /\ pc' = "read_hs_str" => HasText(pkt)
      /\ pc' = "hs_decode_binary" => HasBinary(pkt)
      /\ pc' = "ok" => ~HasText(pkt) /\ ~HasBinary(pkt) /\ Known(pkt)
      /\ pc' \in {"failed", "read_hs_str", "hs_decode_binary", "ok"}
  BY <1>1, <1>5, <1>6, <1>7 DEF Known
<1>9. pc' = "ok" => Stored(pkt)' /\ DataBlock(pkt) = {}
  BY <1>1, <1>3, <1>8 DEF Stored, DataBlock
<1>10. DecodeInv'
  BY <1>1, <1>2, <1>3, <1>4, <1>8, <1>9 DEF DecodeInv
<1>11. heap' \subseteq {"view", "res", "desc", "data"}
  BY <1>1, <1>3 DEF ResponseBlocks
<1> QED BY <1>1, <1>2, <1>8, <1>10, <1>11, DecodingKeeps

\* The text is copied whole, unless it takes more than one chunk.
LEMMA TextStep ==
    ASSUME CodecInv, read_hs_str
    PROVE  CodecInv'
<1> DEFINE t == pkt.text
           b == Bytes(t)
           out == hs_decode_string(PeerText(t))
<1>1. /\ pc = "read_hs_str" /\ encoding' = encoding /\ pkt' = pkt /\ chunk' = chunk
      /\ consumed' = consumed /\ result' = result /\ twice' = twice
  BY DEF read_hs_str
<1>2. /\ op = "decode" /\ pkt \in Responses /\ BodySize(pkt) \in 1 .. DUBBO_MAX_PKT_SZ /\ twice = FALSE
      /\ result = "none" /\ chunk \in Nat \ {0} /\ data \in [sz : Nat, left : Nat, cap : Nat]
      /\ pkt.seri = 2 /\ ~pkt.isreq /\ consumed = DUBBO_HDR_LEN + BodySize(pkt) /\ consumed \in Nat
  BY <1>1, DecodingFacts
<1>3. heap = ResponseBlocks /\ HasText(pkt)
  BY <1>1, <1>2 DEF CodecInv, DecodeInv
<1>4. op' = op
  BY <1>1 DEF encoding
<1>5. t \in AnyText /\ ~HasBinary(pkt) /\ Known(pkt)
  BY <1>2, <1>3, PacketFacts
<1>6. b \in Nat /\ Chars(t) \in Nat
  BY <1>5, ByteCount
<1>7. out = IF Chars(t) > 65535 THEN Never ELSE [sz |-> b, freed |-> b = 0]
  BY <1>5, PeerTextDecoded
<1>8. /\ out = Failed => pc' = "failed" /\ data' = data /\ heap' = heap
      /\ out # Failed /\ out \in {Never, Beyond} => pc' = "crashed" /\ data' = data /\ heap' = heap
      /\ out # Failed /\ out \notin {Never, Beyond} =>
            /\ data' = [sz |-> out.sz, left |-> 0, cap |-> out.sz] /\ pc' = "ok"
            /\ heap' = IF out.freed THEN heap ELSE heap \cup {"data"}
  BY Zenon DEF read_hs_str
<1>9. /\ Never # Failed /\ \A v \in {Failed, Beyond, Never} : v \notin [sz : Nat, freed : BOOLEAN]
  BY HessianAssumption
<1> HIDE DEF out, b
<1>10. CASE Chars(t) > 65535
  <2>1. pc' = "crashed" /\ data' = data /\ heap' = heap
    BY <1>7, <1>8, <1>9, <1>10
  <2>2. DecodeInv'
    BY <1>1, <1>2, <1>3, <1>4, <1>10, <2>1 DEF DecodeInv
  <2>3. heap' \subseteq {"view", "res", "desc", "data"}
    BY <1>3, <2>1 DEF ResponseBlocks
  <2> QED BY <1>1, <1>2, <2>1, <2>2, <2>3, DecodingKeeps
<1>11. CASE ~(Chars(t) > 65535)
  <2>1. out = [sz |-> b, freed |-> b = 0]
    BY <1>7, <1>11
  <2>2. out \in [sz : Nat, freed : BOOLEAN] /\ out.sz = b /\ out.freed = (b = 0)
    BY <1>6, <2>1
  <2>3. out \notin {Failed, Beyond, Never}
    BY <1>9, <2>2
  <2>4. /\ data' = [sz |-> b, left |-> 0, cap |-> b] /\ pc' = "ok"
        /\ heap' = IF b = 0 THEN heap ELSE heap \cup {"data"}
    BY <1>8, <2>2, <2>3
  <2>5. data'.sz = b /\ data' \in [sz : Nat, left : Nat, cap : Nat]
    BY <1>6, <2>4
  <2>6. Stored(pkt)'
    BY <1>1, <1>3, <1>5, <2>5 DEF Stored, b
  <2>7. heap' = ResponseBlocks \cup DataBlock(pkt)
    BY <1>3, <1>5, <2>4 DEF DataBlock, b
  <2>8. DecodeInv'
    BY <1>1, <1>2, <1>4, <2>4, <2>6, <2>7 DEF DecodeInv
  <2>9. heap' \subseteq {"view", "res", "desc", "data"}
    BY <2>7 DEF ResponseBlocks, DataBlock
  <2> QED BY <1>1, <1>2, <2>4, <2>5, <2>8, <2>9, DecodingKeeps
<1> QED BY <1>10, <1>11

\* The data after a chunk of n bytes, for which there is room: the new size,
\* and the end of what may be written, which is where it was.
LEMMA DataStored ==
    ASSUME NEW d \in [sz : Nat, left : Nat, cap : Nat], NEW n \in Nat, n <= d.left,
           NEW e, e = [d EXCEPT !.sz = @ + n, !.left = @ - n]
    PROVE  /\ e \in [sz : Nat, left : Nat, cap : Nat]
           /\ e.sz = d.sz + n /\ e.sz + e.left = d.sz + d.left /\ e.cap = d.cap
<1>1. d.sz \in Nat /\ d.left \in Nat /\ d.cap \in Nat
  OBVIOUS
<1> DEFINE x == d.sz + n
           y == d.left - n
<1>2. x \in Nat /\ y \in Nat /\ x + y = d.sz + d.left
  BY <1>1
<1>3. e = [d EXCEPT !.sz = x, !.left = y]
  OBVIOUS
<1> HIDE DEF x, y
<1>4. e.sz = x /\ e.left = y /\ e.cap = d.cap /\ e \in [sz : Nat, left : Nat, cap : Nat]
  BY <1>2, <1>3
<1> QED BY <1>2, <1>4 DEF x

\* A block of x bytes, of which y may be written.
LEMMA Enlarged ==
    ASSUME NEW d \in [sz : Nat, left : Nat, cap : Nat], NEW x \in Nat, NEW y \in Nat,
           NEW e, e = [d EXCEPT !.cap = x, !.left = y]
    PROVE  e \in [sz : Nat, left : Nat, cap : Nat] /\ e.sz = d.sz /\ e.left = y /\ e.cap = x
OBVIOUS

\* There is room for every chunk of at most 64k, and a byte behind it.
LEMMA Grown ==
    ASSUME data \in [sz : Nat, left : Nat, cap : Nat], data.sz + data.left < data.cap,
           NEW n \in Nat, n <= BIN_CHUNK_MAX, NEW e, e = GrowData(n)
    PROVE  /\ e \in [sz : Nat, left : Nat, cap : Nat]
           /\ e.sz = data.sz /\ n <= e.left /\ e.sz + e.left < e.cap
<1>1. data.sz \in Nat /\ data.left \in Nat /\ data.cap \in Nat
  OBVIOUS
<1>2. CASE data.left < n
  <2>1. PICK x \in Nat, y \in Nat : x = data.sz + BIN_CHUNK_MAX + 1 /\ y = BIN_CHUNK_MAX
    BY <1>1, SMT DEF BIN_CHUNK_MAX
  <2>2. e = [data EXCEPT !.cap = x, !.left = y]
    BY <1>2, <2>1 DEF GrowData
  <2>3. e \in [sz : Nat, left : Nat, cap : Nat] /\ e.sz = data.sz /\ e.left = y /\ e.cap = x
    BY <2>2, Enlarged, Zenon
  <2>4. x \in Nat /\ y \in Nat /\ data.sz + y < x /\ n <= y
    BY <1>1, <2>1, SMT DEF BIN_CHUNK_MAX
  <2> QED BY <2>3, <2>4
<1>3. CASE ~(data.left < n)
  BY <1>1, <1>3 DEF GrowData
<1> QED BY <1>2, <1>3

\* An int16_t holds the length of a chunk unless it is 32768 or more.
LEMMA ChunkLengthFacts ==
    ASSUME NEW n \in Nat, n <= 65535
    PROVE  ChunkLength(n) = IF n <= 32767 THEN n ELSE n - 65536
<1> DEFINE h == (n \div 256) % 256
           l == n % 256
<1>1. h \in Nat /\ l \in Nat /\ l <= 255 /\ h <= 255 /\ n = 256 * h + l
  BY SMT
<1>2. Be16(n) = <<h, l>>
  BY DEF Be16
<1> HIDE DEF h, l
<1>3. ChunkLength(n) = Int8(h) * 256 + l
  BY <1>2 DEF ChunkLength, Int16
<1>4. CASE h < 128
  <2>1. Int8(h) = h
    BY <1>4 DEF Int8
  <2> QED BY <1>1, <1>3, <1>4, <2>1, SMT
<1>5. CASE ~(h < 128)
  <2>1. Int8(h) = h - 256
    BY <1>5 DEF Int8
  <2> QED BY <1>1, <1>3, <1>5, <2>1, SMT
<1> QED BY <1>4, <1>5

\* Whatever its tag, a chunk carries at most 65535 bytes: the length is 16 bits wide.
LEMMA LengthsBounded == \A tag : \A n \in Lengths(tag) : n <= 65535
<1>1. \A a, b \in Int : \A n \in a .. b : n <= b
  OBVIOUS
<1>2. 15 \in Int /\ 1023 \in Int /\ 65535 \in Int /\ 0 \in Int /\ 15 <= 65535 /\ 1023 <= 65535
  OBVIOUS
<1> DEFINE a == 15 b == 1023 c == 65535 z == 0
<1>3. \A tag : Lengths(tag) = IF tag = "nibble" THEN z .. a ELSE IF tag = "ten" THEN z .. b ELSE z .. c
  BY DEF Lengths
<1>4. a \in Int /\ b \in Int /\ c \in Int /\ z \in Int /\ a <= c /\ b <= c
  BY <1>2
<1>5. \A n : n <= c <=> n <= 65535
  OBVIOUS
<1> HIDE DEF a, b, c, z
<1>6. \A tag : \A n \in Lengths(tag) : n <= c
  <2> TAKE tag
  <2>1. CASE tag = "nibble"
    BY <1>1, <1>3, <1>4, <2>1
  <2>2. CASE tag # "nibble" /\ tag = "ten"
    BY <1>1, <1>3, <1>4, <2>2
  <2>3. CASE tag # "nibble" /\ tag # "ten"
    BY <1>1, <1>3, <1>4, <2>3
  <2> QED BY <2>1, <2>2, <2>3
<1> QED BY <1>5, <1>6

\* What is known of a response with a binary.
LEMMA BinaryFacts ==
    ASSUME NEW r \in Responses, HasBinary(r)
    PROVE  /\ ~HasText(r) /\ Len(r.chunks) \in Nat /\ Len(r.chunks) >= 1 /\ DOMAIN r.chunks = 1 .. Len(r.chunks)
           /\ Carried(r) \in Seq(Nat) /\ Len(Carried(r)) = Len(r.chunks)
           /\ DataLen(r) = Partial(Carried(r), Len(r.chunks)) /\ Partial(Carried(r), 0) = 0
           /\ \A k \in 1 .. Len(r.chunks) :
                 /\ r.chunks[k][1] \in {"A", "B", "nibble", "ten"}
                 /\ r.chunks[k][1] = "A" <=> k < Len(r.chunks)
                 /\ r.chunks[k][2] \in Nat /\ r.chunks[k][2] <= 65535
                 /\ Partial(Carried(r), k) = Partial(Carried(r), k - 1) + r.chunks[k][2]
                 /\ Partial(Carried(r), k - 1) \in Nat
<1>1. Binary(r.chunks) /\ ~HasText(r)
  BY PacketFacts
<1>2. /\ Len(r.chunks) \in Nat /\ DOMAIN r.chunks = 1 .. Len(r.chunks) /\ Len(r.chunks) >= 1
      /\ \A k \in 1 .. Len(r.chunks) :
            /\ r.chunks[k][1] \in {"A", "B", "nibble", "ten"} /\ (r.chunks[k][1] = "A" <=> k < Len(r.chunks))
            /\ r.chunks[k][2] \in Nat /\ r.chunks[k][2] \in Lengths(r.chunks[k][1])
  BY <1>1, ChunkFacts DEF HasBinary
<1>3. \A tag : \A n \in Lengths(tag) : n <= 65535
  BY LengthsBounded
<1>4. /\ Carried(r) \in Seq(Nat) /\ Len(Carried(r)) = Len(r.chunks) /\ DataLen(r) = SumOf(Carried(r))
      /\ \A k \in 1 .. Len(r.chunks) : Carried(r)[k] = r.chunks[k][2]
  BY CarriedFacts
<1> DEFINE s == Carried(r)
           c == r.chunks
<1>5. /\ SumOf(s) = Partial(s, Len(s)) /\ Partial(s, 0) = 0
      /\ \A k \in 0 .. Len(s) : Partial(s, k) \in Nat
      /\ \A k \in 1 .. Len(s) : Partial(s, k) = Partial(s, k - 1) + s[k]
  BY <1>4, SumLaws
<1> HIDE DEF s, c
<1>6. ASSUME NEW k \in 1 .. Len(c)
      PROVE  /\ c[k][2] <= 65535
             /\ Partial(s, k) = Partial(s, k - 1) + c[k][2]
             /\ Partial(s, k - 1) \in Nat
  <2>1. c[k][2] <= 65535
    BY <1>2, <1>3 DEF c
  <2>2. k \in 1 .. Len(s) /\ k - 1 \in 0 .. Len(s) /\ s[k] = c[k][2]
    BY <1>2, <1>4 DEF s, c
  <2> QED BY <1>5, <2>1, <2>2
<1> QED BY <1>1, <1>2, <1>4, <1>5, <1>6 DEF s, c

\* The first chunk: a compact one is the value, the others are collected.
LEMMA BinaryHeadStep ==
    ASSUME CodecInv, hs_decode_binary
    PROVE  CodecInv'
<1> DEFINE c == pkt.chunks[1]
<1>1. /\ pc = "hs_decode_binary" /\ encoding' = encoding /\ pkt' = pkt /\ chunk' = chunk
      /\ consumed' = consumed /\ result' = result /\ twice' = twice /\ heap' = heap \cup {"data"}
      /\ IF c[1] \in {"nibble", "ten"}
         THEN data' = [sz |-> c[2], left |-> 0, cap |-> c[2] + 1] /\ pc' = "ok"
         ELSE data' = [sz |-> 0, left |-> BIN_CHUNK_MAX, cap |-> BIN_CHUNK_MAX + 1]
              /\ pc' = "hs_decode_binary_chunk"
  BY DEF hs_decode_binary
<1>2. /\ op = "decode" /\ pkt \in Responses /\ BodySize(pkt) \in 1 .. DUBBO_MAX_PKT_SZ /\ twice = FALSE
      /\ result = "none" /\ chunk \in Nat \ {0} /\ data \in [sz : Nat, left : Nat, cap : Nat]
      /\ pkt.seri = 2 /\ ~pkt.isreq /\ consumed = DUBBO_HDR_LEN + BodySize(pkt) /\ consumed \in Nat
  BY <1>1, DecodingFacts
<1>3. heap = ResponseBlocks /\ HasBinary(pkt) /\ chunk = 1
  BY <1>1, <1>2 DEF CodecInv, DecodeInv
<1>4. op' = op
  BY <1>1 DEF encoding
<1>5. /\ ~HasText(pkt) /\ Len(pkt.chunks) \in Nat /\ Len(pkt.chunks) >= 1
      /\ DOMAIN pkt.chunks = 1 .. Len(pkt.chunks)
      /\ DataLen(pkt) = Partial(Carried(pkt), Len(pkt.chunks)) /\ Partial(Carried(pkt), 0) = 0
      /\ \A k \in 1 .. Len(pkt.chunks) :
            /\ pkt.chunks[k][1] \in {"A", "B", "nibble", "ten"}
            /\ pkt.chunks[k][1] = "A" <=> k < Len(pkt.chunks)
            /\ pkt.chunks[k][2] \in Nat /\ pkt.chunks[k][2] <= 65535
            /\ Partial(Carried(pkt), k) = Partial(Carried(pkt), k - 1) + pkt.chunks[k][2]
            /\ Partial(Carried(pkt), k - 1) \in Nat
  BY <1>2, <1>3, BinaryFacts
<1>6. /\ c[1] \in {"A", "B", "nibble", "ten"} /\ (c[1] = "A" <=> 1 < Len(pkt.chunks)) /\ c[2] \in Nat
      /\ Partial(Carried(pkt), 1) = c[2]
  <2>1. 1 \in 1 .. Len(pkt.chunks) /\ 1 - 1 = 0
    BY <1>5
  <2>2. /\ c[1] \in {"A", "B", "nibble", "ten"} /\ (c[1] = "A" <=> 1 < Len(pkt.chunks)) /\ c[2] \in Nat
        /\ Partial(Carried(pkt), 1) = Partial(Carried(pkt), 1 - 1) + c[2]
    BY <1>5, <2>1
  <2> QED BY <1>5, <2>1, <2>2
<1>7. heap' = ResponseBlocks \cup {"data"} /\ heap' = ResponseBlocks \cup DataBlock(pkt)
  BY <1>1, <1>3 DEF DataBlock
<1>8. heap' \subseteq {"view", "res", "desc", "data"}
  BY <1>7 DEF ResponseBlocks
<1>9. CASE c[1] \in {"nibble", "ten"}
  <2> DEFINE n == c[2]
  <2>1. data' = [sz |-> n, left |-> 0, cap |-> n + 1] /\ pc' = "ok"
    BY <1>1, <1>9
  <2>2. c[1] # "A" /\ Len(pkt.chunks) = 1
    <3>1. Len(pkt.chunks) \in Nat /\ Len(pkt.chunks) >= 1
      BY <1>5
    <3>2. c[1] # "A"
      BY <1>9
    <3>3. ~(1 < Len(pkt.chunks))
      BY <1>6, <3>2, Zenon
    <3> QED
      <4> DEFINE m == Len(pkt.chunks)
      <4>1. m \in Nat /\ m >= 1 /\ ~(1 < m)
        BY <3>1, <3>3
      <4> HIDE DEF m
      <4>2. m = 1
        BY <4>1
      <4> QED BY <3>2, <4>2 DEF m
  <2>3. n = DataLen(pkt) /\ n \in Nat
    BY <1>5, <1>6, <2>2
  <2>4. ~EndsCompact(pkt)
    BY <2>2 DEF EndsCompact
  <2> HIDE DEF n
  <2>5. /\ data'.sz = n /\ data'.sz + data'.left < data'.cap /\ data' \in [sz : Nat, left : Nat, cap : Nat]
    BY <2>1, <2>3
  <2>6. Stored(pkt)'
    <3>1. Known(pkt)
      BY <1>2, <1>3, PacketFacts
    <3> QED BY <1>1, <1>3, <1>5, <2>3, <2>4, <2>5, <3>1 DEF Stored
  <2>7. DecodeInv'
    BY <1>1, <1>2, <1>4, <1>7, <2>1, <2>6 DEF DecodeInv
  <2> QED BY <1>1, <1>2, <1>8, <2>1, <2>5, <2>7, DecodingKeeps
<1>10. CASE c[1] \notin {"nibble", "ten"}
  <2>1. data' = [sz |-> 0, left |-> 65536, cap |-> 65537] /\ pc' = "hs_decode_binary_chunk"
    BY <1>1, <1>10, SMT DEF BIN_CHUNK_MAX
  <2>2. data' \in [sz : Nat, left : Nat, cap : Nat] /\ data'.sz = 0 /\ data'.sz + data'.left < data'.cap
    BY <2>1, SMT
  <2>3. c[1] \in {"A", "B"}
    BY <1>6, <1>10
  <2>4. /\ HasBinary(pkt') /\ chunk' \in DOMAIN pkt'.chunks /\ pkt'.chunks[1][1] \in {"A", "B"}
        /\ Partial(Carried(pkt'), chunk' - 1) = 0
    BY <1>1, <1>3, <1>5, <2>3
  <2>5. Growing'
    BY <2>2, <2>4 DEF Growing
  <2>6. pc' = "hs_decode_binary_chunk"
    BY <2>1
  <2>7. DecodeInv'
    BY <1>1, <1>2, <1>4, <1>7, <2>5, <2>6 DEF DecodeInv
  <2>8. encoding' = encoding /\ pkt' = pkt /\ chunk' = chunk /\ consumed' = consumed /\ result' = result /\ twice' = twice
    BY <1>1
  <2> QED BY <1>2, <1>8, <2>2, <2>6, <2>7, <2>8, DecodingKeeps
<1> QED BY <1>9, <1>10

\* A chunk is stored, and the last one ends the loop; a compact one behind
\* another ends the process, and so does a length that reads as negative.
LEMMA ChunkStep ==
    ASSUME CodecInv, hs_decode_binary_chunk
    PROVE  CodecInv'
<1> DEFINE c == pkt.chunks[chunk]
           n == c[2]
           size == ChunkLength(n)
           last == Len(pkt.chunks)
<1>1. /\ pc = "hs_decode_binary_chunk" /\ encoding' = encoding /\ pkt' = pkt
      /\ consumed' = consumed /\ result' = result /\ twice' = twice /\ heap' = heap
      /\ IF c[1] \notin {"A", "B"} THEN pc' = "aborted" /\ data' = data /\ chunk' = chunk
         ELSE IF size < 0 THEN pc' = "crashed" /\ data' = data /\ chunk' = chunk
         ELSE /\ data' = [GrowData(size) EXCEPT !.sz = @ + size, !.left = @ - size]
              /\ chunk' = chunk + 1
              /\ pc' = IF c[1] = "A" THEN pc ELSE "ok"
  BY DEF hs_decode_binary_chunk, memory
<1>2. /\ op = "decode" /\ pkt \in Responses /\ BodySize(pkt) \in 1 .. DUBBO_MAX_PKT_SZ /\ twice = FALSE
      /\ result = "none" /\ chunk \in Nat \ {0} /\ data \in [sz : Nat, left : Nat, cap : Nat]
      /\ pkt.seri = 2 /\ ~pkt.isreq /\ consumed = DUBBO_HDR_LEN + BodySize(pkt) /\ consumed \in Nat
  BY <1>1, DecodingFacts
<1>3. Growing /\ heap = ResponseBlocks \cup {"data"}
  BY <1>1, <1>2 DEF CodecInv, DecodeInv
<1>4. /\ HasBinary(pkt) /\ chunk \in DOMAIN pkt.chunks /\ pkt.chunks[1][1] \in {"A", "B"}
      /\ data.sz = Partial(Carried(pkt), chunk - 1) /\ data.sz + data.left < data.cap
  BY <1>3 DEF Growing
<1>5. op' = op
  BY <1>1 DEF encoding
<1>6. /\ ~HasText(pkt) /\ last \in Nat /\ last >= 1 /\ DOMAIN pkt.chunks = 1 .. last
      /\ DataLen(pkt) = Partial(Carried(pkt), last)
      /\ \A k \in 1 .. last :
            /\ pkt.chunks[k][1] \in {"A", "B", "nibble", "ten"}
            /\ pkt.chunks[k][1] = "A" <=> k < last
            /\ pkt.chunks[k][2] \in Nat /\ pkt.chunks[k][2] <= 65535
            /\ Partial(Carried(pkt), k) = Partial(Carried(pkt), k - 1) + pkt.chunks[k][2]
            /\ Partial(Carried(pkt), k - 1) \in Nat
  BY <1>2, <1>4, BinaryFacts
<1>7. /\ chunk \in 1 .. last /\ c[1] \in {"A", "B", "nibble", "ten"} /\ (c[1] = "A" <=> chunk < last)
      /\ n \in Nat /\ n <= 65535
      /\ Partial(Carried(pkt), chunk) = Partial(Carried(pkt), chunk - 1) + n
  BY <1>4, <1>6
<1>8. size = IF n <= 32767 THEN n ELSE n - 65536
  <2> HIDE DEF n
  <2> QED BY <1>7, ChunkLengthFacts
<1>9. heap' \subseteq {"view", "res", "desc", "data"}
  BY <1>1, <1>3 DEF ResponseBlocks
<1>10. pkt.chunks # << >>
  BY <1>4 DEF HasBinary
<1>11. pkt.chunks[1][1] = "A" <=> 1 < last
  <2>1. 1 \in 1 .. last
    BY <1>6
  <2> QED BY <1>6, <2>1
<1> HIDE DEF size
<1>12. CASE c[1] \notin {"A", "B"}
  <2>1. pc' = "aborted" /\ data' = data /\ chunk' = chunk
    BY <1>1, <1>12
  <2>2. chunk = last
    BY <1>6, <1>7, <1>12
  <2>3. 1 < last
    BY <1>4, <1>6, <1>12, <2>2
  <2>4. EndsCompact(pkt)
    BY <1>7, <1>10, <1>11, <1>12, <2>2, <2>3 DEF EndsCompact, Last
  <2>5. DecodeInv'
    BY <1>1, <1>2, <1>5, <2>1, <2>4 DEF DecodeInv
  <2> QED BY <1>1, <1>2, <1>9, <2>1, <2>5, DecodingKeeps
<1>13. CASE c[1] \in {"A", "B"} /\ size < 0
  <2>1. pc' = "crashed" /\ data' = data /\ chunk' = chunk
    BY <1>1, <1>13
  <2>2. n > 32767
    BY <1>7, <1>8, <1>13
  <2>3. \E k \in DOMAIN pkt.chunks : pkt.chunks[k][2] > 32767
    BY <1>4, <2>2
  <2>4. DecodeInv'
    BY <1>1, <1>2, <1>5, <1>6, <2>1, <2>3 DEF DecodeInv
  <2> QED BY <1>1, <1>2, <1>9, <2>1, <2>4, DecodingKeeps
<1>14. CASE c[1] \in {"A", "B"} /\ ~(size < 0)
  <2>1. size = n
    BY <1>7, <1>8, <1>14
  <2> DEFINE e == GrowData(n)
  <2>2. /\ e \in [sz : Nat, left : Nat, cap : Nat] /\ e.sz = data.sz /\ n <= e.left /\ e.sz + e.left < e.cap
    <3>1. n \in Nat /\ n <= BIN_CHUNK_MAX
      BY <1>7, SMT DEF BIN_CHUNK_MAX
    <3>2. data \in [sz : Nat, left : Nat, cap : Nat] /\ data.sz + data.left < data.cap
      BY <1>2, <1>4
    <3> HIDE DEF n
    <3> QED BY <3>1, <3>2, Grown
  <2>3. data' = [e EXCEPT !.sz = @ + n, !.left = @ - n]
    BY <1>1, <1>14, <2>1
  <2>4. /\ chunk' = chunk + 1 /\ pc' = IF c[1] = "A" THEN "hs_decode_binary_chunk" ELSE "ok"
    BY <1>1, <1>14
  <2> HIDE DEF e, n, c, last
  <2>5. /\ data' \in [sz : Nat, left : Nat, cap : Nat]
        /\ data'.sz = e.sz + n /\ data'.sz + data'.left = e.sz + e.left /\ data'.cap = e.cap
    <3>1. n \in Nat /\ n <= e.left /\ e \in [sz : Nat, left : Nat, cap : Nat]
      BY <1>7, <2>2
    <3> DEFINE d == data'
    <3>2. d = [e EXCEPT !.sz = @ + n, !.left = @ - n]
      BY <2>3
    <3> HIDE DEF d
    <3>3. /\ d \in [sz : Nat, left : Nat, cap : Nat]
          /\ d.sz = e.sz + n /\ d.sz + d.left = e.sz + e.left /\ d.cap = e.cap
      <4>1. \A r : r = [e EXCEPT !.sz = @ + n, !.left = @ - n]
                 => /\ r \in [sz : Nat, left : Nat, cap : Nat]
                    /\ r.sz = e.sz + n /\ r.sz + r.left = e.sz + e.left /\ r.cap = e.cap
        BY <3>1, DataStored
      <4> QED BY <3>2, <4>1
    <3> QED BY <3>3 DEF d
  <2>6. /\ data'.sz = Partial(Carried(pkt), chunk) /\ data'.sz + data'.left < data'.cap
    BY <1>4, <1>7, <2>2, <2>5
  <2>7. chunk' \in Nat \ {0} /\ chunk' - 1 = chunk
    BY <1>2, <2>4
  <2>8. CASE c[1] = "A"
    <3>1. chunk' \in 1 .. last
      BY <1>6, <1>7, <2>4, <2>8
    <3>2. pc' = "hs_decode_binary_chunk"
      BY <2>4, <2>8
    <3>3. Growing'
      BY <1>1, <1>4, <1>6, <2>6, <2>7, <3>1 DEF Growing, last
    <3>4. DecodeInv'
      BY <1>1, <1>2, <1>3, <1>5, <3>2, <3>3 DEF DecodeInv
    <3> QED BY <1>1, <1>2, <1>9, <2>5, <2>7, <3>2, <3>4, DecodingKeeps
  <2>9. CASE c[1] = "B"
    <3>1. chunk = last
      BY <1>6, <1>7, <2>9
    <3>2. pc' = "ok"
      BY <2>4, <2>9
    <3>3. ~EndsCompact(pkt)
      BY <2>9, <3>1 DEF EndsCompact, Last, c, last
    <3>4. Stored(pkt)'
      <4>1. Known(pkt)
        BY <1>2, <1>4, PacketFacts
      <4> QED BY <1>1, <1>4, <1>6, <2>6, <3>1, <3>3, <4>1 DEF Stored
    <3>5. DataBlock(pkt) = {"data"}
      BY <1>4 DEF DataBlock
    <3>6. DecodeInv'
      BY <1>1, <1>2, <1>3, <1>5, <3>2, <3>4, <3>5 DEF DecodeInv
    <3> QED BY <1>1, <1>2, <1>9, <2>5, <2>7, <3>2, <3>6, DecodingKeeps
  <2> QED BY <1>14, <2>8, <2>9 DEF c
<1> QED BY <1>12, <1>13, <1>14

\* The view is released, and the response too when it could not be decoded.
LEMMA ReturnStep ==
    ASSUME CodecInv, DecodeReturns
    PROVE  CodecInv'
<1>1. pc \in {"ok", "failed"} /\ encoding' = encoding /\ pkt' = pkt /\ chunk' = chunk /\ data' = data
      /\ consumed' = consumed
  BY DEF DecodeReturns, decoding
<1>2. /\ op = "decode" /\ pkt \in Responses /\ BodySize(pkt) \in 1 .. DUBBO_MAX_PKT_SZ /\ twice = FALSE
      /\ result = "none" /\ chunk \in Nat \ {0} /\ data \in [sz : Nat, left : Nat, cap : Nat]
      /\ pkt.seri = 2 /\ ~pkt.isreq /\ consumed = DUBBO_HDR_LEN + BodySize(pkt) /\ consumed \in Nat
  BY <1>1, DecodingFacts
<1>3. op' = op
  BY <1>1 DEF encoding
<1>4. CASE pc = "ok"
  <2>1. result' = "res" /\ pc' = "dubbo_res_release" /\ Freed({"view"})
    BY <1>4 DEF DecodeReturns
  <2>2. Stored(pkt) /\ heap = ResponseBlocks \cup DataBlock(pkt)
    BY <1>2, <1>4 DEF CodecInv, DecodeInv
  <2>3. heap' = {"res", "desc"} \cup DataBlock(pkt) /\ twice' = twice
    <3>1. {"view"} \subseteq heap
      BY <2>2 DEF ResponseBlocks
    <3>2. heap' = heap \ {"view"} /\ twice' = twice
      BY <2>1, <3>1, FreedOnce
    <3>3. "view" \notin DataBlock(pkt)
      BY DEF DataBlock
    <3> QED BY <2>2, <3>2, <3>3 DEF ResponseBlocks
  <2>4. Stored(pkt)'
    BY <1>1, <2>2 DEF Stored
  <2>5. DecodeInv'
    BY <1>1, <1>2, <1>3, <2>1, <2>3, <2>4 DEF DecodeInv
  <2>6. heap' \subseteq {"view", "res", "desc", "data"}
    BY <2>3 DEF DataBlock
  <2> QED BY <1>1, <1>2, <2>1, <2>3, <2>5, <2>6, DecodingKeeps
<1>5. CASE pc = "failed"
  <2>1. result' = NULL /\ pc' = "finished" /\ Freed({"view", "res"})
    BY <1>5 DEF DecodeReturns
  <2>2. heap = ResponseBlocks
    BY <1>2, <1>5 DEF CodecInv, DecodeInv
  <2>3. heap' = {"desc"} /\ twice' = twice
    <3>1. {"view", "res"} \subseteq heap
      BY <2>2 DEF ResponseBlocks
    <3>2. heap' = heap \ {"view", "res"} /\ twice' = twice
      BY <2>1, <3>1, FreedOnce
    <3> QED BY <2>2, <3>2 DEF ResponseBlocks
  <2>4. consumed > 16 /\ consumed = 16 + BodySize(pkt)
    BY <1>2, BodyFacts DEF DUBBO_HDR_LEN
  <2>5. DecodeInv'
    BY <1>1, <1>2, <1>3, <2>1, <2>3, <2>4 DEF DecodeInv, DUBBO_HDR_LEN, NULL
  <2>6. heap' \subseteq {"view", "res", "desc", "data"}
    BY <2>3
  <2> QED BY <1>1, <1>2, <2>1, <2>3, <2>5, <2>6, DecodingKeeps
<1> QED BY <1>1, <1>4, <1>5

\* All that is left of the response is freed; a text of no bytes for the second time.
LEMMA ResReleaseStep ==
    ASSUME CodecInv, dubbo_res_release
    PROVE  CodecInv'
<1> DEFINE bs == {"desc", "res"} \cup (IF HasData THEN {"data"} ELSE {})
<1>1. /\ pc = "dubbo_res_release" /\ pc' = "finished" /\ encoding' = encoding /\ pkt' = pkt /\ chunk' = chunk
      /\ data' = data /\ consumed' = consumed /\ result' = result /\ Freed(bs)
  BY DEF dubbo_res_release, decoding
<1>2. /\ op = "decode" /\ pkt \in Responses /\ BodySize(pkt) \in 1 .. DUBBO_MAX_PKT_SZ /\ twice = FALSE
      /\ chunk \in Nat \ {0} /\ data \in [sz : Nat, left : Nat, cap : Nat]
      /\ pkt.seri = 2 /\ ~pkt.isreq /\ consumed = DUBBO_HDR_LEN + BodySize(pkt) /\ consumed \in Nat
  BY <1>1, DecodingFacts
<1>3. Stored(pkt) /\ heap = {"res", "desc"} \cup DataBlock(pkt) /\ result = "res"
  BY <1>1, <1>2 DEF CodecInv, DecodeInv
<1>4. op' = op
  BY <1>1 DEF encoding
<1>5. HasData <=> HasText(pkt) \/ HasBinary(pkt)
  <2>1. pkt.type \in Byte /\ (HasBinary(pkt) <=> pkt.status = 20 /\ ~pkt.evt /\ pkt.type = 145)
    BY <1>2, PacketFacts
  <2>2. (ResultFlag(pkt.type) = 0 <=> pkt.type = 144) /\ (ResultFlag(pkt.type) = 1 <=> pkt.type = 145)
    BY <2>1, FlagFacts
  <2> QED BY <2>1, <2>2 DEF HasData, HasText
<1>6. ~(HasText(pkt) /\ HasBinary(pkt))
  BY <1>2, PacketFacts
<1>7. heap' = {}
  <2>1. heap' = heap \ bs
    BY <1>1 DEF Freed
  <2>2. DataBlock(pkt) \subseteq bs
    BY <1>5 DEF DataBlock
  <2> QED BY <1>3, <2>1, <2>2
<1>8. twice' = (HasText(pkt) /\ Bytes(pkt.text) = 0)
  <2>1. twice' = ~(bs \subseteq heap)
    BY <1>1, <1>2 DEF Freed
  <2>2. bs \subseteq heap <=> ~(HasText(pkt) /\ Bytes(pkt.text) = 0)
    <3>1. CASE HasText(pkt) /\ Bytes(pkt.text) = 0
      <4>1. "data" \in bs /\ "data" \notin heap
        BY <1>3, <1>5, <1>6, <3>1 DEF DataBlock
      <4> QED BY <3>1, <4>1
    <3>2. CASE ~(HasText(pkt) /\ Bytes(pkt.text) = 0)
      <4>1. HasData => DataBlock(pkt) = {"data"}
        BY <1>5, <3>2 DEF DataBlock
      <4> QED BY <1>3, <3>2, <4>1
    <3> QED BY <3>1, <3>2
  <2> HIDE DEF bs
  <2>3. HasText(pkt) \in BOOLEAN
    BY DEF HasText
  <2> QED BY <2>1, <2>2, <2>3
<1>9. consumed = 16 + BodySize(pkt) /\ consumed # 16
  BY <1>2, BodyFacts DEF DUBBO_HDR_LEN
<1>10. Stored(pkt)'
  BY <1>1, <1>3 DEF Stored
<1> HIDE DEF bs
<1>11. DecodeInv'
  <2>1. twice' <=> result' = "res" /\ HasText(pkt') /\ Bytes(pkt'.text) = 0
    BY <1>1, <1>3, <1>8
  <2> QED BY <1>1, <1>2, <1>3, <1>4, <1>7, <1>9, <1>10, <2>1 DEF DecodeInv, DUBBO_HDR_LEN, NULL
<1>12. heap' \subseteq {"view", "res", "desc", "data"} /\ twice' \in BOOLEAN /\ result' \in {"res"}
  <2>1. HasText(pkt) \in BOOLEAN
    BY DEF HasText
  <2> QED BY <1>1, <1>3, <1>7, <1>8, <2>1
<1> QED BY <1>1, <1>2, <1>11, <1>12, DecodingKeeps

\* The next call starts from an empty heap.
LEMMA NextCallStep ==
    ASSUME CodecInv, NextCall
    PROVE  CodecInv'
<1>1. /\ pc' = "idle" /\ op' = "none" /\ result' = "none" /\ heap' = {} /\ twice' = FALSE
      /\ req' = req /\ reqid' = reqid /\ field' = field /\ body' = body
      /\ pkt' = pkt /\ chunk' = chunk /\ data' = data /\ consumed' = consumed
  BY DEF NextCall, decoding
<1>2. TypeOK'
  BY <1>1 DEF CodecInv, TypeOK
<1> QED BY <1>1, <1>2 DEF CodecInv, IdleInv, EncodeInv, DecodeInv

-----------------------------------------------------------------------------
(* The theorems.                                                           *)

\* The inductive invariant: at every step of a call, what has been written or
\* stored is the sum of what came before, and the heap holds just the blocks
\* that the functions still under way have allocated.
THEOREM CodecInvariant == Spec => []CodecInv
<1>1. ASSUME CodecInv, [Next]_vars PROVE CodecInv'
  <2>1. CASE Encode
    <3>1. ASSUME NEW caller \in {"sync", "async"}, NEW r \in Requests, dubbo_req_create(caller, r)
          PROVE  CodecInv'
      BY <1>1, <3>1, CreateStep
    <3>2. CASE dubbo_encode
      BY <1>1, <3>2, StartStep
    <3>3. CASE write_hs_str
      BY <1>1, <3>3, StringStep
    <3>4. CASE write_hs_null
      BY <1>1, <3>4, NullStep
    <3>5. CASE hs_encode_binary
      BY <1>1, <3>5, BinaryStep
    <3>6. CASE encode_req_hdr
      BY <1>1, <3>6, HeaderStep
    <3>7. CASE cli_send_req
      BY <1>1, <3>7, SentStep
    <3>8. CASE dubbo_invoke_sync
      BY <1>1, <3>8, AtOnceStep
    <3>9. CASE dubbo_req_release
      BY <1>1, <3>9, ReqReleaseStep
    <3> QED BY <2>1, <3>1, <3>2, <3>3, <3>4, <3>5, <3>6, <3>7, <3>8, <3>9 DEF Encode
  <2>2. CASE Decode
    <3>1. ASSUME NEW r \in Responses, dubbo_decode(r) PROVE CodecInv'
      BY <1>1, <3>1, DecodeStep
    <3>2. CASE decode_res_hdr
      BY <1>1, <3>2, HdrStep
    <3>3. CASE decode_res
      BY <1>1, <3>3, ResStep
    <3>4. CASE decode_res_data
      BY <1>1, <3>4, DataStep
    <3>5. CASE read_hs_str
      BY <1>1, <3>5, TextStep
    <3>6. CASE hs_decode_binary
      BY <1>1, <3>6, BinaryHeadStep
    <3>7. CASE hs_decode_binary_chunk
      BY <1>1, <3>7, ChunkStep
    <3>8. CASE DecodeReturns
      BY <1>1, <3>8, ReturnStep
    <3>9. CASE dubbo_res_release
      BY <1>1, <3>9, ResReleaseStep
    <3> QED BY <2>2, <3>1, <3>2, <3>3, <3>4, <3>5, <3>6, <3>7, <3>8, <3>9 DEF Decode
  <2>3. CASE NextCall
    BY <1>1, <2>3, NextCallStep
  <2>4. CASE UNCHANGED vars
    <3>1. /\ op' = op /\ pc' = pc /\ req' = req /\ reqid' = reqid /\ field' = field /\ body' = body
          /\ pkt' = pkt /\ chunk' = chunk /\ data' = data /\ consumed' = consumed
          /\ result' = result /\ heap' = heap /\ twice' = twice
      BY <2>4 DEF vars, encoding, decoding, memory
    <3>2. TypeOK' /\ IdleInv'
      BY <1>1, <3>1 DEF CodecInv, TypeOK, IdleInv
    <3>3. EncodeInv'
      <4>1. (Filled' <=> Filled) /\ (Refused' <=> Refused)
        BY <3>1 DEF Filled, Refused
      <4> QED BY <1>1, <3>1, <4>1 DEF CodecInv, EncodeInv
    <3>4. DecodeInv'
      <4>1. (Stored(pkt)' <=> Stored(pkt)) /\ (Growing' <=> Growing)
        BY <3>1 DEF Stored, Growing
      <4> QED BY <1>1, <3>1, <4>1 DEF CodecInv, DecodeInv
    <3> QED BY <3>2, <3>3, <3>4 DEF CodecInv
  <2> QED BY <1>1, <2>1, <2>2, <2>3, <2>4 DEF Next
<1> QED BY <1>1, InitHolds, PTL DEF Spec

\* Every variable has its type: no length is negative, however the chunks fall.
THEOREM CodecTypes == Spec => []TypeOK
<1>1. CodecInv => TypeOK
  BY DEF CodecInv
<1> QED BY <1>1, CodecInvariant, PTL

\* A request becomes a packet exactly if its body fits the 8192 bytes the
\* buffer starts with, whatever the lengths of its strings and arguments.
THEOREM EncodesExactly == Spec => []EncodeExact
<1>1. CodecInv => EncodeExact
  BY DEF CodecInv, EncodeInv, EncodeExact, Refused
<1> QED BY <1>1, CodecInvariant, PTL

\* A response that is returned holds every byte of its value or its text, for
\* any number of chunks; the process ends only as DecodeExact says.
THEOREM DecodesExactly == Spec => []DecodeExact
<1>1. ASSUME CodecInv PROVE DecodeExact
  <2>1. SUFFICES ASSUME op = "decode"
                 PROVE  /\ result = "res" =>
                              /\ data.sz = IF HasText(pkt) THEN Bytes(pkt.text) ELSE DataLen(pkt)
                              /\ HasText(pkt) \/ ~EndsCompact(pkt)
                              /\ pkt.status # 20 \/ pkt.evt \/ pkt.type \in 144 .. 146
                        /\ pc = "aborted" => EndsCompact(pkt)
                        /\ pc = "crashed" =>
                              IF HasText(pkt) THEN Chars(pkt.text) > 65535
                              ELSE \E k \in DOMAIN pkt.chunks : pkt.chunks[k][2] > 32767
                        /\ pc = "finished" =>
                              (consumed = DUBBO_HDR_LEN + BodySize(pkt) <=> pkt.seri = 2 /\ ~pkt.isreq)
    BY DEF DecodeExact
  <2>2. /\ pkt \in Responses /\ BodySize(pkt) \in 1 .. DUBBO_MAX_PKT_SZ
        /\ pc = "aborted" => EndsCompact(pkt)
        /\ pc = "crashed" => IF HasText(pkt) THEN Chars(pkt.text) > 65535
                             ELSE \E k \in DOMAIN pkt.chunks : pkt.chunks[k][2] > 32767
        /\ result = "res" => Stored(pkt)
    BY <1>1, <2>1 DEF CodecInv, DecodeInv
  <2>3. ASSUME result = "res"
        PROVE  /\ data.sz = IF HasText(pkt) THEN Bytes(pkt.text) ELSE DataLen(pkt)
               /\ HasText(pkt) \/ ~EndsCompact(pkt)
               /\ pkt.status # 20 \/ pkt.evt \/ pkt.type \in 144 .. 146
    <3>0. pkt.status # 20 \/ pkt.evt \/ pkt.type \in 144 .. 146
      BY <2>2, <2>3 DEF Stored, Known
    <3>1. CASE HasText(pkt) \/ HasBinary(pkt)
      BY <2>2, <2>3, <3>0, <3>1, PacketFacts DEF Stored
    <3>2. CASE ~HasText(pkt) /\ ~HasBinary(pkt)
      <4>1. data.sz = 0
        BY <2>2, <2>3, <3>2 DEF Stored, NoData
      <4>2. DataLen(pkt) = 0
        <5>1. Carried(pkt) \in Seq(Nat) /\ Len(Carried(pkt)) = 0 /\ DataLen(pkt) = SumOf(Carried(pkt))
          BY <2>2, <3>2, CarriedFacts DEF HasBinary
        <5> QED BY <5>1, SumLaws
      <4>3. ~EndsCompact(pkt)
        BY <3>2 DEF HasBinary, EndsCompact
      <4> QED BY <3>0, <3>2, <4>1, <4>2, <4>3
    <3> QED BY <3>1, <3>2
  <2>4. ASSUME pc = "finished"
        PROVE  consumed = DUBBO_HDR_LEN + BodySize(pkt) <=> pkt.seri = 2 /\ ~pkt.isreq
    <3>1. /\ consumed \in {DUBBO_HDR_LEN, DUBBO_HDR_LEN + BodySize(pkt)}
          /\ consumed # DUBBO_HDR_LEN <=> pkt.seri = 2 /\ ~pkt.isreq
      BY <1>1, <2>1, <2>4 DEF CodecInv, DecodeInv
    <3>2. DUBBO_HDR_LEN # DUBBO_HDR_LEN + BodySize(pkt)
      BY <2>2, BodyFacts DEF DUBBO_HDR_LEN
    <3> QED BY <3>1, <3>2
  <2> QED BY <2>2, <2>3, <2>4
<1> QED BY <1>1, CodecInvariant, PTL

\* Neither the bytes of a value nor the zero behind them leave the block,
\* however many chunks make it grow and whatever their lengths.
THEOREM NeverOverruns == Spec => []NoOverrun
<1>1. ASSUME CodecInv PROVE NoOverrun
  <2>1. SUFFICES ASSUME pc \in {"hs_decode_binary_chunk", "ok"}, ~HasText(pkt), data.cap > 0
                 PROVE  data.sz + data.left < data.cap
    BY DEF NoOverrun
  <2>2. op = "decode"
    BY <1>1, <2>1, DecodingFacts
  <2>3. CASE pc = "hs_decode_binary_chunk"
    BY <1>1, <2>2, <2>3 DEF CodecInv, DecodeInv, Growing
  <2>4. CASE pc = "ok"
    <3>1. Stored(pkt)
      BY <1>1, <2>2, <2>4 DEF CodecInv, DecodeInv
    <3>2. HasBinary(pkt)
      BY <2>1, <3>1 DEF Stored, NoData
    <3> QED BY <3>1, <3>2 DEF Stored
  <2> QED BY <2>1, <2>3, <2>4
<1> QED BY <1>1, CodecInvariant, PTL

\* What every call leaves allocated, and the only block that is freed twice.
THEOREM HeapAccounted == Spec => []HeapExact
<1>1. ASSUME CodecInv PROVE HeapExact
  <2>1. TypeOK /\ IdleInv /\ EncodeInv /\ DecodeInv
    BY <1>1 DEF CodecInv
  <2>2. op \in {"none", "sync", "async", "decode"}
    BY <2>1 DEF TypeOK
  <2>3. CASE op = "none"
    BY <2>1, <2>3 DEF IdleInv, HeapExact
  <2>4. CASE op \in {"sync", "async"}
    <3>1. ASSUME pc \in {"finished", "returned"} PROVE heap = Left
      <4>1. req \in Requests /\ (pc = "returned" => op = "sync" /\ req.args \in Nat)
        BY <2>1, <2>4 DEF EncodeInv
      <4>2. req.args \in Nat <=> req.args \notin {Failed, NoJson}
        BY <4>1, RefusedArgs
      <4>3. CASE pc = "returned"
        <5>1. heap = RequestBlocks(req) \cup {"buf"}
          BY <2>1, <2>4, <4>3 DEF EncodeInv
        <5> QED BY <2>4, <4>1, <4>2, <4>3, <5>1 DEF Left, Array, RequestBlocks
      <4>4. CASE pc = "finished" /\ op = "async"
        <5>1. heap = RequestBlocks(req) /\ req.args \in Nat
          BY <2>1, <2>4, <4>4 DEF EncodeInv
        <5> QED BY <4>2, <4>4, <5>1 DEF Left, Array, RequestBlocks
      <4>5. CASE pc = "finished" /\ op = "sync"
        <5>1. heap = SyncLeaves(req)
          BY <2>1, <2>4, <4>5 DEF EncodeInv
        <5> QED BY <4>5, <5>1 DEF Left, SyncLeaves
      <4> QED BY <2>4, <3>1, <4>3, <4>4, <4>5
    <3>2. ~twice
      BY <2>1, <2>4 DEF EncodeInv
    <3> QED BY <2>4, <3>1, <3>2 DEF HeapExact
  <2>5. CASE op = "decode"
    <3>1. pc \in {"finished", "returned"} => heap = Left
      BY <2>1, <2>5 DEF DecodeInv, Left
    <3>2. twice <=> pc = "finished" /\ result = "res" /\ HasText(pkt) /\ Bytes(pkt.text) = 0
      BY <2>1, <2>5 DEF DecodeInv
    <3> QED BY <2>5, <3>1, <3>2 DEF HeapExact
  <2> QED BY <2>2, <2>3, <2>4, <2>5
<1> QED BY <1>1, CodecInvariant, PTL

=============================================================================
