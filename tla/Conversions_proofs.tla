--------------------------- MODULE Conversions_proofs --------------------------
(***************************************************************************)
(* What the conversions return for every input, as far as no recursive     *)
(* definition is met: integers of every width, Hessian strings, and the    *)
(* UTF-8 decoder.                                                          *)
(***************************************************************************)
EXTENDS Conversions, Hessian_proofs

\* The integers of w bytes.
Wire(w) == IF w = 8 THEN {x \in Int \X Int : IsInt32(x[1]) /\ IsInt32(x[2])}
           ELSE {x \in Int : IsInt32(x) /\ Fits(w, x)}

-----------------------------------------------------------------------------
(* Bytes of integers.                                                      *)

\* The two parts of a concatenation.
LEMMA ConcatParts ==
    ASSUME NEW S, NEW s \in Seq(S), NEW t \in Seq(S)
    PROVE  /\ SubSeq(s \o t, 1, Len(s)) = s
           /\ SubSeq(s \o t, Len(s) + 1, Len(s \o t)) = t
<1> DEFINE u == s \o t
<1>1. /\ u \in Seq(S) /\ Len(u) = Len(s) + Len(t)
      /\ \A i \in 1 .. Len(s) + Len(t) : u[i] = IF i <= Len(s) THEN s[i] ELSE t[i - Len(s)]
  BY ConcatProperties
<1>2. Len(s) \in Nat /\ Len(t) \in Nat
  BY LenProperties
<1>3. \A i \in 1 .. Len(u) : u[i] \in S
  BY <1>1, ElementOfSeq
<1> HIDE DEF u
<1>4. /\ SubSeq(u, 1, Len(s)) \in Seq(S) /\ Len(SubSeq(u, 1, Len(s))) = Len(s)
      /\ \A i \in 1 .. Len(s) : SubSeq(u, 1, Len(s))[i] = u[i]
  <2>1. \A i \in 1 .. Len(s) : u[i] \in S
    BY <1>1, <1>2, <1>3
  <2> QED BY <2>1, <1>2, SubSeqProperties
<1>5. SubSeq(u, 1, Len(s)) = s
  <2>1. \A i \in 1 .. Len(s) : SubSeq(u, 1, Len(s))[i] = s[i]
    BY <1>1, <1>2, <1>4
  <2> QED BY <2>1, <1>4, SeqEqual
<1>6. /\ SubSeq(u, Len(s) + 1, Len(u)) \in Seq(S) /\ Len(SubSeq(u, Len(s) + 1, Len(u))) = Len(t)
      /\ \A i \in 1 .. Len(t) : SubSeq(u, Len(s) + 1, Len(u))[i] = u[Len(s) + i]
  <2>1. \A i \in Len(s) + 1 .. Len(u) : u[i] \in S
    BY <1>1, <1>2, <1>3
  <2>2. /\ SubSeq(u, Len(s) + 1, Len(u)) \in Seq(S)
        /\ Len(SubSeq(u, Len(s) + 1, Len(u))) = IF Len(s) + 1 <= Len(u) THEN Len(u) - (Len(s) + 1) + 1 ELSE 0
        /\ \A i \in 1 .. Len(u) - (Len(s) + 1) + 1 : SubSeq(u, Len(s) + 1, Len(u))[i] = u[Len(s) + 1 + i - 1]
    <3>1. Len(s) + 1 \in Int /\ Len(u) \in Int
      BY <1>1, <1>2
    <3> QED BY <2>1, <3>1, SubSeqProperties
  <2> QED BY <2>2, <1>1, <1>2
<1>7. SubSeq(u, Len(s) + 1, Len(u)) = t
  <2>1. \A i \in 1 .. Len(t) : SubSeq(u, Len(s) + 1, Len(u))[i] = t[i]
    <3> SUFFICES ASSUME NEW i \in 1 .. Len(t) PROVE u[Len(s) + i] = t[i]
      BY <1>6
    <3> QED BY <1>1, <1>2
  <2> QED BY <2>1, <1>6, SeqEqual
<1> QED BY <1>5, <1>7 DEF u

\* Two bytes and four bytes hold an integer of that width, sign included.
LEMMA Bytes16 ==
    ASSUME NEW x \in Int, -32768 <= x, x <= 32767
    PROVE  Be16(x) \in Seq(Byte) /\ Len(Be16(x)) = 2 /\ Int16(Be16(x)) = x
<1> DEFINE a == x \div 256
<1>1. a \in Int /\ -128 <= a /\ a <= 127 /\ x = 256 * a + (x % 256)
  BY SMT
<1>2. a % 256 \in Byte /\ x % 256 \in Byte
  BY <1>1, SMT DEF Byte
<1>3. Int8(a % 256) = a
  BY <1>1, SMT DEF Int8
<1>4. Be16(x) = <<a % 256, x % 256>>
  BY DEF Be16
<1> HIDE DEF a
<1> QED BY <1>1, <1>2, <1>3, <1>4, SMT DEF Int16, Byte

\* Four bytes give back every int32_t with its sign.
LEMMA Bytes32 ==
    ASSUME NEW x \in Int, IsInt32(x)
    PROVE  Be32(x) \in Seq(Byte) /\ Len(Be32(x)) = 4 /\ Int32(Be32(x)) = x
<1> DEFINE a == x \div 16777216
           b == x \div 65536
           c == x \div 256
<1>1. a \in Int /\ b \in Int /\ c \in Int
  BY SMT
<1>2. -128 <= a /\ a <= 127
  BY SMT DEF IsInt32
<1>3. x = 256 * c + (x % 256) /\ c = 256 * b + (c % 256) /\ b = 256 * a + (b % 256)
  BY SMT
<1>4. x % 256 \in Byte /\ c % 256 \in Byte /\ b % 256 \in Byte /\ a % 256 \in Byte
  BY <1>1, SMT DEF Byte
<1>5. Int8(a % 256) = a
  BY <1>1, <1>2, SMT DEF Int8
<1>6. Be32(x) = <<a % 256, b % 256, c % 256, x % 256>>
  BY SMT DEF Be32
<1> HIDE DEF a, b, c
<1>7. a * 16777216 + (b % 256) * 65536 + (c % 256) * 256 + (x % 256) = x
  BY <1>1, <1>3, SMT
<1> QED BY <1>4, <1>5, <1>6, <1>7, SMT DEF Int32

\* 64 bits, as the pair of their halves.
LEMMA Bytes64 ==
    ASSUME NEW x \in Wire(8)
    PROVE  Be64(x) \in Seq(Byte) /\ Len(Be64(x)) = 8 /\ Int64(Be64(x)) = x
<1> DEFINE h == Be32(x[1])
           l == Be32(x[2])
<1>1. x = <<x[1], x[2]>> /\ x[1] \in Int /\ x[2] \in Int /\ IsInt32(x[1]) /\ IsInt32(x[2])
  BY DEF Wire
<1>2. /\ h \in Seq(Byte) /\ Len(h) = 4 /\ Int32(h) = x[1]
      /\ l \in Seq(Byte) /\ Len(l) = 4 /\ Int32(l) = x[2]
  BY <1>1, Bytes32
<1>3. Be64(x) = h \o l
  BY DEF Be64
<1> HIDE DEF h, l
<1>4. h \o l \in Seq(Byte) /\ Len(h \o l) = 8
  <2>1. h \o l \in Seq(Byte) /\ Len(h \o l) = Len(h) + Len(l)
    BY <1>2, ConcatProperties
  <2> QED BY <1>2, <2>1
<1>5. SubSeq(h \o l, 1, 4) = h /\ SubSeq(h \o l, 5, 8) = l
  <2>1. /\ SubSeq(h \o l, 1, Len(h)) = h
        /\ SubSeq(h \o l, Len(h) + 1, Len(h \o l)) = l
    BY <1>2, ConcatParts
  <2>2. Len(h) = 4 /\ Len(h) + 1 = 5 /\ Len(h \o l) = 8
    BY <1>2, <1>4
  <2> QED BY <2>1, <2>2, Zenon
<1> QED BY <1>1, <1>2, <1>3, <1>4, <1>5 DEF Int64

\* Of every width: the bytes of an integer stand for it.
LEMMA ByteOrderInverse ==
    ASSUME NEW w \in {1, 2, 4, 8}, NEW x \in Wire(w)
    PROVE  htobe(w, x) \in Seq(Byte) /\ Len(htobe(w, x)) = w /\ betoh(w, htobe(w, x)) = x
<1>1. ASSUME w = 1 PROVE htobe(w, x) \in Seq(Byte) /\ Len(htobe(w, x)) = w /\ betoh(w, htobe(w, x)) = x
  BY <1>1, SMT DEF Wire, Fits, htobe, betoh, Int8, Byte
<1>2. ASSUME w = 2 PROVE htobe(w, x) \in Seq(Byte) /\ Len(htobe(w, x)) = w /\ betoh(w, htobe(w, x)) = x
  BY <1>2, Bytes16, SMT DEF Wire, Fits, htobe, betoh
<1>3. ASSUME w = 4 PROVE htobe(w, x) \in Seq(Byte) /\ Len(htobe(w, x)) = w /\ betoh(w, htobe(w, x)) = x
  BY <1>3, Bytes32, SMT DEF Wire, Fits, htobe, betoh
<1>4. ASSUME w = 8 PROVE htobe(w, x) \in Seq(Byte) /\ Len(htobe(w, x)) = w /\ betoh(w, htobe(w, x)) = x
  BY <1>4, Bytes64, SMT DEF htobe, betoh
<1> QED BY <1>1, <1>2, <1>3, <1>4

\* Reversing twice is nothing.
LEMMA BackwardsTwice ==
    ASSUME NEW s \in Seq(Byte)
    PROVE  Backwards(s) \in Seq(Byte) /\ Len(Backwards(s)) = Len(s) /\ Backwards(Backwards(s)) = s
<1>1. Len(s) \in Nat
  OBVIOUS
<1>2. \A i \in 1 .. Len(s) : s[Len(s) + 1 - i] \in Byte
  BY <1>1
<1>3. Backwards(s) \in Seq(Byte) /\ Len(Backwards(s)) = Len(s)
  BY <1>1, <1>2 DEF Backwards
<1>4. \A i \in 1 .. Len(s) : Backwards(s)[i] = s[Len(s) + 1 - i]
  BY <1>1 DEF Backwards
<1>5. /\ Backwards(Backwards(s)) \in Seq(Byte) /\ Len(Backwards(Backwards(s))) = Len(s)
      /\ \A i \in 1 .. Len(s) : Backwards(Backwards(s))[i] = s[i]
  <2> DEFINE b == Backwards(s)
  <2>1. b \in Seq(Byte) /\ Len(b) = Len(s) /\ \A i \in 1 .. Len(s) : b[i] = s[Len(s) + 1 - i]
    BY <1>3, <1>4
  <2> HIDE DEF b
  <2>2. Backwards(b) \in Seq(Byte) /\ Len(Backwards(b)) = Len(s)
    BY <1>1, <2>1 DEF Backwards
  <2>3. \A i \in 1 .. Len(s) : Backwards(b)[i] = b[Len(s) + 1 - i]
    BY <1>1, <2>1 DEF Backwards
  <2>4. ASSUME NEW i \in 1 .. Len(s) PROVE Backwards(b)[i] = s[i]
    <3>1. Len(s) + 1 - i \in 1 .. Len(s) /\ Len(s) + 1 - (Len(s) + 1 - i) = i
      BY <1>1
    <3> QED BY <2>1, <2>3, <3>1
  <2> QED BY <2>2, <2>4 DEF b
<1> QED BY <1>3, <1>5, SeqEqual

-----------------------------------------------------------------------------
(* Integers at either end of a buffer.                                     *)

\* A buffer that holds w bytes and then s: they are what a read returns.
LEMMA FrontRead ==
    ASSUME NEW w \in {1, 2, 4, 8}, NEW t \in Seq(Byte), Len(t) = w, NEW s \in Seq(Byte)
    PROVE  FrontBytes(t \o s, w) = t /\ buf_retrieve(t \o s, w) = s
BY ConcatParts, Zenon DEF FrontBytes, buf_retrieve

\* The same when nothing follows.
LEMMA WholeRead ==
    ASSUME NEW w \in {1, 2, 4, 8}, NEW t \in Seq(Byte), Len(t) = w
    PROVE  FrontBytes(t, w) = t /\ buf_retrieve(t, w) = << >>
<1>1. SubSeq(t, 1, Len(t)) = t
  BY SubSeqFull
<1>2. SubSeq(t, w + 1, Len(t)) = << >>
  <2>1. w + 1 \in Int /\ Len(t) \in Int /\ Len(t) < w + 1
    OBVIOUS
  <2> QED BY <2>1, SubSeqEmpty
<1> QED BY <1>1, <1>2 DEF FrontBytes, buf_retrieve

\* Three little-endian bytes are the low bytes of the integer that was written.
LEMMA LowBytes ==
    ASSUME NEW b, NEW m, NEW l
    PROVE  buf_peekIntLE(Backwards(<<0, b, m, l>>), 3) = Int32(<<0, b, m, l>>)
<1>1. Backwards(<<0, b, m, l>>) = <<l, m, b, 0>>
  BY DEF Backwards
<1> QED BY <1>1 DEF buf_peekIntLE

\* The 24-bit read of an integer that has no more bits is that integer.
LEMMA Low24 ==
    ASSUME NEW x \in Int, 0 <= x, x < 16777216
    PROVE  buf_peekIntLE(Backwards(Be32(x)), 3) = x
<1> DEFINE b == (x \div 65536) % 256
           m == (x \div 256) % 256
           l == x % 256
<1>1. x \div 16777216 = 0
  BY SMT
<1>2. Be32(x) = <<0, b, m, l>>
  BY <1>1, SMT DEF Be32
<1>3. IsInt32(x)
  BY SMT DEF IsInt32
<1>4. Int32(Be32(x)) = x
  BY <1>3, Bytes32, SMT
<1> HIDE DEF b, m, l
<1> QED BY <1>2, <1>4, LowBytes, SMT

\* A head of one byte.
LEMMA AfterTag ==
    ASSUME NEW t \in Seq(Byte), Len(t) = 4
    PROVE  /\ Len(<<73>> \o t) = 5 /\ (<<73>> \o t)[1] = 73
           /\ SubSeq(<<73>> \o t, 2, 5) = t
<1>1. <<73>> \in Seq(Byte) /\ Len(<<73>>) = 1
  BY SMT DEF Byte
<1>2. Len(<<73>> \o t) = Len(<<73>>) + Len(t)
  BY <1>1, ConcatProperties
<1>3. SubSeq(<<73>> \o t, Len(<<73>>) + 1, Len(<<73>> \o t)) = t
  BY <1>1, ConcatParts, ZenonT(40)
<1>4. Len(<<73>>) + 1 = 2 /\ Len(<<73>> \o t) = 5
  BY <1>1, <1>2
<1> QED BY <1>3, <1>4, SMT

\* What the decoder makes of two and of three bytes.
LEMMA TwoBytes ==
    ASSUME NEW s, s[1] \in Int, s[2] \in Int, Len(s) = 2, 192 <= s[1], s[1] <= 207
    PROVE  hs_decode_int(s) = (s[1] - 200) * 256 + s[2]
BY SMT DEF hs_decode_int

\* The three-byte form.
LEMMA ThreeBytes ==
    ASSUME NEW s, s[1] \in Int, s[2] \in Int, s[3] \in Int, Len(s) = 3, 208 <= s[1], s[1] <= 215
    PROVE  hs_decode_int(s) = (s[1] - 212) * 65536 + s[2] * 256 + s[3]
BY SMT DEF hs_decode_int

\* A Hessian integer, form by form; the gap is read as 47.
LEMMA HessianInt ==
    ASSUME NEW x \in Int, IsInt32(x)
    PROVE  hs_decode_int(hs_encode_int(x)) = IF x \in EncodeGap THEN 47 ELSE x
<1>1. ASSUME -16 <= x, x <= 47 PROVE hs_decode_int(hs_encode_int(x)) = x
  <2>1. hs_encode_int(x) = <<x + 144>>
    BY <1>1, SMT DEF hs_encode_int
  <2>2. x + 144 \in 128 .. 191
    BY <1>1, SMT
  <2>3. hs_decode_int(<<x + 144>>) = x
    BY <2>2, SMT DEF hs_decode_int
  <2> QED BY <2>1, <2>3, Zenon
<1>2. ASSUME ~(-16 <= x /\ x <= 47), x <= 2047, -2048 <= x + 200 PROVE hs_decode_int(hs_encode_int(x)) = IF x < -2048 THEN 47 ELSE x
  <2> DEFINE q == x \div 256
             l == x % 256
  <2>1. hs_encode_int(x) = <<q + 200, l>>
    BY <1>2, SMT DEF hs_encode_int
  <2>2. q \in Int /\ l \in Int /\ 0 <= l /\ l <= 255 /\ x = 256 * q + l /\ -9 <= q /\ q <= 7
    BY <1>2, SMT
  <2> HIDE DEF q, l
  <2>3. ASSUME q = -9 PROVE x < -2048 /\ hs_decode_int(hs_encode_int(x)) = 47
    <3>1. hs_decode_int(<<191, l>>) = 47
      BY SMT DEF hs_decode_int
    <3>2. hs_encode_int(x) = <<191, l>>
      BY <2>1, <2>3, SMT
    <3>3. x < -2048
      BY <1>2, <2>2, <2>3, SMT
    <3> QED BY <3>1, <3>2, <3>3, SMT
  <2>4. ASSUME q # -9 PROVE ~(x < -2048) /\ hs_decode_int(hs_encode_int(x)) = x
    <3> DEFINE s == <<q + 200, l>>
    <3>1. /\ s[1] \in Int /\ s[2] \in Int /\ Len(s) = 2 /\ 192 <= s[1] /\ s[1] <= 207
          /\ (s[1] - 200) * 256 + s[2] = x
      BY <2>2, <2>4, SMT
    <3>2. ~(x < -2048) /\ hs_encode_int(x) = s
      BY <2>1, <2>2, <2>4, SMT
    <3> HIDE DEF s
    <3>3. hs_decode_int(s) = (s[1] - 200) * 256 + s[2]
      BY <3>1, TwoBytes, SMT
    <3> QED BY <3>1, <3>2, <3>3, SMT
  <2> QED BY <2>3, <2>4, SMT
<1>3. ASSUME ~(-16 <= x /\ x <= 47), ~(x <= 2047 /\ -2048 <= x + 200), -262144 <= x, x <= 262143
      PROVE  hs_decode_int(hs_encode_int(x)) = x
  <2> DEFINE q == x \div 65536
             m == (x \div 256) % 256
             l == x % 256
  <2>1. hs_encode_int(x) = <<q + 212, m, l>>
    BY <1>3, SMT DEF hs_encode_int
  <2>2. q \in Int /\ m \in Int /\ l \in Int /\ x = 65536 * q + 256 * m + l /\ -4 <= q /\ q <= 3
    BY <1>3, SMT
  <2> HIDE DEF q, m, l
  <2> DEFINE s == <<q + 212, m, l>>
  <2>3. /\ s[1] \in Int /\ s[2] \in Int /\ s[3] \in Int /\ Len(s) = 3 /\ 208 <= s[1] /\ s[1] <= 215
        /\ (s[1] - 212) * 65536 + s[2] * 256 + s[3] = x
    BY <2>2, SMT
  <2>4. hs_encode_int(x) = s
    BY <2>1
  <2> HIDE DEF s
  <2>5. hs_decode_int(s) = (s[1] - 212) * 65536 + s[2] * 256 + s[3]
    BY <2>3, ThreeBytes, SMT
  <2> QED BY <2>3, <2>4, <2>5, SMT
<1>4. ASSUME ~(-16 <= x /\ x <= 47), ~(x <= 2047 /\ -2048 <= x + 200), ~(-262144 <= x /\ x <= 262143)
      PROVE  hs_decode_int(hs_encode_int(x)) = x
  <2> DEFINE t == Be32(x)
             s == <<73>> \o t
  <2>1. hs_encode_int(x) = s
    <3>1. ~(x \in -16 .. 47)
      BY <1>4, SMT
    <3> HIDE DEF t
    <3> QED BY <1>4, <3>1, SMT DEF hs_encode_int, t
  <2>2. t \in Seq(Byte) /\ Len(t) = 4 /\ Int32(t) = x
    BY Bytes32, SMT
  <2>3. Len(s) = 5 /\ s[1] = 73 /\ SubSeq(s, 2, 5) = t
    BY <2>2, AfterTag, SMT
  <2> HIDE DEF t, s
  <2>4. hs_decode_int(s) = Int32(SubSeq(s, 2, 5))
    BY <2>3, SMT DEF hs_decode_int
  <2>5. Int32(SubSeq(s, 2, 5)) = x
    BY <2>2, <2>3, Zenon
  <2> QED BY <2>1, <2>4, <2>5, Zenon
<1>5. (x \in EncodeGap) <=> (-2248 <= x /\ x < -2048)
  BY SMT DEF EncodeGap
<1> QED BY <1>1, <1>2, <1>3, <1>4, <1>5, SMT

\* An integer at the back of a buffer, in either byte order.
LEMMA AppendReads ==
    ASSUME NEW w \in {1, 2, 4, 8}, NEW x \in Wire(w), NEW s \in Seq(Byte)
    PROVE  /\ buf_readInt(buf_retrieve(buf_appendInt(s, w, x), Len(s)), w) = <<x, << >>>>
           /\ buf_retrieve(buf_appendIntLE(s, w, x), Len(s)) = Backwards(htobe(w, x))
           /\ buf_readIntLE(Backwards(htobe(w, x)), w) = <<x, << >>>>
<1> DEFINE t == htobe(w, x)
<1>1. t \in Seq(Byte) /\ Len(t) = w /\ betoh(w, t) = x
  BY ByteOrderInverse
<1>2. Backwards(t) \in Seq(Byte) /\ Len(Backwards(t)) = w /\ Backwards(Backwards(t)) = t
  BY <1>1, BackwardsTwice
<1>3. buf_retrieve(s \o t, Len(s)) = t /\ buf_retrieve(s \o Backwards(t), Len(s)) = Backwards(t)
  BY <1>1, <1>2, ConcatParts DEF buf_retrieve
<1> HIDE DEF t
<1>4. FrontBytes(t, w) = t /\ buf_retrieve(t, w) = << >>
  BY <1>1, WholeRead
<1>5. FrontBytes(Backwards(t), w) = Backwards(t) /\ buf_retrieve(Backwards(t), w) = << >>
  BY <1>2, WholeRead
<1>6. buf_readInt(t, w) = <<x, << >>>>
  BY <1>1, <1>4, Zenon DEF buf_readInt, buf_peekInt
<1>7. buf_readIntLE(Backwards(t), w) = <<x, << >>>>
  <2>1. w # 3
    OBVIOUS
  <2> QED BY <2>1, <1>1, <1>2, <1>5, Zenon DEF buf_readIntLE, buf_peekIntLE
<1> QED BY <1>3, <1>6, <1>7 DEF buf_appendInt, buf_appendIntLE, t

\* An integer in front of a buffer.
LEMMA PrependReads ==
    ASSUME NEW w \in {1, 2, 4, 8}, NEW x \in Wire(w), NEW s \in Seq(Byte)
    PROVE  /\ buf_readInt(buf_prependInt(s, w, x), w) = <<x, s>>
           /\ buf_readIntLE(buf_prependIntLE(s, w, x), w) = <<x, s>>
<1> DEFINE t == htobe(w, x)
<1>1. t \in Seq(Byte) /\ Len(t) = w /\ betoh(w, t) = x
  BY ByteOrderInverse
<1>2. Backwards(t) \in Seq(Byte) /\ Len(Backwards(t)) = w /\ Backwards(Backwards(t)) = t
  BY <1>1, BackwardsTwice
<1> HIDE DEF t
<1>3. FrontBytes(t \o s, w) = t /\ buf_retrieve(t \o s, w) = s
  BY <1>1, FrontRead
<1>4. FrontBytes(Backwards(t) \o s, w) = Backwards(t) /\ buf_retrieve(Backwards(t) \o s, w) = s
  BY <1>2, FrontRead
<1>5. buf_readInt(t \o s, w) = <<x, s>>
  BY <1>1, <1>3, Zenon DEF buf_readInt, buf_peekInt
<1>6. buf_readIntLE(Backwards(t) \o s, w) = <<x, s>>
  <2>1. w # 3
    OBVIOUS
  <2> QED BY <2>1, <1>1, <1>2, <1>4, Zenon DEF buf_readIntLE, buf_peekIntLE
<1> QED BY <1>5, <1>6 DEF buf_prependInt, buf_prependIntLE, t

\* The integers of the instance have 32 bits.
LEMMA IntsInt32 == \A x \in Ints : x \in Int /\ IsInt32(x)
<1>1. \A x : IsInt32(x) => x \in Int
  BY SMT DEF IsInt32
<1> QED BY <1>1, ConversionsAssumption, Zenon

\* What the model writes with w bytes is among the integers of w bytes.
LEMMA ValuesWire ==
    ASSUME NEW w \in {1, 2, 4, 8}, NEW x \in Values(w)
    PROVE  x \in Wire(w)
BY IntsInt32, Zenon DEF Values, Wire

\* Whatever was written, at either end, in any width and byte order, is read
\* back (buffer.c:267-465); Hessian integers, too, outside the gap.
THEOREM IntegersReadBack == Spec => []IntsReadBack
<1>1. Init => IntsReadBack
  BY SMT DEF Init, Idle, IntsReadBack
<1>2. ASSUME IntsReadBack, [Next]_call PROVE IntsReadBack'
  <2>1. ASSUME NEW w \in {1, 2, 4, 8}, NEW s \in Before, NEW x \in Values(w), AppendInt(w, x, s)
        PROVE  IntsReadBack'
    <3>1. x \in Wire(w) /\ s \in Seq(Byte)
      BY ValuesWire, ConversionsAssumption, Zenon
    <3>2. ASSUME call' = [op |-> "append", w |-> w, arg |-> x, before |-> s,
                          ret |-> buf_appendInt(s, w, x)]
          PROVE  IntsReadBack'
      <4>1. /\ call'.op = "append" /\ call'.w = w /\ call'.arg = x /\ call'.before = s
            /\ call'.ret = buf_appendInt(s, w, x)
        BY <3>2
      <4>2. buf_readInt(buf_retrieve(buf_appendInt(s, w, x), Len(s)), w) = <<x, << >>>>
        BY <3>1, AppendReads
      <4> QED BY <4>1, <4>2, SMT DEF IntsReadBack
    <3>3. ASSUME call' = [op |-> "appendLE", w |-> w, arg |-> x, before |-> s,
                          ret |-> buf_appendIntLE(s, w, x)]
          PROVE  IntsReadBack'
      <4> DEFINE t == buf_retrieve(buf_appendIntLE(s, w, x), Len(s))
      <4>1. /\ call'.op = "appendLE" /\ call'.w = w /\ call'.arg = x /\ call'.before = s
            /\ call'.ret = buf_appendIntLE(s, w, x)
        BY <3>3
      <4>2. t = Backwards(htobe(w, x)) /\ buf_readIntLE(t, w) = <<x, << >>>>
        BY <3>1, AppendReads, ZenonT(40)
      <4>3. ASSUME w = 4, 0 <= x, x < 16777216 PROVE buf_peekIntLE(t, 3) = x
        <5>1. x \in Int /\ htobe(w, x) = Be32(x)
          BY <3>1, <4>3, SMT DEF Wire, htobe
        <5> QED BY <4>2, <4>3, <5>1, Low24, SMT
      <4> HIDE DEF t
      <4> QED BY <4>1, <4>2, <4>3, SMT DEF IntsReadBack, t
    <3> QED BY <2>1, <3>2, <3>3, Zenon DEF AppendInt
  <2>2. ASSUME NEW w \in {1, 2, 4, 8}, NEW s \in Before, NEW x \in Values(w), PrependInt(w, x, s)
        PROVE  IntsReadBack'
    <3>1. x \in Wire(w) /\ s \in Seq(Byte)
      BY ValuesWire, ConversionsAssumption, Zenon
    <3>2. /\ buf_readInt(buf_prependInt(s, w, x), w) = <<x, s>>
          /\ buf_readIntLE(buf_prependIntLE(s, w, x), w) = <<x, s>>
      BY <3>1, PrependReads
    <3> QED BY <2>2, <3>2, SMT DEF PrependInt, IntsReadBack
  <2>3. ASSUME NEW x \in Ints, EncodeInt(x) PROVE IntsReadBack'
    <3>1. x \in Int /\ IsInt32(x)
      BY IntsInt32
    <3>2. hs_decode_int(hs_encode_int(x)) = IF x \in EncodeGap THEN 47 ELSE x
      BY <3>1, HessianInt
    <3> QED BY <2>3, <3>2, SMT DEF EncodeInt, IntsReadBack
  <2>4. ASSUME call'.op \in {"string", "response", "char", "args", "none"} PROVE IntsReadBack'
    BY <2>4, SMT DEF IntsReadBack
  <2>5. ASSUME NEW t \in Texts, EncodeString(t) \/ DecodeString(t)
        PROVE  call'.op \in {"string", "response", "char", "args", "none"}
    BY <2>5 DEF EncodeString, DecodeString
  <2>6. ASSUME NEW s \in Raw, DecodeChar(s)
        PROVE  call'.op \in {"string", "response", "char", "args", "none"}
    BY <2>6 DEF DecodeChar
  <2>7. ASSUME NEW s \in Literals, RebuildArgs(s)
        PROVE  call'.op \in {"string", "response", "char", "args", "none"}
    BY <2>7 DEF RebuildArgs
  <2>8. ASSUME Return PROVE call'.op \in {"string", "response", "char", "args", "none"}
    BY <2>8 DEF Return, Idle
  <2>9. ASSUME UNCHANGED call PROVE IntsReadBack'
    BY <1>2, <2>9, SMT DEF IntsReadBack
  <2> QED BY <1>2, <2>1, <2>2, <2>3, <2>4, <2>5, <2>6, <2>7, <2>8, <2>9, Zenon DEF Next, Call
<1> QED BY <1>1, <1>2, PTL DEF Spec

-----------------------------------------------------------------------------
(* Strings.                                                                *)

\* A response text comes back whole, if it is one chunk; a string the client
\* wrote reads back by the same rule if and only if it is ASCII
\* (hessian.c:290-477).
THEOREM TextsReadBack == Spec => []StringsReadBack
<1>1. Init => StringsReadBack
  BY SMT DEF Init, Idle, StringsReadBack
<1>2. ASSUME StringsReadBack, [Next]_call PROVE StringsReadBack'
  <2>1. ASSUME NEW t \in Texts, EncodeString(t) PROVE StringsReadBack'
    <3> DEFINE b == Bytes(t)
               f == [head |-> StringHead(b), text |-> t]
    <3>0. t \in AnyText
      BY ConversionsAssumption
    <3>1. b \in Nat
      BY <3>0, ByteCount
    <3>2. call'.op = "string" /\ call'.arg = t /\ call'.ret = IF b > 32768 THEN Failed ELSE f
      BY <2>1, SMT DEF EncodeString, hs_encode_string
    <3>3. ASSUME ~(b > 32768)
          PROVE  f # Failed /\ internal_decode_string(f) = IF t.wide = 0 THEN b ELSE Beyond
      <4>1. b <= 65535 /\ b <= Bytes(t)
        BY <3>1, <3>3, SMT
      <4>2. internal_decode_string(f) = utf8cpy(t, b)
        BY <3>0, <3>1, <4>1, DecodedString, SMT
      <4>3. utf8cpy(t, b) = IF t.wide = 0 THEN b ELSE Beyond
        BY <3>0, CopiedBytes, Zenon
      <4>4. StringHead(b) \in Seq(Byte)
        BY <3>1, <4>1, HeadLength, SMT
      <4> DEFINE h == StringHead(b)
      <4> HIDE DEF h, b
      <4>5. f \in [head : Seq(Byte), text : AnyText]
        BY <3>0, <4>4 DEF h
      <4>6. f # Failed
        BY <4>5, HessianAssumption
      <4> QED BY <4>2, <4>3, <4>6
    <3> HIDE DEF f, b
    <3>4. /\ call'.ret = Failed <=> b > 32768
          /\ call'.ret # Failed =>
                internal_decode_string(call'.ret) = IF call'.arg.wide = 0 THEN b ELSE Beyond
      BY <3>2, <3>3, SMT
    <3> QED BY <3>2, <3>4, SMT DEF StringsReadBack, b
  <2>2. ASSUME NEW t \in Texts, DecodeString(t) PROVE StringsReadBack'
    <3> DEFINE b == Bytes(t)
               n == Chars(t)
               out == hs_decode_string(PeerText(t))
    <3>1. t \in AnyText
      BY ConversionsAssumption
    <3>2. call'.op = "response" /\ call'.arg = t /\ call'.ret = out
      BY <2>2, SMT DEF DecodeString
    <3>3. out = IF n > 65535 THEN Never ELSE [sz |-> b, freed |-> t.ascii + t.wide = 0]
      <4>1. out = IF n > 65535 THEN Never ELSE [sz |-> b, freed |-> b = 0]
        BY <3>1, PeerTextDecoded
      <4>2. (b = 0) = (t.ascii + t.wide = 0)
        BY <3>1, ByteCount
      <4> HIDE DEF out, b, n
      <4> QED BY <4>1, <4>2
    <3> HIDE DEF out, b, n
    <3> QED BY <3>2, <3>3, SMT DEF StringsReadBack, b, n
  <2>3. ASSUME call'.op \in {"append", "appendLE", "prepend", "prependLE", "int", "char", "args", "none"}
        PROVE  StringsReadBack'
    BY <2>3, SMT DEF StringsReadBack
  <2>4. ASSUME NEW w \in {1, 2, 4, 8}, NEW s \in Before, NEW x \in Values(w),
               AppendInt(w, x, s) \/ PrependInt(w, x, s)
        PROVE  StringsReadBack'
    BY <2>3, <2>4 DEF AppendInt, PrependInt
  <2>5. ASSUME NEW x \in Ints, EncodeInt(x) PROVE StringsReadBack'
    BY <2>3, <2>5 DEF EncodeInt
  <2>6. ASSUME NEW s \in Raw, DecodeChar(s) PROVE StringsReadBack'
    BY <2>3, <2>6 DEF DecodeChar
  <2>7. ASSUME NEW s \in Literals, RebuildArgs(s) PROVE StringsReadBack'
    BY <2>3, <2>7 DEF RebuildArgs
  <2>8. ASSUME Return PROVE StringsReadBack'
    BY <2>3, <2>8 DEF Return, Idle
  <2>9. ASSUME UNCHANGED call PROVE StringsReadBack'
    BY <1>2, <2>9, SMT DEF StringsReadBack
  <2> QED BY <1>2, <2>1, <2>2, <2>4, <2>5, <2>6, <2>7, <2>8, <2>9, Zenon DEF Next, Call
<1> QED BY <1>1, <1>2, PTL DEF Spec

-----------------------------------------------------------------------------
(* Characters.                                                             *)

\* The first one to four elements of a sequence.
LEMMA Prefixes ==
    ASSUME NEW s \in Seq(Byte)
    PROVE  /\ Len(s) >= 1 => SubSeq(s, 1, 1) = <<s[1]>>
           /\ Len(s) >= 2 => SubSeq(s, 1, 2) = <<s[1], s[2]>>
           /\ Len(s) >= 3 => SubSeq(s, 1, 3) = <<s[1], s[2], s[3]>>
           /\ Len(s) >= 4 => SubSeq(s, 1, 4) = <<s[1], s[2], s[3], s[4]>>
<1>1. ASSUME NEW k \in 1 .. 4, Len(s) >= k
      PROVE  /\ SubSeq(s, 1, k) \in Seq(Byte) /\ Len(SubSeq(s, 1, k)) = k
             /\ \A i \in 1 .. k : SubSeq(s, 1, k)[i] = s[i] /\ s[i] \in Byte
  <2>1. \A i \in 1 .. k : s[i] \in Byte
    BY <1>1
  <2>2. 1 \in Int /\ k \in Int /\ 1 <= k
    OBVIOUS
  <2>3. /\ SubSeq(s, 1, k) \in Seq(Byte)
        /\ Len(SubSeq(s, 1, k)) = IF 1 <= k THEN k - 1 + 1 ELSE 0
        /\ \A i \in 1 .. k - 1 + 1 : SubSeq(s, 1, k)[i] = s[1 + i - 1]
    BY <2>1, <2>2, SubSeqProperties
  <2> QED BY <2>1, <2>2, <2>3
<1>2. ASSUME Len(s) >= 1 PROVE SubSeq(s, 1, 1) = <<s[1]>>
  <2>1. /\ SubSeq(s, 1, 1) \in Seq(Byte) /\ Len(SubSeq(s, 1, 1)) = 1
        /\ \A i \in 1 .. 1 : SubSeq(s, 1, 1)[i] = s[i] /\ s[i] \in Byte
    BY <1>1, <1>2
  <2>2. <<s[1]>> \in Seq(Byte) /\ Len(<<s[1]>>) = 1 /\ \A i \in 1 .. 1 : <<s[1]>>[i] = s[i]
    BY <2>1
  <2> QED BY <2>1, <2>2, SeqEqual
<1>3. ASSUME Len(s) >= 2 PROVE SubSeq(s, 1, 2) = <<s[1], s[2]>>
  <2> DEFINE t == <<s[1], s[2]>>
  <2>1. /\ SubSeq(s, 1, 2) \in Seq(Byte) /\ Len(SubSeq(s, 1, 2)) = 2
        /\ \A i \in 1 .. 2 : SubSeq(s, 1, 2)[i] = s[i] /\ s[i] \in Byte
    BY <1>1, <1>3
  <2>2. t \in Seq(Byte) /\ Len(t) = 2 /\ t[1] = s[1] /\ t[2] = s[2]
    BY <2>1
  <2> HIDE DEF t
  <2>3. \A i \in 1 .. 2 : SubSeq(s, 1, 2)[i] = t[i]
    BY <2>1, <2>2
  <2> QED BY <2>1, <2>2, <2>3, SeqEqual DEF t
<1>4. ASSUME Len(s) >= 3 PROVE SubSeq(s, 1, 3) = <<s[1], s[2], s[3]>>
  <2> DEFINE t == <<s[1], s[2], s[3]>>
  <2>1. /\ SubSeq(s, 1, 3) \in Seq(Byte) /\ Len(SubSeq(s, 1, 3)) = 3
        /\ \A i \in 1 .. 3 : SubSeq(s, 1, 3)[i] = s[i] /\ s[i] \in Byte
    BY <1>1, <1>4
  <2>2. t \in Seq(Byte) /\ Len(t) = 3 /\ t[1] = s[1] /\ t[2] = s[2] /\ t[3] = s[3]
    BY <2>1
  <2> HIDE DEF t
  <2>3. \A i \in 1 .. 3 : SubSeq(s, 1, 3)[i] = t[i]
    BY <2>1, <2>2
  <2> QED BY <2>1, <2>2, <2>3, SeqEqual DEF t
<1>5. ASSUME Len(s) >= 4 PROVE SubSeq(s, 1, 4) = <<s[1], s[2], s[3], s[4]>>
  <2> DEFINE t == <<s[1], s[2], s[3], s[4]>>
  <2>1. /\ SubSeq(s, 1, 4) \in Seq(Byte) /\ Len(SubSeq(s, 1, 4)) = 4
        /\ \A i \in 1 .. 4 : SubSeq(s, 1, 4)[i] = s[i] /\ s[i] \in Byte
    BY <1>1, <1>5
  <2>2. t \in Seq(Byte) /\ Len(t) = 4 /\ t[1] = s[1] /\ t[2] = s[2] /\ t[3] = s[3] /\ t[4] = s[4]
    BY <2>1
  <2> HIDE DEF t
  <2>3. \A i \in 1 .. 4 : SubSeq(s, 1, 4)[i] = t[i]
    BY <2>1, <2>2
  <2> QED BY <2>1, <2>2, <2>3, SeqEqual DEF t
<1> QED BY <1>2, <1>3, <1>4, <1>5

\* A byte is an integer between its bounds.
LEMMA ByteBounds == \A c \in Byte : c \in Int /\ 0 <= c /\ c <= 255
BY SMT DEF Byte

\* The bytes that follow.
LEMMA ContBytes ==
    ASSUME NEW s \in Seq(Byte), NEW n \in 1 .. 3, cont(s, 1, n)
    PROVE  \A k \in 1 .. n : 1 + k <= Len(s) /\ s[1 + k] \in Int /\ 128 <= s[1 + k] /\ s[1 + k] <= 191
<1>1. \A k \in 1 .. n : 1 + k <= Len(s) /\ s[1 + k] \in 128 .. 191
  BY DEF cont
<1>2. \A x \in 128 .. 191 : x \in Int /\ 128 <= x /\ x <= 191
  BY SMT
<1> QED BY <1>1, <1>2

\* The first byte says how many bytes follow.
LEMMA FirstByte ==
    ASSUME NEW c \in Byte
    PROVE  /\ c < 128 => Announced(c) = 0 /\ Width(c) = 1
           /\ 192 <= c /\ c < 224 => Announced(c) = 1 /\ Width(c) = 2
           /\ 224 <= c /\ c < 240 => Announced(c) = 2 /\ Width(c) = 3
           /\ 240 <= c /\ c < 248 => Announced(c) = 3 /\ Width(c) = 4
           /\ (128 <= c /\ c < 192) \/ 248 <= c => Announced(c) = 4
<1>1. c \in Int
  BY SMT DEF Byte
<1>2. ASSUME c < 128 PROVE Announced(c) = 0 /\ Width(c) = 1
  BY <1>1, <1>2, SMT DEF Announced, Width
<1>3. ASSUME 192 <= c, c < 224 PROVE Announced(c) = 1 /\ Width(c) = 2
  BY <1>1, <1>3, SMT DEF Announced, Width
<1>4. ASSUME 224 <= c, c < 240 PROVE Announced(c) = 2 /\ Width(c) = 3
  BY <1>1, <1>4, SMT DEF Announced, Width
<1>5. ASSUME 240 <= c, c < 248 PROVE Announced(c) = 3 /\ Width(c) = 4
  BY <1>1, <1>5, SMT DEF Announced, Width
<1>6. ASSUME (128 <= c /\ c < 192) \/ 248 <= c PROVE Announced(c) = 4
  BY <1>1, <1>6, SMT DEF Announced
<1> QED BY <1>2, <1>3, <1>4, <1>5, <1>6

\* From the announced length back to the range of the first byte.
LEMMA Announces ==
    ASSUME NEW c \in Byte
    PROVE  /\ Announced(c) = 0 => c < 128
           /\ Announced(c) = 1 => 192 <= c /\ c < 224
           /\ Announced(c) = 2 => 224 <= c /\ c < 240
           /\ Announced(c) = 3 => 240 <= c /\ c < 248
<1>1. c \in Int
  BY ByteBounds
<1>2. \/ c < 128 \/ (192 <= c /\ c < 224) \/ (224 <= c /\ c < 240) \/ (240 <= c /\ c < 248)
      \/ (128 <= c /\ c < 192) \/ 248 <= c
  BY <1>1, SMT
<1> DEFINE n == Announced(c)
<1>3. /\ c < 128 => n = 0
      /\ 192 <= c /\ c < 224 => n = 1
      /\ 224 <= c /\ c < 240 => n = 2
      /\ 240 <= c /\ c < 248 => n = 3
      /\ (128 <= c /\ c < 192) \/ 248 <= c => n = 4
  BY FirstByte
<1> HIDE DEF n
<1>4. /\ n = 0 => c < 128
      /\ n = 1 => 192 <= c /\ c < 224
      /\ n = 2 => 224 <= c /\ c < 240
      /\ n = 3 => 240 <= c /\ c < 248
  BY <1>1, <1>2, <1>3, SMT
<1> QED BY <1>4 DEF n

\* What the decoder takes is legal.
LEMMA Taken ==
    ASSUME NEW s \in Seq(Byte), s # << >>, utf8_decode_next(s, 1).char >= 0
    PROVE  LET n == Announced(s[1])
               r == Payload(s, 1, n)
           IN  /\ n \in 0 .. 3 /\ cont(s, 1, n) /\ Legal(n, r)
               /\ utf8_decode_next(s, 1) = [char |-> r, next |-> n + 2]
<1> DEFINE n == Announced(s[1])
           r == Payload(s, 1, n)
           d == utf8_decode_next(s, 1)
<1>1. Len(s) >= 1 /\ s[1] \in Byte
  OBVIOUS
<1>2. n \in 0 .. 4
  <2>1. s[1] \in Int /\ 0 <= s[1] /\ s[1] <= 255
    BY <1>1, ByteBounds
  <2> QED BY <1>1, <2>1, FirstByte
<1>3. d = IF n < 4 /\ cont(s, 1, n) /\ Legal(n, r) THEN [char |-> r, next |-> 1 + n + 1]
          ELSE [char |-> UTF8_ERROR, next |-> 1 + 1]
  BY <1>1, SMT DEF utf8_decode_next
<1> HIDE DEF n, r, d
<1>4. n < 4 /\ cont(s, 1, n) /\ Legal(n, r)
  <2> SUFFICES ASSUME ~(n < 4 /\ cont(s, 1, n) /\ Legal(n, r)) PROVE FALSE
    OBVIOUS
  <2>1. d.char = -2
    BY <1>3 DEF UTF8_ERROR
  <2>2. d.char >= 0
    BY DEF d
  <2> QED BY <2>1, <2>2
<1>5. 1 + n + 1 = n + 2 /\ n \in 0 .. 3
  BY <1>2, <1>4
<1>6. d = [char |-> r, next |-> n + 2]
  BY <1>3, <1>4, <1>5
<1> QED BY <1>4, <1>5, <1>6 DEF n, r, d

\* The encoder returns the bytes the decoder took, and the character is none
\* of the surrogates.
LEMMA Strict ==
    ASSUME NEW s \in Seq(Byte), s # << >>, utf8_decode_next(s, 1).char >= 0
    PROVE  LET d == utf8_decode_next(s, 1)
           IN  /\ Scalar(d.char) /\ utf8_encode(d.char) = SubSeq(s, 1, d.next - 1)
               /\ Width(s[1]) = d.next - 1
<1> DEFINE n == Announced(s[1])
           r == Payload(s, 1, n)
           d == utf8_decode_next(s, 1)
           Goal == Scalar(r) /\ utf8_encode(r) = SubSeq(s, 1, n + 1) /\ Width(s[1]) = n + 1
<1>1. n \in 0 .. 3 /\ cont(s, 1, n) /\ Legal(n, r) /\ d.char = r /\ d.next = n + 2
  BY Taken
<1>2. s[1] \in Byte /\ s[1] \in Int /\ 0 <= s[1] /\ s[1] <= 255 /\ Len(s) \in Nat /\ Len(s) >= 1
  <2>1. s[1] \in Byte /\ Len(s) \in Nat /\ Len(s) >= 1
    OBVIOUS
  <2> QED BY <2>1, ByteBounds
<1> DEFINE b == s[1]
<1>3. b \in Byte /\ b \in Int /\ 0 <= b /\ b <= 255 /\ n = Announced(b) /\ r = Payload(s, 1, n)
  BY <1>2
<1>4. \A k \in 1 .. 4 : n + 1 = k => (Goal <=> Scalar(r) /\ utf8_encode(r) = SubSeq(s, 1, k) /\ Width(b) = k)
  OBVIOUS
<1> HIDE DEF n, r, d, b, Goal
<1>5. ASSUME n = 0 PROVE Goal
  <2>1. b < 128
    <3>1. Announced(b) = 0
      BY <1>5 DEF n, b
    <3>2. b \in Byte
      BY <1>3
    <3> QED BY <3>1, <3>2, Announces
  <2>2. r = b
    BY <1>5, <1>3, SMT DEF Payload, b
  <2>3. Scalar(r) /\ utf8_encode(r) = <<b>>
    BY <1>3, <2>1, <2>2, SMTT(40) DEF Scalar, utf8_encode
  <2>4. SubSeq(s, 1, 1) = <<b>> /\ Width(b) = 1
    BY <1>2, <1>3, <2>1, Prefixes, FirstByte, SMT DEF b
  <2>11. n + 1 = 1 /\ 1 \in 1 .. 4
    BY <1>5
  <2>12. Goal <=> Scalar(r) /\ utf8_encode(r) = SubSeq(s, 1, 1) /\ Width(b) = 1
    BY <1>4, <2>11
  <2> QED BY <2>3, <2>4, <2>12, Zenon
<1>6. ASSUME n = 1 PROVE Goal
  <2> DEFINE c == s[2]
  <2>1. 192 <= b /\ b < 224
    <3>1. Announced(b) = 1
      BY <1>6 DEF n, b
    <3>2. b \in Byte
      BY <1>3
    <3> QED BY <3>1, <3>2, Announces
  <2>2. Len(s) >= 2 /\ c \in Int /\ 128 <= c /\ c <= 191
    BY <1>1, <1>6, ContBytes, SMT
  <2>3. r = (b % 32) * 64 + (c % 64) /\ r >= 128
    BY <1>1, <1>3, <1>6, SMT DEF Payload, Legal, b
  <2>4. SubSeq(s, 1, 2) = <<b, c>> /\ Width(b) = 2
    BY <1>2, <1>3, <2>1, <2>2, Prefixes, FirstByte, SMT DEF b
  <2> HIDE DEF c
  <2>5. /\ r \in Nat /\ 128 <= r /\ r < 2048
        /\ r \div 64 = b - 192 /\ r % 64 = c - 128 /\ b \in Int
    BY <1>3, <2>1, <2>2, <2>3, SMT
  <2>6. Scalar(r)
    BY <2>5, SMT DEF Scalar
  <2>7. utf8_encode(r) = <<192 + r \div 64, 128 + (r % 64)>>
    BY <2>5, SMT DEF utf8_encode, Continuation
  <2>8. 192 + r \div 64 = b /\ 128 + (r % 64) = c
    BY <2>2, <2>5, SMT
  <2>9. utf8_encode(r) = <<b, c>>
    BY <2>7, <2>8, SMT
  <2>11. n + 1 = 2 /\ 2 \in 1 .. 4
    BY <1>6
  <2>12. Goal <=> Scalar(r) /\ utf8_encode(r) = SubSeq(s, 1, 2) /\ Width(b) = 2
    BY <1>4, <2>11
  <2> QED BY <2>4, <2>6, <2>9, <2>12, Zenon
<1>7. ASSUME n = 2 PROVE Goal
  <2> DEFINE c == s[2]
             e == s[3]
  <2>1. 224 <= b /\ b < 240
    <3>1. Announced(b) = 2
      BY <1>7 DEF n, b
    <3>2. b \in Byte
      BY <1>3
    <3> QED BY <3>1, <3>2, Announces
  <2>2. Len(s) >= 3 /\ c \in Int /\ 128 <= c /\ c <= 191 /\ e \in Int /\ 128 <= e /\ e <= 191
    BY <1>1, <1>7, ContBytes, SMT
  <2>3. /\ r = (b % 16) * 4096 + (c % 64) * 64 + (e % 64)
        /\ r >= 2048 /\ (r < 55296 \/ r > 57343)
    BY <1>1, <1>3, <1>7, SMT DEF Payload, Legal, b
  <2>4. SubSeq(s, 1, 3) = <<b, c, e>> /\ Width(b) = 3
    BY <1>2, <1>3, <2>1, <2>2, Prefixes, FirstByte, SMT DEF b
  <2> HIDE DEF c, e
  <2>5. b % 16 = b - 224 /\ c % 64 = c - 128 /\ e % 64 = e - 128 /\ b \in Int
    BY <1>3, <2>1, <2>2, SMT
  <2>6. /\ r \in Nat /\ 2048 <= r /\ r < 65536
        /\ r \div 4096 = b - 224 /\ (r \div 64) % 64 = c - 128 /\ r % 64 = e - 128
    BY <2>1, <2>2, <2>3, <2>5, SMT
  <2>7. Scalar(r)
    BY <2>3, <2>6, SMT DEF Scalar
  <2>8. utf8_encode(r) = <<224 + r \div 4096, 128 + ((r \div 64) % 64), 128 + (r % 64)>>
    BY <2>6, SMT DEF utf8_encode, Continuation
  <2>9. 224 + r \div 4096 = b /\ 128 + ((r \div 64) % 64) = c /\ 128 + (r % 64) = e
    BY <2>2, <2>5, <2>6, SMT
  <2>10. utf8_encode(r) = <<b, c, e>>
    BY <2>8, <2>9, SMT
  <2>11. n + 1 = 3 /\ 3 \in 1 .. 4
    BY <1>7
  <2>12. Goal <=> Scalar(r) /\ utf8_encode(r) = SubSeq(s, 1, 3) /\ Width(b) = 3
    BY <1>4, <2>11
  <2> QED BY <2>4, <2>7, <2>10, <2>12, Zenon
<1>8. ASSUME n = 3 PROVE Goal
  <2> DEFINE c == s[2]
             e == s[3]
             g == s[4]
  <2>1. 240 <= b /\ b < 248
    <3>1. Announced(b) = 3
      BY <1>8 DEF n, b
    <3>2. b \in Byte
      BY <1>3
    <3> QED BY <3>1, <3>2, Announces
  <2>2. /\ Len(s) >= 4 /\ c \in Int /\ 128 <= c /\ c <= 191 /\ e \in Int /\ 128 <= e /\ e <= 191
        /\ g \in Int /\ 128 <= g /\ g <= 191
    BY <1>1, <1>8, ContBytes, SMT
  <2>3. /\ r = (b % 8) * 262144 + (c % 64) * 4096 + (e % 64) * 64 + (g % 64)
        /\ r >= 65536 /\ r <= 1114111
    BY <1>1, <1>3, <1>8, SMT DEF Payload, Legal, b
  <2>4. SubSeq(s, 1, 4) = <<b, c, e, g>> /\ Width(b) = 4
    BY <1>2, <1>3, <2>1, <2>2, Prefixes, FirstByte, SMT DEF b
  <2> HIDE DEF c, e, g
  <2>5. b % 8 = b - 240 /\ c % 64 = c - 128 /\ e % 64 = e - 128 /\ g % 64 = g - 128 /\ b \in Int
    BY <1>3, <2>1, <2>2, SMT
  <2>6. /\ r \in Nat /\ r \div 262144 = b - 240 /\ (r \div 4096) % 64 = c - 128
        /\ (r \div 64) % 64 = e - 128 /\ r % 64 = g - 128
    BY <2>1, <2>2, <2>3, <2>5, SMT
  <2>7. Scalar(r)
    BY <2>3, <2>6, SMT DEF Scalar
  <2>8. utf8_encode(r) = <<240 + r \div 262144, 128 + ((r \div 4096) % 64),
                           128 + ((r \div 64) % 64), 128 + (r % 64)>>
    <3>1. r \in Int /\ ~(r < 128) /\ ~(r < 2048) /\ ~(r < 65536)
      BY <2>3, <2>6, SMT
    <3> QED BY <3>1, SMT DEF utf8_encode, Continuation
  <2>9. /\ 240 + r \div 262144 = b /\ 128 + ((r \div 4096) % 64) = c
        /\ 128 + ((r \div 64) % 64) = e /\ 128 + (r % 64) = g
    BY <2>2, <2>5, <2>6, SMT
  <2>10. utf8_encode(r) = <<b, c, e, g>>
    BY <2>8, <2>9, SMT
  <2>11. n + 1 = 4 /\ 4 \in 1 .. 4
    BY <1>8
  <2>12. Goal <=> Scalar(r) /\ utf8_encode(r) = SubSeq(s, 1, 4) /\ Width(b) = 4
    BY <1>4, <2>11
  <2> QED BY <2>4, <2>7, <2>10, <2>12, Zenon
<1>9. d.next - 1 = n + 1
  BY <1>1, SMT
<1>10. Goal
  BY <1>1, <1>5, <1>6, <1>7, <1>8, SMT
<1> QED BY <1>1, <1>9, <1>10, Zenon DEF Goal, b, d

\* The decoder accepts no alias, no surrogate and nothing above the last
\* character (utf8_decode.c:125-184), whatever bytes it is given.
THEOREM DecodesStrictly == Spec => []DecoderStrict
<1>1. Init => DecoderStrict
  BY SMT DEF Init, Idle, DecoderStrict
<1>2. ASSUME DecoderStrict, [Next]_call PROVE DecoderStrict'
  <2>1. ASSUME NEW s \in Raw, DecodeChar(s) PROVE DecoderStrict'
    <3>1. s \in Seq(Byte) /\ s # << >>
      BY ConversionsAssumption
    <3>2. call'.arg = s /\ call'.ret = utf8_decode_next(s, 1)
      BY <2>1 DEF DecodeChar
    <3>3. ASSUME call'.ret.char >= 0
          PROVE  /\ Scalar(call'.ret.char)
                 /\ utf8_encode(call'.ret.char) = SubSeq(call'.arg, 1, call'.ret.next - 1)
                 /\ Width(call'.arg[1]) = call'.ret.next - 1
      BY <3>1, <3>2, <3>3, Strict
    <3> QED BY <3>3 DEF DecoderStrict
  <2>2. ASSUME call'.op \in {"append", "appendLE", "prepend", "prependLE", "int", "string",
                             "response", "args", "none"}
        PROVE  DecoderStrict'
    BY <2>2 DEF DecoderStrict
  <2>3. ASSUME NEW w \in {1, 2, 4, 8}, NEW s \in Before, NEW x \in Values(w),
               AppendInt(w, x, s) \/ PrependInt(w, x, s)
        PROVE  DecoderStrict'
    BY <2>2, <2>3 DEF AppendInt, PrependInt
  <2>4. ASSUME NEW x \in Ints, EncodeInt(x) PROVE DecoderStrict'
    BY <2>2, <2>4 DEF EncodeInt
  <2>5. ASSUME NEW t \in Texts, EncodeString(t) \/ DecodeString(t) PROVE DecoderStrict'
    BY <2>2, <2>5 DEF EncodeString, DecodeString
  <2>6. ASSUME NEW s \in Literals, RebuildArgs(s) PROVE DecoderStrict'
    BY <2>2, <2>6 DEF RebuildArgs
  <2>7. ASSUME Return PROVE DecoderStrict'
    BY <2>2, <2>7 DEF Return, Idle
  <2>8. ASSUME UNCHANGED call PROVE DecoderStrict'
    BY <1>2, <2>8 DEF DecoderStrict
  <2> QED BY <1>2, <2>1, <2>3, <2>4, <2>5, <2>6, <2>7, <2>8, Zenon DEF Next, Call
<1> QED BY <1>1, <1>2, PTL DEF Spec

\* Every character survives the encoder inside cJSON (cJSON.c:593-642) and the
\* decoder that utf82ascii reads its result with.
THEOREM CharactersRoundTrip ==
    ASSUME NEW c, Scalar(c)
    PROVE  utf8_decode_next(utf8_encode(c), 1) = [char |-> c, next |-> utf8_length(c) + 1]
<1> DEFINE s == utf8_encode(c)
<1>1. c \in Nat /\ (c < 55296 \/ c > 57343) /\ c <= 1114111
  BY SMT DEF Scalar
<1>2. \A n, r : Len(s) >= 1 /\ n = Announced(s[1]) /\ r = Payload(s, 1, n) /\ n < 4 /\ cont(s, 1, n) /\ Legal(n, r)
                => utf8_decode_next(s, 1) = [char |-> r, next |-> 1 + n + 1]
  <2> HIDE DEF s
  <2> QED BY SMT DEF utf8_decode_next
<1>3. ASSUME c < 128 PROVE utf8_decode_next(s, 1) = [char |-> c, next |-> 2] /\ utf8_length(c) = 1
  <2>1. s = <<c>>
    BY <1>3, SMT DEF utf8_encode
  <2>2. Len(s) = 1 /\ s[1] = c
    BY <2>1, SMT
  <2> HIDE DEF s
  <2>3. Announced(s[1]) = 0
    BY <1>1, <1>3, <2>2, SMT DEF Announced
  <2>4. Payload(s, 1, 0) = c /\ cont(s, 1, 0) /\ Legal(0, c)
    BY <2>2, SMT DEF Payload, cont, Legal
  <2>5. utf8_decode_next(s, 1) = [char |-> c, next |-> 1 + 0 + 1]
    BY <1>2, <2>2, <2>3, <2>4, SMT
  <2>6. utf8_length(c) = 1
    BY <1>3, SMT DEF utf8_length
  <2> QED BY <2>5, <2>6, SMT
<1>4. ASSUME ~(c < 128), c < 2048
      PROVE  utf8_decode_next(s, 1) = [char |-> c, next |-> 3] /\ utf8_length(c) = 2
  <2> DEFINE a == c \div 64
             z == c % 64
  <2>1. a \in Int /\ 2 <= a /\ a <= 31 /\ z \in Int /\ 0 <= z /\ z <= 63 /\ c = 64 * a + z
    BY <1>1, <1>4, SMT
  <2>2. s = <<192 + a, 128 + z>>
    BY <1>4, SMT DEF utf8_encode, Continuation
  <2> HIDE DEF a, z
  <2>3. Len(s) = 2 /\ s[1] = 192 + a /\ s[2] = 128 + z
    BY <2>2, SMT
  <2> HIDE DEF s
  <2>4. Announced(s[1]) = 1
    BY <2>1, <2>3, SMT DEF Announced
  <2>5. (s[1] % 32) * 64 + (s[2] % 64) = c
    BY <2>1, <2>3, SMT
  <2>6. Payload(s, 1, 1) = c
    BY <2>5, SMT DEF Payload
  <2>7. cont(s, 1, 1)
    BY <2>1, <2>3, SMT DEF cont
  <2>8. Legal(1, c)
    BY <1>1, <1>4, SMT DEF Legal
  <2>9. utf8_decode_next(s, 1) = [char |-> c, next |-> 1 + 1 + 1]
    BY <1>2, <2>3, <2>4, <2>6, <2>7, <2>8, SMT
  <2>10. utf8_length(c) = 2
    BY <1>4, SMT DEF utf8_length
  <2> QED BY <2>9, <2>10, SMT
<1>5. ASSUME ~(c < 128), ~(c < 2048), c < 65536
      PROVE  utf8_decode_next(s, 1) = [char |-> c, next |-> 4] /\ utf8_length(c) = 3
  <2> DEFINE a == c \div 4096
             y == (c \div 64) % 64
             z == c % 64
  <2>1. /\ a \in Int /\ 0 <= a /\ a <= 15 /\ y \in Int /\ 0 <= y /\ y <= 63
        /\ z \in Int /\ 0 <= z /\ z <= 63 /\ c = 4096 * a + 64 * y + z
    BY <1>1, <1>5, SMT
  <2>2. s = <<224 + a, 128 + y, 128 + z>>
    BY <1>5, SMT DEF utf8_encode, Continuation
  <2> HIDE DEF a, y, z
  <2>3. Len(s) = 3 /\ s[1] = 224 + a /\ s[2] = 128 + y /\ s[3] = 128 + z
    BY <2>2, SMT
  <2> HIDE DEF s
  <2>4. Announced(s[1]) = 2
    BY <2>1, <2>3, SMT DEF Announced
  <2>5. (s[1] % 16) * 4096 + (s[2] % 64) * 64 + (s[3] % 64) = c
    <3>1. s[1] % 16 = a /\ s[2] % 64 = y /\ s[3] % 64 = z
      BY <2>1, <2>3, SMT
    <3> QED BY <2>1, <3>1, SMT
  <2>6. Payload(s, 1, 2) = c
    BY <2>5, SMT DEF Payload
  <2>7. cont(s, 1, 2)
    BY <2>1, <2>3, SMT DEF cont
  <2>8. Legal(2, c)
    BY <1>1, <1>5, SMT DEF Legal
  <2>9. utf8_decode_next(s, 1) = [char |-> c, next |-> 1 + 2 + 1]
    BY <1>2, <2>3, <2>4, <2>6, <2>7, <2>8, SMT
  <2>10. utf8_length(c) = 3
    BY <1>5, SMT DEF utf8_length
  <2> QED BY <2>9, <2>10, SMT
<1>6. ASSUME ~(c < 128), ~(c < 2048), ~(c < 65536)
      PROVE  utf8_decode_next(s, 1) = [char |-> c, next |-> 5] /\ utf8_length(c) = 4
  <2> DEFINE a == c \div 262144
             x == (c \div 4096) % 64
             y == (c \div 64) % 64
             z == c % 64
  <2>1. /\ a \in Int /\ 0 <= a /\ a <= 4 /\ x \in Int /\ 0 <= x /\ x <= 63
        /\ y \in Int /\ 0 <= y /\ y <= 63 /\ z \in Int /\ 0 <= z /\ z <= 63
        /\ c = 262144 * a + 4096 * x + 64 * y + z
    BY <1>1, <1>6, SMT
  <2>2. s = <<240 + a, 128 + x, 128 + y, 128 + z>>
    BY <1>6, SMT DEF utf8_encode, Continuation
  <2> HIDE DEF a, x, y, z
  <2>3. Len(s) = 4 /\ s[1] = 240 + a /\ s[2] = 128 + x /\ s[3] = 128 + y /\ s[4] = 128 + z
    BY <2>2, SMT
  <2> HIDE DEF s
  <2>4. Announced(s[1]) = 3
    BY <2>1, <2>3, SMT DEF Announced
  <2>5. (s[1] % 8) * 262144 + (s[2] % 64) * 4096 + (s[3] % 64) * 64 + (s[4] % 64) = c
    <3>1. s[1] % 8 = a /\ s[2] % 64 = x /\ s[3] % 64 = y /\ s[4] % 64 = z
      BY <2>1, <2>3, SMT
    <3> QED BY <2>1, <3>1, SMT
  <2>6. Payload(s, 1, 3) = c
    BY <2>5, SMT DEF Payload
  <2>7. cont(s, 1, 3)
    BY <2>1, <2>3, SMT DEF cont
  <2>8. Legal(3, c)
    BY <1>1, <1>6, SMT DEF Legal
  <2>9. utf8_decode_next(s, 1) = [char |-> c, next |-> 1 + 3 + 1]
    BY <1>2, <2>3, <2>4, <2>6, <2>7, <2>8, SMT
  <2>10. utf8_length(c) = 4
    BY <1>6, SMT DEF utf8_length
  <2> QED BY <2>9, <2>10, SMT
<1> QED BY <1>3, <1>4, <1>5, <1>6, SMT
=============================================================================
