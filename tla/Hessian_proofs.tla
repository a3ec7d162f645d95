------------------------------ MODULE Hessian_proofs ----------------------------
(***************************************************************************)
(* What the string operators of Hessian return, for strings of any length; *)
(* the proofs about the conversions and about whole packets rest on it.    *)
(***************************************************************************)
EXTENDS Hessian, SequenceTheorems, WellFoundedInduction, TLAPS

\* A set of naturals that is not empty has a least element.
LEMMA Least ==
    ASSUME NEW T, T \subseteq Nat, T # {}
    PROVE  \E m \in T : \A n \in T : m <= n
<1>1. IsWellFoundedOn(OpToRel(<, Nat), Nat)
  BY NatLessThanWellFounded
<1>2. PICK m \in T : \A n \in T : ~(<<n, m>> \in OpToRel(<, Nat))
  BY <1>1, WFMin
<1>3. \A n \in T : ~(n < m)
  BY <1>2 DEF OpToRel
<1> QED BY <1>3

\* A text: the byte its wide characters start with announces how
\* many bytes each of them has, and utf8cpy believes the same number.
LEMMA TextFacts ==
    ASSUME NEW t \in AnyText
    PROVE  /\ t.ascii \in Nat /\ t.wide \in Nat
           /\ Announced(t.lead) \in 1 .. 3 /\ Width(t.lead) = 1 + Announced(t.lead)
           /\ Width(t.lead) # Failed
<1>1. t \in [ascii : Nat, wide : Nat, lead : 192 .. 247] /\ Failed \notin Int
  BY HessianAssumption DEF AnyText
<1>2. t.ascii \in Nat /\ t.wide \in Nat /\ t.lead \in 192 .. 247
  BY <1>1
<1> DEFINE c == t.lead
<1>3. c \in Int /\ 192 <= c /\ c <= 247
  BY <1>2
<1> HIDE DEF c
<1>4. ASSUME c <= 223 PROVE Announced(c) = 1 /\ Width(c) = 2
  BY <1>3, <1>4, SMT DEF Announced, Width
<1>5. ASSUME 223 < c, c <= 239 PROVE Announced(c) = 2 /\ Width(c) = 3
  BY <1>3, <1>5, SMT DEF Announced, Width
<1>6. ASSUME 239 < c PROVE Announced(c) = 3 /\ Width(c) = 4
  BY <1>3, <1>6, SMT DEF Announced, Width
<1>7. Announced(c) \in 1 .. 3 /\ Width(c) = 1 + Announced(c) /\ Width(c) \in Int
  BY <1>3, <1>4, <1>5, <1>6, SMT
<1>8. Width(c) # Failed
  BY <1>1, <1>7
<1> QED BY <1>2, <1>7, <1>8 DEF c

\* The head that is written for a length announces that length, in a form
\* that the decoder knows and that is no non-final chunk.
LEMMA HeadLength ==
    ASSUME NEW n \in Nat, n <= 65535
    PROVE  /\ StringHead(n) \in Seq(Byte) /\ Len(StringHead(n)) \in Nat
           /\ Length(StringHead(n)) = n
           /\ StringHead(n)[1] \in (0 .. 31) \cup (48 .. 51) \cup {82, 83}
           /\ StringHead(n)[1] # 82
<1> DEFINE q == n \div 256
           l == n % 256
<1>1. q \in Nat /\ q <= 255 /\ l \in Nat /\ l <= 255 /\ n = 256 * q + l /\ q % 256 = q
  BY SMT
<1>2. ASSUME n <= 31 PROVE StringHead(n) = <<n>>
  BY <1>2, SMT DEF StringHead
<1>3. ASSUME 31 < n, n <= 1023 PROVE StringHead(n) = <<48 + q, l>> /\ q <= 3
  BY <1>3, SMT DEF StringHead
<1>4. ASSUME 1023 < n PROVE StringHead(n) = <<83, q % 256, l>>
  BY <1>4, SMT DEF StringHead
<1> HIDE DEF q, l
<1>5. ASSUME n <= 31
      PROVE  /\ <<n>> \in Seq(Byte) /\ Len(<<n>>) \in Nat /\ Length(<<n>>) = n
             /\ <<n>>[1] \in 0 .. 31 /\ <<n>>[1] # 82
  BY <1>5, SMT DEF Length, Byte
<1>6. ASSUME 31 < n, n <= 1023
      PROVE  /\ <<48 + q, l>> \in Seq(Byte) /\ Len(<<48 + q, l>>) \in Nat
             /\ Length(<<48 + q, l>>) = n
             /\ <<48 + q, l>>[1] \in 48 .. 51 /\ <<48 + q, l>>[1] # 82
  <2>1. q <= 3
    BY <1>3, <1>6, SMT
  <2> DEFINE k == 48 + q
             s == <<k, l>>
  <2>2. /\ k \in Byte /\ l \in Byte /\ k \in Int /\ l \in Int /\ k \in 48 .. 51 /\ k # 82
        /\ ~(k <= 31) /\ (k - 48) * 256 + l = n
    BY <1>1, <2>1, SMT DEF Byte
  <2> HIDE DEF k
  <2>3. s \in Seq(Byte) /\ Len(s) \in Nat /\ s[1] = k /\ s[2] = l
    BY <2>2
  <2> HIDE DEF s
  <2>4. Length(s) = (k - 48) * 256 + l
    BY <2>2, <2>3, SMT DEF Length
  <2>5. Length(s) = n
    BY <2>2, <2>4
  <2>6. s[1] \in 48 .. 51 /\ s[1] # 82
    BY <2>2, <2>3
  <2> QED BY <2>3, <2>5, <2>6 DEF s, k
<1>7. ASSUME 1023 < n
      PROVE  /\ <<83, q, l>> \in Seq(Byte) /\ Len(<<83, q, l>>) \in Nat
             /\ Length(<<83, q, l>>) = n /\ <<83, q, l>>[1] = 83
  <2> DEFINE s == <<83, q, l>>
  <2>1. 83 \in Byte /\ q \in Byte /\ l \in Byte
    BY <1>1, SMT DEF Byte
  <2>2. s \in Seq(Byte) /\ Len(s) \in Nat /\ s[1] = 83 /\ s[2] = q /\ s[3] = l
    BY <2>1
  <2> HIDE DEF s
  <2>3. Length(s) = s[2] * 256 + s[3]
    BY <2>2, SMT DEF Length
  <2> QED BY <1>1, <2>2, <2>3, SMT DEF s
<1> DEFINE Known(s) == /\ s \in Seq(Byte) /\ Len(s) \in Nat /\ Length(s) = n
                       /\ s[1] \in (0 .. 31) \cup (48 .. 51) \cup {82, 83} /\ s[1] # 82
<1>8. ASSUME n <= 31 PROVE Known(StringHead(n))
  <2> DEFINE s == <<n>>
  <2>1. StringHead(n) = s
    BY <1>2, <1>8
  <2>2. s \in Seq(Byte) /\ Len(s) \in Nat /\ Length(s) = n /\ s[1] # 82 /\ s[1] \in 0 .. 31
    BY <1>5, <1>8
  <2> HIDE DEF s
  <2>3. s[1] \in (0 .. 31) \cup (48 .. 51) \cup {82, 83}
    BY <2>2
  <2> QED BY <2>1, <2>2, <2>3
<1>9. ASSUME 31 < n, n <= 1023 PROVE Known(StringHead(n))
  <2> DEFINE s == <<48 + q, l>>
  <2>1. StringHead(n) = s
    BY <1>3, <1>9
  <2>2. s \in Seq(Byte) /\ Len(s) \in Nat /\ Length(s) = n /\ s[1] # 82
    BY <1>6, <1>9
  <2>3. s[1] \in (0 .. 31) \cup (48 .. 51) \cup {82, 83}
    <3>1. s[1] \in 48 .. 51
      BY <1>6, <1>9
    <3> HIDE DEF s
    <3> QED BY <3>1
  <2> HIDE DEF s
  <2> QED BY <2>1, <2>2, <2>3
<1>10. ASSUME 1023 < n PROVE Known(StringHead(n))
  <2>1. StringHead(n) = <<83, q, l>>
    BY <1>1, <1>4, <1>10, SMT
  <2>2. 83 \in {82, 83} /\ 83 # 82
    OBVIOUS
  <2> QED BY <1>7, <1>10, <2>1, <2>2
<1> HIDE DEF Known
<1>11. Known(StringHead(n))
  BY <1>8, <1>9, <1>10, SMT
<1> QED BY <1>11 DEF Known

\* What the decoder copies of a string whose head announces n.
LEMMA DecodedString ==
    ASSUME NEW t \in AnyText, NEW n \in Nat, n <= 65535, n <= Bytes(t)
    PROVE  internal_decode_string([head |-> StringHead(n), text |-> t]) = utf8cpy(t, n)
<1> DEFINE f == [head |-> StringHead(n), text |-> t]
           h == StringHead(n)
<1>1. /\ h \in Seq(Byte) /\ Len(h) \in Nat /\ Length(h) = n
      /\ h[1] \in (0 .. 31) \cup (48 .. 51) \cup {82, 83} /\ h[1] # 82
  BY HeadLength, SMT
<1>2. f.head = h /\ f.text = t
  OBVIOUS
<1> HIDE DEF f, h
<1> DEFINE b == Bytes(t)
<1>3. b \in Nat
  <2>1. t.ascii \in Nat /\ t.wide \in Nat /\ Announced(t.lead) \in 1 .. 3
    BY TextFacts
  <2>2. t.wide * (1 + Announced(t.lead)) \in Nat
    BY <2>1, SMT
  <2> QED BY <2>1, <2>2 DEF Bytes
<1>4. n <= b
  OBVIOUS
<1> HIDE DEF b
<1>5. ~(Len(f.head) + Bytes(f.text) < Len(f.head) + Length(f.head))
  BY <1>1, <1>2, <1>3, <1>4, SMT DEF b
<1>6. internal_decode_string(f) = utf8cpy(t, n)
  BY <1>1, <1>2, <1>5 DEF internal_decode_string
<1> QED BY <1>6 DEF f

\* What utf8cpy makes of a length in characters, and of one in bytes.
LEMMA CopiedChars ==
    ASSUME NEW t \in AnyText
    PROVE  utf8cpy(t, Chars(t)) = Bytes(t)
<1> DEFINE a == t.ascii
           v == t.wide
           m == Announced(t.lead)
<1>1. a \in Nat /\ v \in Nat /\ m \in 1 .. 3 /\ Width(t.lead) = 1 + m /\ Width(t.lead) # Failed
  BY TextFacts
<1>2. Chars(t) = a + v /\ Bytes(t) = a + v * (1 + m)
  BY DEF Chars, Bytes
<1>3. utf8cpy(t, Chars(t)) =
         IF Chars(t) <= a THEN Chars(t) ELSE IF Chars(t) > Chars(t) THEN Beyond
         ELSE IF Width(t.lead) = Failed THEN Failed ELSE a + Width(t.lead) * (Chars(t) - a)
  BY Zenon DEF utf8cpy
<1> HIDE DEF a, v, m
<1>4. ASSUME v = 0 PROVE utf8cpy(t, Chars(t)) = Bytes(t)
  BY <1>1, <1>2, <1>3, <1>4, SMT
<1>5. ASSUME v # 0 PROVE utf8cpy(t, Chars(t)) = Bytes(t)
  <2>1. ~(Chars(t) <= a) /\ ~(Chars(t) > Chars(t)) /\ Chars(t) - a = v
    BY <1>1, <1>2, <1>5, SMT
  <2>2. utf8cpy(t, Chars(t)) = a + (1 + m) * v
    BY <1>1, <1>3, <2>1, Zenon
  <2>3. (1 + m) * v = v * (1 + m)
    BY <1>1, SMT
  <2> QED BY <1>2, <2>2, <2>3, Zenon
<1> QED BY <1>4, <1>5

\* A copy of as many characters as there are bytes stays inside the text only for ASCII.
LEMMA CopiedBytes ==
    ASSUME NEW t \in AnyText
    PROVE  utf8cpy(t, Bytes(t)) = IF t.wide = 0 THEN Bytes(t) ELSE Beyond
<1> DEFINE a == t.ascii
           v == t.wide
           m == Announced(t.lead)
<1>1. a \in Nat /\ v \in Nat /\ m \in 1 .. 3
  BY TextFacts
<1>2. Chars(t) = a + v /\ Bytes(t) = a + v * (1 + m)
  BY DEF Chars, Bytes
<1>3. utf8cpy(t, Bytes(t)) =
         IF Bytes(t) <= a THEN Bytes(t) ELSE IF Bytes(t) > Chars(t) THEN Beyond
         ELSE IF Width(t.lead) = Failed THEN Failed ELSE a + Width(t.lead) * (Bytes(t) - a)
  BY Zenon DEF utf8cpy
<1> HIDE DEF a, v, m
<1>4. ASSUME v = 0 PROVE Bytes(t) <= a
  BY <1>1, <1>2, <1>4, SMT
<1>5. ASSUME v # 0 PROVE ~(Bytes(t) <= a) /\ Bytes(t) > Chars(t)
  <2>1. m = 1 \/ m = 2 \/ m = 3
    BY <1>1
  <2> QED BY <1>1, <1>2, <1>5, <2>1, SMT
<1> QED BY <1>3, <1>4, <1>5, Zenon DEF v

\* The bytes of a text are at least its characters, and none if and only if it is empty.
LEMMA ByteCount ==
    ASSUME NEW t \in AnyText
    PROVE  /\ Bytes(t) \in Nat /\ Chars(t) \in Nat /\ Chars(t) <= Bytes(t)
           /\ (Bytes(t) = 0) = (t.ascii + t.wide = 0)
<1>1. t.ascii \in Nat /\ t.wide \in Nat /\ Announced(t.lead) \in 1 .. 3
  BY TextFacts
<1>2. Announced(t.lead) = 1 \/ Announced(t.lead) = 2 \/ Announced(t.lead) = 3
  BY <1>1
<1>3. /\ Bytes(t) \in Nat /\ Chars(t) \in Nat /\ Chars(t) <= Bytes(t)
      /\ Bytes(t) = 0 <=> t.ascii + t.wide = 0
  BY <1>1, <1>2, SMT DEF Bytes, Chars
<1> QED BY <1>3

\* A string of the server comes back with all its bytes if it is one chunk; a
\* first chunk that is not the last one is decoded over and over
\* (hessian.c:389-477).
THEOREM PeerTextDecoded ==
    ASSUME NEW t \in AnyText
    PROVE  hs_decode_string(PeerText(t)) =
               IF Chars(t) > 65535 THEN Never ELSE [sz |-> Bytes(t), freed |-> Bytes(t) = 0]
<1> DEFINE b == Bytes(t)
           n == Chars(t)
           out == hs_decode_string(PeerText(t))
<1>1. b \in Nat /\ n \in Nat /\ n <= b
  BY ByteCount
<1>2. ASSUME ~(n > 65535) PROVE out = [sz |-> b, freed |-> b = 0]
  <2>1. PeerText(t) = [head |-> StringHead(n), text |-> t]
    BY <1>2, SMT DEF PeerText, PeerString
  <2>2. internal_decode_string([head |-> StringHead(n), text |-> t]) = utf8cpy(t, n)
    BY <1>1, <1>2, DecodedString, SMT
  <2>3. utf8cpy(t, n) = b
    BY CopiedChars
  <2>4. b \notin {Failed, Beyond, Never}
    BY <1>1, HessianAssumption
  <2> QED BY <2>1, <2>2, <2>3, <2>4, Zenon DEF hs_decode_string
<1>3. ASSUME n > 65535 PROVE out = Never
  <2> DEFINE h == <<82, 255, 255>>
             f == [head |-> h, text |-> t]
  <2>1. PeerText(t) = f
    BY <1>3, SMT DEF PeerText, PeerChunks
  <2>2. h[1] = 82 /\ Len(h) = 3 /\ h[2] = 255 /\ h[3] = 255
    OBVIOUS
  <2> HIDE DEF h
  <2>3. Length(h) = 65535
    BY <2>2, SMT DEF Length
  <2>4. ~(Len(f.head) + Bytes(f.text) < Len(f.head) + Length(f.head))
    BY <1>1, <1>3, <2>2, <2>3, SMT
  <2>5. f.head[1] \in (0 .. 31) \cup (48 .. 51) \cup {82, 83} /\ f.head[1] = 82
    BY <2>2
  <2> HIDE DEF f
  <2>6. internal_decode_string(f) = Never
    BY <2>4, <2>5, SMT DEF internal_decode_string
  <2>7. hs_decode_string(f) = Never
    BY <2>6, Zenon DEF hs_decode_string
  <2> QED BY <2>1, <2>7, SMT
<1> HIDE DEF out, b, n
<1>4. out = IF n > 65535 THEN Never ELSE [sz |-> b, freed |-> b = 0]
  BY <1>2, <1>3
<1> QED BY <1>4 DEF out, b, n

=============================================================================
