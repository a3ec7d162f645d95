----------------------------- MODULE JsonText_proofs ---------------------------
(***************************************************************************)
(* The arguments of a request, of any length: parsed, printed, rewritten   *)
(* in ASCII and parsed again.                                              *)
(***************************************************************************)
EXTENDS Conversions_proofs

-----------------------------------------------------------------------------
(* Functions that are defined from the last index to the first.            *)

\* A set that has an index whenever it has all greater ones has them all.
LEMMA Downwards ==
    ASSUME NEW N \in Nat, NEW T,
           \A i \in 1 .. N : (\A j \in i + 1 .. N : j \in T) => i \in T
    PROVE  \A i \in 1 .. N : i \in T
<1> DEFINE Bad == {d \in 0 .. N : N - d \in 1 .. N /\ N - d \notin T}
<1>1. Bad = {}
  <2>1. SUFFICES ASSUME Bad # {} PROVE FALSE
    OBVIOUS
  <2>2. PICK d \in Bad : \A e \in Bad : d <= e
    <3>1. Bad \subseteq Nat
      OBVIOUS
    <3> HIDE DEF Bad
    <3> QED BY <2>1, <3>1, Least
  <2>3. PICK j \in N - d + 1 .. N : j \notin T
    <3>1. N - d \in 1 .. N /\ N - d \notin T
      BY <2>2
    <3> QED BY <3>1
  <2>4. /\ N - j \in 0 .. N /\ N - (N - j) = j /\ j \in 1 .. N /\ ~(d <= N - j)
    <3>1. d \in 0 .. N /\ N - d \in 1 .. N
      OBVIOUS
    <3> HIDE DEF Bad
    <3> QED BY <3>1
  <2> QED BY <2>2, <2>3, <2>4
<1>2. ASSUME NEW i \in 1 .. N, i \notin T PROVE FALSE
  <2>1. N - i \in 0 .. N /\ N - (N - i) = i
    OBVIOUS
  <2> QED BY <1>1, <1>2, <2>1
<1> QED BY <1>2

\* H gives the value at each index from the values at greater ones.
Defines(N, S, H) ==
    /\ H \in [(1 .. N) \X [1 .. N -> S] -> S]
    /\ \A i \in 1 .. N : \A f, g \in [1 .. N -> S] :
          (\A j \in i + 1 .. N : f[j] = g[j]) => H[<<i, f>>] = H[<<i, g>>]

\* Such a definition is one of a function.
LEMMA Recursion ==
    ASSUME NEW N \in Nat, NEW S, NEW s0 \in S, NEW H, Defines(N, S, H)
    PROVE  \E f \in [1 .. N -> S] : \A i \in 1 .. N : f[i] = H[<<i, f>>]
<1> DEFINE F == [1 .. N -> S]
           From(d, f) == \A i \in 1 .. N : i > N - d => f[i] = H[<<i, f>>]
           Bad == {d \in 0 .. N : ~\E f \in F : From(d, f)}
<1>0. /\ H \in [(1 .. N) \X F -> S]
      /\ \A i \in 1 .. N : \A f, g \in F :
            (\A j \in i + 1 .. N : f[j] = g[j]) => H[<<i, f>>] = H[<<i, g>>]
  BY DEF Defines
<1>1. Bad = {}
  <2>1. SUFFICES ASSUME Bad # {} PROVE FALSE
    OBVIOUS
  <2>2. PICK d \in Bad : \A e \in Bad : d <= e
    <3>1. Bad \subseteq Nat
      OBVIOUS
    <3> HIDE DEF Bad
    <3> QED BY <2>1, <3>1, Least
  <2>3. d # 0
    <3>1. ASSUME d = 0 PROVE FALSE
      <4>1. [i \in 1 .. N |-> s0] \in F /\ \A i \in 1 .. N : ~(i > N - 0)
        OBVIOUS
      <4> QED BY <2>2, <3>1, <4>1
    <3> QED BY <3>1
  <2>4. d - 1 \in 0 .. N /\ ~(d <= d - 1) /\ d \in 1 .. N
    BY <2>3
  <2>5. PICK f \in F : From(d - 1, f)
    BY <2>2, <2>4
  <2> DEFINE k == N + 1 - d
             g == [f EXCEPT ![k] = H[<<k, f>>]]
  <2>6. k \in 1 .. N /\ \A i \in 1 .. N : i > N - d <=> i = k \/ i > N - (d - 1)
    BY <2>4
  <2>7. H[<<k, f>>] \in S
    BY <1>0, <2>6
  <2>8. g \in F /\ g[k] = H[<<k, f>>] /\ \A i \in 1 .. N : i # k => g[i] = f[i]
    BY <2>6, <2>7
  <2> HIDE DEF g
  <2>9. \A i \in k .. N : \A j \in i + 1 .. N : f[j] = g[j]
    <3>1. \A i \in k .. N : \A j \in i + 1 .. N : j \in 1 .. N /\ j # k
      BY <2>6
    <3> QED BY <2>8, <3>1
  <2>10. \A i \in 1 .. N : i > N - d => i \in k .. N
    BY <2>4
  <2>11. \A i \in 1 .. N : i > N - d => H[<<i, g>>] = H[<<i, f>>]
    BY <1>0, <2>8, <2>9, <2>10
  <2> HIDE DEF k
  <2>12. From(d, g)
    BY <2>5, <2>6, <2>8, <2>11
  <2> QED BY <2>2, <2>8, <2>12
<1>2. N \in 0 .. N /\ \A i \in 1 .. N : i > N - N
  OBVIOUS
<1>3. PICK f \in F : From(N, f)
  BY <1>1, <1>2
<1> QED BY <1>2, <1>3
-----------------------------------------------------------------------------
(* Escapes.                                                                *)

\* The bytes of ASCII.
Ascii == 0 .. 127

\* What a conversion of a literal may return.
Outcome == Seq(Byte) \cup {Failed}

LEMMA FailedApart == Failed \notin Seq(Byte) /\ Failed \notin Int /\ Failed \notin Seq(Ascii)
<1>1. Failed \notin Seq(Byte) /\ Failed \notin Int
  BY HessianAssumption, ConversionsAssumption
<1>2. Seq(Ascii) \subseteq Seq(Byte)
  BY DEF Ascii, Byte
<1> QED BY <1>1, <1>2

LEMMA JoinLaw ==
    /\ \A s \in Seq(Byte) : Join(s, Failed) = Failed
    /\ \A s, t \in Seq(Byte) : Join(s, t) = s \o t /\ Join(s, t) \in Seq(Byte)
    /\ \A s, t \in Seq(Ascii) : Join(s, t) = s \o t /\ Join(s, t) \in Seq(Ascii)
<1>1. \A s \in Seq(Byte) : Join(s, Failed) = Failed
  BY DEF Join
<1>2. \A s, t \in Seq(Byte) : Join(s, t) = s \o t /\ s \o t \in Seq(Byte)
  BY FailedApart DEF Join
<1>3. \A s, t \in Seq(Ascii) : Join(s, t) = s \o t /\ s \o t \in Seq(Ascii)
  BY FailedApart DEF Join
<1> QED BY <1>1, <1>2, <1>3

\* A digit that is written is a hexadecimal one and reads as what it was.
LEMMA DigitReads ==
    ASSUME NEW d \in 0 .. 15
    PROVE  /\ digits(d) \in 48 .. 102 /\ digits(d) # Quote /\ digits(d) # Backslash
           /\ HexDigit(digits(d)) = d
<1>1. ASSUME d < 10 PROVE digits(d) = 48 + d /\ 48 + d \in 48 .. 57 /\ HexDigit(48 + d) = d
  BY <1>1, SMT DEF digits, HexDigit
<1>2. ASSUME ~(d < 10) PROVE digits(d) = 87 + d /\ 87 + d \in 97 .. 102 /\ HexDigit(87 + d) = d
  BY <1>2, SMT DEF digits, HexDigit
<1> QED BY <1>1, <1>2, SMT DEF Quote, Backslash

\* The units of an escape, and the four digits of one.
Unit == {u \in Nat : u <= 65535}
Digit1(unit) == unit \div 4096
Digit2(unit) == (unit \div 256) % 16
Digit3(unit) == (unit \div 16) % 16
Digit4(unit) == unit % 16

LEMMA UnitRange == \A u \in Int : u \in Unit <=> 0 <= u /\ u <= 65535
  BY SMT DEF Unit

LEMMA SurrogateRange ==
    \A u \in Int : /\ Surrogate(u, 55296) <=> 55296 <= u /\ u <= 56319
                   /\ Surrogate(u, 56320) <=> 56320 <= u /\ u <= 57343
  BY SMT DEF Surrogate

\* Four digits hold a unit.
LEMMA UnitDigits ==
    ASSUME NEW unit \in Unit
    PROVE  /\ Digit1(unit) \in 0 .. 15 /\ Digit2(unit) \in 0 .. 15
           /\ Digit3(unit) \in 0 .. 15 /\ Digit4(unit) \in 0 .. 15
           /\ unit = Digit1(unit) * 4096 + Digit2(unit) * 256 + Digit3(unit) * 16 + Digit4(unit)
<1> DEFINE a == unit \div 4096
           b == (unit \div 256) % 16
           c == (unit \div 16) % 16
           d == unit % 16
<1>1. unit \in Nat /\ unit <= 65535
  BY SMT DEF Unit
<1>2. a \in 0 .. 15 /\ b \in 0 .. 15 /\ c \in 0 .. 15 /\ d \in 0 .. 15
  <2>1. a \in Int /\ 0 <= a /\ a <= 15
    BY <1>1, SMT
  <2>2. b \in Int /\ 0 <= b /\ b <= 15 /\ c \in Int /\ 0 <= c /\ c <= 15 /\ d \in Int /\ 0 <= d /\ d <= 15
    BY <1>1, SMT
  <2> HIDE DEF a, b, c, d
  <2> QED BY <2>1, <2>2, SMT
<1>3. unit = a * 4096 + b * 256 + c * 16 + d
  <2>1. /\ unit = 16 * (unit \div 16) + d
        /\ unit \div 16 = 16 * (unit \div 256) + c
        /\ unit \div 256 = 16 * a + b
    BY <1>1, SMT
  <2> QED BY <1>1, <1>2, <2>1, SMT
<1> QED BY <1>2, <1>3, SMT DEF Digit1, Digit2, Digit3, Digit4

\* The bytes of an escape, all of them ASCII.
LEMMA EscapeBytes ==
    ASSUME NEW unit \in Unit
    PROVE  /\ Escape(unit) = <<92, 117, digits(Digit1(unit)), digits(Digit2(unit)),
                               digits(Digit3(unit)), digits(Digit4(unit))>>
           /\ Escape(unit) \in Seq(Ascii) /\ Len(Escape(unit)) = 6
<1> DEFINE a == Digit1(unit)
           b == Digit2(unit)
           c == Digit3(unit)
           d == Digit4(unit)
<1>1. Escape(unit) = <<92, 117, digits(a), digits(b), digits(c), digits(d)>>
  BY Zenon DEF Escape, Digit1, Digit2, Digit3, Digit4
<1>2. a \in 0 .. 15 /\ b \in 0 .. 15 /\ c \in 0 .. 15 /\ d \in 0 .. 15
  BY UnitDigits
<1> HIDE DEF a, b, c, d
<1>3. /\ digits(a) \in 48 .. 102 /\ digits(b) \in 48 .. 102 /\ digits(c) \in 48 .. 102
      /\ digits(d) \in 48 .. 102
  BY <1>2, DigitReads
<1>4. \A x \in 48 .. 102 : x \in Ascii
  BY DEF Ascii
<1>5. 92 \in Ascii /\ 117 \in Ascii
  BY DEF Ascii
<1>6. Escape(unit) \in Seq(Ascii) /\ Len(Escape(unit)) = 6
  BY <1>1, <1>3, <1>4, <1>5
<1> QED BY <1>1, <1>6 DEF a, b, c, d

\* The units that stand for a character above 65535.
High(c) == 55296 + (c - 65536) \div 1024
Low(c) == 56320 + ((c - 65536) % 1024)

LEMMA PairUnits ==
    ASSUME NEW c \in Nat, 65536 <= c, c <= 1114111
    PROVE  /\ High(c) \in Unit /\ Surrogate(High(c), 55296) /\ ~Surrogate(High(c), 56320)
           /\ Low(c) \in Unit /\ Surrogate(Low(c), 56320)
           /\ 65536 + (High(c) % 1024) * 1024 + (Low(c) % 1024) = c
           /\ EscapeChar(c) = Escape(High(c)) \o Escape(Low(c))
<1> DEFINE x == c - 65536
           q == x \div 1024
           r == x % 1024
<1>1. x \in Nat /\ q \in Int /\ 0 <= q /\ q <= 1023 /\ r \in Int /\ 0 <= r /\ r <= 1023 /\ x = 1024 * q + r
  BY SMT
<1>2. EscapeChar(c) = Escape(High(c)) \o Escape(Low(c))
  BY SMT DEF EscapeChar, High, Low
<1>3. High(c) = 55296 + q /\ Low(c) = 56320 + r
  BY SMT DEF High, Low
<1> HIDE DEF q, r
<1>4. (55296 + q) % 1024 = q /\ (56320 + r) % 1024 = r
  BY <1>1, SMT
<1>5. 65536 + q * 1024 + r = c
  BY <1>1, SMT
<1> HIDE DEF x
<1>6. 65536 + (High(c) % 1024) * 1024 + (Low(c) % 1024) = c
  BY <1>3, <1>4, <1>5, SMT
<1>7. /\ High(c) \in Unit /\ Surrogate(High(c), 55296) /\ ~Surrogate(High(c), 56320)
      /\ Low(c) \in Unit /\ Surrogate(Low(c), 56320)
  <2>1. /\ High(c) \in Int /\ 55296 <= High(c) /\ High(c) <= 56319
        /\ Low(c) \in Int /\ 56320 <= Low(c) /\ Low(c) <= 57343
    BY <1>1, <1>3, SMT
  <2> QED BY <2>1, UnitRange, SurrogateRange, SMT
<1> QED BY <1>2, <1>6, <1>7, SMT

\* A character in ASCII is ASCII.
LEMMA EscapeCharAscii ==
    ASSUME NEW c, Scalar(c)
    PROVE  EscapeChar(c) \in Seq(Ascii)
<1>1. c \in Nat /\ c <= 1114111
  BY SMT DEF Scalar
<1>2. ASSUME c < 128 PROVE EscapeChar(c) \in Seq(Ascii)
  <2>1. EscapeChar(c) = <<c>> /\ c \in Ascii
    BY <1>1, <1>2, SMT DEF EscapeChar, Ascii
  <2> QED BY <2>1
<1>3. ASSUME ~(c < 128), c < 65536 PROVE EscapeChar(c) \in Seq(Ascii)
  <2>1. EscapeChar(c) = Escape(c)
    BY <1>1, <1>3, SMT DEF EscapeChar
  <2>2. c \in Unit
    BY <1>1, <1>3, UnitRange, SMT
  <2> QED BY <2>1, <2>2, EscapeBytes
<1>4. ASSUME ~(c < 65536) PROVE EscapeChar(c) \in Seq(Ascii)
  <2>1. 65536 <= c
    BY <1>1, <1>4, SMT
  <2>2. /\ High(c) \in Unit /\ Low(c) \in Unit
        /\ EscapeChar(c) = Escape(High(c)) \o Escape(Low(c))
    BY <1>1, <2>1, PairUnits
  <2>3. Escape(High(c)) \in Seq(Ascii) /\ Escape(Low(c)) \in Seq(Ascii)
    BY <2>2, EscapeBytes
  <2>4. \A s, t \in Seq(Ascii) : s \o t \in Seq(Ascii)
    OBVIOUS
  <2> QED BY <2>2, <2>3, <2>4, Zenon
<1> QED BY <1>1, <1>2, <1>3, <1>4, SMT

-----------------------------------------------------------------------------
(* The decoder at any place of a text.                                     *)

\* The two parts of a concatenation, element by element.
LEMMA Parts ==
    ASSUME NEW S, NEW u \in Seq(S), NEW v \in Seq(S)
    PROVE  /\ u \o v \in Seq(S) /\ Len(u \o v) = Len(u) + Len(v)
           /\ Len(u) \in Nat /\ Len(v) \in Nat
           /\ \A j \in 1 .. Len(u) : (u \o v)[j] = u[j]
           /\ \A j \in 1 .. Len(v) : (u \o v)[Len(u) + j] = v[j]
  OBVIOUS

\* A sequence cut in two before index i.
LEMMA Cut ==
    ASSUME NEW S, NEW s \in Seq(S), NEW i \in 1 .. Len(s) + 1
    PROVE  \E u, v \in Seq(S) : s = u \o v /\ Len(u) = i - 1
<1> DEFINE u == SubSeq(s, 1, i - 1)
           v == SubSeq(s, i, Len(s))
<1>1. Len(s) \in Nat /\ i \in Int /\ 1 <= i /\ i <= Len(s) + 1 /\ \A j \in 1 .. Len(s) : s[j] \in S
  OBVIOUS
<1>2. /\ u \in Seq(S) /\ Len(u) = i - 1 /\ \A j \in 1 .. i - 1 : u[j] = s[j]
      /\ v \in Seq(S) /\ Len(v) = Len(s) - i + 1 /\ \A j \in 1 .. Len(s) - i + 1 : v[j] = s[i + j - 1]
  BY <1>1
<1> HIDE DEF u, v
<1>3. /\ u \o v \in Seq(S) /\ Len(u \o v) = Len(s)
      /\ \A j \in 1 .. Len(s) : (u \o v)[j] = IF j <= Len(u) THEN u[j] ELSE v[j - Len(u)]
  BY <1>1, <1>2, ConcatProperties
<1>4. \A j \in 1 .. Len(s) : (u \o v)[j] = s[j]
  <2> SUFFICES ASSUME NEW j \in 1 .. Len(s) PROVE (u \o v)[j] = s[j]
    OBVIOUS
  <2>1. CASE j <= i - 1
    BY <1>1, <1>2, <1>3, <2>1
  <2>2. CASE ~(j <= i - 1)
    <3>1. j - Len(u) \in 1 .. Len(s) - i + 1 /\ i + (j - Len(u)) - 1 = j
      BY <1>1, <1>2, <2>2
    <3> QED BY <1>1, <1>2, <1>3, <2>2, <3>1
  <2> QED BY <2>1, <2>2
<1>5. u \o v = s
  BY <1>3, <1>4, SeqEqual
<1> QED BY <1>2, <1>5

\* The bytes from i to i + n of s are those from j of t.
SameBytes(s, i, t, j, n) == s[i] = t[j] /\ \A x \in 1 .. n : s[i + x] = t[j + x]

\* The bits of a character are those of its bytes.
LEMMA SamePayload ==
    ASSUME NEW s, NEW i, NEW t, NEW j, NEW n \in 0 .. 3, SameBytes(s, i, t, j, n)
    PROVE  Payload(s, i, n) = Payload(t, j, n)
<1>1. /\ s[i] = t[j]
      /\ n >= 1 => s[i + 1] = t[j + 1]
      /\ n >= 2 => s[i + 2] = t[j + 2]
      /\ n >= 3 => s[i + 3] = t[j + 3]
  BY DEF SameBytes
<1>2. CASE n = 0
  BY <1>1, <1>2, SMT DEF Payload
<1>3. CASE n = 1
  BY <1>1, <1>3, SMT DEF Payload
<1>4. CASE n = 2
  BY <1>1, <1>4, SMT DEF Payload
<1>5. CASE n = 3
  BY <1>1, <1>5, SMT DEF Payload
<1> QED BY <1>2, <1>3, <1>4, <1>5

\* The decoder sees only what is behind its index.
LEMMA DecodeShift ==
    ASSUME NEW u \in Seq(Byte), NEW v \in Seq(Byte), NEW i \in 1 .. Len(v) + 1
    PROVE  /\ utf8_decode_next(u \o v, Len(u) + i).char = utf8_decode_next(v, i).char
           /\ utf8_decode_next(u \o v, Len(u) + i).next = Len(u) + utf8_decode_next(v, i).next
<1> DEFINE s == u \o v
           k == Len(u)
           n == Announced(v[i])
<1>1. /\ s \in Seq(Byte) /\ Len(s) = k + Len(v) /\ k \in Nat /\ Len(v) \in Nat
      /\ \A j \in 1 .. Len(v) : s[k + j] = v[j]
  BY Parts
<1> HIDE DEF s, k
<1>2. ASSUME i > Len(v)
      PROVE  /\ utf8_decode_next(s, k + i) = [char |-> UTF8_END, next |-> k + i]
             /\ utf8_decode_next(v, i) = [char |-> UTF8_END, next |-> i]
  <2>1. k + i > Len(s)
    BY <1>1, <1>2
  <2> QED BY <1>2, <2>1 DEF utf8_decode_next
<1>3. ASSUME ~(i > Len(v))
      PROVE  /\ utf8_decode_next(s, k + i).char = utf8_decode_next(v, i).char
             /\ utf8_decode_next(s, k + i).next = k + utf8_decode_next(v, i).next
  <2>1. i \in 1 .. Len(v) /\ ~(k + i > Len(s)) /\ s[k + i] = v[i] /\ v[i] \in Byte
    BY <1>1, <1>3
  <2>2. n \in 0 .. 4
    <3>1. v[i] \in Int /\ 0 <= v[i] /\ v[i] <= 255
      BY <2>1, ByteBounds
    <3> QED BY <2>1, <3>1, FirstByte
  <2>3. Announced(s[k + i]) = n
    BY <2>1
  <2> HIDE DEF n
  <2>4. \A x \in 1 .. n : (k + i) + x <= Len(s) <=> i + x <= Len(v)
    BY <1>1, <2>2
  <2>5. \A x \in 1 .. n : i + x <= Len(v) => s[(k + i) + x] = v[i + x]
    <3> SUFFICES ASSUME NEW x \in 1 .. n, i + x <= Len(v) PROVE s[(k + i) + x] = v[i + x]
      OBVIOUS
    <3>1. i + x \in 1 .. Len(v) /\ (k + i) + x = k + (i + x)
      BY <1>1, <2>2
    <3> QED BY <1>1, <3>1
  <2>6. cont(s, k + i, n) = cont(v, i, n)
    BY <2>4, <2>5, Zenon DEF cont
  <2>7. ASSUME n < 4, cont(v, i, n) PROVE Payload(s, k + i, n) = Payload(v, i, n)
    <3>1. \A x \in 1 .. n : s[(k + i) + x] = v[i + x]
      BY <2>5, <2>7, Zenon DEF cont
    <3>2. n \in 0 .. 3
      BY <2>2, <2>7
    <3>3. SameBytes(s, k + i, v, i, n)
      BY <2>1, <3>1, Zenon DEF SameBytes
    <3> QED BY <3>2, <3>3, SamePayload
  <2>8. utf8_decode_next(s, k + i) =
           IF n < 4 /\ cont(v, i, n) /\ Legal(n, Payload(s, k + i, n))
           THEN [char |-> Payload(s, k + i, n), next |-> (k + i) + n + 1]
           ELSE [char |-> UTF8_ERROR, next |-> (k + i) + 1]
    BY <2>1, <2>3, <2>6, Zenon DEF utf8_decode_next
  <2>9. utf8_decode_next(v, i) =
           IF n < 4 /\ cont(v, i, n) /\ Legal(n, Payload(v, i, n))
           THEN [char |-> Payload(v, i, n), next |-> i + n + 1]
           ELSE [char |-> UTF8_ERROR, next |-> i + 1]
    BY <1>3, Zenon DEF utf8_decode_next, n
  <2>10. (k + i) + n + 1 = k + (i + n + 1) /\ (k + i) + 1 = k + (i + 1)
    <3>1. k \in Int /\ i \in Int /\ n \in Int
      BY <1>1, <2>2
    <3> QED BY <3>1
  <2>11. CASE n < 4 /\ cont(v, i, n) /\ Legal(n, Payload(v, i, n))
    BY <2>7, <2>8, <2>9, <2>10, <2>11
  <2>12. CASE ~(n < 4 /\ cont(v, i, n) /\ Legal(n, Payload(v, i, n)))
    BY <2>7, <2>8, <2>9, <2>10, <2>12
  <2> QED BY <2>11, <2>12
<1>4. k + i = Len(u) + i
  BY DEF k
<1> QED BY <1>2, <1>3, <1>4 DEF s, k

-----------------------------------------------------------------------------
(* Characters.                                                             *)

\* The decoder accepts at the start of a text what the Unicode standard has for
\* a character of that length, and nothing else.
LEMMA TableDecoded ==
    ASSUME NEW s \in Seq(Byte), s # << >>, NEW n \in 0 .. 3
    PROVE  CharAt(s, 1, n) <=> n = Announced(s[1]) /\ cont(s, 1, n) /\ Legal(n, Payload(s, 1, n))
<1> DEFINE b == s[1]
           r == Payload(s, 1, n)
           Accepted == n = Announced(b) /\ cont(s, 1, n) /\ Legal(n, r)
<1>1. Len(s) \in Nat /\ Len(s) >= 1 /\ b \in Byte /\ \A j \in 1 .. Len(s) : s[j] \in Byte
  OBVIOUS
<1>2. b \in Int /\ 0 <= b /\ b <= 255
  BY <1>1, ByteBounds
<1>3. cont(s, 1, n) <=> \A k \in 1 .. n : 1 + k <= Len(s) /\ s[1 + k] \in 128 .. 191
  BY DEF cont
<1>4. CharAt(s, 1, n) =>
         /\ n = 0 => b <= 127
         /\ n = 1 => 194 <= b /\ b <= 223
         /\ n = 2 => 224 <= b /\ b <= 239
         /\ n = 3 => 240 <= b /\ b <= 244
  <2>1. CharAt(s, 1, n) => \/ n = 0 /\ b \in 0 .. 127
                           \/ n = 1 /\ b \in 194 .. 223
                           \/ n = 2 /\ b \in 224 .. 239
                           \/ n = 3 /\ b \in 240 .. 244
    BY Zenon DEF CharAt
  <2> HIDE DEF b
  <2> QED BY <1>2, <2>1, SMT
<1>5. CharAt(s, 1, n) => cont(s, 1, n)
  <2>1. CharAt(s, 1, n) => 1 + n <= Len(s) /\ \A k \in 1 .. n : s[1 + k] \in 128 .. 191
    BY DEF CharAt
  <2>2. \A k \in 1 .. n : 1 + n <= Len(s) => 1 + k <= Len(s)
    BY <1>1
  <2> QED BY <1>3, <2>1, <2>2
<1>6. Accepted => 1 + n <= Len(s)
  BY <1>1, <1>3, SMT
<1>7. /\ n = Announced(b) => /\ n = 0 => b < 128
                             /\ n = 1 => 192 <= b /\ b < 224
                             /\ n = 2 => 224 <= b /\ b < 240
                             /\ n = 3 => 240 <= b /\ b < 248
      /\ CharAt(s, 1, n) => n = Announced(b)
  <2>1. n = Announced(b) => /\ n = 0 => b < 128
                            /\ n = 1 => 192 <= b /\ b < 224
                            /\ n = 2 => 224 <= b /\ b < 240
                            /\ n = 3 => 240 <= b /\ b < 248
    BY <1>1, Announces
  <2>2. /\ b < 128 => Announced(b) = 0
        /\ 192 <= b /\ b < 224 => Announced(b) = 1
        /\ 224 <= b /\ b < 240 => Announced(b) = 2
        /\ 240 <= b /\ b < 248 => Announced(b) = 3
    BY <1>1, FirstByte
  <2>3. CharAt(s, 1, n) => n = Announced(b)
    BY <1>2, <1>4, <2>2, SMT
  <2> QED BY <2>1, <2>3
<1> HIDE DEF b, r, Accepted
<1>8. CASE n = 0
  <2>1. Legal(n, r)
    BY <1>8, SMT DEF Legal
  <2>2. Accepted => b \in 0 .. 127
    BY <1>2, <1>7, <1>8, SMT DEF Accepted
  <2>3. \A k \in 1 .. 0 : s[1 + k] \in 128 .. 191
    OBVIOUS
  <2>4. CharAt(s, 1, 0) <=> 1 + 0 <= Len(s) /\ b \in 0 .. 127
    BY <2>3, SMT DEF CharAt, b
  <2>5. Accepted => CharAt(s, 1, n)
    BY <1>1, <1>8, <2>2, <2>4, SMT
  <2> QED BY <1>5, <1>7, <2>1, <2>5 DEF Accepted, b, r
<1>9. CASE n = 1
  <2> DEFINE c == s[2]
  <2>1. cont(s, 1, n) => Len(s) >= 2 /\ c \in Int /\ 128 <= c /\ c <= 191
    BY <1>1, <1>9, ContBytes, SMT
  <2>2. r = (b % 32) * 64 + (c % 64)
    BY <1>9, SMT DEF Payload, r, b
  <2>3. CharAt(s, 1, n) <=> 1 + n <= Len(s) /\ (\A k \in 1 .. n : s[1 + k] \in 128 .. 191) /\ b \in 194 .. 223
    BY <1>9, SMT DEF CharAt, b
  <2>4. Legal(n, r) <=> r >= 128
    BY <1>9, SMT DEF Legal
  <2> HIDE DEF c
  <2>5. ASSUME cont(s, 1, n), 192 <= b, b < 224 PROVE Legal(n, r) <=> b \in 194 .. 223
    <3>1. b % 32 = b - 192 /\ c % 64 = c - 128
      BY <1>2, <2>1, <2>5, SMT
    <3> QED BY <1>2, <2>1, <2>2, <2>4, <2>5, <3>1, SMT
  <2>6. CharAt(s, 1, n) => Accepted
    BY <1>2, <1>4, <1>5, <1>7, <1>9, <2>3, <2>5, SMT DEF Accepted
  <2>7. Accepted => CharAt(s, 1, n)
    <3>1. Accepted => b \in 194 .. 223 /\ \A k \in 1 .. n : s[1 + k] \in 128 .. 191
      BY <1>3, <1>7, <1>9, <2>5 DEF Accepted
    <3> QED BY <1>6, <2>3, <3>1
  <2> QED BY <2>6, <2>7 DEF Accepted, b, r
<1>10. CASE n = 2
  <2> DEFINE c == s[2]
             e == s[3]
             Row == b \in 224 .. 239 /\ (b = 224 => c >= 160) /\ (b = 237 => c <= 159)
  <2>1. cont(s, 1, n) => /\ Len(s) >= 3 /\ c \in Int /\ 128 <= c /\ c <= 191
                         /\ e \in Int /\ 128 <= e /\ e <= 191
    BY <1>1, <1>10, ContBytes, SMT
  <2>2. r = (b % 16) * 4096 + (c % 64) * 64 + (e % 64)
    BY <1>10, SMT DEF Payload, r, b
  <2>3. CharAt(s, 1, n) <=> 1 + n <= Len(s) /\ (\A k \in 1 .. n : s[1 + k] \in 128 .. 191) /\ Row
    BY <1>10, SMT DEF CharAt, b
  <2>4. Legal(n, r) <=> r >= 2048 /\ (r < 55296 \/ r > 57343)
    BY <1>10, SMT DEF Legal
  <2> HIDE DEF c, e
  <2>5. ASSUME cont(s, 1, n), 224 <= b, b < 240 PROVE Legal(n, r) <=> Row
    <3>1. b % 16 = b - 224 /\ c % 64 = c - 128 /\ e % 64 = e - 128
      BY <1>2, <2>1, <2>5, SMT
    <3>2. r = (b - 224) * 4096 + (c - 128) * 64 + (e - 128)
      BY <2>2, <3>1, SMT
    <3>3. /\ b \in Int /\ c \in Int /\ 128 <= c /\ c <= 191 /\ e \in Int /\ 128 <= e /\ e <= 191
          /\ 224 <= b /\ b <= 239
      BY <1>2, <2>1, <2>5, SMT
    <3>4. /\ b = 224 => (r >= 2048 <=> c >= 160) /\ r < 55296
          /\ b > 224 => r >= 2048
      BY <3>2, <3>3, SMT
    <3>5. /\ b = 237 => (r < 55296 <=> c <= 159) /\ ~(r > 57343)
          /\ b < 237 => r < 55296
          /\ b > 237 => r > 57343
      BY <3>2, <3>3, SMT
    <3> HIDE DEF Row
    <3>6. Row <=> (b = 224 => c >= 160) /\ (b = 237 => c <= 159)
      BY <3>3, SMT DEF Row
    <3>7. (b = 224 \/ b > 224) /\ (b < 237 \/ b = 237 \/ b > 237) /\ (b = 224 => b < 237) /\ (b = 237 => b > 224)
      BY <3>3
    <3> QED BY <2>4, <3>4, <3>5, <3>6, <3>7
  <2> HIDE DEF Row
  <2>6. CharAt(s, 1, n) => Accepted
    BY <1>2, <1>4, <1>5, <1>7, <1>10, <2>3, <2>5, SMT DEF Accepted
  <2>7. Accepted => CharAt(s, 1, n)
    <3>1. Accepted => Row /\ \A k \in 1 .. n : s[1 + k] \in 128 .. 191
      BY <1>3, <1>7, <1>10, <2>5 DEF Accepted
    <3> QED BY <1>6, <2>3, <3>1
  <2> QED BY <2>6, <2>7 DEF Accepted, b, r
<1>11. CASE n = 3
  <2> DEFINE c == s[2]
             e == s[3]
             g == s[4]
             Row == b \in 240 .. 244 /\ (b = 240 => c >= 144) /\ (b = 244 => c <= 143)
  <2>1. cont(s, 1, n) => /\ Len(s) >= 4 /\ c \in Int /\ 128 <= c /\ c <= 191
                         /\ e \in Int /\ 128 <= e /\ e <= 191 /\ g \in Int /\ 128 <= g /\ g <= 191
    BY <1>1, <1>11, ContBytes, SMT
  <2>2. r = (b % 8) * 262144 + (c % 64) * 4096 + (e % 64) * 64 + (g % 64)
    BY <1>11, SMT DEF Payload, r, b
  <2>3. CharAt(s, 1, n) <=> 1 + n <= Len(s) /\ (\A k \in 1 .. n : s[1 + k] \in 128 .. 191) /\ Row
    BY <1>11, SMT DEF CharAt, b
  <2>4. Legal(n, r) <=> r >= 65536 /\ r <= 1114111
    BY <1>11, SMT DEF Legal
  <2> HIDE DEF c, e, g
  <2>5. ASSUME cont(s, 1, n), 240 <= b, b < 248 PROVE Legal(n, r) <=> Row
    <3>1. b % 8 = b - 240 /\ c % 64 = c - 128 /\ e % 64 = e - 128 /\ g % 64 = g - 128
      BY <1>2, <2>1, <2>5, SMT
    <3>2. r = (b - 240) * 262144 + (c - 128) * 4096 + (e - 128) * 64 + (g - 128)
      BY <2>2, <3>1, SMT
    <3>3. /\ b \in Int /\ c \in Int /\ 128 <= c /\ c <= 191 /\ e \in Int /\ 128 <= e /\ e <= 191
          /\ g \in Int /\ 128 <= g /\ g <= 191 /\ 240 <= b /\ b <= 247
      BY <1>2, <2>1, <2>5, SMT
    <3>4. /\ b = 240 => (r >= 65536 <=> c >= 144)
          /\ b > 240 => r >= 65536
      BY <3>2, <3>3, SMT
    <3>5. /\ b = 244 => (r <= 1114111 <=> c <= 143)
          /\ b < 244 => r <= 1114111
          /\ b > 244 => ~(r <= 1114111)
      BY <3>2, <3>3, SMT
    <3> HIDE DEF Row
    <3>6. Row <=> b <= 244 /\ (b = 240 => c >= 144) /\ (b = 244 => c <= 143)
      BY <3>3, SMT DEF Row
    <3>7. /\ b = 240 \/ b > 240
          /\ b < 244 \/ b = 244 \/ b > 244
          /\ b <= 244 <=> ~(b > 244)
          /\ (b = 240 => b < 244) /\ (b = 244 => b > 240)
      BY <3>3
    <3> QED BY <2>4, <3>4, <3>5, <3>6, <3>7
  <2> HIDE DEF Row
  <2>6. CharAt(s, 1, n) => Accepted
    BY <1>2, <1>4, <1>5, <1>7, <1>11, <2>3, <2>5, SMT DEF Accepted
  <2>7. Accepted => CharAt(s, 1, n)
    <3>1. Accepted => Row /\ \A k \in 1 .. n : s[1 + k] \in 128 .. 191
      BY <1>3, <1>7, <1>11, <2>5 DEF Accepted
    <3> QED BY <1>6, <2>3, <3>1
  <2> QED BY <2>6, <2>7 DEF Accepted, b, r
<1> QED BY <1>8, <1>9, <1>10, <1>11

LEMMA PayloadNat ==
    ASSUME NEW s \in Seq(Byte), s # << >>, NEW n \in 0 .. 3, cont(s, 1, n)
    PROVE  Payload(s, 1, n) \in Nat
<1>1. s[1] \in Int /\ s[1] >= 0
  <2>1. s[1] \in Byte
    OBVIOUS
  <2> QED BY <2>1, ByteBounds
<1>2. CASE n = 0
  BY <1>1, <1>2, SMT DEF Payload
<1>3. CASE n \in 1 .. 3
  <2> DEFINE b == s[1]
             c == s[2]
             e == s[3]
             g == s[4]
  <2>1. \A k \in 1 .. n : s[1 + k] \in Int
    BY <1>3, ContBytes
  <2>2. n >= 1 => c \in Int
    BY <1>3, <2>1
  <2>3. n >= 2 => e \in Int
    BY <1>3, <2>1
  <2>4. n >= 3 => g \in Int
    BY <1>3, <2>1
  <2>5. /\ n = 1 => Payload(s, 1, n) = (b % 32) * 64 + (c % 64)
        /\ n = 2 => Payload(s, 1, n) = (b % 16) * 4096 + (c % 64) * 64 + (e % 64)
        /\ n = 3 => Payload(s, 1, n) = (b % 8) * 262144 + (c % 64) * 4096 + (e % 64) * 64 + (g % 64)
    BY SMT DEF Payload
  <2>6. b \in Int
    BY <1>1
  <2> HIDE DEF b, c, e, g
  <2>7. \A x \in Int : x % 64 \in Nat /\ x % 32 \in Nat /\ x % 16 \in Nat /\ x % 8 \in Nat
    BY SMT
  <2>8. CASE n = 1
    BY <2>2, <2>5, <2>6, <2>7, <2>8, SMT
  <2>9. CASE n = 2
    BY <2>2, <2>3, <2>5, <2>6, <2>7, <2>9, SMT
  <2>10. CASE n = 3
    BY <2>2, <2>3, <2>4, <2>5, <2>6, <2>7, <2>10, SMT
  <2> QED BY <1>3, <2>8, <2>9, <2>10
<1> QED BY <1>2, <1>3

\* What the decoder returns at the start of a text.
LEMMA DecodeFirst ==
    ASSUME NEW s \in Seq(Byte), s # << >>
    PROVE  LET d == utf8_decode_next(s, 1)
           IN  \/ /\ Scalar(d.char) /\ utf8_encode(d.char) = SubSeq(s, 1, d.next - 1)
                  /\ \E n \in 0 .. 3 : CharAt(s, 1, n) /\ d.next = n + 2
                  /\ d.next \in 2 .. Len(s) + 1
               \/ /\ d.char = UTF8_ERROR /\ d.next = 2
                  /\ \A n \in 0 .. 3 : ~CharAt(s, 1, n)
<1> DEFINE n == Announced(s[1])
           r == Payload(s, 1, n)
           d == utf8_decode_next(s, 1)
<1>1. Len(s) \in Nat /\ Len(s) >= 1 /\ s[1] \in Byte
  OBVIOUS
<1>2. n \in 0 .. 4
  <2>1. s[1] \in Int /\ 0 <= s[1] /\ s[1] <= 255
    BY <1>1, ByteBounds
  <2> QED BY <1>1, <2>1, FirstByte
<1>3. d = IF n < 4 /\ cont(s, 1, n) /\ Legal(n, r) THEN [char |-> r, next |-> 1 + n + 1]
          ELSE [char |-> UTF8_ERROR, next |-> 1 + 1]
  <2>1. ~(1 > Len(s))
    BY <1>1
  <2> QED BY <2>1, Zenon DEF utf8_decode_next
<1>4. ASSUME n < 4, cont(s, 1, n), Legal(n, r)
      PROVE  /\ Scalar(d.char) /\ utf8_encode(d.char) = SubSeq(s, 1, d.next - 1)
             /\ \E k \in 0 .. 3 : CharAt(s, 1, k) /\ d.next = k + 2
             /\ d.next \in 2 .. Len(s) + 1
  <2>1. n \in 0 .. 3
    BY <1>2, <1>4
  <2>2. CharAt(s, 1, n)
    BY <1>4, <2>1, TableDecoded
  <2>3. d.char = r /\ d.next = n + 2
    <3>1. d = [char |-> r, next |-> 1 + n + 1] /\ 1 + n + 1 = n + 2
      BY <1>3, <1>4, <2>1
    <3> HIDE DEF d, r, n
    <3> QED BY <3>1
  <2>4. r >= 0
    <3>1. r \in Nat
      BY <1>1, <1>4, <2>1, PayloadNat
    <3> HIDE DEF r
    <3> QED BY <3>1
  <2> HIDE DEF n, r
  <2>5. d.char >= 0
    BY <2>3, <2>4
  <2>6. Scalar(d.char) /\ utf8_encode(d.char) = SubSeq(s, 1, d.next - 1)
    BY <2>5, Strict
  <2>7. n + 2 \in 2 .. Len(s) + 1
    <3>1. 1 + n <= Len(s)
      BY <2>2 DEF CharAt
    <3> QED BY <1>1, <2>1, <3>1
  <2> HIDE DEF d
  <2> QED BY <2>1, <2>2, <2>3, <2>6, <2>7
<1>5. ASSUME ~(n < 4 /\ cont(s, 1, n) /\ Legal(n, r))
      PROVE  d.char = UTF8_ERROR /\ d.next = 2 /\ \A k \in 0 .. 3 : ~CharAt(s, 1, k)
  <2>1. d.char = UTF8_ERROR /\ d.next = 2
    <3>1. d = [char |-> UTF8_ERROR, next |-> 1 + 1]
      BY <1>3, <1>5
    <3> HIDE DEF d
    <3> QED BY <3>1
  <2>2. \A k \in 0 .. 3 : ~CharAt(s, 1, k)
    <3> SUFFICES ASSUME NEW k \in 0 .. 3, CharAt(s, 1, k) PROVE FALSE
      OBVIOUS
    <3>1. k = n /\ cont(s, 1, k) /\ Legal(k, Payload(s, 1, k))
      BY TableDecoded
    <3>2. k < 4
      OBVIOUS
    <3> QED BY <1>5, <3>1, <3>2
  <2> QED BY <2>1, <2>2
<1> HIDE DEF n, r, d
<1>6. \/ /\ Scalar(d.char) /\ utf8_encode(d.char) = SubSeq(s, 1, d.next - 1)
         /\ \E k \in 0 .. 3 : CharAt(s, 1, k) /\ d.next = k + 2
         /\ d.next \in 2 .. Len(s) + 1
      \/ d.char = UTF8_ERROR /\ d.next = 2 /\ \A k \in 0 .. 3 : ~CharAt(s, 1, k)
  BY <1>4, <1>5
<1> QED BY <1>6 DEF d

\* What it returns at any index.
LEMMA DecodeAt ==
    ASSUME NEW s \in Seq(Byte), NEW i \in 1 .. Len(s) + 1
    PROVE  LET d == utf8_decode_next(s, i)
           IN  \/ d.char = UTF8_END
               \/ d.char = UTF8_ERROR
               \/ Scalar(d.char) /\ d.next \in i + 1 .. Len(s) + 1
<1> DEFINE d == utf8_decode_next(s, i)
<1>1. Len(s) \in Nat /\ i \in Int /\ 1 <= i /\ i <= Len(s) + 1
  OBVIOUS
<1>2. CASE i > Len(s)
  <2>1. d = [char |-> UTF8_END, next |-> i]
    BY <1>2 DEF utf8_decode_next
  <2> HIDE DEF d
  <2>2. d.char = UTF8_END
    BY <2>1
  <2> QED BY <2>2 DEF d
<1>3. CASE ~(i > Len(s))
  <2>1. PICK u \in Seq(Byte), v \in Seq(Byte) : s = u \o v /\ Len(u) = i - 1
    BY Cut
  <2> DEFINE e == utf8_decode_next(v, 1)
  <2>2. Len(s) = Len(u) + Len(v) /\ Len(v) \in Nat
    BY <2>1, Parts
  <2>3. v # << >> /\ 1 \in 1 .. Len(v) + 1 /\ Len(u) + 1 = i
    BY <1>1, <1>3, <2>1, <2>2
  <2>4. d.char = e.char /\ d.next = Len(u) + e.next
    BY <2>1, <2>3, DecodeShift
  <2>5. \/ Scalar(e.char) /\ e.next \in 2 .. Len(v) + 1
        \/ e.char = UTF8_ERROR
    BY <2>3, DecodeFirst, Zenon
  <2> HIDE DEF d, e
  <2>6. e.next \in 2 .. Len(v) + 1 => Len(u) + e.next \in i + 1 .. Len(s) + 1
    BY <1>1, <2>1, <2>2
  <2>7. \/ d.char = UTF8_ERROR
        \/ Scalar(d.char) /\ d.next \in i + 1 .. Len(s) + 1
    BY <2>4, <2>5, <2>6
  <2> QED BY <2>7 DEF d
<1> QED BY <1>2, <1>3

\* The bytes at the start of a text that are one character are that character,
\* whatever follows them.
LEMMA SameChar ==
    ASSUME NEW s \in Seq(Byte), s # << >>, NEW t \in Seq(Byte), t # << >>, NEW n \in 0 .. 3,
           CharAt(s, 1, n), n + 1 <= Len(t), SameBytes(s, 1, t, 1, n)
    PROVE  /\ CharAt(t, 1, n)
           /\ utf8_decode_next(t, 1) = [char |-> utf8_decode_next(s, 1).char, next |-> n + 2]
<1> DEFINE r == Payload(s, 1, n)
<1>1. Len(t) \in Nat /\ Len(s) \in Nat /\ Len(s) >= 1 /\ Len(t) >= 1
  OBVIOUS
<1>2. n = Announced(s[1]) /\ cont(s, 1, n) /\ Legal(n, r)
  BY TableDecoded
<1>3. s[1] = t[1] /\ \A x \in 1 .. n : s[1 + x] = t[1 + x]
  BY DEF SameBytes
<1>4. Payload(t, 1, n) = r
  BY SamePayload
<1>5. cont(t, 1, n)
  <2>1. \A x \in 1 .. n : 1 + x <= Len(t)
    BY <1>1
  <2>2. \A x \in 1 .. n : s[1 + x] \in 128 .. 191
    BY <1>2 DEF cont
  <2> QED BY <1>3, <2>1, <2>2, Zenon DEF cont
<1>6. CharAt(t, 1, n)
  BY <1>2, <1>3, <1>4, <1>5, TableDecoded
<1>7. 1 + n + 1 = n + 2 /\ n < 4 /\ ~(1 > Len(s)) /\ ~(1 > Len(t))
  BY <1>1
<1> HIDE DEF r
<1>8. utf8_decode_next(t, 1) = [char |-> r, next |-> n + 2]
  <2>1. n = Announced(t[1])
    BY <1>2, <1>3
  <2>2. utf8_decode_next(t, 1) =
           IF n < 4 /\ cont(t, 1, n) /\ Legal(n, Payload(t, 1, n))
           THEN [char |-> Payload(t, 1, n), next |-> 1 + n + 1]
           ELSE [char |-> UTF8_ERROR, next |-> 1 + 1]
    BY <1>7, <2>1, Zenon DEF utf8_decode_next
  <2> QED BY <1>2, <1>4, <1>5, <1>7, <2>2
<1>9. utf8_decode_next(s, 1).char = r
  <2>1. utf8_decode_next(s, 1) =
           IF n < 4 /\ cont(s, 1, n) /\ Legal(n, r)
           THEN [char |-> r, next |-> 1 + n + 1]
           ELSE [char |-> UTF8_ERROR, next |-> 1 + 1]
    BY <1>2, <1>7, Zenon DEF utf8_decode_next, r
  <2>2. utf8_decode_next(s, 1) = [char |-> r, next |-> 1 + n + 1]
    BY <1>2, <1>7, <2>1
  <2> QED BY <2>2
<1> QED BY <1>6, <1>8, <1>9

-----------------------------------------------------------------------------
(* utf82ascii.                                                             *)

Rewritten == Seq(Ascii) \cup {Failed}

\* The function behind utf82ascii, and one step of it.
AsciiStep(s, i, f) ==
    LET d == utf8_decode_next(s, i)
    IN  IF d.char = UTF8_END THEN << >>
        ELSE IF d.char = UTF8_ERROR THEN Failed
        ELSE Join(EscapeChar(d.char), f[d.next])

AsciiFrom(s) == CHOOSE f : f = [i \in 1 .. Len(s) + 1 |-> AsciiStep(s, i, f)]

LEMMA JoinRewritten ==
    /\ \A s \in Seq(Ascii), t \in Rewritten : Join(s, t) \in Rewritten
    /\ \A s \in Seq(Byte), t \in Outcome : Join(s, t) \in Outcome
<1>1. \A s \in Seq(Ascii) : Join(s, Failed) \in Rewritten
  BY DEF Join, Rewritten
<1>2. \A s \in Seq(Byte) : Join(s, Failed) \in Outcome
  BY DEF Join, Outcome
<1> QED BY <1>1, <1>2, JoinLaw DEF Rewritten, Outcome

\* A step uses the values at greater indexes only, and has a result if they are results.
LEMMA AsciiStepLocal ==
    ASSUME NEW s \in Seq(Byte), NEW i \in 1 .. Len(s) + 1, NEW f, NEW g,
           \A j \in i + 1 .. Len(s) + 1 : f[j] = g[j]
    PROVE  AsciiStep(s, i, f) = AsciiStep(s, i, g)
<1> DEFINE d == utf8_decode_next(s, i)
<1>1. \/ d.char = UTF8_END
      \/ d.char = UTF8_ERROR
      \/ Scalar(d.char) /\ d.next \in i + 1 .. Len(s) + 1
  BY DecodeAt, Zenon
<1>2. d.char = UTF8_END \/ d.char = UTF8_ERROR \/ f[d.next] = g[d.next]
  BY <1>1, Zenon
<1> QED BY <1>2, Zenon DEF AsciiStep

LEMMA AsciiStepTyped ==
    ASSUME NEW s \in Seq(Byte), NEW i \in 1 .. Len(s) + 1, NEW f,
           \A j \in i + 1 .. Len(s) + 1 : f[j] \in Rewritten
    PROVE  AsciiStep(s, i, f) \in Rewritten
<1> DEFINE d == utf8_decode_next(s, i)
<1>1. \/ d.char = UTF8_END
      \/ d.char = UTF8_ERROR
      \/ Scalar(d.char) /\ d.next \in i + 1 .. Len(s) + 1
  BY DecodeAt, Zenon
<1>2. << >> \in Rewritten /\ Failed \in Rewritten
  BY DEF Rewritten
<1>3. ASSUME Scalar(d.char), d.next \in i + 1 .. Len(s) + 1
      PROVE  Join(EscapeChar(d.char), f[d.next]) \in Rewritten
  BY <1>3, EscapeCharAscii, JoinRewritten, Zenon
<1> QED BY <1>1, <1>2, <1>3, Zenon DEF AsciiStep

\* There is such a function, and it is the one that utf82ascii evaluates.
LEMMA AsciiLaw ==
    ASSUME NEW s \in Seq(Byte)
    PROVE  /\ utf82ascii(s) = AsciiFrom(s)[1]
           /\ \A i \in 1 .. Len(s) + 1 :
                 /\ AsciiFrom(s)[i] = AsciiStep(s, i, AsciiFrom(s))
                 /\ AsciiFrom(s)[i] \in Rewritten
<1> DEFINE N == Len(s) + 1
           D == 1 .. N
           F == [D -> Rewritten]
           H == [x \in D \X F |-> AsciiStep(s, x[1], x[2])]
           G == AsciiFrom(s)
<1>1. N \in Nat /\ \A i \in D : i + 1 .. N \subseteq D
  OBVIOUS
<1>2. \A i \in D, f \in F : AsciiStep(s, i, f) \in Rewritten
  <2> SUFFICES ASSUME NEW i \in D, NEW f \in F PROVE AsciiStep(s, i, f) \in Rewritten
    OBVIOUS
  <2>1. \A j \in i + 1 .. N : f[j] \in Rewritten
    BY <1>1
  <2> QED BY <2>1, AsciiStepTyped
<1>3. \A i \in D, f \in F : H[<<i, f>>] = AsciiStep(s, i, f)
  OBVIOUS
<1>4. H \in [D \X F -> Rewritten]
  BY <1>2
<1>5. \A i \in D : \A f, g \in F : (\A j \in i + 1 .. N : f[j] = g[j]) => H[<<i, f>>] = H[<<i, g>>]
  <2> SUFFICES ASSUME NEW i \in D, NEW f \in F, NEW g \in F, \A j \in i + 1 .. N : f[j] = g[j]
               PROVE  AsciiStep(s, i, f) = AsciiStep(s, i, g)
    BY <1>3
  <2> QED BY AsciiStepLocal
<1>6. PICK f \in F : \A i \in D : f[i] = AsciiStep(s, i, f)
  <2> HIDE DEF H
  <2>1. << >> \in Rewritten
    BY DEF Rewritten
  <2>2. \E f \in F : \A i \in D : f[i] = H[<<i, f>>]
    <3>1. Defines(N, Rewritten, H)
      BY <1>4, <1>5, Zenon DEF Defines
    <3> QED BY <1>1, <2>1, <3>1, Recursion
  <2> QED BY <1>3, <2>2
<1>7. f = [i \in D |-> AsciiStep(s, i, f)]
  BY <1>6
<1>8. G = [i \in D |-> AsciiStep(s, i, G)]
  BY <1>7, Zenon DEF AsciiFrom
<1> HIDE DEF G
<1>9. \A i \in D : G[i] = AsciiStep(s, i, G)
  BY <1>8
<1>10. \A i \in D : G[i] \in Rewritten
  <2> DEFINE T == {i \in D : G[i] \in Rewritten}
  <2>1. \A i \in D : (\A j \in i + 1 .. N : j \in T) => i \in T
    BY <1>9, AsciiStepTyped
  <2> HIDE DEF T
  <2>2. \A i \in D : i \in T
    BY <1>1, <2>1, Downwards
  <2> QED BY <2>2 DEF T
<1>11. utf82ascii(s) = G[1]
  BY Zenon DEF utf82ascii, AsciiFrom, AsciiStep, G
<1> QED BY <1>9, <1>10, <1>11 DEF G

\* What is behind an index is rewritten as it would be alone.
LEMMA AsciiShift ==
    ASSUME NEW u \in Seq(Byte), NEW v \in Seq(Byte)
    PROVE  \A i \in 1 .. Len(v) + 1 : AsciiFrom(u \o v)[Len(u) + i] = AsciiFrom(v)[i]
<1> DEFINE s == u \o v
           k == Len(u)
           N == Len(v) + 1
           G == AsciiFrom(s)
           J == AsciiFrom(v)
           T == {i \in 1 .. N : G[k + i] = J[i]}
<1>1. /\ s \in Seq(Byte) /\ Len(s) = k + Len(v) /\ k \in Nat /\ Len(v) \in Nat /\ N \in Nat
      /\ \A i \in 1 .. N : k + i \in 1 .. Len(s) + 1
  <2>1. s \in Seq(Byte) /\ Len(s) = k + Len(v) /\ k \in Nat /\ Len(v) \in Nat
    BY Parts
  <2> HIDE DEF s, k
  <2> QED BY <2>1
<1>2. \A i \in 1 .. N : G[k + i] = AsciiStep(s, k + i, G) /\ J[i] = AsciiStep(v, i, J)
  BY <1>1, AsciiLaw
<1>3. ASSUME NEW i \in 1 .. N, \A j \in i + 1 .. N : j \in T PROVE i \in T
  <2> DEFINE d == utf8_decode_next(s, k + i)
             e == utf8_decode_next(v, i)
  <2>1. d.char = e.char /\ d.next = k + e.next
    BY DecodeShift
  <2>2. \/ e.char = UTF8_END
        \/ e.char = UTF8_ERROR
        \/ e.next \in i + 1 .. Len(v) + 1
    BY DecodeAt, Zenon
  <2>3. e.char = UTF8_END \/ e.char = UTF8_ERROR \/ G[d.next] = J[e.next]
    BY <1>3, <2>1, <2>2
  <2>4. AsciiStep(s, k + i, G) = IF d.char = UTF8_END THEN << >> ELSE IF d.char = UTF8_ERROR THEN Failed
                                 ELSE Join(EscapeChar(d.char), G[d.next])
    BY Zenon DEF AsciiStep
  <2>5. AsciiStep(v, i, J) = IF e.char = UTF8_END THEN << >> ELSE IF e.char = UTF8_ERROR THEN Failed
                             ELSE Join(EscapeChar(e.char), J[e.next])
    BY Zenon DEF AsciiStep
  <2> HIDE DEF s, k, G, J, d, e
  <2>6. AsciiStep(s, k + i, G) = AsciiStep(v, i, J)
    <3>1. CASE e.char = UTF8_END
      BY <2>1, <2>4, <2>5, <3>1
    <3>2. CASE e.char # UTF8_END /\ e.char = UTF8_ERROR
      BY <2>1, <2>4, <2>5, <3>2
    <3>3. CASE e.char # UTF8_END /\ e.char # UTF8_ERROR
      BY <2>1, <2>3, <2>4, <2>5, <3>3
    <3> QED BY <3>1, <3>2, <3>3
  <2> QED BY <1>2, <2>6
<1> HIDE DEF T
<1>4. \A i \in 1 .. N : i \in T
  BY <1>1, <1>3, Downwards
<1> QED BY <1>4 DEF T

\* A character at the start of a text is replaced by its escape.
LEMMA AsciiOfChar ==
    ASSUME NEW w \in Seq(Byte), NEW y \in Seq(Byte), NEW n \in 0 .. 3, Len(w) = n + 1, CharAt(w, 1, n)
    PROVE  LET c == utf8_decode_next(w, 1).char
           IN  /\ Scalar(c) /\ utf8_encode(c) = w
               /\ utf82ascii(w \o y) = Join(EscapeChar(c), utf82ascii(y))
<1> DEFINE c == utf8_decode_next(w, 1).char
           s == w \o y
           G == AsciiFrom(s)
<1>1. w # << >> /\ 1 \in 1 .. Len(y) + 1
  BY LenProperties
<1>2. /\ s \in Seq(Byte) /\ Len(s) \in Nat /\ Len(s) = Len(w) + Len(y) /\ Len(y) \in Nat
      /\ \A j \in 1 .. Len(w) : s[j] = w[j]
  <2>1. /\ s \in Seq(Byte) /\ Len(s) = Len(w) + Len(y) /\ Len(y) \in Nat
        /\ \A j \in 1 .. Len(w) : s[j] = w[j]
    BY Parts
  <2> HIDE DEF s
  <2> QED BY <2>1
<1>3. Scalar(c) /\ utf8_encode(c) = w
  <2> DEFINE d == utf8_decode_next(w, 1)
  <2>1. Scalar(d.char) /\ utf8_encode(d.char) = SubSeq(w, 1, d.next - 1)
    BY <1>1, DecodeFirst, Zenon
  <2>2. d.next = n + 2
    <3>1. SameBytes(w, 1, w, 1, n)
      BY DEF SameBytes
    <3>2. d = [char |-> d.char, next |-> n + 2]
      BY <1>1, <3>1, SameChar
    <3> HIDE DEF d
    <3> QED BY <3>2
  <2>3. (n + 2) - 1 = Len(w)
    OBVIOUS
  <2>4. SubSeq(w, 1, Len(w)) = w
    BY SubSeqFull
  <2> QED BY <2>1, <2>2, <2>3, <2>4
<1> HIDE DEF c
<1>4. utf8_decode_next(s, 1) = [char |-> c, next |-> n + 2]
  <2>1. s # << >> /\ n + 1 <= Len(s)
    BY <1>2
  <2>2. SameBytes(w, 1, s, 1, n)
    <3>1. 1 \in 1 .. Len(w) /\ \A x \in 1 .. n : 1 + x \in 1 .. Len(w)
      OBVIOUS
    <3> QED BY <1>2, <3>1, Zenon DEF SameBytes
  <2> HIDE DEF s
  <2> QED BY <1>1, <1>2, <2>1, <2>2, SameChar DEF c
<1>5. c # UTF8_END /\ c # UTF8_ERROR
  BY <1>3, SMT DEF Scalar, UTF8_END, UTF8_ERROR
<1>6. utf82ascii(s) = G[1] /\ G[1] = AsciiStep(s, 1, G) /\ utf82ascii(y) = AsciiFrom(y)[1]
  <2>1. 1 \in 1 .. Len(s) + 1
    BY <1>2
  <2> QED BY <1>2, <2>1, AsciiLaw
<1>7. G[n + 2] = AsciiFrom(y)[1]
  <2>1. n + 2 = Len(w) + 1
    OBVIOUS
  <2> QED BY <1>1, <2>1, AsciiShift
<1>8. AsciiStep(s, 1, G) = Join(EscapeChar(c), G[n + 2])
  <2> HIDE DEF s, G
  <2>1. utf8_decode_next(s, 1).char = c /\ utf8_decode_next(s, 1).next = n + 2
    BY <1>4
  <2> QED BY <1>5, <2>1, Zenon DEF AsciiStep
<1> QED BY <1>3, <1>6, <1>7, <1>8, Zenon DEF c

\* A set that has the empty sequence, and with a sequence all those with an
\* element more in front, has all sequences.
LEMMA SequenceInduction ==
    ASSUME NEW S, NEW P, << >> \in P,
           \A x \in S, s \in Seq(S) : s \in P => <<x>> \o s \in P
    PROVE  Seq(S) \subseteq P
<1> DEFINE Bad == {n \in Nat : \E s \in Seq(S) : Len(s) = n /\ s \notin P}
<1>1. ASSUME Bad # {} PROVE FALSE
  <2>1. PICK n \in Bad : \A m \in Bad : n <= m
    <3>1. Bad \subseteq Nat
      OBVIOUS
    <3> HIDE DEF Bad
    <3> QED BY <1>1, <3>1, Least
  <2>2. PICK s \in Seq(S) : Len(s) = n /\ s \notin P
    BY <2>1
  <2>3. s # << >>
    BY <2>2
  <2>4. /\ s[1] \in S /\ Tail(s) \in Seq(S) /\ Len(Tail(s)) = n - 1
        /\ \A i \in 1 .. n - 1 : Tail(s)[i] = s[i + 1]
    BY <2>2, <2>3, HeadTailProperties
  <2> DEFINE x == s[1]
             r == Tail(s)
  <2>5. s = <<x>> \o r
    <3>1. /\ <<x>> \o r \in Seq(S) /\ Len(<<x>> \o r) = n
          /\ \A i \in 1 .. n : (<<x>> \o r)[i] = s[i]
      <4>1. n \in Nat /\ 1 \in 1 .. n
        BY <2>2, <2>3
      <4>2. <<x>> \in Seq(S) /\ Len(<<x>>) = 1 /\ <<x>>[1] = x
        BY <2>4
      <4>3. /\ <<x>> \o r \in Seq(S) /\ Len(<<x>> \o r) = 1 + (n - 1)
            /\ \A i \in 1 .. 1 + (n - 1) : (<<x>> \o r)[i] = IF i <= 1 THEN <<x>>[i] ELSE r[i - 1]
        BY <2>4, <4>2, ConcatProperties
      <4> HIDE DEF r
      <4>4. \A i \in 1 .. n : (<<x>> \o r)[i] = s[i]
        <5> SUFFICES ASSUME NEW i \in 1 .. n PROVE (<<x>> \o r)[i] = s[i]
          OBVIOUS
        <5>1. CASE i = 1
          BY <4>1, <4>2, <4>3, <5>1
        <5>2. CASE i # 1
          <6>1. i \in 1 .. 1 + (n - 1) /\ ~(i <= 1) /\ i - 1 \in 1 .. n - 1 /\ (i - 1) + 1 = i
            BY <4>1, <5>2
          <6>2. r[i - 1] = s[i]
            BY <2>4, <6>1 DEF r
          <6> QED BY <4>3, <6>1, <6>2
        <5> QED BY <5>1, <5>2
      <4>5. 1 + (n - 1) = n
        BY <4>1
      <4> QED BY <4>3, <4>4, <4>5
    <3> QED BY <2>2, <3>1, SeqEqual
  <2>6. n \in Nat /\ n - 1 \in Nat /\ ~(n <= n - 1)
    BY <2>1, <2>2, <2>3
  <2>7. r \in P
    BY <2>1, <2>4, <2>6
  <2> HIDE DEF x, r
  <2>8. x \in S /\ r \in Seq(S)
    BY <2>4 DEF x, r
  <2> QED BY <2>2, <2>5, <2>7, <2>8
<1>2. \A s \in Seq(S) : Len(s) \in Nat
  OBVIOUS
<1> QED BY <1>1, <1>2

LEMMA RewrittenOutcome ==
    /\ Rewritten \subseteq Outcome
    /\ \A y \in Seq(Byte) : utf82ascii(y) \in Rewritten
<1>1. Seq(Ascii) \subseteq Seq(Byte)
  BY DEF Ascii, Byte
<1>2. ASSUME NEW y \in Seq(Byte) PROVE utf82ascii(y) \in Rewritten
  <2>1. 1 \in 1 .. Len(y) + 1
    BY LenProperties
  <2> QED BY <2>1, AsciiLaw
<1> QED BY <1>1, <1>2 DEF Rewritten, Outcome

LEMMA JoinAssociative ==
    ASSUME NEW s \in Seq(Byte), NEW t \in Seq(Byte), NEW r \in Outcome
    PROVE  Join(s, Join(t, r)) = Join(s \o t, r) /\ Join(<< >>, r) = r
<1>1. s \o t \in Seq(Byte) /\ << >> \in Seq(Byte)
  OBVIOUS
<1>2. CASE r = Failed
  BY <1>1, <1>2, JoinLaw
<1>3. CASE r \in Seq(Byte)
  <2>1. /\ Join(t, r) = t \o r /\ t \o r \in Seq(Byte) /\ Join(s, t \o r) = s \o (t \o r)
        /\ Join(s \o t, r) = (s \o t) \o r /\ Join(<< >>, r) = << >> \o r
    BY <1>1, <1>3, JoinLaw
  <2> QED BY <1>3, <2>1, ConcatAssociative, ConcatEmptySeq
<1> QED BY <1>2, <1>3 DEF Outcome

\* ASCII stays what it is.
LEMMA AsciiOfByte ==
    ASSUME NEW b \in Ascii, NEW y \in Seq(Byte)
    PROVE  utf82ascii(<<b>> \o y) = Join(<<b>>, utf82ascii(y))
<1> DEFINE w == <<b>>
<1>1. b \in Byte /\ b \in Int /\ 0 <= b /\ b < 128 /\ b \in 0 .. 127
  BY DEF Ascii, Byte
<1>2. w \in Seq(Byte) /\ Len(w) = 0 + 1 /\ w[1] = b /\ w # << >>
  BY <1>1
<1> HIDE DEF w
<1>3. CharAt(w, 1, 0)
  BY <1>1, <1>2, SMT DEF CharAt
<1>4. utf8_decode_next(w, 1).char = b
  <2>1. 0 = Announced(w[1]) /\ cont(w, 1, 0) /\ Legal(0, Payload(w, 1, 0))
    BY <1>2, <1>3, TableDecoded
  <2>2. Payload(w, 1, 0) = b
    BY <1>2, SMT DEF Payload
  <2>3. ~(1 > Len(w)) /\ 0 < 4
    BY <1>2
  <2>4. utf8_decode_next(w, 1) = [char |-> Payload(w, 1, 0), next |-> 1 + 0 + 1]
    BY <2>1, <2>3, Zenon DEF utf8_decode_next
  <2> QED BY <2>2, <2>4
<1>5. EscapeChar(b) = <<b>>
  BY <1>1, SMT DEF EscapeChar
<1>6. utf82ascii(w \o y) = Join(EscapeChar(b), utf82ascii(y))
  BY <1>2, <1>3, <1>4, AsciiOfChar
<1> QED BY <1>5, <1>6 DEF w

LEMMA AsciiOfAscii ==
    ASSUME NEW w \in Seq(Ascii), NEW y \in Seq(Byte)
    PROVE  utf82ascii(w \o y) = Join(w, utf82ascii(y))
<1> DEFINE P == {v \in Seq(Ascii) : utf82ascii(v \o y) = Join(v, utf82ascii(y))}
<1>1. utf82ascii(y) \in Outcome
  BY RewrittenOutcome
<1>2. \A v \in Seq(Ascii) : v \in Seq(Byte)
  BY DEF Ascii, Byte
<1>3. << >> \in P
  <2>1. << >> \o y = y /\ << >> \in Seq(Ascii) /\ << >> \in Seq(Byte)
    BY ConcatEmptySeq
  <2>2. Join(<< >>, utf82ascii(y)) = utf82ascii(y)
    BY <1>1, <2>1, JoinAssociative
  <2> QED BY <2>1, <2>2
<1>4. ASSUME NEW x \in Ascii, NEW s \in Seq(Ascii), s \in P PROVE <<x>> \o s \in P
  <2> DEFINE h == <<x>>
  <2>1. h \in Seq(Ascii) /\ h \o s \in Seq(Ascii)
    OBVIOUS
  <2>2. utf82ascii(h \o (s \o y)) = Join(h, utf82ascii(s \o y))
    <3>1. s \o y \in Seq(Byte)
      BY <1>2
    <3> QED BY <3>1, AsciiOfByte
  <2> HIDE DEF h
  <2>3. (h \o s) \o y = h \o (s \o y)
    BY <1>2, <2>1, ConcatAssociative
  <2>4. utf82ascii(s \o y) = Join(s, utf82ascii(y))
    BY <1>4
  <2>5. Join(h, Join(s, utf82ascii(y))) = Join(h \o s, utf82ascii(y))
    BY <1>1, <1>2, <2>1, JoinAssociative
  <2>6. h \o s \in P
    BY <2>1, <2>2, <2>3, <2>4, <2>5
  <2> QED BY <2>6 DEF h
<1> HIDE DEF P
<1>5. Seq(Ascii) \subseteq P
  BY <1>3, <1>4, SequenceInduction
<1> QED BY <1>5 DEF P

\* What is no character makes the whole text refused.
LEMMA AsciiOfError ==
    ASSUME NEW s \in Seq(Byte), s # << >>, \A n \in 0 .. 3 : ~CharAt(s, 1, n)
    PROVE  utf82ascii(s) = Failed
<1>1. utf8_decode_next(s, 1).char = UTF8_ERROR
  BY DecodeFirst, Zenon
<1>2. 1 \in 1 .. Len(s) + 1
  BY LenProperties
<1>3. utf82ascii(s) = AsciiStep(s, 1, AsciiFrom(s))
  BY <1>2, AsciiLaw
<1>4. UTF8_ERROR # UTF8_END
  BY DEF UTF8_ERROR, UTF8_END
<1> QED BY <1>1, <1>3, <1>4, Zenon DEF AsciiStep

LEMMA AsciiOfNothing == utf82ascii(<< >>) = << >>
<1> DEFINE s == << >>
<1>1. s \in Seq(Byte) /\ Len(s) = 0 /\ 1 \in 1 .. Len(s) + 1
  OBVIOUS
<1> HIDE DEF s
<1>2. utf82ascii(s) = AsciiStep(s, 1, AsciiFrom(s))
  BY <1>1, AsciiLaw
<1>3. utf8_decode_next(s, 1) = [char |-> UTF8_END, next |-> 1]
  <2>1. 1 > Len(s)
    BY <1>1
  <2> QED BY <2>1, Zenon DEF utf8_decode_next
<1>4. utf8_decode_next(s, 1).char = UTF8_END
  BY <1>3
<1>5. utf82ascii(s) = << >>
  BY <1>2, <1>4, Zenon DEF AsciiStep
<1> QED BY <1>5 DEF s

-----------------------------------------------------------------------------
(* print_string_ptr.                                                       *)

\* The letters of the escapes, and the bytes that have one.
LEMMA Letters ==
    /\ DOMAIN Letter \subseteq Ascii /\ DOMAIN Unescape \subseteq Ascii /\ 117 \notin DOMAIN Unescape
    /\ \A l \in DOMAIN Letter : l \in DOMAIN Unescape /\ Unescape[l] = Letter[l]
    /\ \A l \in {Quote, Backslash} : l \in DOMAIN Unescape /\ Unescape[l] = l
    /\ \A l \in DOMAIN Unescape : Unescape[l] \in Byte
<1>1. DOMAIN Letter = {98, 102, 110, 114, 116}
  BY DEF Letter
<1>2. \A l \in DOMAIN Letter : Letter[l] \in Byte
  BY SMT DEF Letter, Byte
<1>3. DOMAIN Unescape = DOMAIN Letter \cup {34, 92, 47}
  BY DEF Unescape, Quote, Backslash
<1>4. \A l \in DOMAIN Unescape : Unescape[l] = IF l \in DOMAIN Letter THEN Letter[l] ELSE l
  BY DEF Unescape
<1>5. \A l \in {98, 102, 110, 114, 116, 34, 92, 47} : l \in Ascii /\ l # 117
  BY SMT DEF Ascii
<1>6. {34, 92, 47} \cap {98, 102, 110, 114, 116} = {} /\ {34, 92, 47} \subseteq Byte
  BY SMT DEF Byte
<1>7. \A l \in DOMAIN Unescape : Unescape[l] \in Byte
  BY <1>2, <1>3, <1>4, <1>6
<1>8. \A l \in {Quote, Backslash} : l \in DOMAIN Unescape /\ Unescape[l] = l
  <2>1. {Quote, Backslash} \subseteq {34, 92, 47}
    BY DEF Quote, Backslash
  <2> QED BY <1>1, <1>3, <1>4, <1>6, <2>1
<1> QED BY <1>1, <1>3, <1>4, <1>5, <1>7, <1>8

\* A byte is printed as it is, as its letter behind a backslash, or by its number.
LEMMA PrintedByte ==
    ASSUME NEW b \in Byte
    PROVE  \/ b > 31 /\ b \notin {Quote, Backslash} /\ PrintByte(b) = <<b>>
           \/ \E l \in DOMAIN Unescape : /\ b < 128 /\ Unescape[l] = b
                                         /\ PrintByte(b) = <<Backslash, l>>
           \/ b <= 31 /\ PrintByte(b) = Escape(b)
<1>1. b \in Int /\ 0 <= b
  BY ByteBounds
<1>2. CASE b > 31 /\ b \notin {Quote, Backslash}
  BY <1>2, Zenon DEF PrintByte
<1>3. CASE b \in {Quote, Backslash}
  <2>1. PrintByte(b) = <<Backslash, b>>
    BY <1>3, Zenon DEF PrintByte
  <2>2. b < 128
    BY <1>3 DEF Quote, Backslash
  <2>3. b \in DOMAIN Unescape /\ Unescape[b] = b
    BY <1>3, Letters
  <2> QED BY <2>1, <2>2, <2>3
<1>4. CASE ~(b > 31) /\ b \notin {Quote, Backslash}
  <2>1. CASE \E l \in DOMAIN Letter : Letter[l] = b
    <3> DEFINE l == CHOOSE l \in DOMAIN Letter : Letter[l] = b
    <3>1. l \in DOMAIN Letter /\ Letter[l] = b
      BY <2>1
    <3>2. PrintByte(b) = <<Backslash, l>>
      BY <1>4, <2>1, Zenon DEF PrintByte
    <3>3. l \in DOMAIN Unescape /\ Unescape[l] = b
      BY <3>1, Letters
    <3>4. b < 128
      BY <1>1, <1>4
    <3> HIDE DEF l
    <3> QED BY <3>2, <3>3, <3>4
  <2>2. CASE ~\E l \in DOMAIN Letter : Letter[l] = b
    <3>1. PrintByte(b) = Escape(b)
      BY <1>4, <2>2, Zenon DEF PrintByte
    <3>2. b <= 31
      BY <1>1, <1>4
    <3> QED BY <3>1, <3>2
  <2> QED BY <2>1, <2>2
<1> QED BY <1>2, <1>3, <1>4

\* What is printed for a byte is ASCII, or the byte.
LEMMA PrintByteTyped ==
    ASSUME NEW b \in Byte
    PROVE  /\ PrintByte(b) \in Seq(Byte)
           /\ b < 128 => PrintByte(b) \in Seq(Ascii)
           /\ b >= 128 => PrintByte(b) = <<b>>
<1>1. b \in Int /\ 0 <= b /\ b <= 255
  BY ByteBounds
<1>2. \A s \in Seq(Ascii) : s \in Seq(Byte)
  BY DEF Ascii, Byte
<1>3. CASE PrintByte(b) = <<b>>
  <2>1. b < 128 => b \in Ascii
    BY <1>1, SMT DEF Ascii
  <2> QED BY <1>3, <2>1
<1>4. CASE \E l \in DOMAIN Unescape : b < 128 /\ Unescape[l] = b /\ PrintByte(b) = <<Backslash, l>>
  <2>1. PICK l \in DOMAIN Unescape : b < 128 /\ PrintByte(b) = <<Backslash, l>>
    BY <1>4
  <2>2. l \in Ascii /\ Backslash \in Ascii
    BY Letters DEF Ascii, Backslash
  <2>3. <<Backslash, l>> \in Seq(Ascii)
    BY <2>2
  <2>4. PrintByte(b) \in Seq(Ascii) /\ PrintByte(b) \in Seq(Byte)
    BY <1>2, <2>1, <2>3
  <2>5. ~(b >= 128)
    BY <1>1, <2>1
  <2> QED BY <2>4, <2>5
<1>5. CASE b <= 31 /\ PrintByte(b) = Escape(b)
  <2>1. b \in Unit
    BY <1>1, <1>5, UnitRange
  <2>2. Escape(b) \in Seq(Ascii) /\ ~(b >= 128)
    BY <1>1, <1>5, <2>1, EscapeBytes
  <2> QED BY <1>2, <1>5, <2>2
<1> QED BY <1>3, <1>4, <1>5, PrintedByte

\* The function behind print_string_ptr, and one step of it.
PrintStep(s, i, f) == IF i > Len(s) THEN <<Quote>> ELSE PrintByte(s[i]) \o f[i + 1]

PrintFrom(s) == CHOOSE f : f = [i \in 1 .. Len(s) + 1 |-> PrintStep(s, i, f)]

LEMMA PrintStepTyped ==
    ASSUME NEW s \in Seq(Byte), NEW i \in 1 .. Len(s) + 1, NEW f,
           \A j \in i + 1 .. Len(s) + 1 : f[j] \in Seq(Byte)
    PROVE  PrintStep(s, i, f) \in Seq(Byte)
<1>1. CASE i > Len(s)
  <2>1. <<Quote>> \in Seq(Byte)
    BY DEF Quote, Byte
  <2> QED BY <1>1, <2>1 DEF PrintStep
<1>2. CASE ~(i > Len(s))
  <2>1. s[i] \in Byte /\ i + 1 \in i + 1 .. Len(s) + 1
    BY <1>2
  <2>2. PrintByte(s[i]) \in Seq(Byte) /\ f[i + 1] \in Seq(Byte)
    BY <2>1, PrintByteTyped
  <2>3. PrintByte(s[i]) \o f[i + 1] \in Seq(Byte)
    BY <2>2, ConcatProperties
  <2> QED BY <1>2, <2>3 DEF PrintStep
<1> QED BY <1>1, <1>2

LEMMA PrintLaw ==
    ASSUME NEW s \in Seq(Byte)
    PROVE  /\ print_string_ptr(s) = PrintFrom(s)[1]
           /\ \A i \in 1 .. Len(s) + 1 :
                 /\ PrintFrom(s)[i] = PrintStep(s, i, PrintFrom(s))
                 /\ PrintFrom(s)[i] \in Seq(Byte)
<1> DEFINE N == Len(s) + 1
           D == 1 .. N
           F == [D -> Seq(Byte)]
           H == [x \in D \X F |-> PrintStep(s, x[1], x[2])]
           G == PrintFrom(s)
<1>1. N \in Nat /\ Len(s) \in Nat /\ \A i \in D : i + 1 .. N \subseteq D
  OBVIOUS
<1>2. \A i \in D, f \in F : PrintStep(s, i, f) \in Seq(Byte)
  <2> SUFFICES ASSUME NEW i \in D, NEW f \in F PROVE PrintStep(s, i, f) \in Seq(Byte)
    OBVIOUS
  <2>1. \A j \in i + 1 .. N : f[j] \in Seq(Byte)
    BY <1>1
  <2> QED BY <2>1, PrintStepTyped
<1>3. \A i \in D, f \in F : H[<<i, f>>] = PrintStep(s, i, f)
  OBVIOUS
<1>4. H \in [D \X F -> Seq(Byte)]
  BY <1>2
<1>5. \A i \in D : \A f, g \in F : (\A j \in i + 1 .. N : f[j] = g[j]) => H[<<i, f>>] = H[<<i, g>>]
  <2> SUFFICES ASSUME NEW i \in D, NEW f \in F, NEW g \in F, \A j \in i + 1 .. N : f[j] = g[j]
               PROVE  PrintStep(s, i, f) = PrintStep(s, i, g)
    BY <1>3
  <2>1. i > Len(s) \/ i + 1 \in i + 1 .. N
    BY <1>1
  <2> QED BY <2>1, Zenon DEF PrintStep
<1>6. PICK f \in F : \A i \in D : f[i] = PrintStep(s, i, f)
  <2> HIDE DEF H
  <2>1. << >> \in Seq(Byte)
    OBVIOUS
  <2>2. \E f \in F : \A i \in D : f[i] = H[<<i, f>>]
    <3>1. Defines(N, Seq(Byte), H)
      BY <1>4, <1>5, Zenon DEF Defines
    <3> QED BY <1>1, <2>1, <3>1, Recursion
  <2> QED BY <1>3, <2>2
<1>7. f = [i \in D |-> PrintStep(s, i, f)]
  BY <1>6
<1>8. G = [i \in D |-> PrintStep(s, i, G)]
  BY <1>7, Zenon DEF PrintFrom
<1> HIDE DEF G
<1>9. \A i \in D : G[i] = PrintStep(s, i, G)
  BY <1>8
<1>10. \A i \in D : G[i] \in Seq(Byte)
  <2> DEFINE T == {i \in D : G[i] \in Seq(Byte)}
  <2>1. \A i \in D : (\A j \in i + 1 .. N : j \in T) => i \in T
    BY <1>9, PrintStepTyped
  <2> HIDE DEF T
  <2>2. \A i \in D : i \in T
    BY <1>1, <2>1, Downwards
  <2> QED BY <2>2 DEF T
<1>11. print_string_ptr(s) = G[1]
  BY Zenon DEF print_string_ptr, PrintFrom, PrintStep, G
<1> QED BY <1>9, <1>10, <1>11 DEF G

LEMMA PrintShift ==
    ASSUME NEW u \in Seq(Byte), NEW v \in Seq(Byte)
    PROVE  \A i \in 1 .. Len(v) + 1 : PrintFrom(u \o v)[Len(u) + i] = PrintFrom(v)[i]
<1> DEFINE s == u \o v
           k == Len(u)
           N == Len(v) + 1
           G == PrintFrom(s)
           J == PrintFrom(v)
           T == {i \in 1 .. N : G[k + i] = J[i]}
<1>1. /\ s \in Seq(Byte) /\ Len(s) = k + Len(v) /\ k \in Nat /\ Len(v) \in Nat /\ N \in Nat
      /\ \A i \in 1 .. Len(v) : s[k + i] = v[i]
      /\ \A i \in 1 .. N : k + i \in 1 .. Len(s) + 1
  <2>1. /\ s \in Seq(Byte) /\ Len(s) = k + Len(v) /\ k \in Nat /\ Len(v) \in Nat
        /\ \A i \in 1 .. Len(v) : s[k + i] = v[i]
    BY Parts
  <2> HIDE DEF s, k
  <2> QED BY <2>1
<1>2. \A i \in 1 .. N : G[k + i] = PrintStep(s, k + i, G) /\ J[i] = PrintStep(v, i, J)
  BY <1>1, PrintLaw
<1>3. ASSUME NEW i \in 1 .. N, \A j \in i + 1 .. N : j \in T PROVE i \in T
  <2>1. CASE i > Len(v)
    <3>1. k + i > Len(s)
      BY <1>1, <2>1
    <3>2. PrintStep(s, k + i, G) = PrintStep(v, i, J)
      BY <2>1, <3>1, Zenon DEF PrintStep
    <3> QED BY <1>2, <3>2
  <2>2. CASE ~(i > Len(v))
    <3>1. ~(k + i > Len(s)) /\ s[k + i] = v[i] /\ (k + i) + 1 = k + (i + 1) /\ i + 1 \in i + 1 .. N
      BY <1>1, <2>2
    <3>2. G[(k + i) + 1] = J[i + 1]
      BY <1>3, <3>1
    <3>3. PrintStep(s, k + i, G) = PrintStep(v, i, J)
      BY <2>2, <3>1, <3>2, Zenon DEF PrintStep
    <3> QED BY <1>2, <3>3
  <2> QED BY <2>1, <2>2
<1> HIDE DEF T
<1>4. \A i \in 1 .. N : i \in T
  BY <1>1, <1>3, Downwards
<1> QED BY <1>4 DEF T

LEMMA PrintOfByte ==
    ASSUME NEW b \in Byte, NEW y \in Seq(Byte)
    PROVE  /\ print_string_ptr(<<b>> \o y) = PrintByte(b) \o print_string_ptr(y)
           /\ print_string_ptr(y) \in Seq(Byte)
<1> DEFINE w == <<b>>
           s == w \o y
           G == PrintFrom(s)
<1>1. w \in Seq(Byte) /\ Len(w) = 1 /\ w[1] = b
  OBVIOUS
<1> HIDE DEF w
<1>2. s \in Seq(Byte) /\ Len(s) = 1 + Len(y) /\ Len(y) \in Nat /\ s[1] = b
  <2>1. s \in Seq(Byte) /\ Len(s) = Len(w) + Len(y) /\ Len(y) \in Nat /\ \A j \in 1 .. Len(w) : s[j] = w[j]
    BY <1>1, Parts
  <2> HIDE DEF s
  <2> QED BY <1>1, <2>1
<1>3. 1 \in 1 .. Len(s) + 1 /\ 1 \in 1 .. Len(y) + 1 /\ ~(1 > Len(s))
  BY <1>2
<1>4. /\ print_string_ptr(s) = PrintStep(s, 1, G)
      /\ print_string_ptr(y) = PrintFrom(y)[1] /\ PrintFrom(y)[1] \in Seq(Byte)
  BY <1>2, <1>3, PrintLaw
<1>5. G[1 + 1] = PrintFrom(y)[1]
  BY <1>1, <1>3, PrintShift
<1>6. PrintStep(s, 1, G) = PrintByte(b) \o G[1 + 1]
  BY <1>2, <1>3, Zenon DEF PrintStep
<1> QED BY <1>4, <1>5, <1>6 DEF w

LEMMA PrintOfNothing == print_string_ptr(<< >>) = <<Quote>>
<1> DEFINE s == << >>
<1>1. s \in Seq(Byte) /\ Len(s) = 0 /\ 1 \in 1 .. Len(s) + 1
  OBVIOUS
<1> HIDE DEF s
<1>2. print_string_ptr(s) = PrintStep(s, 1, PrintFrom(s))
  BY <1>1, PrintLaw
<1>3. 1 > Len(s)
  BY <1>1
<1>4. print_string_ptr(s) = <<Quote>>
  BY <1>2, <1>3, Zenon DEF PrintStep
<1> QED BY <1>4 DEF s

-----------------------------------------------------------------------------
(* The closing quote.                                                      *)

\* The function behind ClosingQuote, and one step of it.
ClosingStep(s, i, f) ==
    IF i > Len(s) THEN 0
    ELSE IF s[i] = Quote THEN i
    ELSE IF s[i] = Backslash THEN f[i + 2] ELSE f[i + 1]

ClosingFrom(s) == CHOOSE f : f = [i \in 1 .. Len(s) + 2 |-> ClosingStep(s, i, f)]

LEMMA ClosingLaw ==
    ASSUME NEW s \in Seq(Byte)
    PROVE  /\ ClosingQuote(s) = ClosingFrom(s)[1]
           /\ \A i \in 1 .. Len(s) + 2 :
                 /\ ClosingFrom(s)[i] = ClosingStep(s, i, ClosingFrom(s))
                 /\ ClosingFrom(s)[i] \in 0 .. Len(s)
<1> DEFINE N == Len(s) + 2
           D == 1 .. N
           S == 0 .. Len(s)
           F == [D -> S]
           H == [x \in D \X F |-> ClosingStep(s, x[1], x[2])]
           G == ClosingFrom(s)
<1>1. /\ N \in Nat /\ Len(s) \in Nat /\ 0 \in S
      /\ \A i \in D : i > Len(s) \/ (i \in S /\ i + 1 \in i + 1 .. N /\ i + 2 \in i + 1 .. N)
      /\ \A i \in D : i + 1 .. N \subseteq D
  OBVIOUS
<1>2. ASSUME NEW i \in D, NEW f, \A j \in i + 1 .. N : f[j] \in S PROVE ClosingStep(s, i, f) \in S
  BY <1>1, <1>2, Zenon DEF ClosingStep
<1>3. \A i \in D, f \in F : H[<<i, f>>] = ClosingStep(s, i, f)
  OBVIOUS
<1>4. H \in [D \X F -> S]
  <2>1. \A i \in D, f \in F : ClosingStep(s, i, f) \in S
    <3> SUFFICES ASSUME NEW i \in D, NEW f \in F PROVE ClosingStep(s, i, f) \in S
      OBVIOUS
    <3>1. \A j \in i + 1 .. N : f[j] \in S
      BY <1>1
    <3> QED BY <1>2, <3>1
  <2> HIDE DEF S
  <2> QED BY <2>1
<1>5. \A i \in D : \A f, g \in F : (\A j \in i + 1 .. N : f[j] = g[j]) => H[<<i, f>>] = H[<<i, g>>]
  <2> SUFFICES ASSUME NEW i \in D, NEW f \in F, NEW g \in F, \A j \in i + 1 .. N : f[j] = g[j]
               PROVE  ClosingStep(s, i, f) = ClosingStep(s, i, g)
    BY <1>3
  <2>1. i > Len(s) \/ (f[i + 1] = g[i + 1] /\ f[i + 2] = g[i + 2])
    BY <1>1
  <2> QED BY <2>1, Zenon DEF ClosingStep
<1>6. PICK f \in F : \A i \in D : f[i] = ClosingStep(s, i, f)
  <2> HIDE DEF H, S
  <2>1. \E f \in F : \A i \in D : f[i] = H[<<i, f>>]
    <3>1. Defines(N, S, H)
      BY <1>4, <1>5, Zenon DEF Defines
    <3> QED BY <1>1, <3>1, Recursion
  <2> QED BY <1>3, <2>1
<1>7. f = [i \in D |-> ClosingStep(s, i, f)]
  BY <1>6
<1>8. G = [i \in D |-> ClosingStep(s, i, G)]
  BY <1>7, Zenon DEF ClosingFrom
<1> HIDE DEF G, S
<1>9. \A i \in D : G[i] = ClosingStep(s, i, G)
  BY <1>8
<1>10. \A i \in D : G[i] \in S
  <2> DEFINE T == {i \in D : G[i] \in S}
  <2>1. \A i \in D : (\A j \in i + 1 .. N : j \in T) => i \in T
    BY <1>2, <1>9
  <2> HIDE DEF T
  <2>2. \A i \in D : i \in T
    BY <1>1, <2>1, Downwards
  <2> QED BY <2>2 DEF T
<1>11. ClosingQuote(s) = G[1]
  BY Zenon DEF ClosingQuote, ClosingFrom, ClosingStep, G
<1> QED BY <1>9, <1>10, <1>11 DEF G, S

\* How the search goes on behind a byte.
LEMMA ClosingOver ==
    ASSUME NEW s \in Seq(Byte), NEW i \in 1 .. Len(s), s[i] # Quote
    PROVE  ClosingFrom(s)[i] = ClosingFrom(s)[IF s[i] = Backslash THEN i + 2 ELSE i + 1]
<1>1. i \in 1 .. Len(s) + 2 /\ ~(i > Len(s))
  OBVIOUS
<1>2. ClosingFrom(s)[i] = ClosingStep(s, i, ClosingFrom(s))
  BY <1>1, ClosingLaw
<1> QED BY <1>1, <1>2, Zenon DEF ClosingStep

\* What is in front moves the closing quote.
LEMMA ClosingShift ==
    ASSUME NEW u \in Seq(Byte), NEW v \in Seq(Byte)
    PROVE  \A i \in 1 .. Len(v) + 2 :
              ClosingFrom(u \o v)[Len(u) + i] =
                  IF ClosingFrom(v)[i] = 0 THEN 0 ELSE Len(u) + ClosingFrom(v)[i]
<1> DEFINE s == u \o v
           k == Len(u)
           N == Len(v) + 2
           G == ClosingFrom(s)
           J == ClosingFrom(v)
           Moved(i) == G[k + i] = IF J[i] = 0 THEN 0 ELSE k + J[i]
           T == {i \in 1 .. N : Moved(i)}
<1>1. /\ s \in Seq(Byte) /\ Len(s) = k + Len(v) /\ k \in Nat /\ Len(v) \in Nat /\ N \in Nat
      /\ \A i \in 1 .. Len(v) : s[k + i] = v[i]
      /\ \A i \in 1 .. N : k + i \in 1 .. Len(s) + 2
  <2>1. /\ s \in Seq(Byte) /\ Len(s) = k + Len(v) /\ k \in Nat /\ Len(v) \in Nat
        /\ \A i \in 1 .. Len(v) : s[k + i] = v[i]
    BY Parts
  <2> HIDE DEF s, k
  <2> QED BY <2>1
<1>2. \A i \in 1 .. N : G[k + i] = ClosingStep(s, k + i, G) /\ J[i] = ClosingStep(v, i, J)
  BY <1>1, ClosingLaw
<1>3. ASSUME NEW i \in 1 .. N, \A j \in i + 1 .. N : j \in T PROVE i \in T
  <2>1. CASE i > Len(v)
    <3>1. k + i > Len(s)
      BY <1>1, <2>1
    <3>2. ClosingStep(s, k + i, G) = 0 /\ ClosingStep(v, i, J) = 0
      BY <2>1, <3>1, Zenon DEF ClosingStep
    <3> HIDE DEF s, k, G, J
    <3> QED BY <1>2, <3>2
  <2>2. CASE ~(i > Len(v))
    <3>1. /\ ~(k + i > Len(s)) /\ s[k + i] = v[i] /\ i # 0
          /\ (k + i) + 1 = k + (i + 1) /\ i + 1 \in i + 1 .. N
          /\ (k + i) + 2 = k + (i + 2) /\ i + 2 \in i + 1 .. N
      BY <1>1, <2>2
    <3>2. Moved(i + 1) /\ Moved(i + 2)
      BY <1>3, <3>1
    <3>3. G[k + i] = IF v[i] = Quote THEN k + i ELSE IF v[i] = Backslash THEN G[(k + i) + 2] ELSE G[(k + i) + 1]
      BY <1>2, <3>1, Zenon DEF ClosingStep
    <3>4. J[i] = IF v[i] = Quote THEN i ELSE IF v[i] = Backslash THEN J[i + 2] ELSE J[i + 1]
      BY <1>2, <2>2, Zenon DEF ClosingStep
    <3> HIDE DEF s, k, G, J
    <3>5. CASE v[i] = Quote
      BY <3>1, <3>3, <3>4, <3>5
    <3>6. CASE v[i] # Quote /\ v[i] = Backslash
      BY <3>1, <3>2, <3>3, <3>4, <3>6
    <3>7. CASE v[i] # Quote /\ v[i] # Backslash
      BY <3>1, <3>2, <3>3, <3>4, <3>7
    <3> QED BY <3>5, <3>6, <3>7
  <2> QED BY <2>1, <2>2
<1> HIDE DEF T
<1>4. \A i \in 1 .. N : i \in T
  BY <1>1, <1>3, Downwards
<1> QED BY <1>4 DEF T

-----------------------------------------------------------------------------
(* parse_string.                                                           *)

\* The value of four digits, the halves of a pair, and the character a pair stands for.
HexValue(a, b, c, d) ==
    HexDigit(a) * 4096 + HexDigit(b) * 256 + HexDigit(c) * 16 + HexDigit(d)
NoDigit(s, i) == \E x \in 0 .. 3 : HexDigit(s[i + x]) = Failed
IsHigh(unit) == Surrogate(unit, 55296)
IsLow(unit) == Surrogate(unit, 56320)
OfPair(high, low) == 65536 + (high % 1024) * 1024 + (low % 1024)

LEMMA HexLaw ==
    ASSUME NEW s, NEW i
    PROVE  parse_hex4(s, i) = IF NoDigit(s, i) THEN 0 ELSE HexValue(s[i], s[i + 1], s[i + 2], s[i + 3])
  BY SMT DEF parse_hex4, NoDigit, HexValue

\* The cases of an escape.
LEMMA EscapeLaw ==
    ASSUME NEW s, NEW i, NEW end
    PROVE  LET first == parse_hex4(s, i + 2)
               second == parse_hex4(s, i + 8)
           IN  utf16_literal_to_utf8(s, i, end) =
                  IF end - i < 6 \/ IsLow(first) THEN Failed
                  ELSE IF ~IsHigh(first) THEN [length |-> 6, bytes |-> utf8_encode(first)]
                  ELSE IF end - i < 12 \/ s[i + 6] # Backslash \/ s[i + 7] # 117 \/ ~IsLow(second) THEN Failed
                  ELSE [length |-> 12, bytes |-> utf8_encode(OfPair(first, second))]
  BY SMT DEF utf16_literal_to_utf8, IsLow, IsHigh, OfPair

\* Four digits stand for a unit, and only they matter.
LEMMA HexTyped ==
    ASSUME NEW s, NEW i \in Nat, \A x \in 0 .. 3 : s[i + x] \in Byte
    PROVE  parse_hex4(s, i) \in Unit
<1>1. \A b \in Byte : HexDigit(b) = Failed \/ HexDigit(b) \in 0 .. 15
  <2> SUFFICES ASSUME NEW b \in Byte PROVE HexDigit(b) = Failed \/ HexDigit(b) \in 0 .. 15
    OBVIOUS
  <2>1. b \in Int
    BY ByteBounds
  <2> QED BY <2>1, SMT DEF HexDigit
<1>2. CASE NoDigit(s, i)
  <2>1. parse_hex4(s, i) = 0
    BY <1>2, HexLaw
  <2> QED BY <2>1, UnitRange
<1>3. CASE ~NoDigit(s, i)
  <2> DEFINE a == HexDigit(s[i])
             b == HexDigit(s[i + 1])
             c == HexDigit(s[i + 2])
             d == HexDigit(s[i + 3])
  <2>1. \A x \in 0 .. 3 : HexDigit(s[i + x]) \in 0 .. 15
    BY <1>1, <1>3 DEF NoDigit
  <2>2. a \in 0 .. 15 /\ b \in 0 .. 15 /\ c \in 0 .. 15 /\ d \in 0 .. 15
    <3>1. HexDigit(s[i + 0]) \in 0 .. 15 /\ i + 0 = i
      BY <2>1
    <3> QED BY <2>1, <3>1
  <2>3. parse_hex4(s, i) = a * 4096 + b * 256 + c * 16 + d
    BY <1>3, HexLaw DEF HexValue
  <2> HIDE DEF a, b, c, d
  <2>4. parse_hex4(s, i) \in Int /\ 0 <= parse_hex4(s, i) /\ parse_hex4(s, i) <= 65535
    BY <2>2, <2>3, SMT
  <2> QED BY <2>4, UnitRange
<1> QED BY <1>2, <1>3

LEMMA SameHex ==
    ASSUME NEW s, NEW i \in Nat, NEW t, NEW j \in Nat, SameBytes(s, i, t, j, 3)
    PROVE  parse_hex4(s, i) = parse_hex4(t, j)
<1>1. s[i] = t[j] /\ s[i + 1] = t[j + 1] /\ s[i + 2] = t[j + 2] /\ s[i + 3] = t[j + 3]
  BY DEF SameBytes
<1>2. i + 0 = i /\ j + 0 = j /\ \A x \in 0 .. 3 : x = 0 \/ x = 1 \/ x = 2 \/ x = 3
  OBVIOUS
<1>3. \A x \in 0 .. 3 : s[i + x] = t[j + x]
  BY <1>1, <1>2
<1>4. NoDigit(s, i) = NoDigit(t, j)
  BY <1>3, Zenon DEF NoDigit
<1> QED BY <1>1, <1>4, HexLaw

\* The bytes of a character.
LEMMA EncodeTyped ==
    ASSUME NEW c \in Nat, c <= 1114111
    PROVE  utf8_encode(c) \in Seq(Byte)
<1>1. \A x \in Int : Continuation(x) \in Byte
  BY SMT DEF Continuation, Byte
<1>2. CASE c < 128
  <2>1. utf8_encode(c) = <<c>> /\ c \in Byte
    BY <1>2, SMT DEF utf8_encode, Byte
  <2> QED BY <2>1
<1>3. CASE ~(c < 128) /\ c < 2048
  <2>1. utf8_encode(c) = <<192 + c \div 64, Continuation(c)>>
    BY <1>3, SMT DEF utf8_encode
  <2>2. 192 + c \div 64 \in Byte
    BY <1>3, SMT DEF Byte
  <2>3. Continuation(c) \in Byte
    BY <1>1
  <2> QED BY <2>1, <2>2, <2>3
<1>4. CASE ~(c < 2048) /\ c < 65536
  <2>1. utf8_encode(c) = <<224 + c \div 4096, Continuation(c \div 64), Continuation(c)>>
    BY <1>4, SMT DEF utf8_encode
  <2>2. 224 + c \div 4096 \in Byte
    BY <1>4, SMT DEF Byte
  <2>3. Continuation(c) \in Byte /\ Continuation(c \div 64) \in Byte
    BY <1>1
  <2> QED BY <2>1, <2>2, <2>3
<1>5. CASE ~(c < 65536)
  <2>1. utf8_encode(c) = <<240 + c \div 262144, Continuation(c \div 4096), Continuation(c \div 64), Continuation(c)>>
    BY <1>5, SMT DEF utf8_encode
  <2>2. 240 + c \div 262144 \in Byte
    BY <1>5, SMT DEF Byte
  <2>3. Continuation(c) \in Byte /\ Continuation(c \div 64) \in Byte /\ Continuation(c \div 4096) \in Byte
    BY <1>1, SMT
  <2> QED BY <2>1, <2>2, <2>3, SMT
<1> QED BY <1>2, <1>3, <1>4, <1>5, SMT

\* An escape ends before the closing quote, and stands for bytes.
LEMMA EscapeTyped ==
    ASSUME NEW s \in Seq(Byte), NEW end \in 0 .. Len(s), NEW i \in 1 .. Len(s) + 1
    PROVE  LET e == utf16_literal_to_utf8(s, i, end)
           IN  \/ e = Failed
               \/ /\ e.bytes \in Seq(Byte) /\ i + e.length \in i + 1 .. end
<1> DEFINE first == parse_hex4(s, i + 2)
           second == parse_hex4(s, i + 8)
           pair == OfPair(first, second)
           e == utf16_literal_to_utf8(s, i, end)
<1>1. Len(s) \in Nat /\ i \in Nat /\ end \in Nat /\ end <= Len(s) /\ \A j \in 1 .. Len(s) : s[j] \in Byte
  OBVIOUS
<1>2. CASE e = Failed
  BY <1>2
<1>3. CASE e # Failed
  <2>1. ~(end - i < 6)
    BY <1>3, EscapeLaw, Zenon
  <2>2. first \in Unit
    <3>1. i + 2 \in Nat /\ \A x \in 0 .. 3 : (i + 2) + x \in 1 .. Len(s)
      BY <1>1, <2>1
    <3> QED BY <1>1, <3>1, HexTyped
  <2>3. CASE ~IsHigh(first)
    <3>1. e = [length |-> 6, bytes |-> utf8_encode(first)]
      BY <1>3, <2>3, EscapeLaw, Zenon
    <3>2. utf8_encode(first) \in Seq(Byte)
      <4>1. first \in Nat /\ first <= 1114111
        <5> HIDE DEF first
        <5> QED BY <2>2, SMT DEF Unit
      <4> QED BY <4>1, EncodeTyped
    <3>3. i + 6 \in i + 1 .. end
      BY <1>1, <2>1
    <3> HIDE DEF e, first
    <3>4. e.length = 6 /\ e.bytes = utf8_encode(first)
      BY <3>1
    <3> QED BY <3>2, <3>3, <3>4, Zenon DEF e
  <2>4. CASE IsHigh(first)
    <3>1. ~(end - i < 12)
      BY <1>3, <2>4, EscapeLaw, Zenon
    <3>2. second \in Unit
      <4>1. i + 8 \in Nat /\ \A x \in 0 .. 3 : (i + 8) + x \in 1 .. Len(s)
        BY <1>1, <3>1
      <4> QED BY <1>1, <4>1, HexTyped
    <3>3. e = [length |-> 12, bytes |-> utf8_encode(pair)]
      BY <1>3, <2>4, EscapeLaw, Zenon
    <3>4. utf8_encode(pair) \in Seq(Byte)
      <4>1. pair \in Nat /\ pair <= 1114111
        <5> HIDE DEF first, second
        <5>1. first \in Int /\ second \in Int
          BY <2>2, <3>2, SMT DEF Unit
        <5> QED BY <5>1, SMT DEF OfPair
      <4> HIDE DEF pair
      <4> QED BY <4>1, EncodeTyped
    <3>5. i + 12 \in i + 1 .. end
      BY <1>1, <3>1
    <3> HIDE DEF e, pair
    <3>6. e.length = 12 /\ e.bytes = utf8_encode(pair)
      BY <3>3
    <3> QED BY <3>4, <3>5, <3>6, Zenon DEF e
  <2> QED BY <2>3, <2>4
<1> QED BY <1>2, <1>3

\* The function behind parse_string, and one step of it.
ParseStep(s, end, i, f) ==
    LET escaped == utf16_literal_to_utf8(s, i, end)
    IN  IF i >= end THEN << >>
        ELSE IF s[i] # Backslash THEN Join(<<s[i]>>, f[i + 1])
        ELSE IF s[i + 1] \in DOMAIN Unescape THEN Join(<<Unescape[s[i + 1]]>>, f[i + 2])
        ELSE IF s[i + 1] # 117 \/ escaped = Failed THEN Failed
        ELSE Join(escaped.bytes, f[i + escaped.length])

ParseFrom(s) == CHOOSE f : f = [i \in 1 .. Len(s) + 1 |-> ParseStep(s, ClosingQuote(s), i, f)]

\* Where a step may go on.
LEMMA ParseStepNext ==
    ASSUME NEW s \in Seq(Byte), NEW end \in 0 .. Len(s), NEW i \in 1 .. Len(s) + 1
    PROVE  \/ i >= end
           \/ /\ s[i] \in Byte
              /\ i + 1 \in i + 1 .. Len(s) + 1 /\ i + 2 \in i + 1 .. Len(s) + 1
              /\ \/ utf16_literal_to_utf8(s, i, end) = Failed
                 \/ /\ utf16_literal_to_utf8(s, i, end).bytes \in Seq(Byte)
                    /\ i + utf16_literal_to_utf8(s, i, end).length \in i + 1 .. Len(s) + 1
<1> DEFINE e == utf16_literal_to_utf8(s, i, end)
<1>1. CASE i >= end
  BY <1>1
<1>2. CASE ~(i >= end)
  <2>1. /\ s[i] \in Byte /\ i + 1 \in i + 1 .. Len(s) + 1 /\ i + 2 \in i + 1 .. Len(s) + 1
        /\ i + 1 .. end \subseteq i + 1 .. Len(s) + 1
    BY <1>2
  <2>2. e = Failed \/ (e.bytes \in Seq(Byte) /\ i + e.length \in i + 1 .. end)
    BY EscapeTyped, Zenon
  <2> QED BY <2>1, <2>2, Zenon
<1> QED BY <1>1, <1>2

LEMMA ParseStepLocal ==
    ASSUME NEW s \in Seq(Byte), NEW end \in 0 .. Len(s), NEW i \in 1 .. Len(s) + 1, NEW f, NEW g,
           \A j \in i + 1 .. Len(s) + 1 : f[j] = g[j]
    PROVE  ParseStep(s, end, i, f) = ParseStep(s, end, i, g)
<1> DEFINE e == utf16_literal_to_utf8(s, i, end)
<1>1. \/ i >= end
      \/ f[i + 1] = g[i + 1] /\ f[i + 2] = g[i + 2] /\ (e = Failed \/ f[i + e.length] = g[i + e.length])
  BY ParseStepNext, Zenon
<1> QED BY <1>1, Zenon DEF ParseStep

LEMMA ParseStepTyped ==
    ASSUME NEW s \in Seq(Byte), NEW end \in 0 .. Len(s), NEW i \in 1 .. Len(s) + 1, NEW f,
           \A j \in i + 1 .. Len(s) + 1 : f[j] \in Outcome
    PROVE  ParseStep(s, end, i, f) \in Outcome
<1> DEFINE e == utf16_literal_to_utf8(s, i, end)
<1>1. \/ i >= end
      \/ /\ s[i] \in Byte /\ f[i + 1] \in Outcome /\ f[i + 2] \in Outcome
         /\ e = Failed \/ (e.bytes \in Seq(Byte) /\ f[i + e.length] \in Outcome)
  BY ParseStepNext, Zenon
<1>2. << >> \in Outcome /\ Failed \in Outcome
  BY DEF Outcome
<1>3. \A b \in Byte, t \in Outcome : Join(<<b>>, t) \in Outcome
  <2>1. \A b \in Byte : <<b>> \in Seq(Byte)
    OBVIOUS
  <2> QED BY <2>1, JoinRewritten, Zenon
<1>4. \A t \in Seq(Byte), r \in Outcome : Join(t, r) \in Outcome
  BY JoinRewritten
<1>5. \A l \in DOMAIN Unescape : Unescape[l] \in Byte
  BY Letters
<1> HIDE DEF e
<1>6. ParseStep(s, end, i, f) = IF i >= end THEN << >>
          ELSE IF s[i] # Backslash THEN Join(<<s[i]>>, f[i + 1])
          ELSE IF s[i + 1] \in DOMAIN Unescape THEN Join(<<Unescape[s[i + 1]]>>, f[i + 2])
          ELSE IF s[i + 1] # 117 \/ e = Failed THEN Failed ELSE Join(e.bytes, f[i + e.length])
  BY Zenon DEF ParseStep, e
<1>7. CASE i >= end
  BY <1>2, <1>6, <1>7
<1>8. CASE ~(i >= end)
  <2>1. Join(<<s[i]>>, f[i + 1]) \in Outcome
    BY <1>1, <1>3, <1>8
  <2>2. s[i + 1] \in DOMAIN Unescape => Join(<<Unescape[s[i + 1]]>>, f[i + 2]) \in Outcome
    BY <1>1, <1>3, <1>5, <1>8
  <2>3. e = Failed \/ Join(e.bytes, f[i + e.length]) \in Outcome
    BY <1>1, <1>4, <1>8
  <2> QED BY <1>2, <1>6, <1>8, <2>1, <2>2, <2>3, Zenon
<1> QED BY <1>7, <1>8

LEMMA ParseLaw ==
    ASSUME NEW s \in Seq(Byte)
    PROVE  /\ parse_string(s) = IF ClosingQuote(s) = 0 THEN Failed ELSE ParseFrom(s)[1]
           /\ ClosingQuote(s) \in 0 .. Len(s)
           /\ \A i \in 1 .. Len(s) + 1 :
                 /\ ParseFrom(s)[i] = ParseStep(s, ClosingQuote(s), i, ParseFrom(s))
                 /\ ParseFrom(s)[i] \in Outcome
<1> DEFINE N == Len(s) + 1
           D == 1 .. N
           end == ClosingQuote(s)
           F == [D -> Outcome]
           H == [x \in D \X F |-> ParseStep(s, end, x[1], x[2])]
           G == ParseFrom(s)
<1>0. end \in 0 .. Len(s)
  <2>1. 1 \in 1 .. Len(s) + 2
    BY LenProperties
  <2> QED BY <2>1, ClosingLaw
<1>1. N \in Nat /\ \A i \in D : i + 1 .. N \subseteq D
  OBVIOUS
<1> HIDE DEF end
<1>2. \A i \in D, f \in F : ParseStep(s, end, i, f) \in Outcome
  <2> SUFFICES ASSUME NEW i \in D, NEW f \in F PROVE ParseStep(s, end, i, f) \in Outcome
    OBVIOUS
  <2>1. \A j \in i + 1 .. N : f[j] \in Outcome
    BY <1>1
  <2> QED BY <1>0, <2>1, ParseStepTyped
<1>3. \A i \in D, f \in F : H[<<i, f>>] = ParseStep(s, end, i, f)
  OBVIOUS
<1>4. H \in [D \X F -> Outcome]
  BY <1>2
<1>5. \A i \in D : \A f, g \in F : (\A j \in i + 1 .. N : f[j] = g[j]) => H[<<i, f>>] = H[<<i, g>>]
  <2> SUFFICES ASSUME NEW i \in D, NEW f \in F, NEW g \in F, \A j \in i + 1 .. N : f[j] = g[j]
               PROVE  ParseStep(s, end, i, f) = ParseStep(s, end, i, g)
    BY <1>3
  <2> QED BY <1>0, ParseStepLocal
<1>6. PICK f \in F : \A i \in D : f[i] = ParseStep(s, end, i, f)
  <2> HIDE DEF H
  <2>1. << >> \in Outcome
    BY DEF Outcome
  <2>2. \E f \in F : \A i \in D : f[i] = H[<<i, f>>]
    <3>1. Defines(N, Outcome, H)
      BY <1>4, <1>5, Zenon DEF Defines
    <3> QED BY <1>1, <2>1, <3>1, Recursion
  <2> QED BY <1>3, <2>2
<1>7. f = [i \in D |-> ParseStep(s, end, i, f)]
  BY <1>6
<1>8. G = [i \in D |-> ParseStep(s, end, i, G)]
  BY <1>7, Zenon DEF ParseFrom, end
<1> HIDE DEF G
<1>9. \A i \in D : G[i] = ParseStep(s, end, i, G)
  BY <1>8
<1>10. \A i \in D : G[i] \in Outcome
  <2> DEFINE T == {i \in D : G[i] \in Outcome}
  <2>1. \A i \in D : (\A j \in i + 1 .. N : j \in T) => i \in T
    BY <1>0, <1>9, ParseStepTyped
  <2> HIDE DEF T
  <2>2. \A i \in D : i \in T
    BY <1>1, <2>1, Downwards
  <2> QED BY <2>2 DEF T
<1>11. parse_string(s) = IF end = 0 THEN Failed ELSE G[1]
  BY Zenon DEF parse_string, ParseFrom, ParseStep, G, end
<1> QED BY <1>0, <1>9, <1>10, <1>11 DEF G, end

\* What an escape stands for is where it is.
LEMMA EscapeShift ==
    ASSUME NEW u \in Seq(Byte), NEW v \in Seq(Byte), NEW end \in 0 .. Len(v), NEW i \in 1 .. Len(v) + 1
    PROVE  utf16_literal_to_utf8(u \o v, Len(u) + i, Len(u) + end) = utf16_literal_to_utf8(v, i, end)
<1> DEFINE s == u \o v
           k == Len(u)
           first == parse_hex4(v, i + 2)
           second == parse_hex4(v, i + 8)
           e == utf16_literal_to_utf8(v, i, end)
           g == utf16_literal_to_utf8(s, k + i, k + end)
<1>1. /\ Len(s) = k + Len(v) /\ k \in Nat /\ Len(v) \in Nat
      /\ \A j \in 1 .. Len(v) : s[k + j] = v[j]
  BY Parts
<1> HIDE DEF s, k
<1>2. (k + end) - (k + i) = end - i /\ \A x \in 0 .. 20 : (k + i) + x = k + (i + x)
  BY <1>1
<1>3. \A j \in Nat : SameBytes(s, k + j, v, j, 3) \/ ~(\A x \in 0 .. 3 : j + x \in 1 .. Len(v))
  <2> SUFFICES ASSUME NEW j \in Nat, \A x \in 0 .. 3 : j + x \in 1 .. Len(v)
               PROVE  SameBytes(s, k + j, v, j, 3)
    OBVIOUS
  <2>1. j \in 1 .. Len(v) /\ \A x \in 1 .. 3 : j + x \in 1 .. Len(v) /\ (k + j) + x = k + (j + x)
    <3>1. j + 0 \in 1 .. Len(v) /\ j + 0 = j
      OBVIOUS
    <3> QED BY <1>1, <3>1
  <2> QED BY <1>1, <2>1, Zenon DEF SameBytes
<1>4. ASSUME ~(end - i < 6) PROVE parse_hex4(s, (k + i) + 2) = first
  <2>1. /\ i + 2 \in Nat /\ k + (i + 2) \in Nat /\ \A x \in 0 .. 3 : (i + 2) + x \in 1 .. Len(v)
        /\ (k + i) + 2 = k + (i + 2)
    BY <1>1, <1>4
  <2>2. SameBytes(s, k + (i + 2), v, i + 2, 3)
    BY <1>3, <2>1
  <2> QED BY <2>1, <2>2, SameHex
<1>5. ASSUME ~(end - i < 12)
      PROVE  /\ parse_hex4(s, (k + i) + 8) = second
             /\ s[(k + i) + 6] = v[i + 6] /\ s[(k + i) + 7] = v[i + 7]
  <2>0. k \in Nat /\ i \in Nat /\ i >= 1 /\ Len(v) \in Nat /\ i + 12 <= Len(v)
    BY <1>1, <1>5
  <2>1. /\ i + 8 \in Nat /\ k + (i + 8) \in Nat /\ \A x \in 0 .. 3 : (i + 8) + x \in 1 .. Len(v)
        /\ (k + i) + 8 = k + (i + 8)
        /\ i + 6 \in 1 .. Len(v) /\ (k + i) + 6 = k + (i + 6)
        /\ i + 7 \in 1 .. Len(v) /\ (k + i) + 7 = k + (i + 7)
    BY <2>0
  <2>2. SameBytes(s, k + (i + 8), v, i + 8, 3)
    BY <1>3, <2>1
  <2>3. parse_hex4(s, k + (i + 8)) = second
    BY <2>1, <2>2, SameHex
  <2>4. s[k + (i + 6)] = v[i + 6] /\ s[k + (i + 7)] = v[i + 7]
    BY <1>1, <2>1
  <2> QED BY <2>1, <2>3, <2>4
<1>6. CASE end - i < 6
  <2>1. g = Failed /\ e = Failed
    BY <1>2, <1>6, EscapeLaw, Zenon
  <2> QED BY <2>1 DEF s, k
<1>7. CASE ~(end - i < 6)
  <2>1. parse_hex4(s, (k + i) + 2) = first
    BY <1>4, <1>7
  <2>2. e = IF IsLow(first) THEN Failed
            ELSE IF ~IsHigh(first) THEN [length |-> 6, bytes |-> utf8_encode(first)]
            ELSE IF end - i < 12 \/ v[i + 6] # Backslash \/ v[i + 7] # 117 \/ ~IsLow(second) THEN Failed
            ELSE [length |-> 12, bytes |-> utf8_encode(OfPair(first, second))]
    BY <1>7, EscapeLaw, Zenon
  <2>3. g = IF IsLow(first) THEN Failed
            ELSE IF ~IsHigh(first) THEN [length |-> 6, bytes |-> utf8_encode(first)]
            ELSE IF end - i < 12 \/ s[(k + i) + 6] # Backslash \/ s[(k + i) + 7] # 117
                    \/ ~IsLow(parse_hex4(s, (k + i) + 8)) THEN Failed
            ELSE [length |-> 12, bytes |-> utf8_encode(OfPair(first, parse_hex4(s, (k + i) + 8)))]
    BY <1>2, <1>7, <2>1, EscapeLaw, Zenon
  <2> HIDE DEF first, second
  <2>4. g = e
    <3> HIDE DEF g, e
    <3>1. CASE end - i < 12
      BY <2>2, <2>3, <3>1, Zenon
    <3>2. CASE ~(end - i < 12)
      BY <1>5, <2>2, <2>3, <3>2, Zenon
    <3> QED BY <3>1, <3>2
  <2> QED BY <2>4, Zenon DEF s, k
<1> QED BY <1>6, <1>7

\* What is behind an index is parsed as it would be alone, if it ends at the same quote.
LEMMA ParseShift ==
    ASSUME NEW u \in Seq(Byte), NEW v \in Seq(Byte), ClosingQuote(u \o v) = Len(u) + ClosingQuote(v)
    PROVE  \A i \in 1 .. Len(v) + 1 : ParseFrom(u \o v)[Len(u) + i] = ParseFrom(v)[i]
<1> DEFINE s == u \o v
           k == Len(u)
           N == Len(v) + 1
           end == ClosingQuote(v)
           G == ParseFrom(s)
           J == ParseFrom(v)
           T == {i \in 1 .. N : G[k + i] = J[i]}
<1>1. /\ s \in Seq(Byte) /\ Len(s) = k + Len(v) /\ k \in Nat /\ Len(v) \in Nat /\ N \in Nat
      /\ end \in 0 .. Len(v)
      /\ \A i \in 1 .. Len(v) : s[k + i] = v[i]
      /\ \A i \in 1 .. N : k + i \in 1 .. Len(s) + 1
  <2>1. /\ s \in Seq(Byte) /\ Len(s) = k + Len(v) /\ k \in Nat /\ Len(v) \in Nat
        /\ \A i \in 1 .. Len(v) : s[k + i] = v[i]
    BY Parts
  <2>2. end \in 0 .. Len(v)
    BY ParseLaw
  <2> HIDE DEF s, k
  <2> QED BY <2>1, <2>2
<1>2. \A i \in 1 .. N : G[k + i] = ParseStep(s, k + end, k + i, G) /\ J[i] = ParseStep(v, end, i, J)
  <2>1. ClosingQuote(s) = k + end
    OBVIOUS
  <2> HIDE DEF s, k, end
  <2>2. \A i \in 1 .. N : J[i] = ParseStep(v, end, i, J)
    BY ParseLaw DEF end
  <2> QED BY <1>1, <2>1, <2>2, ParseLaw
<1>3. ASSUME NEW i \in 1 .. N, \A j \in i + 1 .. N : j \in T PROVE i \in T
  <2> DEFINE e == utf16_literal_to_utf8(v, i, end)
  <2>1. utf16_literal_to_utf8(s, k + i, k + end) = e
    BY <1>1, EscapeShift
  <2>2. CASE i >= end
    <3>1. k + i >= k + end
      BY <1>1, <2>2
    <3>2. ParseStep(s, k + end, k + i, G) = ParseStep(v, end, i, J)
      BY <2>2, <3>1, Zenon DEF ParseStep
    <3> QED BY <1>2, <3>2
  <2>3. CASE ~(i >= end)
    <3>1. i + 1 \in i + 1 .. N /\ i + 2 \in i + 1 .. N /\ (e = Failed \/ i + e.length \in i + 1 .. N)
      BY <1>1, <2>3, ParseStepNext, Zenon
    <3>2. /\ ~(k + i >= k + end) /\ s[k + i] = v[i] /\ s[(k + i) + 1] = v[i + 1]
          /\ (k + i) + 1 = k + (i + 1) /\ (k + i) + 2 = k + (i + 2)
      <4>1. /\ ~(k + i >= k + end) /\ i \in 1 .. Len(v) /\ i + 1 \in 1 .. Len(v)
            /\ (k + i) + 1 = k + (i + 1) /\ (k + i) + 2 = k + (i + 2)
        BY <1>1, <2>3
      <4> QED BY <1>1, <4>1
    <3>3. e = Failed \/ (k + i) + e.length = k + (i + e.length)
      <4>1. e = Failed \/ e.length \in Int
        <5>1. e = Failed \/ (e.bytes \in Seq(Byte) /\ i + e.length \in i + 1 .. end)
          BY <1>1, EscapeTyped, Zenon
        <5>2. e = Failed \/ e = [length |-> 6, bytes |-> utf8_encode(parse_hex4(v, i + 2))]
              \/ e = [length |-> 12, bytes |-> utf8_encode(OfPair(parse_hex4(v, i + 2), parse_hex4(v, i + 8)))]
          BY EscapeLaw, Zenon
        <5> HIDE DEF e
        <5> QED BY <5>2
      <4>2. k \in Int /\ i \in Int
        BY <1>1
      <4> HIDE DEF e, k
      <4> QED BY <4>1, <4>2
    <3>4. G[(k + i) + 1] = J[i + 1] /\ G[(k + i) + 2] = J[i + 2]
      BY <1>3, <3>1, <3>2
    <3>5. e = Failed \/ G[(k + i) + e.length] = J[i + e.length]
      <4> HIDE DEF e, k, G, J
      <4> QED BY <1>3, <3>1, <3>3
    <3>6. ParseStep(s, k + end, k + i, G) = ParseStep(v, end, i, J)
      <4> HIDE DEF s, k, G, J
      <4> QED BY <2>1, <2>3, <3>2, <3>4, <3>5, Zenon DEF ParseStep
    <3> QED BY <1>2, <3>6
  <2> QED BY <2>2, <2>3
<1> HIDE DEF T
<1>4. \A i \in 1 .. N : i \in T
  BY <1>1, <1>3, Downwards
<1> QED BY <1>4 DEF T

\* A part that is parsed in one step stands for its bytes, whatever follows it.
LEMMA ParseOfPart ==
    ASSUME NEW e \in Seq(Byte), NEW b \in Seq(Byte), NEW y \in Seq(Byte),
           ClosingFrom(e \o y)[1] = ClosingFrom(e \o y)[Len(e) + 1],
           \A end \in Len(e) + 1 .. Len(e \o y) :
              ParseStep(e \o y, end, 1, ParseFrom(e \o y)) = Join(b, ParseFrom(e \o y)[Len(e) + 1])
    PROVE  parse_string(e \o y) = Join(b, parse_string(y))
<1> DEFINE s == e \o y
           k == Len(e)
           end == ClosingQuote(s)
           last == ClosingQuote(y)
<1>1. s \in Seq(Byte) /\ Len(s) = k + Len(y) /\ k \in Nat /\ Len(y) \in Nat
  BY Parts
<1>2. 1 \in 1 .. Len(y) + 1 /\ 1 \in 1 .. Len(y) + 2 /\ 1 \in 1 .. Len(s) + 1 /\ 1 \in 1 .. Len(s) + 2
  <2> HIDE DEF s, k
  <2> QED BY <1>1
<1>3. end = IF last = 0 THEN 0 ELSE k + last
  <2>1. ClosingFrom(s)[k + 1] = IF ClosingFrom(y)[1] = 0 THEN 0 ELSE k + ClosingFrom(y)[1]
    BY <1>2, ClosingShift
  <2>2. end = ClosingFrom(s)[1] /\ last = ClosingFrom(y)[1]
    BY <1>1, ClosingLaw
  <2> QED BY <2>1, <2>2
<1>4. end \in 0 .. Len(s) /\ last \in 0 .. Len(y)
  BY <1>1, ParseLaw
<1>5. parse_string(s) = IF end = 0 THEN Failed ELSE ParseFrom(s)[1]
  BY <1>1, ParseLaw
<1>6. parse_string(y) = IF last = 0 THEN Failed ELSE ParseFrom(y)[1]
  BY ParseLaw
<1>7. CASE last = 0
  <2>1. Join(b, Failed) = Failed
    BY JoinLaw
  <2> QED BY <1>3, <1>5, <1>6, <1>7, <2>1
<1>8. CASE last # 0
  <2>1. end = k + last /\ end # 0 /\ end \in k + 1 .. Len(s)
    <3> HIDE DEF s, k, end, last
    <3> QED BY <1>1, <1>3, <1>4, <1>8
  <2>2. ParseFrom(s)[k + 1] = ParseFrom(y)[1]
    BY <1>2, <2>1, ParseShift
  <2>3. ParseFrom(s)[1] = ParseStep(s, end, 1, ParseFrom(s))
    BY <1>1, <1>2, ParseLaw
  <2>4. ParseStep(s, end, 1, ParseFrom(s)) = Join(b, ParseFrom(s)[k + 1])
    BY <2>1
  <2>5. parse_string(s) = ParseFrom(s)[1] /\ parse_string(y) = ParseFrom(y)[1]
    BY <1>5, <1>6, <1>8, <2>1, Zenon
  <2> HIDE DEF s, k
  <2>6. parse_string(s) = Join(b, parse_string(y))
    BY <2>2, <2>3, <2>4, <2>5
  <2> QED BY <2>6 DEF s
<1> QED BY <1>7, <1>8

\* A byte that is no quote and no backslash.
LEMMA ParseOfByte ==
    ASSUME NEW b \in Byte, b \notin {Quote, Backslash}, NEW y \in Seq(Byte)
    PROVE  parse_string(<<b>> \o y) = Join(<<b>>, parse_string(y))
<1> DEFINE e == <<b>>
           s == e \o y
<1>1. e \in Seq(Byte) /\ Len(e) = 1 /\ e[1] = b
  OBVIOUS
<1> HIDE DEF e
<1>2. s \in Seq(Byte) /\ Len(s) = 1 + Len(y) /\ Len(y) \in Nat /\ s[1] = b
  <2>0. e \in Seq(Byte)
    BY <1>1
  <2>1. s \in Seq(Byte) /\ Len(s) = Len(e) + Len(y) /\ Len(y) \in Nat /\ \A j \in 1 .. Len(e) : s[j] = e[j]
    BY <2>0, Parts
  <2> HIDE DEF s
  <2> QED BY <1>1, <2>1
<1>3. ClosingFrom(s)[1] = ClosingFrom(s)[Len(e) + 1]
  <2>1. 1 \in 1 .. Len(s) /\ s[1] # Quote /\ s[1] # Backslash /\ s \in Seq(Byte)
    BY <1>2
  <2> HIDE DEF s
  <2>2. ClosingFrom(s)[1] = ClosingFrom(s)[1 + 1]
    BY <2>1, ClosingOver
  <2> QED BY <1>1, <2>2
<1>4. ASSUME NEW end \in Len(e) + 1 .. Len(s)
      PROVE  ParseStep(s, end, 1, ParseFrom(s)) = Join(<<b>>, ParseFrom(s)[Len(e) + 1])
  <2>1. ~(1 >= end)
    BY <1>1, <1>2
  <2> QED BY <1>1, <1>2, <2>1, Zenon DEF ParseStep
<1>5. <<b>> \in Seq(Byte)
  OBVIOUS
<1>6. parse_string(e \o y) = Join(<<b>>, parse_string(y))
  BY <1>1, <1>3, <1>4, <1>5, ParseOfPart
<1> QED BY <1>6 DEF e

\* A letter behind a backslash.
LEMMA ParseOfLetter ==
    ASSUME NEW l \in DOMAIN Unescape, NEW y \in Seq(Byte)
    PROVE  parse_string(<<Backslash, l>> \o y) = Join(<<Unescape[l]>>, parse_string(y))
<1> DEFINE e == <<Backslash, l>>
           s == e \o y
           b == Unescape[l]
<1>0. l \in Byte /\ Backslash \in Byte /\ b \in Byte /\ Backslash # Quote
  <2>1. l \in Ascii /\ b \in Byte
    BY Letters
  <2> QED BY <2>1 DEF Backslash, Quote, Byte, Ascii
<1>1. e \in Seq(Byte) /\ Len(e) = 2 /\ e[1] = Backslash /\ e[2] = l
  BY <1>0
<1> HIDE DEF e, b
<1>2. s \in Seq(Byte) /\ Len(s) = 2 + Len(y) /\ Len(y) \in Nat /\ s[1] = Backslash /\ s[2] = l
  <2>0. e \in Seq(Byte)
    BY <1>1
  <2>1. s \in Seq(Byte) /\ Len(s) = Len(e) + Len(y) /\ Len(y) \in Nat /\ \A j \in 1 .. Len(e) : s[j] = e[j]
    BY <2>0, Parts
  <2> HIDE DEF s
  <2> QED BY <1>1, <2>1
<1>3. ClosingFrom(s)[1] = ClosingFrom(s)[Len(e) + 1]
  <2>1. 1 \in 1 .. Len(s) /\ 1 + 2 = Len(e) + 1
    BY <1>1, <1>2
  <2> QED BY <1>0, <1>2, <2>1, ClosingOver
<1>4. ASSUME NEW end \in Len(e) + 1 .. Len(s)
      PROVE  ParseStep(s, end, 1, ParseFrom(s)) = Join(<<b>>, ParseFrom(s)[Len(e) + 1])
  <2>1. ~(1 >= end) /\ 1 + 1 = 2 /\ 1 + 2 = Len(e) + 1
    BY <1>1, <1>2
  <2> QED BY <1>1, <1>2, <2>1, Zenon DEF ParseStep, b
<1>5. <<b>> \in Seq(Byte)
  BY <1>0
<1>6. parse_string(e \o y) = Join(<<b>>, parse_string(y))
  BY <1>1, <1>3, <1>4, <1>5, ParseOfPart
<1> QED BY <1>6 DEF e, b

\* An escape inside a literal reads as its unit, and the search for the quote passes it.
LEMMA EscapeInside ==
    ASSUME NEW u \in Unit, NEW s \in Seq(Byte), NEW i \in 1 .. Len(s), i + 5 <= Len(s),
           SameBytes(s, i, Escape(u), 1, 5)
    PROVE  /\ s[i] = Backslash /\ s[i + 1] = 117 /\ parse_hex4(s, i + 2) = u
           /\ ClosingFrom(s)[i] = ClosingFrom(s)[i + 6]
<1> DEFINE a == Digit1(u)
           b == Digit2(u)
           c == Digit3(u)
           d == Digit4(u)
<1>1. a \in 0 .. 15 /\ b \in 0 .. 15 /\ c \in 0 .. 15 /\ d \in 0 .. 15
  BY UnitDigits
<1>2. u = a * 4096 + b * 256 + c * 16 + d
  BY UnitDigits, SMT
<1>3. Escape(u) = <<92, 117, digits(a), digits(b), digits(c), digits(d)>>
  BY EscapeBytes
<1> HIDE DEF a, b, c, d
<1>4. /\ s[i] = Escape(u)[1] /\ s[i + 1] = Escape(u)[2] /\ s[i + 2] = Escape(u)[3]
      /\ s[i + 3] = Escape(u)[4] /\ s[i + 4] = Escape(u)[5] /\ s[i + 5] = Escape(u)[6]
  BY DEF SameBytes
<1>5. /\ s[i] = 92 /\ s[i + 1] = 117 /\ s[i + 2] = digits(a) /\ s[i + 3] = digits(b)
      /\ s[i + 4] = digits(c) /\ s[i + 5] = digits(d)
  BY <1>3, <1>4
<1>6. \A x \in {a, b, c, d} : digits(x) # Quote /\ digits(x) # Backslash /\ HexDigit(digits(x)) = x
  BY <1>1, DigitReads
<1>7. parse_hex4(s, i + 2) = u
  <2>1. (i + 2) + 1 = i + 3 /\ (i + 2) + 2 = i + 4 /\ (i + 2) + 3 = i + 5 /\ (i + 2) + 0 = i + 2
    OBVIOUS
  <2>2. \A x \in 0 .. 3 : x = 0 \/ x = 1 \/ x = 2 \/ x = 3
    OBVIOUS
  <2>3. \A x \in 0 .. 3 : HexDigit(s[(i + 2) + x]) \in {a, b, c, d}
    BY <1>5, <1>6, <2>1, <2>2
  <2>4. \A x \in {a, b, c, d} : x # Failed
    BY <1>1, FailedApart
  <2>5. ~NoDigit(s, i + 2)
    BY <2>3, <2>4 DEF NoDigit
  <2>6. parse_hex4(s, i + 2) = HexValue(s[i + 2], s[i + 3], s[i + 4], s[i + 5])
    BY <2>1, <2>5, HexLaw
  <2>7. /\ HexDigit(s[i + 2]) = a /\ HexDigit(s[i + 3]) = b /\ HexDigit(s[i + 4]) = c
        /\ HexDigit(s[i + 5]) = d
    BY <1>5, <1>6
  <2> QED BY <1>2, <2>6, <2>7, SMT DEF HexValue
<1>8. ClosingFrom(s)[i] = ClosingFrom(s)[i + 6]
  <2>1. /\ i + 2 \in 1 .. Len(s) /\ i + 3 \in 1 .. Len(s) /\ i + 4 \in 1 .. Len(s) /\ i + 5 \in 1 .. Len(s)
        /\ (i + 2) + 1 = i + 3 /\ (i + 3) + 1 = i + 4 /\ (i + 4) + 1 = i + 5 /\ (i + 5) + 1 = i + 6
    OBVIOUS
  <2>2. ClosingFrom(s)[i] = ClosingFrom(s)[i + 2]
    <3>1. s[i] = Backslash /\ s[i] # Quote
      BY <1>5 DEF Backslash, Quote
    <3> QED BY <3>1, ClosingOver
  <2>3. ClosingFrom(s)[i + 2] = ClosingFrom(s)[i + 3]
    <3>1. s[i + 2] # Quote /\ s[i + 2] # Backslash
      BY <1>5, <1>6
    <3> QED BY <2>1, <3>1, ClosingOver
  <2>4. ClosingFrom(s)[i + 3] = ClosingFrom(s)[i + 4]
    <3>1. s[i + 3] # Quote /\ s[i + 3] # Backslash
      BY <1>5, <1>6
    <3> QED BY <2>1, <3>1, ClosingOver
  <2>5. ClosingFrom(s)[i + 4] = ClosingFrom(s)[i + 5]
    <3>1. s[i + 4] # Quote /\ s[i + 4] # Backslash
      BY <1>5, <1>6
    <3> QED BY <2>1, <3>1, ClosingOver
  <2>6. ClosingFrom(s)[i + 5] = ClosingFrom(s)[i + 6]
    <3>1. s[i + 5] # Quote /\ s[i + 5] # Backslash
      BY <1>5, <1>6
    <3> QED BY <2>1, <3>1, ClosingOver
  <2> QED BY <2>2, <2>3, <2>4, <2>5, <2>6
<1> QED BY <1>5, <1>7, <1>8 DEF Backslash

\* What an escape stands for is not the failure of a conversion.
LEMMA EscapedApart ==
    \A n \in Nat, b \in Seq(Byte) : [length |-> n, bytes |-> b] # Failed
  BY ConversionsAssumption

LEMMA ParseOfEscape ==
    ASSUME NEW u \in Unit, ~IsHigh(u), ~IsLow(u), NEW y \in Seq(Byte)
    PROVE  parse_string(Escape(u) \o y) = Join(utf8_encode(u), parse_string(y))
<1> DEFINE e == Escape(u)
           s == e \o y
           b == utf8_encode(u)
<1>1. e \in Seq(Byte) /\ Len(e) = 6
  <2>1. \A t \in Seq(Ascii) : t \in Seq(Byte)
    BY DEF Ascii, Byte
  <2> QED BY <2>1, EscapeBytes
<1>0. b \in Seq(Byte)
  <2>1. u \in Nat /\ u <= 1114111
    BY SMT DEF Unit
  <2> QED BY <2>1, EncodeTyped
<1> HIDE DEF b
<1>2. s \in Seq(Byte) /\ Len(s) = 6 + Len(y) /\ Len(y) \in Nat /\ \A j \in 1 .. 6 : s[j] = e[j]
  <2>0. e \in Seq(Byte)
    BY <1>1
  <2>1. s \in Seq(Byte) /\ Len(s) = Len(e) + Len(y) /\ Len(y) \in Nat /\ \A j \in 1 .. Len(e) : s[j] = e[j]
    BY <2>0, Parts
  <2> HIDE DEF s
  <2> QED BY <1>1, <2>1
<1> HIDE DEF s
<1>3. /\ s[1] = Backslash /\ s[1 + 1] = 117 /\ parse_hex4(s, 1 + 2) = u
      /\ ClosingFrom(s)[1] = ClosingFrom(s)[Len(e) + 1]
  <2>1. 1 \in 1 .. Len(s) /\ 1 + 5 <= Len(s) /\ 1 + 6 = Len(e) + 1
    BY <1>1, <1>2
  <2>2. SameBytes(s, 1, e, 1, 5)
    <3>1. 1 \in 1 .. 6 /\ \A x \in 1 .. 5 : 1 + x \in 1 .. 6
      OBVIOUS
    <3> QED BY <1>2, <3>1, Zenon DEF SameBytes
  <2> QED BY <1>2, <2>1, <2>2, EscapeInside
<1>4. ASSUME NEW end \in Len(e) + 1 .. Len(s)
      PROVE  ParseStep(s, end, 1, ParseFrom(s)) = Join(b, ParseFrom(s)[Len(e) + 1])
  <2> DEFINE g == utf16_literal_to_utf8(s, 1, end)
  <2>1. ~(1 >= end) /\ ~(end - 1 < 6) /\ 1 + 6 = Len(e) + 1
    BY <1>1, <1>2
  <2>2. g = [length |-> 6, bytes |-> b]
    BY <1>3, <2>1, EscapeLaw, Zenon DEF b
  <2> HIDE DEF g
  <2>3. g # Failed /\ g.length = 6 /\ g.bytes = b
    BY <1>0, <2>2, EscapedApart
  <2>4. s[1 + 1] \notin DOMAIN Unescape
    BY <1>3, Letters
  <2>5. ParseStep(s, end, 1, ParseFrom(s)) = Join(g.bytes, ParseFrom(s)[1 + g.length])
    BY <1>3, <2>1, <2>3, <2>4, Zenon DEF ParseStep, g
  <2> QED BY <2>1, <2>3, <2>5
<1>5. parse_string(s) = Join(b, parse_string(y))
  <2>1. ClosingFrom(e \o y)[1] = ClosingFrom(e \o y)[Len(e) + 1]
    BY <1>3 DEF s
  <2>2. \A end \in Len(e) + 1 .. Len(e \o y) :
           ParseStep(e \o y, end, 1, ParseFrom(e \o y)) = Join(b, ParseFrom(e \o y)[Len(e) + 1])
    BY <1>4 DEF s
  <2>3. e \in Seq(Byte)
    BY <1>1
  <2> HIDE DEF e
  <2> QED BY <1>0, <2>1, <2>2, <2>3, ParseOfPart DEF s
<1> QED BY <1>5 DEF s, b

LEMMA ParseOfPair ==
    ASSUME NEW h \in Unit, IsHigh(h), ~IsLow(h), NEW w \in Unit, IsLow(w), NEW y \in Seq(Byte)
    PROVE  parse_string((Escape(h) \o Escape(w)) \o y) = Join(utf8_encode(OfPair(h, w)), parse_string(y))
<1> DEFINE e == Escape(h) \o Escape(w)
           s == e \o y
           b == utf8_encode(OfPair(h, w))
<1>0. b \in Seq(Byte)
  <2>1. OfPair(h, w) \in Nat /\ OfPair(h, w) <= 1114111
    <3>1. h \in Int /\ w \in Int
      BY SMT DEF Unit
    <3> QED BY <3>1, SMT DEF OfPair
  <2> QED BY <2>1, EncodeTyped
<1> HIDE DEF b
<1>1. /\ e \in Seq(Byte) /\ Len(e) = 12
      /\ \A j \in 1 .. 6 : e[j] = Escape(h)[j]
      /\ \A j \in 1 .. 6 : e[6 + j] = Escape(w)[j]
  <2>1. \A t \in Seq(Ascii) : t \in Seq(Byte)
    BY DEF Ascii, Byte
  <2>2. Escape(h) \in Seq(Byte) /\ Len(Escape(h)) = 6 /\ Escape(w) \in Seq(Byte) /\ Len(Escape(w)) = 6
    BY <2>1, EscapeBytes
  <2>3. /\ e \in Seq(Byte) /\ Len(e) = Len(Escape(h)) + Len(Escape(w))
        /\ \A j \in 1 .. Len(Escape(h)) : e[j] = Escape(h)[j]
        /\ \A j \in 1 .. Len(Escape(w)) : e[Len(Escape(h)) + j] = Escape(w)[j]
    <3> DEFINE p == Escape(h)
               q == Escape(w)
    <3>1. p \in Seq(Byte) /\ q \in Seq(Byte)
      BY <2>2
    <3> HIDE DEF p, q
    <3>2. /\ p \o q \in Seq(Byte) /\ Len(p \o q) = Len(p) + Len(q)
          /\ \A j \in 1 .. Len(p) : (p \o q)[j] = p[j]
          /\ \A j \in 1 .. Len(q) : (p \o q)[Len(p) + j] = q[j]
      BY <3>1, Parts
    <3> QED BY <3>2 DEF p, q
  <2>4. Len(e) = 12
    <3> HIDE DEF e
    <3> QED BY <2>2, <2>3
  <2>5. \A j \in 1 .. 6 : e[j] = Escape(h)[j]
    BY <2>2, <2>3, Zenon
  <2>6. \A j \in 1 .. 6 : e[6 + j] = Escape(w)[j]
    BY <2>2, <2>3, Zenon
  <2> HIDE DEF e
  <2> QED BY <2>3, <2>4, <2>5, <2>6
<1> HIDE DEF e
<1>2. s \in Seq(Byte) /\ Len(s) = 12 + Len(y) /\ Len(y) \in Nat /\ \A j \in 1 .. 12 : s[j] = e[j]
  <2>0. e \in Seq(Byte)
    BY <1>1
  <2>1. s \in Seq(Byte) /\ Len(s) = Len(e) + Len(y) /\ Len(y) \in Nat /\ \A j \in 1 .. Len(e) : s[j] = e[j]
    BY <2>0, Parts
  <2> HIDE DEF s
  <2> QED BY <1>1, <2>1
<1> HIDE DEF s
<1>3. /\ s[1] = Backslash /\ s[1 + 1] = 117 /\ parse_hex4(s, 1 + 2) = h
      /\ ClosingFrom(s)[1] = ClosingFrom(s)[7]
  <2>1. 1 \in 1 .. Len(s) /\ 1 + 5 <= Len(s) /\ 1 + 6 = 7
    BY <1>2
  <2>2. SameBytes(s, 1, Escape(h), 1, 5)
    <3>1. 1 \in 1 .. 6 /\ 1 \in 1 .. 12 /\ \A x \in 1 .. 5 : 1 + x \in 1 .. 6 /\ 1 + x \in 1 .. 12
      OBVIOUS
    <3>2. s[1] = Escape(h)[1] /\ \A x \in 1 .. 5 : s[1 + x] = Escape(h)[1 + x]
      BY <1>1, <1>2, <3>1
    <3> QED BY <3>2, Zenon DEF SameBytes
  <2> QED BY <1>2, <2>1, <2>2, EscapeInside
<1>4. /\ s[1 + 6] = Backslash /\ s[1 + 7] = 117 /\ parse_hex4(s, 1 + 8) = w
      /\ ClosingFrom(s)[7] = ClosingFrom(s)[Len(e) + 1]
  <2>1. /\ 7 \in 1 .. Len(s) /\ 7 + 5 <= Len(s) /\ 7 + 6 = Len(e) + 1
        /\ 1 + 6 = 7 /\ 1 + 7 = 7 + 1 /\ 1 + 8 = 7 + 2
    BY <1>1, <1>2
  <2>2. SameBytes(s, 7, Escape(w), 1, 5)
    <3>1. /\ 1 \in 1 .. 6 /\ 6 + 1 = 7 /\ 7 \in 1 .. 12
          /\ \A x \in 1 .. 5 : 1 + x \in 1 .. 6 /\ 6 + (1 + x) = 7 + x /\ 7 + x \in 1 .. 12
      OBVIOUS
    <3>2. s[7] = Escape(w)[1]
      BY <1>1, <1>2, <3>1
    <3>3. \A x \in 1 .. 5 : s[7 + x] = Escape(w)[1 + x]
      BY <1>1, <1>2, <3>1
    <3> QED BY <3>2, <3>3, Zenon DEF SameBytes
  <2>3. /\ s[7] = Backslash /\ s[7 + 1] = 117 /\ parse_hex4(s, 7 + 2) = w
        /\ ClosingFrom(s)[7] = ClosingFrom(s)[7 + 6]
    BY <1>2, <2>1, <2>2, EscapeInside
  <2> QED BY <2>1, <2>3
<1>5. ASSUME NEW end \in Len(e) + 1 .. Len(s)
      PROVE  ParseStep(s, end, 1, ParseFrom(s)) = Join(b, ParseFrom(s)[Len(e) + 1])
  <2> DEFINE g == utf16_literal_to_utf8(s, 1, end)
  <2>1. ~(1 >= end) /\ ~(end - 1 < 6) /\ ~(end - 1 < 12) /\ 1 + 12 = Len(e) + 1
    BY <1>1, <1>2
  <2>2. g = [length |-> 12, bytes |-> b]
    BY <1>3, <1>4, <2>1, EscapeLaw, Zenon DEF b
  <2> HIDE DEF g
  <2>3. g # Failed /\ g.length = 12 /\ g.bytes = b
    BY <1>0, <2>2, EscapedApart
  <2>4. s[1 + 1] \notin DOMAIN Unescape
    BY <1>3, Letters
  <2>5. ParseStep(s, end, 1, ParseFrom(s)) = Join(g.bytes, ParseFrom(s)[1 + g.length])
    BY <1>3, <2>1, <2>3, <2>4, Zenon DEF ParseStep, g
  <2> QED BY <2>1, <2>3, <2>5
<1>6. parse_string(s) = Join(b, parse_string(y))
  <2>1. ClosingFrom(s)[1] = ClosingFrom(s)[Len(e) + 1]
    BY <1>3, <1>4
  <2>2. ClosingFrom(e \o y)[1] = ClosingFrom(e \o y)[Len(e) + 1]
    BY <2>1 DEF s
  <2>3. \A end \in Len(e) + 1 .. Len(e \o y) :
           ParseStep(e \o y, end, 1, ParseFrom(e \o y)) = Join(b, ParseFrom(e \o y)[Len(e) + 1])
    BY <1>5 DEF s
  <2>4. e \in Seq(Byte)
    BY <1>1
  <2> QED BY <1>0, <2>2, <2>3, <2>4, ParseOfPart DEF s
<1> QED BY <1>6 DEF s, e, b

\* A character above ASCII is parsed back from what utf82ascii wrote for it.
LEMMA ParseOfChar ==
    ASSUME NEW c, Scalar(c), c >= 128, NEW y \in Seq(Byte)
    PROVE  parse_string(EscapeChar(c) \o y) = Join(utf8_encode(c), parse_string(y))
<1>1. c \in Nat /\ c <= 1114111 /\ ~(c < 128) /\ (c < 55296 \/ c > 57343)
  BY SMT DEF Scalar
<1>2. CASE c < 65536
  <2>1. EscapeChar(c) = Escape(c)
    BY <1>1, <1>2, SMT DEF EscapeChar
  <2>2. c \in Unit /\ ~IsHigh(c) /\ ~IsLow(c)
    BY <1>1, <1>2, UnitRange, SurrogateRange, SMT DEF IsHigh, IsLow
  <2> QED BY <2>1, <2>2, ParseOfEscape
<1>3. CASE ~(c < 65536)
  <2>1. 65536 <= c
    BY <1>1, <1>3, SMT
  <2>2. /\ High(c) \in Unit /\ IsHigh(High(c)) /\ ~IsLow(High(c))
        /\ Low(c) \in Unit /\ IsLow(Low(c))
        /\ OfPair(High(c), Low(c)) = c
        /\ EscapeChar(c) = Escape(High(c)) \o Escape(Low(c))
    BY <1>1, <2>1, PairUnits DEF IsHigh, IsLow, OfPair
  <2>3. parse_string((Escape(High(c)) \o Escape(Low(c))) \o y)
           = Join(utf8_encode(OfPair(High(c), Low(c))), parse_string(y))
    BY <2>2, ParseOfPair
  <2> QED BY <2>2, <2>3, Zenon
<1> QED BY <1>2, <1>3

\* A byte of ASCII is parsed back from what was printed for it.
LEMMA ParseOfPrinted ==
    ASSUME NEW b \in Ascii, NEW y \in Seq(Byte)
    PROVE  parse_string(PrintByte(b) \o y) = Join(<<b>>, parse_string(y))
<1>1. b \in Byte /\ b \in Int /\ 0 <= b /\ b < 128
  BY DEF Ascii, Byte
<1>2. CASE b \notin {Quote, Backslash} /\ PrintByte(b) = <<b>>
  BY <1>1, <1>2, ParseOfByte
<1>3. CASE \E l \in DOMAIN Unescape : Unescape[l] = b /\ PrintByte(b) = <<Backslash, l>>
  <2>1. PICK l \in DOMAIN Unescape : Unescape[l] = b /\ PrintByte(b) = <<Backslash, l>>
    BY <1>3
  <2>2. parse_string(<<Backslash, l>> \o y) = Join(<<Unescape[l]>>, parse_string(y))
    BY ParseOfLetter
  <2> QED BY <2>1, <2>2, Zenon
<1>4. CASE b <= 31 /\ PrintByte(b) = Escape(b)
  <2>1. b \in Unit /\ ~IsHigh(b) /\ ~IsLow(b)
    BY <1>1, <1>4, UnitRange, SurrogateRange, SMT DEF IsHigh, IsLow
  <2>2. utf8_encode(b) = <<b>>
    BY <1>1, SMT DEF utf8_encode
  <2> QED BY <1>4, <2>1, <2>2, ParseOfEscape
<1> QED BY <1>1, <1>2, <1>3, <1>4, PrintedByte, Zenon

-----------------------------------------------------------------------------
(* The bytes above ASCII, which are printed as they are.                   *)

\* The first k bytes of s are above ASCII.
Wide(s, k) == k <= Len(s) /\ \A j \in 1 .. k : s[j] \in Byte /\ s[j] >= 128

LEMMA PrintOfWide ==
    ASSUME NEW w \in Seq(Byte \ Ascii), NEW y \in Seq(Byte)
    PROVE  print_string_ptr(w \o y) = w \o print_string_ptr(y)
<1> DEFINE S == Byte \ Ascii
           P == {v \in Seq(S) : print_string_ptr(v \o y) = v \o print_string_ptr(y)}
<1>0. print_string_ptr(y) \in Seq(Byte)
  <2>1. 0 \in Byte
    BY DEF Byte
  <2> QED BY <2>1, PrintOfByte
<1>1. \A v \in Seq(S) : v \in Seq(Byte)
  OBVIOUS
<1>2. << >> \in P
  <2>1. << >> \o y = y /\ << >> \o print_string_ptr(y) = print_string_ptr(y) /\ << >> \in Seq(S)
    BY <1>0, ConcatEmptySeq
  <2> QED BY <2>1
<1>3. ASSUME NEW x \in S, NEW s \in Seq(S), s \in P PROVE <<x>> \o s \in P
  <2> DEFINE h == <<x>>
  <2>1. x \in Byte /\ x >= 128
    <3>1. x \in Byte /\ x \notin Ascii
      OBVIOUS
    <3>2. x \in Int /\ 0 <= x
      BY <3>1, ByteBounds
    <3> QED BY <3>1, <3>2, SMT DEF Ascii
  <2>2. h \in Seq(S) /\ h \o s \in Seq(S) /\ h \in Seq(Byte)
    OBVIOUS
  <2>3. s \in Seq(Byte) /\ s \o y \in Seq(Byte)
    BY <1>1
  <2>4. print_string_ptr(h \o (s \o y)) = h \o print_string_ptr(s \o y)
    <3>1. print_string_ptr(h \o (s \o y)) = PrintByte(x) \o print_string_ptr(s \o y)
      BY <2>1, <2>3, PrintOfByte
    <3>2. PrintByte(x) = h
      BY <2>1, PrintByteTyped
    <3> QED BY <3>1, <3>2
  <2> HIDE DEF h
  <2>5. (h \o s) \o y = h \o (s \o y)
    BY <2>2, <2>3, ConcatAssociative
  <2>6. print_string_ptr(s \o y) = s \o print_string_ptr(y)
    BY <1>3
  <2>7. h \o (s \o print_string_ptr(y)) = (h \o s) \o print_string_ptr(y)
    BY <1>0, <2>2, <2>3, ConcatAssociative
  <2>8. h \o s \in P
    BY <2>2, <2>4, <2>5, <2>6, <2>7
  <2> QED BY <2>8 DEF h
<1> HIDE DEF P
<1>4. Seq(S) \subseteq P
  BY <1>2, <1>3, SequenceInduction
<1> QED BY <1>4 DEF P

\* They are printed for themselves only.
LEMMA PrintedWide ==
    ASSUME NEW t \in Seq(Byte), NEW k \in Nat, Wide(print_string_ptr(t), k)
    PROVE  k <= Len(t) /\ \A j \in 1 .. k : t[j] = print_string_ptr(t)[j]
<1> DEFINE Kept(v, n) == n <= Len(v) /\ \A j \in 1 .. n : v[j] = print_string_ptr(v)[j]
           P == {v \in Seq(Byte) : \A n \in Nat : Wide(print_string_ptr(v), n) => Kept(v, n)}
<1>1. \A v \in Seq(Byte) : Kept(v, 0)
  OBVIOUS
<1>2. ASSUME NEW v, NEW n \in Nat, n # 0, Wide(v, n) PROVE v[1] >= 128
  <2>1. 1 \in 1 .. n
    BY <1>2
  <2> QED BY <1>2, <2>1 DEF Wide
<1>3. << >> \in P
  <2>1. ASSUME NEW n \in Nat, n # 0 PROVE ~Wide(<<Quote>>, n)
    <3>1. <<Quote>>[1] = Quote /\ ~(Quote >= 128)
      BY DEF Quote
    <3> QED BY <1>2, <2>1, <3>1
  <2>2. << >> \in Seq(Byte)
    OBVIOUS
  <2> QED BY <1>1, <2>1, <2>2, PrintOfNothing, Zenon
<1>4. ASSUME NEW x \in Byte, NEW s \in Seq(Byte), s \in P PROVE <<x>> \o s \in P
  <2> DEFINE h == <<x>>
             v == h \o s
             p == PrintByte(x)
             r == print_string_ptr(s)
             q == p \o r
  <2>1. print_string_ptr(v) = q /\ r \in Seq(Byte)
    BY PrintOfByte
  <2>2. p \in Seq(Byte)
    BY PrintByteTyped
  <2>3. v \in Seq(Byte)
    OBVIOUS
  <2>4. ASSUME NEW n \in Nat, n # 0, Wide(q, n) PROVE Kept(v, n)
    <3>1. CASE x < 128
      <4>1. p \in Seq(Ascii) /\ p # << >>
        <5>1. p \in Seq(Ascii)
          BY <3>1, PrintByteTyped
        <5>2. p = <<x>> \/ (\E l \in DOMAIN Unescape : p = <<Backslash, l>>) \/ (x <= 31 /\ p = Escape(x))
          BY PrintedByte
        <5>3. x <= 31 => x \in Unit
          <6>1. x \in Int /\ 0 <= x
            BY ByteBounds
          <6> QED BY <6>1, UnitRange
        <5>4. x <= 31 => Escape(x) # << >>
          <6> SUFFICES ASSUME x <= 31, Escape(x) = << >> PROVE FALSE
            OBVIOUS
          <6>1. Len(Escape(x)) = 6
            BY <5>3, EscapeBytes
          <6> QED BY <6>1
        <5>5. <<x>> # << >> /\ \A l : <<Backslash, l>> # << >>
          OBVIOUS
        <5> HIDE DEF p
        <5>6. p # << >>
          BY <5>2, <5>4, <5>5, Zenon
        <5> QED BY <5>1, <5>6
      <4> HIDE DEF p
      <4>2. 1 \in 1 .. Len(p) /\ p[1] \in Ascii
        BY <4>1
      <4>3. q[1] = p[1]
        BY <2>1, <2>2, <4>2, Parts
      <4>4. ~(p[1] >= 128)
        <5>1. \A z \in Ascii : ~(z >= 128)
          BY DEF Ascii
        <5> QED BY <4>2, <5>1
      <4> HIDE DEF q
      <4> QED BY <1>2, <2>4, <4>3, <4>4
    <3>2. CASE ~(x < 128)
      <4>1. x \in Int
        BY ByteBounds
      <4>2. p = h
        BY <3>2, <4>1, PrintByteTyped
      <4>3. h \in Seq(Byte) /\ Len(h) = 1 /\ h[1] = x
        OBVIOUS
      <4> HIDE DEF h, p, r
      <4>4. /\ Len(q) = 1 + Len(r) /\ Len(r) \in Nat /\ \A j \in 1 .. Len(r) : q[1 + j] = r[j]
            /\ q[1] = x
        <5>0. h \in Seq(Byte) /\ r \in Seq(Byte) /\ q = h \o r
          BY <2>1, <4>2, <4>3
        <5> HIDE DEF q
        <5>1. /\ Len(h \o r) = Len(h) + Len(r) /\ Len(r) \in Nat
              /\ \A j \in 1 .. Len(h) : (h \o r)[j] = h[j]
              /\ \A j \in 1 .. Len(r) : (h \o r)[Len(h) + j] = r[j]
          BY <5>0, Parts
        <5> QED BY <4>3, <5>0, <5>1
      <4>5. /\ Len(v) = 1 + Len(s) /\ Len(s) \in Nat /\ \A j \in 1 .. Len(s) : v[1 + j] = s[j]
            /\ v[1] = x
        <5>0. h \in Seq(Byte) /\ v = h \o s
          BY <4>3
        <5> HIDE DEF v
        <5>1. /\ Len(h \o s) = Len(h) + Len(s) /\ Len(s) \in Nat
              /\ \A j \in 1 .. Len(h) : (h \o s)[j] = h[j]
              /\ \A j \in 1 .. Len(s) : (h \o s)[Len(h) + j] = s[j]
          BY <5>0, Parts
        <5> QED BY <4>3, <5>0, <5>1
      <4> HIDE DEF q, v
      <4>6. n - 1 \in Nat /\ n <= Len(q) /\ \A j \in 1 .. n : q[j] \in Byte /\ q[j] >= 128
        BY <2>4 DEF Wide
      <4>7. Wide(r, n - 1)
        <5>1. n - 1 <= Len(r)
          BY <4>4, <4>6
        <5>2. \A j \in 1 .. n - 1 : r[j] \in Byte /\ r[j] >= 128
          <6>1. \A j \in 1 .. n - 1 : j \in 1 .. Len(r) /\ 1 + j \in 1 .. n
            BY <4>4, <4>6
          <6> QED BY <4>4, <4>6, <6>1
        <5> QED BY <5>1, <5>2 DEF Wide
      <4>8. n - 1 <= Len(s) /\ \A j \in 1 .. n - 1 : s[j] = r[j]
        <5>1. Kept(s, n - 1)
          BY <1>4, <4>6, <4>7 DEF r
        <5> QED BY <5>1 DEF r
      <4>9. n <= Len(v)
        BY <4>5, <4>8
      <4>10. \A j \in 1 .. n : v[j] = q[j]
        <5> SUFFICES ASSUME NEW j \in 1 .. n PROVE v[j] = q[j]
          OBVIOUS
        <5>1. CASE j = 1
          BY <4>4, <4>5, <5>1
        <5>2. CASE j # 1
          <6>1. j - 1 \in 1 .. n - 1 /\ j - 1 \in 1 .. Len(s) /\ j - 1 \in 1 .. Len(r) /\ 1 + (j - 1) = j
            BY <4>4, <4>5, <4>6, <4>8, <5>2
          <6> QED BY <4>4, <4>5, <4>8, <6>1
        <5> QED BY <5>1, <5>2
      <4> QED BY <2>1, <4>9, <4>10
    <3> QED BY <3>1, <3>2
  <2>5. v \in P
    <3> HIDE DEF v, q
    <3> QED BY <1>1, <2>1, <2>3, <2>4
  <2> QED BY <2>5 DEF v, h
<1> HIDE DEF P
<1>5. Seq(Byte) \subseteq P
  BY <1>3, <1>4, SequenceInduction
<1> QED BY <1>5 DEF P

-----------------------------------------------------------------------------
(* Texts that can be cut into characters.                                  *)

LEMMA CharSame ==
    ASSUME NEW s, NEW i, NEW t, NEW j, NEW n \in 0 .. 3, SameBytes(s, i, t, j, n),
           i + n <= Len(s) <=> j + n <= Len(t)
    PROVE  CharAt(s, i, n) <=> CharAt(t, j, n)
<1>1. s[i] = t[j] /\ (n = 0 \/ s[i + 1] = t[j + 1]) /\ \A x \in 1 .. n : s[i + x] = t[j + x]
  BY DEF SameBytes
<1>2. (\A x \in 1 .. n : s[i + x] \in 128 .. 191) <=> (\A x \in 1 .. n : t[j + x] \in 128 .. 191)
  BY <1>1
<1>3. CASE n = 0
  BY <1>1, <1>2, <1>3, SMT DEF CharAt
<1>4. CASE n # 0
  <2> DEFINE Row(a, c) == \/ n = 1 /\ a \in 194 .. 223
                          \/ n = 2 /\ a \in 224 .. 239 /\ (a = 224 => c >= 160) /\ (a = 237 => c <= 159)
                          \/ n = 3 /\ a \in 240 .. 244 /\ (a = 240 => c >= 144) /\ (a = 244 => c <= 143)
  <2>1. s[i] = t[j] /\ s[i + 1] = t[j + 1]
    BY <1>1, <1>4
  <2>2. CharAt(s, i, n) <=> /\ i + n <= Len(s) /\ \A x \in 1 .. n : s[i + x] \in 128 .. 191
                            /\ Row(s[i], s[i + 1])
    BY <1>4, Zenon DEF CharAt
  <2>3. CharAt(t, j, n) <=> /\ j + n <= Len(t) /\ \A x \in 1 .. n : t[j + x] \in 128 .. 191
                            /\ Row(t[j], t[j + 1])
    BY <1>4, Zenon DEF CharAt
  <2> HIDE DEF Row
  <2>4. Row(s[i], s[i + 1]) <=> Row(t[j], t[j + 1])
    BY <2>1, Zenon
  <2> QED BY <1>2, <2>2, <2>3, <2>4
<1> QED BY <1>3, <1>4

\* A character is one wherever it is.
LEMMA CharShift ==
    ASSUME NEW u \in Seq(Byte), NEW v \in Seq(Byte), NEW i \in 1 .. Len(v) + 1, NEW n \in 0 .. 3
    PROVE  CharAt(u \o v, Len(u) + i, n) <=> CharAt(v, i, n)
<1> DEFINE s == u \o v
           k == Len(u)
<1>1. Len(s) = k + Len(v) /\ k \in Nat /\ Len(v) \in Nat /\ \A j \in 1 .. Len(v) : s[k + j] = v[j]
  BY Parts
<1> HIDE DEF s, k
<1>2. (k + i) + n <= Len(s) <=> i + n <= Len(v)
  BY <1>1
<1>3. CASE i + n <= Len(v)
  <2>1. i \in 1 .. Len(v) /\ \A x \in 1 .. n : i + x \in 1 .. Len(v) /\ (k + i) + x = k + (i + x)
    BY <1>1, <1>3
  <2>2. s[k + i] = v[i] /\ \A x \in 1 .. n : s[(k + i) + x] = v[i + x]
    BY <1>1, <2>1
  <2>3. SameBytes(s, k + i, v, i, n)
    BY <2>2, Zenon DEF SameBytes
  <2>4. CharAt(s, k + i, n) <=> CharAt(v, i, n)
    BY <1>2, <2>3, CharSame
  <2> QED BY <2>4 DEF s, k
<1>4. CASE ~(i + n <= Len(v))
  <2>1. ~CharAt(s, k + i, n) /\ ~CharAt(v, i, n)
    BY <1>2, <1>4, Zenon DEF CharAt
  <2> QED BY <2>1 DEF s, k
<1> QED BY <1>3, <1>4

\* A cut of a text: the set of the indexes where a character starts, and of its end.
Cuts(s, Starts) ==
    /\ Starts \subseteq 1 .. Len(s) + 1
    /\ 1 \in Starts
    /\ \A i \in Starts : i = Len(s) + 1 \/ \E n \in 0 .. 3 : CharAt(s, i, n) /\ i + n + 1 \in Starts

LEMMA TextCut == \A s : Utf8Text(s) <=> \E Starts : Cuts(s, Starts)
  BY Zenon DEF Utf8Text, Cuts

LEMMA TextOfNothing == Utf8Text(<< >>)
<1>1. Cuts(<< >>, {1})
  <2>1. Len(<< >>) = 0
    OBVIOUS
  <2> QED BY <2>1 DEF Cuts
<1> QED BY <1>1, TextCut

LEMMA TextOfError ==
    ASSUME NEW s \in Seq(Byte), s # << >>, \A n \in 0 .. 3 : ~CharAt(s, 1, n)
    PROVE  ~Utf8Text(s)
<1> SUFFICES ASSUME NEW Starts, Cuts(s, Starts) PROVE FALSE
  BY TextCut
<1>1. 1 # Len(s) + 1
  <2>1. Len(s) \in Nat /\ Len(s) # 0
    OBVIOUS
  <2> QED BY <2>1
<1> QED BY <1>1, Zenon DEF Cuts

\* Behind a first character comes a text.
LEMMA TextOfChar ==
    ASSUME NEW w \in Seq(Byte), NEW y \in Seq(Byte), NEW n \in 0 .. 3, Len(w) = n + 1,
           CharAt(w \o y, 1, n)
    PROVE  Utf8Text(w \o y) <=> Utf8Text(y)
<1> DEFINE t == w \o y
           k == n + 1
<1>1. t \in Seq(Byte) /\ Len(t) = k + Len(y) /\ Len(y) \in Nat
  BY Parts
<1>2. \A i \in 1 .. Len(y) + 1, m \in 0 .. 3 : CharAt(t, k + i, m) <=> CharAt(y, i, m)
  BY CharShift
<1> HIDE DEF t
<1>3. ASSUME Utf8Text(y) PROVE Utf8Text(t)
  <2>1. PICK Starts : Cuts(y, Starts)
    BY <1>3, TextCut
  <2> DEFINE U == {1} \cup {k + i : i \in Starts}
  <2>2. Starts \subseteq 1 .. Len(y) + 1 /\ 1 \in Starts
    BY <2>1 DEF Cuts
  <2>3. U \subseteq 1 .. Len(t) + 1 /\ 1 \in U
    BY <1>1, <2>2
  <2>4. ASSUME NEW i \in U PROVE i = Len(t) + 1 \/ \E m \in 0 .. 3 : CharAt(t, i, m) /\ i + m + 1 \in U
    <3>1. CASE i = 1
      <4>1. CharAt(t, i, n) /\ i + n + 1 \in U
        <5>1. i + n + 1 = k + 1
          BY <3>1
        <5> QED BY <2>2, <3>1, <5>1 DEF t
      <4> QED BY <4>1
    <3>2. CASE i # 1
      <4>1. PICK j \in Starts : i = k + j
        BY <3>2
      <4>2. j \in 1 .. Len(y) + 1
        BY <2>2
      <4>3. CASE j = Len(y) + 1
        <5>1. i = Len(t) + 1
          BY <1>1, <4>1, <4>3
        <5> QED BY <5>1
      <4>4. CASE j # Len(y) + 1
        <5>1. PICK m \in 0 .. 3 : CharAt(y, j, m) /\ j + m + 1 \in Starts
          BY <2>1, <4>4, Zenon DEF Cuts
        <5>2. CharAt(t, i, m)
          BY <1>2, <4>1, <4>2, <5>1
        <5>3. i + m + 1 = k + (j + m + 1)
          BY <4>1, <4>2
        <5>4. i + m + 1 \in U
          BY <5>1, <5>3
        <5> QED BY <5>2, <5>4
      <4> QED BY <4>3, <4>4
    <3> QED BY <3>1, <3>2
  <2> HIDE DEF U
  <2>5. Cuts(t, U)
    BY <2>3, <2>4, Zenon DEF Cuts
  <2> QED BY <2>5, TextCut
<1>4. ASSUME Utf8Text(t) PROVE Utf8Text(y)
  <2>1. PICK Starts : Cuts(t, Starts)
    BY <1>4, TextCut
  <2> DEFINE U == {i \in 1 .. Len(y) + 1 : k + i \in Starts}
  <2>2. PICK m \in 0 .. 3 : CharAt(t, 1, m) /\ 1 + m + 1 \in Starts
    <3>1. 1 # Len(t) + 1
      BY <1>1
    <3> QED BY <2>1, <3>1, Zenon DEF Cuts
  <2>3. m = n
    <3>1. t # << >>
      BY <1>1
    <3>2. m = Announced(t[1])
      BY <1>1, <2>2, <3>1, TableDecoded
    <3>3. CharAt(t, 1, n)
      BY DEF t
    <3>4. n = Announced(t[1])
      BY <1>1, <3>1, <3>3, TableDecoded
    <3> QED BY <3>2, <3>4
  <2>4. 1 \in U /\ U \subseteq 1 .. Len(y) + 1
    <3>1. 1 + m + 1 = k + 1 /\ 1 \in 1 .. Len(y) + 1
      BY <1>1, <2>3
    <3> QED BY <2>2, <3>1
  <2>5. ASSUME NEW i \in U PROVE i = Len(y) + 1 \/ \E x \in 0 .. 3 : CharAt(y, i, x) /\ i + x + 1 \in U
    <3>1. i \in 1 .. Len(y) + 1 /\ k + i \in Starts
      OBVIOUS
    <3>2. CASE k + i = Len(t) + 1
      <4>1. i = Len(y) + 1
        BY <1>1, <3>1, <3>2
      <4> QED BY <4>1
    <3>3. CASE k + i # Len(t) + 1
      <4>1. PICK x \in 0 .. 3 : CharAt(t, k + i, x) /\ (k + i) + x + 1 \in Starts
        BY <2>1, <3>1, <3>3, Zenon DEF Cuts
      <4>2. CharAt(y, i, x)
        BY <1>2, <3>1, <4>1
      <4>3. i + x <= Len(y)
        BY <4>2 DEF CharAt
      <4>4. i + x + 1 \in 1 .. Len(y) + 1 /\ (k + i) + x + 1 = k + (i + x + 1)
        BY <1>1, <3>1, <4>3
      <4>5. i + x + 1 \in U
        BY <4>1, <4>4
      <4> QED BY <4>2, <4>5
    <3> QED BY <3>2, <3>3
  <2> HIDE DEF U
  <2>6. Cuts(y, U)
    BY <2>4, <2>5, Zenon DEF Cuts
  <2> QED BY <2>6, TextCut
<1> QED BY <1>3, <1>4 DEF t

-----------------------------------------------------------------------------
(* A text is printed, rewritten and parsed back.                           *)

\* It comes back whole if it is UTF-8, and is refused otherwise.
Rebuilt(t) ==
    LET a == utf82ascii(print_string_ptr(t))
    IN  IF Utf8Text(t) THEN a \in Seq(Ascii) /\ parse_string(a) = t ELSE a = Failed

LEMMA FirstAndRest ==
    ASSUME NEW t \in Seq(Byte), t # << >>
    PROVE  \E x \in Byte, s \in Seq(Byte) : t = <<x>> \o s /\ Len(t) = Len(s) + 1 /\ x = t[1]
<1>1. Len(t) \in Nat /\ 2 \in 1 .. Len(t) + 1 /\ 2 - 1 = 1 /\ t[1] \in Byte
  BY LenProperties, EmptySeq
<1>2. PICK u \in Seq(Byte), s \in Seq(Byte) : t = u \o s /\ Len(u) = 1
  <2>1. \E u, s \in Seq(Byte) : t = u \o s /\ Len(u) = 2 - 1
    BY <1>1, Cut
  <2> QED BY <1>1, <2>1
<1>3. Len(t) = Len(u) + Len(s) /\ Len(s) \in Nat /\ \A j \in 1 .. Len(u) : t[j] = u[j]
  BY <1>2, Parts
<1>4. u = <<u[1]>>
  BY <1>2
<1>5. u[1] = t[1] /\ Len(t) = Len(s) + 1
  BY <1>2, <1>3
<1> QED BY <1>1, <1>2, <1>4, <1>5

LEMMA RebuiltNothing == Rebuilt(<< >>)
<1> DEFINE q == <<Quote>>
<1>1. Quote \in Ascii /\ Quote \in Byte /\ << >> \in Seq(Byte)
  BY DEF Quote, Ascii, Byte
<1>2. q \in Seq(Ascii) /\ q \in Seq(Byte) /\ Len(q) = 1 /\ q[1] = Quote
  BY <1>1
<1>3. utf82ascii(q) = q
  <2>1. utf82ascii(q \o << >>) = Join(q, utf82ascii(<< >>))
    BY <1>1, AsciiOfByte
  <2>2. Join(q, << >>) = q \o << >> /\ q \o << >> = q
    BY <1>1, <1>2, JoinLaw, ConcatEmptySeq
  <2> QED BY <2>1, <2>2, AsciiOfNothing
<1> HIDE DEF q
<1>4. parse_string(q) = << >>
  <2>1. 1 \in 1 .. Len(q) + 2 /\ 1 \in 1 .. Len(q) + 1 /\ ~(1 > Len(q)) /\ 1 # 0 /\ 1 >= 1
    BY <1>2
  <2>2. ClosingQuote(q) = ClosingStep(q, 1, ClosingFrom(q))
    BY <1>2, <2>1, ClosingLaw
  <2>3. ClosingQuote(q) = 1
    BY <1>2, <2>1, <2>2, Zenon DEF ClosingStep
  <2>4. /\ parse_string(q) = IF ClosingQuote(q) = 0 THEN Failed ELSE ParseFrom(q)[1]
        /\ ParseFrom(q)[1] = ParseStep(q, ClosingQuote(q), 1, ParseFrom(q))
    BY <1>2, <2>1, ParseLaw
  <2>5. ParseStep(q, 1, 1, ParseFrom(q)) = << >>
    BY <2>1, Zenon DEF ParseStep
  <2> QED BY <2>1, <2>3, <2>4, <2>5
<1>5. print_string_ptr(<< >>) = q
  BY PrintOfNothing DEF q
<1> QED BY <1>2, <1>3, <1>4, <1>5, TextOfNothing, Zenon DEF Rebuilt

\* What is written in ASCII for a part is put in front of what is written for the rest.
LEMMA RebuiltPart ==
    ASSUME NEW w \in Seq(Byte), NEW y \in Seq(Byte), NEW e \in Seq(Ascii), Rebuilt(y),
           Utf8Text(w \o y) <=> Utf8Text(y),
           utf82ascii(print_string_ptr(w \o y)) = Join(e, utf82ascii(print_string_ptr(y))),
           \A z \in Seq(Byte) : parse_string(e \o z) = Join(w, parse_string(z))
    PROVE  Rebuilt(w \o y)
<1> DEFINE t == w \o y
           a == utf82ascii(print_string_ptr(y))
<1>0. \A s \in Seq(Ascii) : s \in Seq(Byte)
  BY DEF Ascii, Byte
<1>1. CASE Utf8Text(y)
  <2>1. a \in Seq(Ascii) /\ parse_string(a) = y
    BY <1>1, Zenon DEF Rebuilt
  <2> HIDE DEF a
  <2>2. Join(e, a) = e \o a /\ Join(e, a) \in Seq(Ascii)
    BY <2>1, JoinLaw
  <2>3. parse_string(e \o a) = Join(w, y)
    BY <1>0, <2>1
  <2>4. Join(w, y) = t
    BY JoinLaw
  <2>5. utf82ascii(print_string_ptr(t)) = e \o a
    BY <2>2 DEF a
  <2> HIDE DEF t
  <2>6. Rebuilt(t)
    <3>1. Utf8Text(t)
      BY <1>1 DEF t
    <3> QED BY <2>2, <2>3, <2>4, <2>5, <3>1, Zenon DEF Rebuilt
  <2> QED BY <2>6 DEF t
<1>2. CASE ~Utf8Text(y)
  <2>1. a = Failed
    BY <1>2, Zenon DEF Rebuilt
  <2>2. Join(e, Failed) = Failed
    BY <1>0, JoinLaw
  <2> QED BY <1>2, <2>1, <2>2, Zenon DEF Rebuilt
<1> QED BY <1>1, <1>2

LEMMA RebuiltAscii ==
    ASSUME NEW b \in Ascii, NEW y \in Seq(Byte), Rebuilt(y)
    PROVE  Rebuilt(<<b>> \o y)
<1> DEFINE w == <<b>>
           t == w \o y
           e == PrintByte(b)
<1>1. b \in Byte /\ b \in 0 .. 127 /\ b < 128
  BY DEF Ascii, Byte
<1>2. w \in Seq(Byte) /\ Len(w) = 0 + 1 /\ w[1] = b
  BY <1>1
<1>3. print_string_ptr(t) = e \o print_string_ptr(y) /\ print_string_ptr(y) \in Seq(Byte)
  BY <1>1, PrintOfByte
<1>4. e \in Seq(Ascii)
  BY <1>1, PrintByteTyped
<1>5. \A z \in Seq(Byte) : parse_string(e \o z) = Join(w, parse_string(z))
  BY ParseOfPrinted
<1> HIDE DEF w, e
<1>6. CharAt(t, 1, 0)
  <2>1. t[1] = b /\ 1 + 0 <= Len(t)
    <3>1. Len(t) = Len(w) + Len(y) /\ Len(y) \in Nat /\ \A j \in 1 .. Len(w) : t[j] = w[j]
      BY <1>2, Parts
    <3> HIDE DEF t
    <3> QED BY <1>2, <3>1
  <2>2. \A k \in 1 .. 0 : t[1 + k] \in 128 .. 191
    OBVIOUS
  <2> HIDE DEF t
  <2> QED BY <1>1, <2>1, <2>2, SMT DEF CharAt
<1>7. Utf8Text(t) <=> Utf8Text(y)
  BY <1>2, <1>6, TextOfChar
<1>8. utf82ascii(print_string_ptr(t)) = Join(e, utf82ascii(print_string_ptr(y)))
  BY <1>3, <1>4, AsciiOfAscii
<1>9. Rebuilt(t)
  BY <1>2, <1>4, <1>5, <1>7, <1>8, RebuiltPart
<1> QED BY <1>9 DEF w

LEMMA RebuiltChar ==
    ASSUME NEW w \in Seq(Byte \ Ascii), NEW y \in Seq(Byte), NEW n \in 1 .. 3, Len(w) = n + 1,
           CharAt(w \o y, 1, n), Rebuilt(y)
    PROVE  Rebuilt(w \o y)
<1> DEFINE t == w \o y
           r == print_string_ptr(y)
           c == utf8_decode_next(w, 1).char
           e == EscapeChar(c)
<1>1. w \in Seq(Byte) /\ n \in 0 .. 3
  OBVIOUS
<1>2. print_string_ptr(t) = w \o r
  BY PrintOfWide
<1>3. r \in Seq(Byte)
  <2>1. 0 \in Byte
    BY DEF Byte
  <2> QED BY <2>1, PrintOfByte
<1>4. CharAt(w, 1, n)
  <2>1. Len(t) = Len(w) + Len(y) /\ Len(y) \in Nat /\ \A j \in 1 .. Len(w) : t[j] = w[j]
    BY <1>1, Parts
  <2>2. CharAt(t, 1, n)
    OBVIOUS
  <2> HIDE DEF t
  <2>3. 1 \in 1 .. Len(w) /\ \A x \in 1 .. n : 1 + x \in 1 .. Len(w)
    OBVIOUS
  <2>4. SameBytes(t, 1, w, 1, n)
    BY <2>1, <2>3, Zenon DEF SameBytes
  <2>5. 1 + n <= Len(t) <=> 1 + n <= Len(w)
    BY <2>1
  <2> QED BY <1>1, <2>2, <2>4, <2>5, CharSame
<1>5. /\ Scalar(c) /\ utf8_encode(c) = w
      /\ utf82ascii(w \o r) = Join(e, utf82ascii(r))
  BY <1>1, <1>3, <1>4, AsciiOfChar
<1> HIDE DEF c
<1>6. e \in Seq(Ascii)
  BY <1>5, EscapeCharAscii
<1>7. c >= 128
  <2>1. c \in Nat
    BY <1>5, SMT DEF Scalar
  <2>2. ASSUME c < 128 PROVE FALSE
    <3>1. utf8_encode(c) = <<c>>
      BY <2>2, SMT DEF utf8_encode
    <3>2. w = <<c>>
      BY <1>5, <3>1
    <3>3. Len(<<c>>) = 1 /\ n + 1 # 1
      OBVIOUS
    <3> QED BY <3>2, <3>3
  <2> QED BY <2>1, <2>2
<1>8. \A z \in Seq(Byte) : parse_string(e \o z) = Join(w, parse_string(z))
  BY <1>5, <1>7, ParseOfChar
<1>9. Utf8Text(t) <=> Utf8Text(y)
  BY <1>1, TextOfChar
<1> HIDE DEF e, t
<1>10. utf82ascii(print_string_ptr(t)) = Join(e, utf82ascii(print_string_ptr(y)))
  BY <1>2, <1>5
<1> QED BY <1>1, <1>6, <1>8, <1>9, <1>10, RebuiltPart DEF t

LEMMA RebuiltError ==
    ASSUME NEW t \in Seq(Byte), t # << >>, t[1] \notin Ascii, \A n \in 0 .. 3 : ~CharAt(t, 1, n)
    PROVE  Rebuilt(t)
<1> DEFINE p == print_string_ptr(t)
<1>1. PICK x \in Byte, s \in Seq(Byte) : t = <<x>> \o s /\ Len(t) = Len(s) + 1 /\ x = t[1]
  BY FirstAndRest
<1>2. x >= 128
  <2>1. x \in Int /\ 0 <= x
    BY ByteBounds
  <2> QED BY <1>1, <2>1, SMT DEF Ascii
<1>3. p = <<x>> \o print_string_ptr(s) /\ print_string_ptr(s) \in Seq(Byte)
  BY <1>1, <1>2, PrintOfByte, PrintByteTyped
<1>4. p \in Seq(Byte) /\ p # << >> /\ p[1] = x
  <2> DEFINE h == <<x>>
             r == print_string_ptr(s)
  <2>0. h \in Seq(Byte) /\ Len(h) = 1 /\ h[1] = x /\ r \in Seq(Byte) /\ p = h \o r
    BY <1>3
  <2> HIDE DEF h, r, p
  <2>1. h \in Seq(Byte) /\ r \in Seq(Byte)
    BY <2>0
  <2>2. /\ h \o r \in Seq(Byte) /\ Len(h \o r) = Len(h) + Len(r) /\ Len(r) \in Nat
        /\ \A j \in 1 .. Len(h) : (h \o r)[j] = h[j]
    BY <2>1, Parts
  <2> QED BY <2>0, <2>2
<1> HIDE DEF p
<1>5. ASSUME NEW n \in 0 .. 3, CharAt(p, 1, n) PROVE FALSE
  <2>1. 1 + n <= Len(p) /\ \A k \in 1 .. n : p[1 + k] \in 128 .. 191
    BY <1>5 DEF CharAt
  <2>2. Wide(p, n + 1)
    <3>1. n + 1 <= Len(p)
      BY <2>1
    <3>2. ASSUME NEW j \in 1 .. n + 1 PROVE p[j] \in Byte /\ p[j] >= 128
      <4>1. CASE j = 1
        BY <1>2, <1>4, <4>1
      <4>2. CASE j # 1
        <5>1. j - 1 \in 1 .. n /\ 1 + (j - 1) = j
          BY <4>2
        <5>2. p[j] \in 128 .. 191
          BY <2>1, <5>1
        <5>3. \A z \in 128 .. 191 : z \in Byte /\ z >= 128
          BY DEF Byte
        <5> QED BY <5>2, <5>3
      <4> QED BY <4>1, <4>2
    <3> QED BY <3>1, <3>2 DEF Wide
  <2>3. n + 1 <= Len(t) /\ \A j \in 1 .. n + 1 : t[j] = p[j]
    <3>1. n + 1 \in Nat
      OBVIOUS
    <3> QED BY <2>2, <3>1, PrintedWide DEF p
  <2>4. SameBytes(p, 1, t, 1, n)
    <3>1. 1 \in 1 .. n + 1 /\ \A x_1 \in 1 .. n : 1 + x_1 \in 1 .. n + 1
      OBVIOUS
    <3> QED BY <2>3, <3>1, Zenon DEF SameBytes
  <2>5. 1 + n <= Len(p) <=> 1 + n <= Len(t)
    BY <2>1, <2>3
  <2>6. CharAt(t, 1, n)
    BY <1>5, <2>4, <2>5, CharSame
  <2> QED BY <2>6
<1>6. utf82ascii(p) = Failed
  BY <1>4, <1>5, AsciiOfError
<1>7. ~Utf8Text(t)
  BY TextOfError
<1> QED BY <1>6, <1>7, Zenon DEF Rebuilt, p

\* Every text, whatever its length and its bytes, is rewritten in ASCII so that
\* it is parsed back as it was, or is refused; it is refused if and only if it
\* is not UTF-8 (utf82ascii of dubbo_hessian.c, print_string_ptr of cJSON.c).
THEOREM TextRebuilt == \A t \in Seq(Byte) : Rebuilt(t)
<1> DEFINE Bad == {n \in Nat : \E t \in Seq(Byte) : Len(t) = n /\ ~Rebuilt(t)}
<1>1. ASSUME Bad # {} PROVE FALSE
  <2>1. PICK n \in Bad : \A m \in Bad : n <= m
    <3>1. Bad \subseteq Nat
      OBVIOUS
    <3> HIDE DEF Bad
    <3> QED BY <1>1, <3>1, Least
  <2>2. PICK t \in Seq(Byte) : Len(t) = n /\ ~Rebuilt(t)
    BY <2>1
  <2>3. \A y \in Seq(Byte) : Len(y) < Len(t) => Rebuilt(y)
    <3> SUFFICES ASSUME NEW y \in Seq(Byte), Len(y) < Len(t), ~Rebuilt(y) PROVE FALSE
      OBVIOUS
    <3>1. Len(y) \in Nat /\ n \in Nat /\ ~(n <= Len(y))
      BY <2>1, <2>2
    <3> QED BY <2>1, <3>1
  <2>4. t # << >>
    BY <2>2, RebuiltNothing
  <2> HIDE DEF Bad
  <2>5. CASE t[1] \in Ascii
    <3>1. PICK x \in Byte, s \in Seq(Byte) : t = <<x>> \o s /\ Len(t) = Len(s) + 1 /\ x = t[1]
      BY <2>4, FirstAndRest
    <3>2. Len(s) < Len(t)
      <4>1. Len(s) \in Nat
        OBVIOUS
      <4> QED BY <3>1, <4>1
    <3>3. Rebuilt(<<x>> \o s)
      BY <2>3, <2>5, <3>1, <3>2, RebuiltAscii
    <3> QED BY <2>2, <3>1, <3>3
  <2>6. CASE t[1] \notin Ascii /\ \E m \in 0 .. 3 : CharAt(t, 1, m)
    <3>1. PICK m \in 0 .. 3 : CharAt(t, 1, m)
      BY <2>6
    <3>2. Len(t) \in Nat /\ 1 + m <= Len(t) /\ \A k \in 1 .. m : t[1 + k] \in 128 .. 191
      BY <3>1 DEF CharAt
    <3>3. m \in 1 .. 3
      <4>1. ASSUME m = 0 PROVE FALSE
        <5>1. t[1] \in 0 .. 127
          BY <3>1, <4>1, SMT DEF CharAt
        <5> QED BY <2>6, <5>1 DEF Ascii
      <4> QED BY <4>1
    <3>4. PICK w \in Seq(Byte), y \in Seq(Byte) : t = w \o y /\ Len(w) = m + 1
      <4>1. m + 2 \in 1 .. Len(t) + 1 /\ (m + 2) - 1 = m + 1
        BY <3>2
      <4>2. \E w, y \in Seq(Byte) : t = w \o y /\ Len(w) = (m + 2) - 1
        BY <4>1, Cut
      <4> QED BY <4>1, <4>2
    <3>5. Len(t) = Len(w) + Len(y) /\ Len(y) \in Nat /\ \A j \in 1 .. Len(w) : t[j] = w[j]
      BY <3>4, Parts
    <3>6. w \in Seq(Byte \ Ascii)
      <4>1. \A j \in 1 .. Len(w) : w[j] \in Byte /\ w[j] \notin Ascii
        <5> SUFFICES ASSUME NEW j \in 1 .. Len(w) PROVE w[j] \in Byte /\ w[j] \notin Ascii
          OBVIOUS
        <5>1. w[j] \in Byte
          OBVIOUS
        <5>2. CASE j = 1
          BY <2>6, <3>5, <5>1, <5>2
        <5>3. CASE j # 1
          <6>1. j - 1 \in 1 .. m /\ 1 + (j - 1) = j
            BY <3>4, <5>3
          <6>2. w[j] \in 128 .. 191
            BY <3>2, <3>5, <6>1
          <6>3. \A z \in 128 .. 191 : z \notin Ascii
            BY DEF Ascii
          <6> QED BY <5>1, <6>2, <6>3
        <5> QED BY <5>2, <5>3
      <4> QED BY <4>1
    <3>7. Len(y) < Len(t)
      BY <3>4, <3>5
    <3>8. Rebuilt(w \o y)
      <4>1. Rebuilt(y) /\ CharAt(w \o y, 1, m)
        BY <2>3, <3>1, <3>4, <3>7
      <4> QED BY <3>3, <3>4, <3>6, <4>1, RebuiltChar
    <3> QED BY <2>2, <3>4, <3>8
  <2>7. CASE t[1] \notin Ascii /\ ~\E m \in 0 .. 3 : CharAt(t, 1, m)
    BY <2>2, <2>4, <2>7, RebuiltError
  <2> QED BY <2>5, <2>6, <2>7
<1>2. \A t \in Seq(Byte) : Len(t) \in Nat
  OBVIOUS
<1> QED BY <1>1, <1>2

LEMMA CStringTyped ==
    ASSUME NEW s \in Seq(Byte)
    PROVE  CString(s) \in Seq(Byte)
<1> DEFINE zeros == {i \in DOMAIN s : s[i] = 0}
<1>1. CASE zeros = {}
  BY <1>1, Zenon DEF CString
<1>2. CASE zeros # {}
  <2> DEFINE z == CHOOSE i \in zeros : \A j \in zeros : i <= j
  <2>1. \E i \in zeros : \A j \in zeros : i <= j
    <3>1. zeros \subseteq Nat
      OBVIOUS
    <3> HIDE DEF zeros
    <3> QED BY <1>2, <3>1, Least
  <2>2. z \in zeros
    BY <2>1
  <2> HIDE DEF z
  <2>3. z \in 1 .. Len(s)
    BY <2>2
  <2>4. SubSeq(s, 1, z - 1) \in Seq(Byte)
    BY <2>3
  <2>5. CString(s) = SubSeq(s, 1, z - 1)
    BY <1>2, Zenon DEF CString, z
  <2> QED BY <2>4, <2>5
<1> QED BY <1>1, <1>2

\* A string among the arguments, of any length, reaches the server as it was
\* given, up to its first zero, or the request is refused; and it is refused
\* only if it does not parse or is not UTF-8 (rebuild_json_args, dubbo_codec.c).
THEOREM ArgumentsRebuilt ==
    ASSUME NEW s \in Seq(Byte)
    PROVE  LET text == parse_string(s)
           IN  IF text # Failed /\ Utf8Text(CString(text))
               THEN /\ rebuild_json_args(s) \in Seq(Ascii)
                    /\ parse_string(rebuild_json_args(s)) = CString(text)
               ELSE rebuild_json_args(s) = Failed
<1> DEFINE text == parse_string(s)
<1>1. text \in Outcome
  <2>1. 1 \in 1 .. Len(s) + 1
    BY LenProperties
  <2>2. ParseFrom(s)[1] \in Outcome /\ text = IF ClosingQuote(s) = 0 THEN Failed ELSE ParseFrom(s)[1]
    BY <2>1, ParseLaw
  <2> QED BY <2>2 DEF Outcome
<1>2. rebuild_json_args(s) = IF text = Failed THEN Failed ELSE utf82ascii(print_string_ptr(CString(text)))
  BY Zenon DEF rebuild_json_args
<1> HIDE DEF text
<1>3. CASE text = Failed
  BY <1>2, <1>3 DEF text
<1>4. CASE text # Failed
  <2>1. CString(text) \in Seq(Byte)
    BY <1>1, <1>4, CStringTyped DEF Outcome
  <2>2. Rebuilt(CString(text))
    BY <2>1, TextRebuilt
  <2> QED BY <1>2, <1>4, <2>2, Zenon DEF Rebuilt, text
<1> QED BY <1>3, <1>4

\* So it is in every state of the conversions.
THEOREM ArgumentsKept == Spec => []ArgsKept
<1>1. Init => ArgsKept
  BY SMT DEF Init, Idle, ArgsKept
<1>2. ASSUME ArgsKept, [Next]_call PROVE ArgsKept'
  <2>1. ASSUME NEW s \in Literals, RebuildArgs(s) PROVE ArgsKept'
    <3>1. s \in Seq(Byte)
      BY ConversionsAssumption
    <3>2. call'.arg = s /\ call'.ret = rebuild_json_args(s)
      BY <2>1 DEF RebuildArgs
    <3>3. LET text == parse_string(s)
          IN  IF text # Failed /\ Utf8Text(CString(text))
              THEN rebuild_json_args(s) \in Seq(0 .. 127) /\ parse_string(rebuild_json_args(s)) = CString(text)
              ELSE rebuild_json_args(s) = Failed
      BY <3>1, ArgumentsRebuilt, Zenon DEF Ascii
    <3> QED BY <3>2, <3>3, Zenon DEF ArgsKept
  <2>2. ASSUME call'.op \in {"append", "appendLE", "prepend", "prependLE", "int", "string",
                             "response", "char", "none"}
        PROVE  ArgsKept'
    BY <2>2, Zenon DEF ArgsKept
  <2>3. ASSUME NEW w \in {1, 2, 4, 8}, NEW s \in Before, NEW x \in Values(w),
               AppendInt(w, x, s) \/ PrependInt(w, x, s)
        PROVE  ArgsKept'
    BY <2>2, <2>3 DEF AppendInt, PrependInt
  <2>4. ASSUME NEW x \in Ints, EncodeInt(x) PROVE ArgsKept'
    BY <2>2, <2>4 DEF EncodeInt
  <2>5. ASSUME NEW t \in Texts, EncodeString(t) \/ DecodeString(t) PROVE ArgsKept'
    BY <2>2, <2>5 DEF EncodeString, DecodeString
  <2>6. ASSUME NEW s \in Raw, DecodeChar(s) PROVE ArgsKept'
    BY <2>2, <2>6 DEF DecodeChar
  <2>7. ASSUME Return PROVE ArgsKept'
    BY <2>2, <2>7 DEF Return, Idle
  <2>8. ASSUME UNCHANGED call PROVE ArgsKept'
    BY <1>2, <2>8, Zenon DEF ArgsKept
  <2> QED BY <1>2, <2>1, <2>3, <2>4, <2>5, <2>6, <2>7, <2>8, Zenon DEF Next, Call
<1> QED BY <1>1, <1>2, PTL DEF Spec
=============================================================================
