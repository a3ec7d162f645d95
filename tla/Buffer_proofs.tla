----------------------------- MODULE Buffer_proofs -----------------------------
(***************************************************************************)
(* The invariants of Buffer, for every size of the block, every data and   *)
(* every number of views, and the step simulation that makes it a queue of *)
(* bytes.                                                                  *)
(***************************************************************************)
EXTENDS Buffer, FiniteSetTheorems, SequenceTheorems, WellFoundedInduction, TLAPS

-----------------------------------------------------------------------------
(* The block.                                                              *)

\* The block b is well formed.
Formed(b) ==
    /\ b = [mem |-> b.mem, sz |-> b.sz, p_sz |-> b.p_sz,
            read_idx |-> b.read_idx, write_idx |-> b.write_idx]
    /\ b.mem \in [0 .. b.sz - 1 -> Byte]
    /\ b.sz \in Nat /\ b.p_sz \in Nat /\ b.read_idx \in Nat /\ b.write_idx \in Nat
    /\ 1 <= b.sz /\ b.sz <= MaxSz /\ b.p_sz <= b.sz
    /\ b.read_idx <= b.write_idx /\ b.write_idx <= b.sz

\* The numbers of the assumption.
LEMMA Numbers ==
    /\ MaxSz \in Nat /\ SizeMod \in Nat /\ 2 * MaxSz < SizeMod /\ Extra \in Nat
    /\ 0 \in Byte
    /\ \A data \in Datas : data \in Seq(Byte) /\ Len(data) \in Nat
BY BufferAssumption

\* Storing bytes in a block keeps it a block.
LEMMA StoredType ==
    ASSUME NEW n \in Nat, NEW m \in [0 .. n - 1 -> Byte],
           NEW i \in Nat, NEW len \in Nat, NEW s \in [1 .. len -> Byte], Len(s) = len
    PROVE  Stored(m, i, s) \in [0 .. n - 1 -> Byte]
<1>1. \A k \in 0 .. n - 1 : k \in i .. i + len - 1 => k - i + 1 \in 1 .. len
  OBVIOUS
<1>2. \A k \in 0 .. n - 1 :
          (IF k \in i .. i + Len(s) - 1 THEN s[k - i + 1] ELSE m[k]) \in Byte
  BY <1>1
<1> QED
  BY <1>2 DEF Stored

\* The bytes of a part of the block.
LEMMA CellsType ==
    ASSUME NEW b, Formed(b), NEW i \in Nat, NEW len \in Nat, i + len <= b.sz
    PROVE  /\ Cells(b, i, len) \in [1 .. len -> Byte]
           /\ Cells(b, i, len) \in Seq(Byte)
           /\ Len(Cells(b, i, len)) = len
<1>1. \A k \in 1 .. len : i + k - 1 \in 0 .. b.sz - 1
  BY DEF Formed
<1>2. Cells(b, i, len) \in [1 .. len -> Byte]
  BY <1>1 DEF Cells, Formed
<1> QED
  BY <1>2

\* The readable part is a sequence of bytes.
LEMMA ContentType ==
    ASSUME NEW b, Formed(b)
    PROVE  /\ buf_readable(b) \in Nat /\ buf_writable(b) \in Nat
           /\ buf_readable(b) = b.write_idx - b.read_idx
           /\ Content(b) \in [1 .. buf_readable(b) -> Byte]
           /\ Content(b) \in Seq(Byte) /\ Len(Content(b)) = buf_readable(b)
           /\ \A k \in 1 .. buf_readable(b) : Content(b)[k] = b.mem[b.read_idx + k - 1]
<1>1. buf_readable(b) \in Nat /\ buf_writable(b) \in Nat /\ buf_readable(b) = b.write_idx - b.read_idx
  BY DEF buf_readable, buf_writable, Formed
<1>2. b.read_idx \in Nat /\ b.read_idx + buf_readable(b) <= b.sz
  BY <1>1 DEF Formed
<1>3. \A k \in 1 .. buf_readable(b) : Content(b)[k] = b.mem[b.read_idx + k - 1]
  BY DEF Content, Cells
<1> QED
  BY <1>1, <1>2, <1>3, CellsType DEF Content

\* The rest of the block is as it was.
LEMMA StoredOld ==
    ASSUME NEW n \in Nat, NEW m \in [0 .. n - 1 -> Byte], NEW i \in Nat, NEW s,
           NEW len \in Nat, Len(s) = len, NEW k \in 0 .. n - 1, k < i \/ i + len <= k
    PROVE  Stored(m, i, s)[k] = m[k]
<1>1. k \notin i .. i + Len(s) - 1
  OBVIOUS
<1> QED
  BY <1>1 DEF Stored

\* The readable part is found where it was stored.
LEMMA RelocatedBytes ==
    ASSUME NEW b, Formed(b), NEW nsz \in Nat, NEW m \in [0 .. nsz - 1 -> Byte],
           b.p_sz + buf_readable(b) <= nsz
    PROVE  \A k \in 1 .. buf_readable(b) :
               Stored(m, b.p_sz, Content(b))[b.p_sz + k - 1] = Content(b)[k]
<1> SUFFICES ASSUME NEW k \in 1 .. buf_readable(b)
             PROVE  Stored(m, b.p_sz, Content(b))[b.p_sz + k - 1] = Content(b)[k]
  BY Zenon
<1>1. buf_readable(b) \in Nat /\ Len(Content(b)) = buf_readable(b) /\ b.p_sz \in Nat
  BY ContentType DEF Formed
<1> DEFINE x == b.p_sz + k - 1
           t == Content(b)
<1>2. x \in 0 .. nsz - 1 /\ x \in b.p_sz .. b.p_sz + Len(t) - 1 /\ x - b.p_sz + 1 = k
  BY <1>1
<1>3. DOMAIN m = 0 .. nsz - 1
  OBVIOUS
<1> HIDE DEF x, t
<1>4. Stored(m, b.p_sz, t)[x] = t[x - b.p_sz + 1]
  BY <1>2, <1>3, Zenon DEF Stored
<1>5. Stored(m, b.p_sz, t)[x] = t[k]
  BY <1>2, <1>4
<1> QED
  BY <1>5 DEF x, t

\* The readable part at p_sz of a block of nsz bytes, which may be the old one.
LEMMA Relocated ==
    ASSUME NEW b, Formed(b), NEW nsz \in Nat, NEW m \in [0 .. nsz - 1 -> Byte],
           1 <= nsz, nsz <= MaxSz, b.p_sz + buf_readable(b) <= nsz,
           NEW c, c = [mem |-> Stored(m, b.p_sz, Content(b)), sz |-> nsz, p_sz |-> b.p_sz,
                       read_idx |-> b.p_sz, write_idx |-> b.p_sz + buf_readable(b)]
    PROVE  Formed(c) /\ Content(c) = Content(b) /\ c.p_sz = b.p_sz
<1> DEFINE len == buf_readable(b)
<1>1. /\ len \in Nat /\ Content(b) \in [1 .. len -> Byte] /\ Len(Content(b)) = len
      /\ b.p_sz \in Nat
  BY ContentType DEF Formed
<1>2. Stored(m, b.p_sz, Content(b)) \in [0 .. nsz - 1 -> Byte]
  BY <1>1, StoredType
<1>3. \A k \in 1 .. len : Stored(m, b.p_sz, Content(b))[b.p_sz + k - 1] = Content(b)[k]
  BY RelocatedBytes, Zenon
<1> HIDE DEF len
<1>4. /\ c.mem = Stored(m, b.p_sz, Content(b)) /\ c.sz = nsz /\ c.p_sz = b.p_sz
      /\ c.read_idx = b.p_sz /\ c.write_idx = b.p_sz + len
  BY DEF len
<1>5. Formed(c)
  BY <1>1, <1>2, <1>4 DEF Formed, len
<1>6. /\ buf_readable(c) = len /\ Content(c) \in [1 .. len -> Byte]
      /\ \A k \in 1 .. len : Content(c)[k] = c.mem[b.p_sz + k - 1]
  <2>1. buf_readable(c) = len
    BY <1>1, <1>4 DEF buf_readable
  <2> QED
    BY <1>4, <1>5, <2>1, ContentType
<1>7. Content(c) = Content(b)
  <2>1. \A k \in 1 .. len : Content(c)[k] = Content(b)[k]
    BY <1>3, <1>4, <1>6
  <2> QED
    BY <1>1, <1>6, <2>1
<1> QED
  BY <1>4, <1>5, <1>7

\* Records of the fields of a block, and their updates.
LEMMA BlockUpdates ==
    ASSUME NEW m, NEW z, NEW p, NEW r, NEW w, NEW m2, NEW z2, NEW r2, NEW w2,
           NEW b, b = [mem |-> m, sz |-> z, p_sz |-> p, read_idx |-> r, write_idx |-> w]
    PROVE  /\ [b EXCEPT !.mem = m2]
                  = [mem |-> m2, sz |-> z, p_sz |-> p, read_idx |-> r, write_idx |-> w]
           /\ [b EXCEPT !.read_idx = r2]
                  = [mem |-> m, sz |-> z, p_sz |-> p, read_idx |-> r2, write_idx |-> w]
           /\ [b EXCEPT !.write_idx = w2]
                  = [mem |-> m, sz |-> z, p_sz |-> p, read_idx |-> r, write_idx |-> w2]
           /\ [b EXCEPT !.mem = m2, !.write_idx = w2]
                  = [mem |-> m2, sz |-> z, p_sz |-> p, read_idx |-> r, write_idx |-> w2]
           /\ [b EXCEPT !.mem = m2, !.read_idx = r2]
                  = [mem |-> m2, sz |-> z, p_sz |-> p, read_idx |-> r2, write_idx |-> w]
           /\ [b EXCEPT !.mem = m2, !.sz = z2]
                  = [mem |-> m2, sz |-> z2, p_sz |-> p, read_idx |-> r, write_idx |-> w]
           /\ [b EXCEPT !.read_idx = r2, !.write_idx = w2]
                  = [mem |-> m, sz |-> z, p_sz |-> p, read_idx |-> r2, write_idx |-> w2]
<1>1. [b EXCEPT !.mem = m2]
         = [mem |-> m2, sz |-> z, p_sz |-> p, read_idx |-> r, write_idx |-> w]
  OBVIOUS
<1>2. [b EXCEPT !.read_idx = r2]
         = [mem |-> m, sz |-> z, p_sz |-> p, read_idx |-> r2, write_idx |-> w]
  OBVIOUS
<1>3. [b EXCEPT !.write_idx = w2]
         = [mem |-> m, sz |-> z, p_sz |-> p, read_idx |-> r, write_idx |-> w2]
  OBVIOUS
<1>4. [b EXCEPT !.mem = m2, !.write_idx = w2]
         = [mem |-> m2, sz |-> z, p_sz |-> p, read_idx |-> r, write_idx |-> w2]
  <2> DEFINE c == [b EXCEPT !.mem = m2]
  <2>1. c = [mem |-> m2, sz |-> z, p_sz |-> p, read_idx |-> r, write_idx |-> w]
    OBVIOUS
  <2>2. [b EXCEPT !.mem = m2, !.write_idx = w2] = [c EXCEPT !.write_idx = w2]
    OBVIOUS
  <2> HIDE DEF c
  <2>3. [c EXCEPT !.write_idx = w2]
           = [mem |-> m2, sz |-> z, p_sz |-> p, read_idx |-> r, write_idx |-> w2]
    BY <2>1
  <2> QED
    BY <2>2, <2>3
<1>5. [b EXCEPT !.mem = m2, !.read_idx = r2]
         = [mem |-> m2, sz |-> z, p_sz |-> p, read_idx |-> r2, write_idx |-> w]
  <2> DEFINE c == [b EXCEPT !.mem = m2]
  <2>1. c = [mem |-> m2, sz |-> z, p_sz |-> p, read_idx |-> r, write_idx |-> w]
    OBVIOUS
  <2>2. [b EXCEPT !.mem = m2, !.read_idx = r2] = [c EXCEPT !.read_idx = r2]
    OBVIOUS
  <2> HIDE DEF c
  <2>3. [c EXCEPT !.read_idx = r2]
           = [mem |-> m2, sz |-> z, p_sz |-> p, read_idx |-> r2, write_idx |-> w]
    BY <2>1
  <2> QED
    BY <2>2, <2>3
<1>6. [b EXCEPT !.mem = m2, !.sz = z2]
         = [mem |-> m2, sz |-> z2, p_sz |-> p, read_idx |-> r, write_idx |-> w]
  <2> DEFINE c == [b EXCEPT !.mem = m2]
  <2>1. c = [mem |-> m2, sz |-> z, p_sz |-> p, read_idx |-> r, write_idx |-> w]
    OBVIOUS
  <2>2. [b EXCEPT !.mem = m2, !.sz = z2] = [c EXCEPT !.sz = z2]
    OBVIOUS
  <2> HIDE DEF c
  <2>3. [c EXCEPT !.sz = z2]
           = [mem |-> m2, sz |-> z2, p_sz |-> p, read_idx |-> r, write_idx |-> w]
    BY <2>1
  <2> QED
    BY <2>2, <2>3
<1>7. [b EXCEPT !.read_idx = r2, !.write_idx = w2]
         = [mem |-> m, sz |-> z, p_sz |-> p, read_idx |-> r2, write_idx |-> w2]
  <2> DEFINE c == [b EXCEPT !.read_idx = r2]
  <2>1. c = [mem |-> m, sz |-> z, p_sz |-> p, read_idx |-> r2, write_idx |-> w]
    OBVIOUS
  <2>2. [b EXCEPT !.read_idx = r2, !.write_idx = w2] = [c EXCEPT !.write_idx = w2]
    OBVIOUS
  <2> HIDE DEF c
  <2>3. [c EXCEPT !.write_idx = w2]
           = [mem |-> m, sz |-> z, p_sz |-> p, read_idx |-> r2, write_idx |-> w2]
    BY <2>1
  <2> QED
    BY <2>2, <2>3
<1> QED
  BY <1>1, <1>2, <1>3, <1>4, <1>5, <1>6, <1>7, Zenon

\* A remainder of a size that is small is the size itself.
LEMMA SmallSize ==
    ASSUME NEW x \in Nat, x < SizeMod
    PROVE  x % SizeMod = x
  BY Numbers, SMT

\* buf_makeSpace makes room without an assertion failing and without touching a
\* readable byte.
LEMMA MakeSpace ==
    ASSUME NEW b, Formed(b), NEW len \in Nat, buf_writable(b) < len, MayEnsure(b, len)
    PROVE  LET c == buf_makeSpace(b, len)
           IN  /\ Formed(c) /\ Content(c) = Content(b) /\ c.p_sz = b.p_sz
               /\ len <= buf_writable(c)
               /\ MustGrow(b, len) \/ b.p_sz < b.read_idx
<1>1. /\ b.read_idx >= b.p_sz /\ b.write_idx + len <= MaxSz
      /\ MaxSz \in Nat /\ SizeMod \in Nat /\ 2 * MaxSz < SizeMod
      /\ b.sz \in Nat /\ b.p_sz \in Nat /\ b.read_idx \in Nat /\ b.write_idx \in Nat
      /\ b.read_idx <= b.write_idx /\ b.write_idx <= b.sz /\ b.sz <= MaxSz /\ 1 <= b.sz
  BY Numbers DEF MayEnsure, Formed
<1>2. MustGrow(b, len) <=> b.read_idx + (b.sz - b.write_idx) - b.p_sz < len
  <2> DEFINE x == b.read_idx + (b.sz - b.write_idx) - b.p_sz
  <2>1. x \in Nat /\ x < SizeMod
    BY <1>1
  <2>2. x % SizeMod = x
    BY <2>1, SmallSize
  <2> QED
    BY <2>2 DEF MustGrow, buf_prependable, buf_writable
<1>3. buf_readable(b) \in Nat /\ buf_readable(b) = b.write_idx - b.read_idx
  BY ContentType
<1> DEFINE c == buf_makeSpace(b, len)
<1>4. CASE MustGrow(b, len)
  <2> DEFINE nsz == b.write_idx + len
             m == [k \in 0 .. nsz - 1 |-> 0]
  <2>1. /\ nsz \in Nat /\ 1 <= nsz /\ nsz <= MaxSz /\ b.p_sz + buf_readable(b) <= nsz
        /\ m \in [0 .. nsz - 1 -> Byte]
    <3>1. buf_writable(b) = b.sz - b.write_idx /\ len >= 1
      BY <1>1 DEF buf_writable
    <3> QED
      BY <1>1, <1>3, <3>1, Numbers
  <2>2. c = [mem |-> Stored(m, b.p_sz, Content(b)), sz |-> nsz, p_sz |-> b.p_sz,
             read_idx |-> b.p_sz, write_idx |-> b.p_sz + buf_readable(b)]
    <3> DEFINE b2 == buf_swap(b, nsz)
    <3>1. b2 = [mem |-> Stored(m, b.p_sz, Content(b)), sz |-> nsz, p_sz |-> b.p_sz,
                read_idx |-> b.read_idx, write_idx |-> b.write_idx]
      <4> DEFINE s == Stored(m, b.p_sz, Content(b))
      <4>1. b2 = [b EXCEPT !.mem = s, !.sz = nsz]
        BY DEF buf_swap
      <4>2. b = [mem |-> b.mem, sz |-> b.sz, p_sz |-> b.p_sz,
                 read_idx |-> b.read_idx, write_idx |-> b.write_idx]
        BY DEF Formed
      <4> HIDE DEF s, b2, nsz
      <4>3. b2 = [mem |-> s, sz |-> nsz, p_sz |-> b.p_sz,
                  read_idx |-> b.read_idx, write_idx |-> b.write_idx]
        BY <4>1, <4>2, BlockUpdates
      <4> QED
        BY <4>3 DEF s
    <3>2. c = [b2 EXCEPT !.read_idx = b.p_sz, !.write_idx = b.p_sz + buf_readable(b)]
      BY <1>4 DEF buf_makeSpace
    <3> HIDE DEF b2, c, nsz, m
    <3> QED
      BY <3>1, <3>2, BlockUpdates
  <2> HIDE DEF c, m, nsz
  <2>3. Formed(c) /\ Content(c) = Content(b) /\ c.p_sz = b.p_sz
    BY <2>1, <2>2, Relocated
  <2>4. buf_writable(c) = nsz - (b.p_sz + buf_readable(b))
    BY <2>2 DEF buf_writable
  <2>5. len <= buf_writable(c)
    BY <1>1, <1>3, <2>4 DEF nsz
  <2> QED
    BY <1>4, <2>3, <2>5 DEF c
<1>5. CASE ~MustGrow(b, len)
  <2>1. b.p_sz < b.read_idx /\ b.sz - b.write_idx < len
    BY <1>1, <1>2, <1>5 DEF buf_writable
  <2>2. c = [mem |-> Stored(b.mem, b.p_sz, Content(b)), sz |-> b.sz, p_sz |-> b.p_sz,
             read_idx |-> b.p_sz, write_idx |-> b.p_sz + buf_readable(b)]
    <3> DEFINE s == Stored(b.mem, b.p_sz, Content(b))
               b2 == [b EXCEPT !.mem = s]
    <3>1. b = [mem |-> b.mem, sz |-> b.sz, p_sz |-> b.p_sz,
               read_idx |-> b.read_idx, write_idx |-> b.write_idx]
      BY DEF Formed
    <3>2. c = [b2 EXCEPT !.read_idx = b.p_sz, !.write_idx = b.p_sz + buf_readable(b)]
      BY <1>5 DEF buf_makeSpace
    <3>5. b2 = [b EXCEPT !.mem = s]
      OBVIOUS
    <3> HIDE DEF b2, c, s
    <3>3. b2 = [mem |-> s, sz |-> b.sz, p_sz |-> b.p_sz,
                read_idx |-> b.read_idx, write_idx |-> b.write_idx]
      BY <3>1, <3>5, BlockUpdates
    <3>4. c = [mem |-> s, sz |-> b.sz, p_sz |-> b.p_sz,
               read_idx |-> b.p_sz, write_idx |-> b.p_sz + buf_readable(b)]
      BY <3>2, <3>3, BlockUpdates
    <3> QED
      BY <3>4 DEF s
  <2>3. b.mem \in [0 .. b.sz - 1 -> Byte] /\ b.p_sz + buf_readable(b) <= b.sz
    BY <1>1, <1>3 DEF Formed
  <2> HIDE DEF c
  <2>4. Formed(c) /\ Content(c) = Content(b) /\ c.p_sz = b.p_sz
    <3>1. b.sz \in Nat /\ 1 <= b.sz /\ b.sz <= MaxSz
      BY <1>1
    <3> QED
      BY <2>2, <2>3, <3>1, Relocated
  <2>5. buf_writable(c) = b.sz - (b.p_sz + buf_readable(b))
    BY <2>2 DEF buf_writable
  <2>6. len <= buf_writable(c)
    BY <1>1, <1>2, <1>3, <1>5, <2>5
  <2> QED
    BY <2>1, <2>4, <2>6 DEF c
<1> QED
  BY <1>4, <1>5

\* buf_ensureWritable, for a caller that may call it.
LEMMA EnsureCorrect ==
    ASSUME NEW b, Formed(b), NEW len \in Nat, MayEnsure(b, len)
    PROVE  LET c == buf_ensureWritable(b, len)
           IN  /\ Formed(c) /\ Content(c) = Content(b) /\ c.p_sz = b.p_sz
               /\ len <= buf_writable(c)
               /\ ~EnsureFails(b, len)
<1> DEFINE c == buf_ensureWritable(b, len)
<1>1. CASE buf_writable(b) < len
  <2>1. c = buf_makeSpace(b, len)
    BY <1>1 DEF buf_ensureWritable
  <2>2. /\ Formed(c) /\ Content(c) = Content(b) /\ c.p_sz = b.p_sz /\ len <= buf_writable(c)
        /\ MustGrow(b, len) \/ b.p_sz < b.read_idx
    BY <1>1, <2>1, MakeSpace
  <2>3. buf_writable(c) \in Nat
    BY <2>2, ContentType
  <2> HIDE DEF c
  <2>4. ~(buf_writable(c) < len)
    BY <2>2, <2>3
  <2>5. ~EnsureFails(b, len)
    BY <2>2, <2>4, Zenon DEF EnsureFails, c
  <2> QED
    BY <2>2, <2>5 DEF c
<1>2. CASE ~(buf_writable(b) < len)
  <2>1. c = b
    BY <1>2 DEF buf_ensureWritable
  <2>2. buf_writable(b) \in Nat
    BY ContentType
  <2> HIDE DEF c
  <2>3. ~EnsureFails(b, len)
    BY <1>2, <2>1, Zenon DEF EnsureFails, c
  <2> QED
    BY <1>2, <2>1, <2>2, <2>3 DEF c
<1> QED
  BY <1>1, <1>2

\* A sequence with the elements of two others, one after the other.
LEMMA Concatenated ==
    ASSUME NEW d \in Seq(Byte), NEW s \in Seq(Byte), NEW t \in Seq(Byte),
           Len(t) = Len(d) + Len(s),
           \A k \in 1 .. Len(d) : t[k] = d[k],
           \A k \in 1 .. Len(s) : t[Len(d) + k] = s[k]
    PROVE  t = d \o s
<1>1. d \o s \in Seq(Byte) /\ Len(d \o s) = Len(d) + Len(s)
  OBVIOUS
<1>2. ASSUME NEW k \in 1 .. Len(t) PROVE t[k] = (d \o s)[k]
  <2>1. CASE k <= Len(d)
    BY <2>1
  <2>2. CASE k > Len(d)
    <3>1. k - Len(d) \in 1 .. Len(s) /\ Len(d) + (k - Len(d)) = k
      BY <2>2
    <3>2. t[k] = s[k - Len(d)]
      BY <3>1, Zenon
    <3> QED
      BY <2>2, <3>1, <3>2
  <2> QED
    BY <2>1, <2>2
<1>3. \A k \in 1 .. Len(t) : t[k] = (d \o s)[k]
  BY <1>2, Zenon
<1>4. Len(t) = Len(d \o s)
  BY <1>1, Zenon
<1> QED
  BY <1>1, <1>3, <1>4, SeqEqual, Zenon

\* Bytes put behind the readable part are read after it.
LEMMA PutCorrect ==
    ASSUME NEW b, Formed(b), NEW data \in Seq(Byte), Len(data) <= buf_writable(b)
    PROVE  LET c == Put(b, data)
           IN  /\ Formed(c) /\ Content(c) = Content(b) \o data
               /\ c.p_sz = b.p_sz /\ c.read_idx = b.read_idx /\ c.sz = b.sz
               /\ c.write_idx = b.write_idx + Len(data)
<1> DEFINE c == Put(b, data)
           len == Len(data)
           r == buf_readable(b)
<1>1. /\ len \in Nat /\ data \in [1 .. len -> Byte] /\ b.write_idx \in Nat /\ b.sz \in Nat
      /\ b.write_idx + len <= b.sz /\ b.mem \in [0 .. b.sz - 1 -> Byte]
      /\ b.read_idx \in Nat /\ b.read_idx <= b.write_idx
  BY DEF Formed, buf_writable
<1>2. Stored(b.mem, b.write_idx, data) \in [0 .. b.sz - 1 -> Byte]
  BY <1>1, StoredType
<1>3. /\ \A k \in 1 .. len : Stored(b.mem, b.write_idx, data)[b.write_idx + k - 1] = data[k]
      /\ \A k \in 0 .. b.sz - 1 : k < b.write_idx \/ b.write_idx + len <= k =>
             Stored(b.mem, b.write_idx, data)[k] = b.mem[k]
  <2>1. Len(data) = len
    OBVIOUS
  <2> HIDE DEF len
  <2>2. ASSUME NEW k \in 1 .. len
        PROVE  Stored(b.mem, b.write_idx, data)[b.write_idx + k - 1] = data[k]
    <3>1. /\ b.write_idx + k - 1 \in 0 .. b.sz - 1
          /\ b.write_idx + k - 1 \in b.write_idx .. b.write_idx + Len(data) - 1
          /\ b.write_idx + k - 1 - b.write_idx + 1 = k
      BY <1>1, <2>1
    <3> QED
      BY <1>1, <3>1, SMTT(40) DEF Stored
  <2>3. ASSUME NEW k \in 0 .. b.sz - 1, k < b.write_idx \/ b.write_idx + len <= k
        PROVE  Stored(b.mem, b.write_idx, data)[k] = b.mem[k]
    <3>1. /\ b.write_idx \in Nat /\ len \in Nat /\ b.sz \in Nat /\ Len(data) = len
          /\ b.mem \in [0 .. b.sz - 1 -> Byte]
      BY <1>1, <2>1, Zenon
    <3>2. k \notin b.write_idx .. b.write_idx + len - 1
      BY <2>3, <3>1, SMTT(40)
    <3> QED
      BY <3>1, <3>2, Zenon DEF Stored
  <2> QED
    BY <2>2, <2>3
<1>4. c = [mem |-> Stored(b.mem, b.write_idx, data), sz |-> b.sz, p_sz |-> b.p_sz,
           read_idx |-> b.read_idx, write_idx |-> b.write_idx + len]
  <2> DEFINE s == Stored(b.mem, b.write_idx, data)
  <2>1. b = [mem |-> b.mem, sz |-> b.sz, p_sz |-> b.p_sz,
             read_idx |-> b.read_idx, write_idx |-> b.write_idx]
    BY DEF Formed
  <2>2. c = [b EXCEPT !.mem = s, !.write_idx = b.write_idx + len]
    BY DEF Put
  <2> HIDE DEF s, len, c
  <2>3. c = [mem |-> s, sz |-> b.sz, p_sz |-> b.p_sz,
             read_idx |-> b.read_idx, write_idx |-> b.write_idx + len]
    BY <2>1, <2>2, BlockUpdates
  <2> QED
    BY <2>3 DEF s
<1> HIDE DEF c, len, r
<1>5. /\ c.mem = Stored(b.mem, b.write_idx, data) /\ c.sz = b.sz /\ c.p_sz = b.p_sz
      /\ c.read_idx = b.read_idx /\ c.write_idx = b.write_idx + len
  BY <1>4
<1>6. Formed(c)
  BY <1>1, <1>2, <1>4, <1>5 DEF Formed
<1>7. /\ r \in Nat /\ r = b.write_idx - b.read_idx
      /\ Content(b) \in Seq(Byte) /\ Len(Content(b)) = r
      /\ \A k \in 1 .. r : Content(b)[k] = b.mem[b.read_idx + k - 1]
  BY ContentType DEF r
<1>8. /\ buf_readable(c) = r + len /\ Content(c) \in Seq(Byte) /\ Len(Content(c)) = r + len
      /\ \A k \in 1 .. r + len : Content(c)[k] = c.mem[b.read_idx + k - 1]
  <2>1. buf_readable(c) = r + len
    BY <1>1, <1>5, <1>7 DEF buf_readable
  <2> QED
    BY <1>5, <1>6, <2>1, ContentType
<1>9. Content(c) = Content(b) \o data
  <2> DEFINE t == Content(c)
             u == Content(b)
  <2>1. /\ t \in Seq(Byte) /\ u \in Seq(Byte) /\ data \in Seq(Byte)
        /\ Len(t) = Len(u) + Len(data) /\ Len(u) = r /\ Len(data) = len
    BY <1>7, <1>8, Zenon DEF len
  <2>2. /\ \A k \in 1 .. r + len : t[k] = c.mem[b.read_idx + k - 1]
        /\ \A k \in 1 .. r : u[k] = b.mem[b.read_idx + k - 1]
    BY <1>7, <1>8, Zenon
  <2>3. /\ r \in Nat /\ len \in Nat /\ b.read_idx \in Nat /\ b.write_idx \in Nat /\ b.sz \in Nat
        /\ r = b.write_idx - b.read_idx /\ b.write_idx + len <= b.sz
    BY <1>1, <1>7, Zenon
  <2> HIDE DEF t, u
  <2>4. ASSUME NEW k \in 1 .. r PROVE t[k] = u[k]
    <3>1. /\ b.read_idx + k - 1 \in 0 .. b.sz - 1 /\ b.read_idx + k - 1 < b.write_idx
          /\ k \in 1 .. r + len
      BY <2>3, SMTT(40)
    <3> QED
      BY <1>3, <1>5, <2>2, <3>1, Zenon
  <2>5. ASSUME NEW k \in 1 .. len PROVE t[r + k] = data[k]
    <3>1. r + k \in 1 .. r + len /\ b.read_idx + (r + k) - 1 = b.write_idx + k - 1
      BY <2>3, SMTT(40)
    <3> QED
      BY <1>3, <1>5, <2>2, <3>1, Zenon
  <2>6. t = u \o data
    BY <2>1, <2>4, <2>5, Concatenated, Zenon
  <2> QED
    BY <2>6 DEF t, u
<1> QED
  BY <1>5, <1>6, <1>9 DEF c, len

\* Moving the indexes towards each other leaves a part of the readable part.
LEMMA Sliced ==
    ASSUME NEW b, Formed(b), NEW r \in Nat, NEW w \in Nat,
           b.read_idx <= r, r <= w, w <= b.write_idx,
           NEW c, c = [mem |-> b.mem, sz |-> b.sz, p_sz |-> b.p_sz,
                       read_idx |-> r, write_idx |-> w]
    PROVE  /\ Formed(c)
           /\ Content(c) = SubSeq(Content(b), r - b.read_idx + 1, w - b.read_idx)
<1>1. /\ c.mem = b.mem /\ c.sz = b.sz /\ c.p_sz = b.p_sz /\ c.read_idx = r /\ c.write_idx = w
      /\ b.read_idx \in Nat /\ b.write_idx \in Nat
  BY DEF Formed
<1>2. Formed(c)
  BY <1>1 DEF Formed
<1>3. /\ buf_readable(b) = b.write_idx - b.read_idx
      /\ Content(b) \in Seq(Byte) /\ Len(Content(b)) = buf_readable(b)
      /\ \A k \in 1 .. buf_readable(b) : Content(b)[k] = b.mem[b.read_idx + k - 1]
  BY ContentType
<1>4. /\ buf_readable(c) = w - r
      /\ Content(c) \in Seq(Byte) /\ Len(Content(c)) = buf_readable(c)
      /\ \A k \in 1 .. w - r : Content(c)[k] = b.mem[r + k - 1]
  <2>1. buf_readable(c) = w - r
    BY <1>1 DEF buf_readable
  <2> QED
    BY <1>1, <1>2, <2>1, ContentType
<1> DEFINE s == SubSeq(Content(b), r - b.read_idx + 1, w - b.read_idx)
<1>5. s \in Seq(Byte) /\ Len(s) = w - r
      /\ \A k \in 1 .. w - r : s[k] = Content(b)[r - b.read_idx + 1 + k - 1]
  <2> DEFINE q == Content(b)
             i == r - b.read_idx + 1
             j == w - b.read_idx
  <2>1. i \in Int /\ j \in Int /\ 1 <= i /\ j <= Len(q) /\ i <= j + 1 /\ j - i + 1 = w - r
    BY <1>1, <1>3
  <2>2. q \in Seq(Byte)
    BY <1>3
  <2> HIDE DEF q, i, j
  <2>3. /\ SubSeq(q, i, j) \in Seq(Byte) /\ Len(SubSeq(q, i, j)) = j - i + 1
        /\ \A k \in 1 .. j - i + 1 : SubSeq(q, i, j)[k] = q[i + k - 1]
    BY <2>1, <2>2
  <2> QED
    BY <2>1, <2>3 DEF q, i, j
<1>6. \A k \in 1 .. w - r : Content(c)[k] = s[k]
  <2>1. SUFFICES ASSUME NEW k \in 1 .. w - r PROVE Content(c)[k] = s[k]
    OBVIOUS
  <2>2. b.read_idx \in Nat /\ b.write_idx \in Nat /\ buf_readable(b) = b.write_idx - b.read_idx
    BY <1>1, <1>3, Zenon
  <2> HIDE DEF s
  <2>3. /\ r - b.read_idx + 1 + k - 1 \in 1 .. buf_readable(b)
        /\ b.read_idx + (r - b.read_idx + 1 + k - 1) - 1 = r + k - 1
    BY <2>2, SMTT(40)
  <2>4. s[k] = b.mem[r + k - 1]
    BY <1>3, <1>5, <2>3
  <2> QED
    BY <1>4, <2>4
<1> HIDE DEF s
<1>7. Content(c) = s
  BY <1>4, <1>5, <1>6, SMTT(40)
<1> QED
  BY <1>2, <1>7 DEF s

\* Consuming bytes.
LEMMA RetrievedCorrect ==
    ASSUME NEW b, Formed(b), NEW len \in Nat, len <= buf_readable(b)
    PROVE  /\ Formed(Retrieved(b, len))
           /\ Content(Retrieved(b, len)) = SubSeq(Content(b), len + 1, Len(Content(b)))
           /\ Retrieved(b, len).mem = b.mem /\ Retrieved(b, len).sz = b.sz
           /\ Retrieved(b, len).p_sz = b.p_sz
<1> DEFINE c == Retrieved(b, len)
<1>1. /\ b.read_idx \in Nat /\ b.write_idx \in Nat /\ b.p_sz \in Nat /\ b.p_sz <= b.sz
      /\ b.read_idx <= b.write_idx /\ b.sz \in Nat
      /\ buf_readable(b) = b.write_idx - b.read_idx
      /\ Content(b) \in Seq(Byte) /\ Len(Content(b)) = buf_readable(b)
      /\ b = [mem |-> b.mem, sz |-> b.sz, p_sz |-> b.p_sz,
              read_idx |-> b.read_idx, write_idx |-> b.write_idx]
  BY ContentType DEF Formed
<1>2. CASE len < buf_readable(b)
  <2>1. c = [b EXCEPT !.read_idx = b.read_idx + len]
    BY <1>2 DEF Retrieved
  <2> HIDE DEF c
  <2>2. c = [mem |-> b.mem, sz |-> b.sz, p_sz |-> b.p_sz,
             read_idx |-> b.read_idx + len, write_idx |-> b.write_idx]
    BY <1>1, <2>1, BlockUpdates, Zenon
  <2>3. \E r, w \in Nat : r = b.read_idx + len /\ w = b.write_idx
    BY <1>1
  <2>4. PICK r \in Nat, w \in Nat : r = b.read_idx + len /\ w = b.write_idx
    BY <2>3, Zenon
  <2>5. b.read_idx <= r /\ r <= w /\ w <= b.write_idx
    BY <1>1, <1>2, <2>4
  <2>6. c = [mem |-> b.mem, sz |-> b.sz, p_sz |-> b.p_sz, read_idx |-> r, write_idx |-> w]
    BY <2>2, <2>4, Zenon
  <2>7. Formed(c) /\ Content(c) = SubSeq(Content(b), r - b.read_idx + 1, w - b.read_idx)
    BY <2>5, <2>6, Sliced, Zenon
  <2>8. r - b.read_idx + 1 = len + 1 /\ w - b.read_idx = Len(Content(b))
    BY <1>1, <2>4
  <2>9. c.mem = b.mem /\ c.sz = b.sz /\ c.p_sz = b.p_sz
    BY <2>6
  <2>10. Content(c) = SubSeq(Content(b), len + 1, Len(Content(b)))
    BY <2>7, <2>8, Zenon
  <2> QED
    BY <2>7, <2>9, <2>10, Zenon DEF c
<1>3. CASE ~(len < buf_readable(b))
  <2>1. c = [b EXCEPT !.read_idx = b.p_sz, !.write_idx = b.p_sz]
    BY <1>3 DEF Retrieved
  <2> HIDE DEF c
  <2>2. c = [mem |-> b.mem, sz |-> b.sz, p_sz |-> b.p_sz, read_idx |-> b.p_sz, write_idx |-> b.p_sz]
    BY <1>1, <2>1, BlockUpdates, Zenon
  <2>3. Formed(c)
    BY <1>1, <2>2 DEF Formed
  <2>4. Content(c) = << >>
    <3>1. buf_readable(c) = 0
      BY <1>1, <2>2 DEF buf_readable
    <3>2. Content(c) \in Seq(Byte) /\ Len(Content(c)) = 0
      BY <2>3, <3>1, ContentType
    <3> QED
      BY <3>2
  <2>5. SubSeq(Content(b), len + 1, Len(Content(b))) = << >>
    BY <1>1, <1>3
  <2>6. Content(c) = SubSeq(Content(b), len + 1, Len(Content(b)))
    BY <2>4, <2>5, Zenon
  <2>7. c.mem = b.mem /\ c.sz = b.sz /\ c.p_sz = b.p_sz
    BY <2>2
  <2> QED
    BY <2>3, <2>6, <2>7, Zenon DEF c
<1> QED
  BY <1>2, <1>3

\* A smaller or larger block for a buffer that is read from p_sz on.
LEMMA SwapCorrect ==
    ASSUME NEW b, Formed(b), b.read_idx = b.p_sz,
           NEW nsz \in Nat, 1 <= nsz, nsz <= MaxSz, b.p_sz + buf_readable(b) <= nsz
    PROVE  Formed(buf_swap(b, nsz)) /\ Content(buf_swap(b, nsz)) = Content(b)
<1> DEFINE m == [k \in 0 .. nsz - 1 |-> 0]
           s == Stored(m, b.p_sz, Content(b))
           c == buf_swap(b, nsz)
<1>1. m \in [0 .. nsz - 1 -> Byte]
  BY Numbers
<1>2. c = [b EXCEPT !.mem = s, !.sz = nsz]
  BY DEF buf_swap
<1>3. b = [mem |-> b.mem, sz |-> b.sz, p_sz |-> b.p_sz,
           read_idx |-> b.read_idx, write_idx |-> b.write_idx]
  BY DEF Formed
<1>4. b.write_idx = b.p_sz + buf_readable(b)
  BY ContentType DEF Formed
<1> HIDE DEF m, s, c
<1>5. c = [mem |-> s, sz |-> nsz, p_sz |-> b.p_sz,
           read_idx |-> b.read_idx, write_idx |-> b.write_idx]
  BY <1>2, <1>3, BlockUpdates
<1>6. c = [mem |-> Stored(m, b.p_sz, Content(b)), sz |-> nsz, p_sz |-> b.p_sz,
           read_idx |-> b.p_sz, write_idx |-> b.p_sz + buf_readable(b)]
  BY <1>4, <1>5, Zenon DEF s
<1> QED
  BY <1>1, <1>6, Relocated DEF c

\* A block c with the bytes of data just before those of b.
LEMMA Fronted ==
    ASSUME NEW b, Formed(b), NEW c, Formed(c), NEW data \in Seq(Byte),
           b.read_idx = c.read_idx + Len(data), c.write_idx = b.write_idx,
           \A k \in 1 .. Len(data) : c.mem[c.read_idx + k - 1] = data[k],
           \A k \in b.read_idx .. b.write_idx - 1 : c.mem[k] = b.mem[k]
    PROVE  Content(c) = data \o Content(b)
<1> DEFINE len == Len(data)
           r == buf_readable(b)
           s == Content(b)
           t == Content(c)
           i == c.read_idx
<1>1. /\ b.read_idx \in Nat /\ b.write_idx \in Nat /\ b.read_idx <= b.write_idx
      /\ i \in Nat /\ b.read_idx = i + len /\ len \in Nat /\ Len(data) = len
  BY DEF Formed
<1>2. \A k \in 1 .. len : c.mem[i + k - 1] = data[k]
  BY Zenon
<1>3. \A k \in b.read_idx .. b.write_idx - 1 : c.mem[k] = b.mem[k]
  BY Zenon
<1>4. /\ r \in Nat /\ r = b.write_idx - b.read_idx
      /\ s \in Seq(Byte) /\ Len(s) = r
      /\ \A k \in 1 .. r : s[k] = b.mem[b.read_idx + k - 1]
  BY ContentType, Zenon
<1>5. /\ t \in Seq(Byte) /\ Len(t) = c.write_idx - i
      /\ \A k \in 1 .. c.write_idx - i : t[k] = c.mem[i + k - 1]
  <2>1. /\ t \in Seq(Byte) /\ Len(t) = buf_readable(c)
        /\ \A k \in 1 .. buf_readable(c) : t[k] = c.mem[i + k - 1]
    BY ContentType, Zenon
  <2>2. buf_readable(c) = c.write_idx - i
    BY ContentType, Zenon
  <2> QED
    BY <2>1, <2>2, Zenon
<1>6. c.write_idx = b.write_idx
  OBVIOUS
<1> HIDE DEF len, r, s, t, i
<1>7. c.write_idx - i = len + r
  BY <1>1, <1>4, <1>6
<1>8. Len(t) = len + r /\ \A k \in 1 .. len + r : t[k] = c.mem[i + k - 1]
  BY <1>5, <1>7, Zenon
<1>9. \A k \in 1 .. Len(data) : t[k] = data[k]
  <2> SUFFICES ASSUME NEW k \in 1 .. len PROVE t[k] = data[k]
    BY <1>1, Zenon
  <2>1. k \in 1 .. len + r
    BY <1>1, <1>4
  <2> QED
    BY <1>2, <1>8, <2>1, Zenon
<1>10. \A k \in 1 .. Len(s) : t[Len(data) + k] = s[k]
  <2> SUFFICES ASSUME NEW k \in 1 .. r PROVE t[len + k] = s[k]
    BY <1>1, <1>4, Zenon
  <2>1. /\ len + k \in 1 .. len + r /\ i + (len + k) - 1 = b.read_idx + k - 1
        /\ i + (len + k) - 1 \in b.read_idx .. b.write_idx - 1
    BY <1>1, <1>4
  <2>2. t[len + k] = b.mem[i + (len + k) - 1]
    BY <1>3, <1>8, <2>1, Zenon
  <2>3. s[k] = b.mem[b.read_idx + k - 1]
    BY <1>4, Zenon
  <2> QED
    BY <2>1, <2>2, <2>3, Zenon
<1>11. t = data \o s
  <2>1. Len(t) = Len(data) + Len(s)
    BY <1>1, <1>4, <1>8, Zenon
  <2> QED
    BY <1>4, <1>5, <1>9, <1>10, <2>1, Concatenated, Zenon
<1> QED
  BY <1>11, Zenon DEF s, t

\* A header in front of the readable part is read before it.
LEMMA PrependCorrect ==
    ASSUME NEW b, Formed(b), NEW data \in Seq(Byte), Len(data) <= buf_prependable(b)
    PROVE  LET c == [b EXCEPT !.mem = Stored(@, b.read_idx - Len(data), data),
                              !.read_idx = @ - Len(data)]
           IN  Formed(c) /\ Content(c) = data \o Content(b)
<1> DEFINE len == Len(data)
           i == b.read_idx - len
           s == Stored(b.mem, i, data)
           c == [b EXCEPT !.mem = Stored(@, b.read_idx - Len(data), data),
                          !.read_idx = @ - Len(data)]
<1> HIDE DEF c
<1>1. /\ len \in Nat /\ data \in [1 .. len -> Byte] /\ i \in Nat /\ b.read_idx = i + len
      /\ b.read_idx \in Nat /\ b.write_idx \in Nat /\ b.sz \in Nat
      /\ b.read_idx <= b.write_idx /\ b.write_idx <= b.sz
      /\ b.mem \in [0 .. b.sz - 1 -> Byte] /\ Len(data) = len
  BY DEF Formed, buf_prependable
<1>2. c = [b EXCEPT !.mem = s, !.read_idx = i]
  BY DEF c
<1>3. b = [mem |-> b.mem, sz |-> b.sz, p_sz |-> b.p_sz,
           read_idx |-> b.read_idx, write_idx |-> b.write_idx]
  BY DEF Formed
<1>4. s \in [0 .. b.sz - 1 -> Byte]
  BY <1>1, StoredType
<1>5. \A k \in 1 .. len : s[i + k - 1] = data[k]
  <2> SUFFICES ASSUME NEW k \in 1 .. len PROVE s[i + k - 1] = data[k]
    OBVIOUS
  <2> HIDE DEF i, len
  <2>1. i + k - 1 \in 0 .. b.sz - 1 /\ i + k - 1 \in i .. i + Len(data) - 1 /\ i + k - 1 - i + 1 = k
    BY <1>1
  <2> QED
    BY <1>1, <2>1, SMTT(40) DEF Stored
<1>6. \A k \in 0 .. b.sz - 1 : b.read_idx <= k => s[k] = b.mem[k]
  <2> SUFFICES ASSUME NEW k \in 0 .. b.sz - 1, b.read_idx <= k PROVE s[k] = b.mem[k]
    OBVIOUS
  <2> HIDE DEF i, len
  <2>1. k \notin i .. i + Len(data) - 1
    BY <1>1
  <2> QED
    BY <1>1, <2>1 DEF Stored
<1> HIDE DEF s, i, len
<1>7. c = [mem |-> s, sz |-> b.sz, p_sz |-> b.p_sz, read_idx |-> i, write_idx |-> b.write_idx]
  BY <1>2, <1>3, BlockUpdates
<1>8. /\ c.mem = s /\ c.sz = b.sz /\ c.p_sz = b.p_sz
      /\ c.read_idx = i /\ c.write_idx = b.write_idx
  BY <1>7
<1>9. Formed(c)
  <2>1. b.p_sz \in Nat /\ b.p_sz <= b.sz /\ 1 <= b.sz /\ b.sz <= MaxSz
    BY DEF Formed
  <2>2. i <= b.write_idx
    BY <1>1
  <2> QED
    BY <1>1, <1>4, <1>7, <1>8, <2>1, <2>2 DEF Formed
<1>10. \A k \in b.read_idx .. b.write_idx - 1 : c.mem[k] = b.mem[k]
  BY <1>1, <1>6, <1>8
<1>11. /\ b.read_idx = c.read_idx + Len(data) /\ c.write_idx = b.write_idx
       /\ \A k \in 1 .. Len(data) : c.mem[c.read_idx + k - 1] = data[k]
  BY <1>1, <1>5, <1>8, Zenon
<1>12. Content(c) = data \o Content(b)
  BY <1>9, <1>10, <1>11, Fronted, Zenon
<1> QED
  BY <1>9, <1>12, Zenon DEF c

\* buf_append: room first, and then the bytes.
LEMMA AppendedCorrect ==
    ASSUME NEW b, Formed(b), NEW data \in Seq(Byte), MayEnsure(b, Len(data))
    PROVE  /\ Formed(Appended(b, data)) /\ Content(Appended(b, data)) = Content(b) \o data
           /\ ~EnsureFails(b, Len(data))
<1> DEFINE c == buf_ensureWritable(b, Len(data))
<1>1. Len(data) \in Nat
  OBVIOUS
<1>2. /\ Formed(c) /\ Content(c) = Content(b) /\ Len(data) <= buf_writable(c)
      /\ ~EnsureFails(b, Len(data))
  BY <1>1, EnsureCorrect, Zenon
<1> HIDE DEF c
<1>3. Formed(Put(c, data)) /\ Content(Put(c, data)) = Content(c) \o data
  BY <1>2, PutCorrect, Zenon
<1> QED
  BY <1>2, <1>3, Zenon DEF Appended, c

-----------------------------------------------------------------------------
(* The block and the queue through every step.                             *)

\* The assertions hold, and the block is well formed unless a call displaced the indexes.
BlockInv == ~failed /\ (~displaced => Formed(buf))

\* From the queue q to the queue p in one call.
QueueStep(q, p) ==
    \/ p = q
    \/ \E d \in Seq(Byte) : p = q \o d \/ p = d \o q
    \/ \E n \in 0 .. Len(q) : p = SubSeq(q, n + 1, Len(q)) \/ p = SubSeq(q, 1, Len(q) - n)
    \/ /\ p \in Seq(Byte) /\ Len(q) <= Len(p)
       /\ SubSeq(p, 1, Len(q)) = q \/ SubSeq(p, Len(p) - Len(q) + 1, Len(p)) = q

\* What a call gives that leaves the indexes where they delimit the readable part.
Shown == Formed(buf') /\ ~failed' /\ QueueStep(Content(buf), Content(buf'))

\* What a step of the buffer gives.
StepGives == ~failed' /\ (displaced' \/ Shown)

\* Indexes moved towards each other, as a step.
LEMMA SlicedStep ==
    ASSUME NEW b, Formed(b), NEW r \in Nat, NEW w \in Nat,
           b.read_idx <= r, r <= w, w <= b.write_idx, r = b.read_idx \/ w = b.write_idx,
           NEW c, c = [mem |-> b.mem, sz |-> b.sz, p_sz |-> b.p_sz,
                       read_idx |-> r, write_idx |-> w]
    PROVE  Formed(c) /\ QueueStep(Content(b), Content(c))
<1>1. Formed(c) /\ Content(c) = SubSeq(Content(b), r - b.read_idx + 1, w - b.read_idx)
  BY Sliced, Zenon
<1>2. /\ b.read_idx \in Nat /\ b.write_idx \in Nat
      /\ Content(b) \in Seq(Byte) /\ Len(Content(b)) = b.write_idx - b.read_idx
      /\ b.read_idx <= r /\ r <= w /\ w <= b.write_idx /\ r \in Nat /\ w \in Nat
  BY ContentType, Zenon DEF Formed
<1> DEFINE q == Content(b)
           p == Content(c)
<1> HIDE DEF q, p
<1>3. CASE w = b.write_idx
  <2>1. r - b.read_idx \in 0 .. Len(q) /\ w - b.read_idx = Len(q)
    BY <1>2, <1>3 DEF q
  <2>2. p = SubSeq(q, r - b.read_idx + 1, Len(q))
    BY <1>1, <2>1, Zenon DEF p, q
  <2>3. \E n \in 0 .. Len(q) : p = SubSeq(q, n + 1, Len(q))
    BY <2>1, <2>2, Zenon
  <2> QED
    BY <1>1, <2>3, Zenon DEF QueueStep, p, q
<1>4. CASE r = b.read_idx
  <2>1. /\ r - b.read_idx + 1 = 1 /\ b.write_idx - w \in 0 .. Len(q)
        /\ w - b.read_idx = Len(q) - (b.write_idx - w)
    BY <1>2, <1>4 DEF q
  <2>2. p = SubSeq(q, 1, Len(q) - (b.write_idx - w))
    BY <1>1, <2>1, Zenon DEF p, q
  <2>3. \E n \in 0 .. Len(q) : p = SubSeq(q, 1, Len(q) - n)
    BY <2>1, <2>2, Zenon
  <2> QED
    BY <1>1, <2>3, Zenon DEF QueueStep, p, q
<1> QED
  BY <1>3, <1>4, Zenon

\* One index moved away from the other, as a step.
LEMMA WidenedStep ==
    ASSUME NEW b, Formed(b), NEW r \in Nat, NEW w \in Nat,
           r <= b.read_idx, b.write_idx <= w, w <= b.sz, r = b.read_idx \/ w = b.write_idx,
           NEW c, c = [mem |-> b.mem, sz |-> b.sz, p_sz |-> b.p_sz,
                       read_idx |-> r, write_idx |-> w]
    PROVE  Formed(c) /\ QueueStep(Content(b), Content(c))
<1>1. /\ b.read_idx \in Nat /\ b.write_idx \in Nat /\ b.read_idx <= b.write_idx
      /\ c.mem = b.mem /\ c.sz = b.sz /\ c.p_sz = b.p_sz /\ c.read_idx = r /\ c.write_idx = w
      /\ b = [mem |-> b.mem, sz |-> b.sz, p_sz |-> b.p_sz,
              read_idx |-> b.read_idx, write_idx |-> b.write_idx]
  BY DEF Formed
<1>2. Formed(c)
  BY <1>1 DEF Formed
<1>3. b = [mem |-> c.mem, sz |-> c.sz, p_sz |-> c.p_sz,
           read_idx |-> b.read_idx, write_idx |-> b.write_idx]
  BY <1>1
<1>4. c.read_idx <= b.read_idx /\ b.read_idx <= b.write_idx /\ b.write_idx <= c.write_idx
  BY <1>1
<1>5. Content(b) = SubSeq(Content(c), b.read_idx - r + 1, b.write_idx - r)
  <2>1. Content(b) = SubSeq(Content(c), b.read_idx - c.read_idx + 1, b.write_idx - c.read_idx)
    BY <1>1, <1>2, <1>3, <1>4, Sliced, Zenon
  <2> QED
    BY <1>1, <2>1
<1>6. /\ Content(c) \in Seq(Byte) /\ Len(Content(c)) = w - r
      /\ Len(Content(b)) = b.write_idx - b.read_idx
  BY <1>1, <1>2, ContentType
<1> DEFINE q == Content(b)
           p == Content(c)
<1> HIDE DEF q, p
<1>7. p \in Seq(Byte) /\ Len(q) <= Len(p)
  BY <1>1, <1>6 DEF q, p
<1>8. CASE r = b.read_idx
  <2>1. b.read_idx - r + 1 = 1 /\ b.write_idx - r = Len(q)
    BY <1>1, <1>6, <1>8 DEF q
  <2>2. SubSeq(p, 1, Len(q)) = q
    BY <1>5, <2>1, Zenon DEF p, q
  <2> QED
    BY <1>2, <1>7, <2>2, Zenon DEF QueueStep, p, q
<1>9. CASE w = b.write_idx
  <2>1. b.read_idx - r + 1 = Len(p) - Len(q) + 1 /\ b.write_idx - r = Len(p)
    BY <1>1, <1>6, <1>9 DEF p, q
  <2>2. SubSeq(p, Len(p) - Len(q) + 1, Len(p)) = q
    BY <1>5, <2>1, Zenon DEF p, q
  <2> QED
    BY <1>2, <1>7, <2>2, Zenon DEF QueueStep, p, q
<1> QED
  BY <1>8, <1>9

\* Bytes consumed, as a step.
LEMMA RetrievedStep ==
    ASSUME NEW b, Formed(b), NEW len \in Nat, len <= buf_readable(b)
    PROVE  Formed(Retrieved(b, len)) /\ QueueStep(Content(b), Content(Retrieved(b, len)))
<1> DEFINE q == Content(b)
<1>1. /\ Formed(Retrieved(b, len))
      /\ Content(Retrieved(b, len)) = SubSeq(q, len + 1, Len(q))
  BY RetrievedCorrect, Zenon
<1>2. buf_readable(b) \in Nat /\ Len(q) = buf_readable(b)
  BY ContentType, Zenon
<1> HIDE DEF q
<1>3. len \in 0 .. Len(q)
  BY <1>2
<1> QED
  BY <1>1, <1>3, Zenon DEF QueueStep, q

\* A call that writes keeps the block well formed and adds to the queue, or takes
\* from its end.
LEMMA WriteStep ==
    ASSUME BlockInv, ~displaced, Write
    PROVE  StepGives
<1>1. Formed(buf) /\ ~failed
  BY DEF BlockInv
<1>2. \A data \in Datas : data \in Seq(Byte) /\ Len(data) \in Nat
  BY Numbers, Zenon
<1>3. /\ buf = [mem |-> buf.mem, sz |-> buf.sz, p_sz |-> buf.p_sz,
                read_idx |-> buf.read_idx, write_idx |-> buf.write_idx]
      /\ buf.read_idx \in Nat /\ buf.write_idx \in Nat /\ buf.sz \in Nat /\ buf.p_sz \in Nat
      /\ buf.read_idx <= buf.write_idx
      /\ buf_readable(buf) = buf.write_idx - buf.read_idx
      /\ buf_writable(buf) \in Nat
  <2>1. buf_readable(buf) = buf.write_idx - buf.read_idx /\ buf_writable(buf) \in Nat
    BY <1>1, ContentType
  <2> QED
    BY <1>1, <2>1 DEF Formed
<1>4. ASSUME NEW len \in Nat, EnsureWritable(len) PROVE Shown
  <2>1. MayEnsure(buf, len) /\ buf' = buf_ensureWritable(buf, len) /\ (failed' <=> EnsureFails(buf, len))
    BY <1>4, Zenon DEF EnsureWritable
  <2>2. /\ Formed(buf_ensureWritable(buf, len)) /\ Content(buf_ensureWritable(buf, len)) = Content(buf)
        /\ ~EnsureFails(buf, len)
    BY <1>1, <2>1, EnsureCorrect, Zenon
  <2> QED
    BY <2>1, <2>2, Zenon DEF Shown, QueueStep
<1>5. ASSUME NEW data \in Datas, buf_append(data) PROVE Shown
  <2>1. /\ MayEnsure(buf, Len(data)) /\ buf' = Appended(buf, data)
        /\ (failed' <=> EnsureFails(buf, Len(data)))
    BY <1>5, Zenon DEF buf_append
  <2>2. /\ Formed(Appended(buf, data)) /\ Content(Appended(buf, data)) = Content(buf) \o data
        /\ ~EnsureFails(buf, Len(data))
    BY <1>1, <1>2, <2>1, AppendedCorrect, Zenon
  <2> QED
    BY <1>2, <2>1, <2>2, Zenon DEF Shown, QueueStep
<1>6. ASSUME NEW data \in Datas, buf_has_written(data) PROVE Shown
  <2>1. Len(data) <= buf_writable(buf) /\ buf' = Put(buf, data) /\ failed' = failed
    BY <1>6, Zenon DEF buf_has_written
  <2>2. Formed(Put(buf, data)) /\ Content(Put(buf, data)) = Content(buf) \o data
    BY <1>1, <1>2, <2>1, PutCorrect, Zenon
  <2> QED
    BY <1>1, <1>2, <2>1, <2>2, Zenon DEF Shown, QueueStep
<1>7. ASSUME NEW len \in Nat, buf_unwrite(len) PROVE Shown
  <2> DEFINE w == buf.write_idx - len
  <2>1. len <= buf_readable(buf) /\ buf' = [buf EXCEPT !.write_idx = w] /\ failed' = failed
    BY <1>7, Zenon DEF buf_unwrite
  <2>2. w \in Nat /\ buf.read_idx <= w /\ w <= buf.write_idx
    BY <1>3, <2>1
  <2> HIDE DEF w
  <2>3. buf' = [mem |-> buf.mem, sz |-> buf.sz, p_sz |-> buf.p_sz,
                read_idx |-> buf.read_idx, write_idx |-> w]
    BY <1>3, <2>1, BlockUpdates
  <2>4. buf.read_idx <= buf.read_idx
    BY <1>3
  <2>5. Formed(buf') /\ QueueStep(Content(buf), Content(buf'))
    BY <1>1, <1>3, <2>2, <2>3, <2>4, SlicedStep, Zenon
  <2> QED
    BY <1>1, <2>1, <2>5, Zenon DEF Shown
<1>8. ASSUME NEW w \in Nat, buf_setWriteIndex(w) PROVE Shown
  <2>1. w \in buf.read_idx .. buf.sz - 1 /\ buf' = [buf EXCEPT !.write_idx = w] /\ failed' = failed
    BY <1>8, Zenon DEF buf_setWriteIndex
  <2>2. buf.read_idx <= w /\ w <= buf.sz /\ buf.read_idx <= buf.read_idx
    BY <1>3, <2>1
  <2>3. buf' = [mem |-> buf.mem, sz |-> buf.sz, p_sz |-> buf.p_sz,
                read_idx |-> buf.read_idx, write_idx |-> w]
    BY <1>3, <2>1, BlockUpdates
  <2>4. CASE w <= buf.write_idx
    <3>1. Formed(buf') /\ QueueStep(Content(buf), Content(buf'))
      BY <1>1, <1>3, <2>2, <2>3, <2>4, SlicedStep, Zenon
    <3> QED
      BY <1>1, <2>1, <3>1, Zenon DEF Shown
  <2>5. CASE ~(w <= buf.write_idx)
    <3>1. buf.write_idx <= w
      BY <1>3, <2>5
    <3>2. Formed(buf') /\ QueueStep(Content(buf), Content(buf'))
      BY <1>1, <1>3, <2>2, <2>3, <3>1, WidenedStep, Zenon
    <3> QED
      BY <1>1, <2>1, <3>2, Zenon DEF Shown
  <2> QED
    BY <2>4, <2>5
<1>9. ASSUME NEW data \in Datas, buf_prepend(data) PROVE Shown
  <2>1. /\ Len(data) <= buf_prependable(buf) /\ failed' = failed
        /\ buf' = [buf EXCEPT !.mem = Stored(@, buf.read_idx - Len(data), data),
                              !.read_idx = @ - Len(data)]
    BY <1>9, Zenon DEF buf_prepend
  <2>2. Formed(buf') /\ Content(buf') = data \o Content(buf)
    BY <1>1, <1>2, <2>1, PrependCorrect, Zenon
  <2> QED
    BY <1>1, <1>2, <2>1, <2>2, Zenon DEF Shown, QueueStep
<1>10. ASSUME NEW reserve \in Nat, buf_shrink(reserve) PROVE StepGives
  <2> DEFINE nsz == buf.p_sz + buf_readable(buf) + reserve
  <2>1. /\ nsz \in 1 .. MaxSz /\ failed' = failed /\ buf' = buf_swap(buf, nsz)
        /\ displaced' <=> buf.read_idx # buf.p_sz
    BY <1>10, Zenon DEF buf_shrink
  <2>2. nsz \in Nat /\ 1 <= nsz /\ nsz <= MaxSz /\ buf.p_sz + buf_readable(buf) <= nsz
    BY <1>3, <2>1, Numbers
  <2> HIDE DEF nsz
  <2>3. buf.read_idx = buf.p_sz
        => Formed(buf_swap(buf, nsz)) /\ Content(buf_swap(buf, nsz)) = Content(buf)
    BY <1>1, <2>2, SwapCorrect, Zenon
  <2> QED
    BY <1>1, <2>1, <2>3, Zenon DEF StepGives, Shown, QueueStep
<1>11. ASSUME NEW data \in Datas, buf_readFd(data) PROVE Shown
  <2> DEFINE n == buf_writable(buf)
             d1 == SubSeq(data, 1, n)
             d2 == SubSeq(data, n + 1, Len(data))
             full == Put(buf, d1)
  <2>1. \/ Len(data) <= n /\ buf' = Put(buf, data) /\ failed' = failed
        \/ /\ Len(data) > n /\ MayEnsure(full, Len(d2))
           /\ buf' = Appended(full, d2) /\ (failed' <=> EnsureFails(full, Len(d2)))
    BY <1>11, Zenon DEF buf_readFd
  <2>2. CASE Len(data) <= n /\ buf' = Put(buf, data) /\ failed' = failed
    <3>1. Formed(Put(buf, data)) /\ Content(Put(buf, data)) = Content(buf) \o data
      BY <1>1, <1>2, <2>2, PutCorrect, Zenon
    <3> QED
      BY <1>1, <1>2, <2>2, <3>1, Zenon DEF Shown, QueueStep
  <2>3. CASE /\ Len(data) > n /\ MayEnsure(full, Len(d2))
             /\ buf' = Appended(full, d2) /\ (failed' <=> EnsureFails(full, Len(d2)))
    <3>1. n \in Nat /\ Len(data) > n /\ data \in Seq(Byte)
      BY <1>2, <1>3, <2>3
    <3> HIDE DEF n
    <3>2. d1 \in Seq(Byte) /\ Len(d1) = n /\ d2 \in Seq(Byte)
      BY <3>1
    <3> HIDE DEF d1, d2
    <3>3. Len(d1) <= buf_writable(buf)
      BY <1>3, <3>2 DEF n
    <3>4. Formed(full) /\ Content(full) = Content(buf) \o d1
      BY <1>1, <3>2, <3>3, PutCorrect, Zenon
    <3> HIDE DEF full
    <3>5. /\ Formed(Appended(full, d2)) /\ Content(Appended(full, d2)) = Content(full) \o d2
          /\ ~EnsureFails(full, Len(d2))
      BY <2>3, <3>2, <3>4, AppendedCorrect, Zenon
    <3>6. Content(buf) \in Seq(Byte)
      BY <1>1, ContentType, Zenon
    <3>7. (Content(buf) \o d1) \o d2 = Content(buf) \o (d1 \o d2) /\ d1 \o d2 \in Seq(Byte)
      BY <3>2, <3>6, ConcatAssociative
    <3>8. \E d \in Seq(Byte) : Content(buf') = Content(buf) \o d
      BY <2>3, <3>4, <3>5, <3>7, Zenon
    <3> QED
      BY <2>3, <3>5, <3>8, Zenon DEF Shown, QueueStep
  <2> QED
    BY <2>1, <2>2, <2>3, Zenon
<1>12. Lengths \subseteq Nat
  BY Numbers DEF Lengths
<1> QED
  BY <1>4, <1>5, <1>6, <1>7, <1>8, <1>9, <1>10, <1>11, <1>12, Zenon DEF Write, StepGives, Shown

\* A call that reads takes from the front of the queue or from none.
LEMMA ReadStep ==
    ASSUME BlockInv, ~displaced, Read
    PROVE  StepGives
<1>1. Formed(buf) /\ ~failed
  BY DEF BlockInv
<1>2. /\ buf = [mem |-> buf.mem, sz |-> buf.sz, p_sz |-> buf.p_sz,
                read_idx |-> buf.read_idx, write_idx |-> buf.write_idx]
      /\ buf.read_idx \in Nat /\ buf.write_idx \in Nat
      /\ buf_readable(buf) = buf.write_idx - buf.read_idx
      /\ buf_readable(buf) \in Nat
  <2>1. buf_readable(buf) = buf.write_idx - buf.read_idx /\ buf_readable(buf) \in Nat
    BY <1>1, ContentType
  <2> QED
    BY <1>1, <2>1 DEF Formed
<1>3. ASSUME NEW len \in Nat, len <= buf_readable(buf), buf' = Retrieved(buf, len), failed' = failed
      PROVE  Shown
  <2>1. Formed(Retrieved(buf, len)) /\ QueueStep(Content(buf), Content(Retrieved(buf, len)))
    BY <1>1, <1>3, RetrievedStep, Zenon
  <2> QED
    BY <1>1, <1>3, <2>1, Zenon DEF Shown
<1>4. ASSUME NEW len \in Nat, buf_retrieve(len) PROVE Shown
  BY <1>3, <1>4, Zenon DEF buf_retrieve
<1>5. ASSUME NEW len \in Nat, buf_readStr(len) PROVE Shown
  <2> DEFINE n == IF buf_readable(buf) < len THEN buf_readable(buf) ELSE len
  <2>1. buf' = Retrieved(buf, n) /\ failed' = failed
    BY <1>5, Zenon DEF buf_readStr
  <2>2. n \in Nat /\ n <= buf_readable(buf)
    BY <1>2
  <2> HIDE DEF n
  <2> QED
    BY <1>3, <2>1, <2>2, Zenon
<1>6. ASSUME buf_readCStr PROVE Shown
  <2>1. /\ \/ \E k \in 1 .. buf_readable(buf) : buf' = Retrieved(buf, k)
           \/ buf' = Retrieved(buf, buf_readable(buf))
        /\ failed' = failed
    BY <1>6, Zenon DEF buf_readCStr
  <2>2. /\ \A k \in 1 .. buf_readable(buf) : k \in Nat /\ k <= buf_readable(buf)
        /\ buf_readable(buf) <= buf_readable(buf)
    BY <1>2
  <2> QED
    BY <1>2, <1>3, <2>1, <2>2, Zenon
<1>7. ASSUME NEW r \in Nat, buf_setReadIndex(r) PROVE StepGives
  <2>1. /\ buf' = [buf EXCEPT !.read_idx = r] /\ failed' = failed
        /\ displaced' <=> r > buf.write_idx
    BY <1>7, Zenon DEF buf_setReadIndex
  <2>2. buf' = [mem |-> buf.mem, sz |-> buf.sz, p_sz |-> buf.p_sz,
                read_idx |-> r, write_idx |-> buf.write_idx]
    BY <1>2, <2>1, BlockUpdates
  <2>3. buf.write_idx <= buf.write_idx /\ buf.write_idx <= buf.sz
    BY <1>1, <1>2 DEF Formed
  <2>4. CASE r > buf.write_idx
    BY <1>1, <2>1, <2>4, Zenon DEF StepGives
  <2>5. CASE r <= buf.write_idx /\ buf.read_idx <= r
    <3>1. Formed(buf') /\ QueueStep(Content(buf), Content(buf'))
      BY <1>1, <1>2, <2>2, <2>3, <2>5, SlicedStep, Zenon
    <3> QED
      BY <1>1, <2>1, <3>1, Zenon DEF StepGives, Shown
  <2>6. CASE r <= buf.read_idx
    <3>1. Formed(buf') /\ QueueStep(Content(buf), Content(buf'))
      BY <1>1, <1>2, <2>2, <2>3, <2>6, WidenedStep, Zenon
    <3> QED
      BY <1>1, <2>1, <3>1, Zenon DEF StepGives, Shown
  <2> QED
    BY <1>2, <2>4, <2>5, <2>6
<1>8. ASSUME NEW v \in Views, NEW len \in Lengths, ReadView(v, len) PROVE Shown
  <2>1. buf' = buf /\ failed' = failed
    BY <1>8, Zenon DEF ReadView
  <2> QED
    BY <1>1, <2>1, Zenon DEF Shown, QueueStep
<1>9. Lengths \subseteq Nat
  BY Numbers DEF Lengths
<1> QED
  BY <1>4, <1>5, <1>6, <1>7, <1>8, <1>9, Zenon DEF Read, StepGives, Shown

\* Nobody calls a buffer whose indexes are displaced.
LEMMA NextUsable ==
    ASSUME Next
    PROVE  ~displaced
BY Zenon DEF Next, Write, Read, View, Writing, Usable, EnsureWritable, buf_unwrite,
             buf_setWriteIndex, buf_shrink, buf_append, buf_has_written, buf_prepend, buf_readFd,
             buf_retrieve, buf_readStr, buf_setReadIndex, buf_readCStr, ReadView,
             buf_readonlyView, ReleaseView, buf_release

\* Every step, those that touch no byte included.
LEMMA BlockStep ==
    ASSUME BlockInv, [Next]_vars
    PROVE  StepGives
<1>1. ASSUME buf' = buf, failed' = failed, displaced' = displaced PROVE StepGives
  BY <1>1, Zenon DEF StepGives, Shown, QueueStep, BlockInv
<1>2. CASE Write
  BY <1>2, NextUsable, WriteStep, Zenon DEF Next
<1>3. CASE Read
  BY <1>3, NextUsable, ReadStep, Zenon DEF Next
<1>4. CASE View
  <2>1. buf' = buf /\ failed' = failed /\ displaced' = displaced
    BY <1>4, Zenon DEF View, buf_readonlyView, ReleaseView, buf_release
  <2> QED
    BY <1>1, <2>1, Zenon
<1>5. CASE UNCHANGED vars
  BY <1>1, <1>5, Zenon DEF vars
<1> QED
  BY <1>2, <1>3, <1>4, <1>5, Zenon DEF Next

\* The buffer is created well formed, and empty.
LEMMA BlockInit ==
    ASSUME Init
    PROVE  BlockInv /\ Content(buf) = << >>
<1>1. PICK s \in Sizes :
          buf = [mem |-> [k \in 0 .. s.size + s.prepend - 1 |-> 0],
                 sz |-> s.size + s.prepend, p_sz |-> s.prepend,
                 read_idx |-> s.prepend, write_idx |-> s.prepend]
  BY Zenon DEF Init
<1>2. s.size \in Nat /\ s.size >= 1 /\ s.prepend \in Nat /\ s.size + s.prepend <= MaxSz
  <2>1. s \in [size : Nat \ {0}, prepend : Nat] /\ s.size + s.prepend <= MaxSz
    BY BufferAssumption
  <2> QED
    BY <2>1
<1>3. /\ buf.mem = [k \in 0 .. s.size + s.prepend - 1 |-> 0]
      /\ buf.sz = s.size + s.prepend /\ buf.p_sz = s.prepend
      /\ buf.read_idx = s.prepend /\ buf.write_idx = s.prepend
      /\ buf = [mem |-> buf.mem, sz |-> buf.sz, p_sz |-> buf.p_sz,
                read_idx |-> buf.read_idx, write_idx |-> buf.write_idx]
  BY <1>1
<1>4. buf.mem \in [0 .. buf.sz - 1 -> Byte]
  <2>1. \A m : m = [k \in 0 .. s.size + s.prepend - 1 |-> 0]
                   => m \in [0 .. s.size + s.prepend - 1 -> Byte]
    BY Numbers
  <2>2. buf.mem \in [0 .. s.size + s.prepend - 1 -> Byte]
    BY <1>3, <2>1, Zenon
  <2>3. buf.sz = s.size + s.prepend
    BY <1>3
  <2> QED
    BY <1>2, <2>2, <2>3
<1>5. Formed(buf)
  BY <1>2, <1>3, <1>4 DEF Formed
<1>6. buf_readable(buf) = 0
  BY <1>2, <1>3 DEF buf_readable
<1>7. Content(buf) \in Seq(Byte) /\ Len(Content(buf)) = 0
  BY <1>5, <1>6, ContentType
<1>8. Content(buf) = << >>
  BY <1>7
<1>9. ~failed
  BY Zenon DEF Init
<1> QED
  BY <1>5, <1>8, <1>9 DEF BlockInv

\* The block is well formed in every state, and no assertion inside a function fails.
THEOREM BlockAlways == Spec => []BlockInv
<1>1. Init => BlockInv
  BY BlockInit, Zenon
<1>2. BlockInv /\ [Next]_vars => BlockInv'
  BY BlockStep, Zenon DEF StepGives, Shown, BlockInv
<1> QED
  BY <1>1, <1>2, PTL DEF Spec

\* The assertions of buf_makeSpace and buf_ensureWritable hold for every size of the
\* block and every data, for callers that keep the rules.
THEOREM AssertionsHold == Spec => []NeverFails
<1>1. BlockInv => NeverFails
  BY Zenon DEF BlockInv, NeverFails
<1> QED
  BY <1>1, BlockAlways, PTL

\* The indexes of a well-formed block are ordered.
LEMMA FormedOrdered ==
    ASSUME NEW b, Formed(b)
    PROVE  /\ b.mem \in [0 .. b.sz - 1 -> Byte]
           /\ b.sz \in 1 .. MaxSz /\ b.p_sz \in 0 .. b.sz
           /\ b.read_idx \in 0 .. b.write_idx /\ b.write_idx \in 0 .. b.sz
           /\ DOMAIN b = {"mem", "sz", "p_sz", "read_idx", "write_idx"}
<1>1. b = [mem |-> b.mem, sz |-> b.sz, p_sz |-> b.p_sz,
           read_idx |-> b.read_idx, write_idx |-> b.write_idx]
  BY DEF Formed
<1>2. DOMAIN b = {"mem", "sz", "p_sz", "read_idx", "write_idx"}
  BY <1>1
<1>3. b.sz \in 1 .. MaxSz /\ b.p_sz \in 0 .. b.sz
  BY Numbers DEF Formed
<1>4. b.read_idx \in 0 .. b.write_idx /\ b.write_idx \in 0 .. b.sz
  BY DEF Formed
<1> QED
  BY <1>2, <1>3, <1>4 DEF Formed

\* Prepend space and readable part lie in the block, for every size and every data,
\* unless a call displaced the indexes.
THEOREM OrderCorrect == Spec => [](~displaced => IndexesOrdered)
<1>1. BlockInv => (~displaced => IndexesOrdered)
  BY FormedOrdered, Zenon DEF BlockInv, IndexesOrdered
<1> QED
  BY <1>1, BlockAlways, PTL

-----------------------------------------------------------------------------
(* The queue.                                                              *)

\* What is behind or in front of a queue leaves it as it was.
LEMMA QueueParts ==
    ASSUME NEW q \in Seq(Byte), NEW d \in Seq(Byte)
    PROVE  /\ q \o d \in Seq(Byte) /\ Len(q) <= Len(q \o d)
           /\ SubSeq(q \o d, 1, Len(q)) = q
           /\ d \o q \in Seq(Byte) /\ Len(q) <= Len(d \o q)
           /\ SubSeq(d \o q, Len(d \o q) - Len(q) + 1, Len(d \o q)) = q
<1>1. /\ q \o d \in Seq(Byte) /\ Len(q \o d) = Len(q) + Len(d)
      /\ d \o q \in Seq(Byte) /\ Len(d \o q) = Len(q) + Len(d)
      /\ Len(q) \in Nat /\ Len(d) \in Nat
  OBVIOUS
<1>2. SubSeq(q \o d, 1, Len(q)) = q
  <2> DEFINE s == SubSeq(q \o d, 1, Len(q))
  <2>1. s \in Seq(Byte) /\ Len(s) = Len(q)
    BY <1>1
  <2>2. ASSUME NEW k \in 1 .. Len(q) PROVE s[k] = q[k]
    BY <1>1
  <2> HIDE DEF s
  <2>3. s = q
    BY <2>1, <2>2
  <2> QED
    BY <2>3 DEF s
<1>3. SubSeq(d \o q, Len(d \o q) - Len(q) + 1, Len(d \o q)) = q
  <2> DEFINE s == SubSeq(d \o q, Len(d) + 1, Len(d) + Len(q))
  <2>1. s \in Seq(Byte) /\ Len(s) = Len(q)
    BY <1>1
  <2>2. ASSUME NEW k \in 1 .. Len(q) PROVE s[k] = q[k]
    BY <1>1
  <2> HIDE DEF s
  <2>3. s = q
    BY <2>1, <2>2
  <2>4. Len(d \o q) - Len(q) + 1 = Len(d) + 1 /\ Len(d \o q) = Len(d) + Len(q)
    BY <1>1
  <2> QED
    BY <2>3, <2>4 DEF s
<1> QED
  BY <1>1, <1>2, <1>3

\* A step of the readable part is a step of the queue of bytes, or none.
LEMMA QueueSimulated ==
    ASSUME Formed(buf), Shown
    PROVE  UNCHANGED Content(buf) \/ Queue!Next
<1> DEFINE q == Content(buf)
           p == Content(buf')
<1>1. q \in Seq(Byte) /\ QueueStep(q, p)
  BY ContentType, Zenon DEF Shown
<1>2. CASE p = q
  BY <1>2
<1>3. CASE \E d \in Seq(Byte) : p = q \o d \/ p = d \o q
  <2>1. PICK d \in Seq(Byte) : p = q \o d \/ p = d \o q
    BY <1>3
  <2> HIDE DEF q, p
  <2>2. CASE p = q \o d
    <3>1. p \in Seq(Byte) /\ Len(q) <= Len(p) /\ SubSeq(p, 1, Len(q)) = q
      BY <1>1, <2>2, QueueParts, Zenon
    <3> QED
      BY <3>1, Zenon DEF p, q, Queue!Next, Queue!Put
  <2>3. CASE p = d \o q
    <3>1. /\ p \in Seq(Byte) /\ Len(q) <= Len(p)
          /\ SubSeq(p, Len(p) - Len(q) + 1, Len(p)) = q
      BY <1>1, <2>3, QueueParts, Zenon
    <3> QED
      BY <3>1, Zenon DEF p, q, Queue!Next, Queue!PutFront
  <2> QED
    BY <2>1, <2>2, <2>3, Zenon
<1>4. CASE \E n \in 0 .. Len(q) : p = SubSeq(q, n + 1, Len(q)) \/ p = SubSeq(q, 1, Len(q) - n)
  BY <1>4, Zenon DEF Queue!Next, Queue!Take, Queue!TakeBack
<1>5. CASE /\ p \in Seq(Byte) /\ Len(q) <= Len(p)
           /\ SubSeq(p, 1, Len(q)) = q \/ SubSeq(p, Len(p) - Len(q) + 1, Len(p)) = q
  BY <1>5, Zenon DEF Queue!Next, Queue!Put, Queue!PutFront
<1> QED
  BY <1>1, <1>2, <1>3, <1>4, <1>5, Zenon DEF QueueStep

\* The readable part of the buffer is a queue of bytes, for every size of the block
\* and every data: bytes come out as they went in, whatever is moved or grown, up to a
\* shrinking of a buffer that is not at p_sz or a read index set past the end.
THEOREM BufferIsQueue == Spec => ImplementsQueue
<1>1. Init => Queue!Init
  BY BlockInit, Zenon DEF Queue!Init
<1>2. BlockInv /\ [Next]_vars => [displaced' \/ UNCHANGED Content(buf) \/ Queue!Next]_vars
  <2>1. ASSUME BlockInv, Next PROVE displaced' \/ UNCHANGED Content(buf) \/ Queue!Next
    <3>1. StepGives /\ Formed(buf)
      BY <2>1, BlockStep, NextUsable, Zenon DEF BlockInv
    <3> QED
      BY <3>1, QueueSimulated, Zenon DEF StepGives
  <2> QED
    BY <2>1, Zenon
<1> QED
  BY <1>1, <1>2, BlockAlways, PTL DEF Spec, ImplementsQueue

-----------------------------------------------------------------------------
(* The views.                                                              *)

\* A view as the code keeps it: a window of the block, and indexes inside it.
Window ==
    {w \in ViewRecord : w.read_idx <= w.write_idx /\ w.write_idx <= w.sz
                        /\ w.base + w.sz <= MaxSz}

\* The live views of b, in the table f of views.
Kids(f, b) == {v \in Views : f[v].st = "live" /\ f[v].src = b}

\* The lock of a buffer is the number of its live views.
CountsAre(f, r) == \A b \in Bufs : r[b] = Cardinality(Kids(f, b))

\* What the caches keep.
CachesAre(f, c) ==
    \A b \in Bufs, v \in Views : c[b] = v <=> f[v].st = "cached" /\ f[v].src = b

\* A view that is not live is locked by nobody, the source of a live view is live,
\* and no live view is, through its sources, a view of itself.
Rooted(f, r) ==
    /\ \A v \in Views : f[v].st # "live" => r[v] = 0
    /\ \A v \in Views : f[v].st = "live" /\ f[v].src # Root => f[f[v].src].st = "live"
    /\ \E rank \in [Views -> Nat] : \A v, w \in Views :
           f[v].st = "live" /\ f[w].st = "live" /\ f[v].src = w => rank[w] < rank[v]

LockTypes ==
    /\ refcount \in [Bufs -> Nat] /\ cache \in [Bufs -> Views \cup {Null}]
    /\ view \in [Views -> Window]

LockInv ==
    /\ LockTypes /\ released \in BOOLEAN
    /\ CountsAre(view, refcount) /\ CachesAre(view, cache) /\ Rooted(view, refcount)

\* The names of the buffers.
LEMMA Names ==
    /\ Root \in Bufs /\ Views \subseteq Bufs /\ Root \notin Views /\ Null \notin Views
    /\ Root # Null /\ Null \notin Bufs /\ IsFiniteSet(Views)
    /\ \A b \in Bufs : b # Root => b \in Views
BY BufferAssumption DEF Bufs

\* The live views of a buffer are finitely many.
LEMMA KidsFinite ==
    ASSUME NEW f, NEW b
    PROVE  IsFiniteSet(Kids(f, b)) /\ Cardinality(Kids(f, b)) \in Nat
<1>1. Kids(f, b) \in SUBSET Views
  BY Zenon DEF Kids
<1>2. IsFiniteSet(Kids(f, b))
  BY <1>1, Names, FS_Subset, Zenon
<1> QED
  BY <1>2, FS_CardinalityType, Zenon

\* The other views live as before, of the same sources.
SameElse(f, g, v) ==
    /\ \A w \in Views : w # v => (g[w].st = "live" <=> f[w].st = "live")
    /\ \A w \in Views : w # v /\ f[w].st = "live" => g[w].src = f[w].src

\* A view is opened on b.
LEMMA KidsOpened ==
    ASSUME NEW f, NEW g, NEW b \in Bufs, NEW v \in Views, f[v].st # "live",
           g[v].st = "live", g[v].src = b,
           SameElse(f, g, v)
    PROVE  /\ Cardinality(Kids(g, b)) = Cardinality(Kids(f, b)) + 1
           /\ \A c \in Bufs : c # b => Kids(g, c) = Kids(f, c)
<1>1. Kids(g, b) = Kids(f, b) \cup {v} /\ v \notin Kids(f, b)
  <2>1. \A w \in Views : w \in Kids(g, b) <=> w = v \/ w \in Kids(f, b)
    <3>1. SUFFICES ASSUME NEW w \in Views
                   PROVE  w \in Kids(g, b) <=> w = v \/ w \in Kids(f, b)
      BY Zenon
    <3>2. CASE w = v
      BY <3>2, Zenon DEF Kids, SameElse
    <3>3. CASE w # v
      BY <3>3, Zenon DEF Kids, SameElse
    <3> QED
      BY <3>2, <3>3, Zenon
  <2>2. Kids(g, b) \subseteq Views /\ Kids(f, b) \subseteq Views /\ v \notin Kids(f, b)
    BY Zenon DEF Kids, SameElse
  <2> QED
    BY <2>1, <2>2
<1>2. Cardinality(Kids(f, b) \cup {v}) = Cardinality(Kids(f, b)) + 1
  BY <1>1, KidsFinite, FS_AddElement, Zenon
<1>3. ASSUME NEW c \in Bufs, c # b PROVE Kids(g, c) = Kids(f, c)
  BY <1>3, Zenon DEF Kids, SameElse
<1> QED
  BY <1>1, <1>2, <1>3, Zenon

\* A view of b is closed.
LEMMA KidsClosed ==
    ASSUME NEW f, NEW g, NEW b \in Bufs, NEW v \in Views, f[v].st = "live", f[v].src = b,
           g[v].st # "live",
           SameElse(f, g, v)
    PROVE  /\ Cardinality(Kids(g, b)) = Cardinality(Kids(f, b)) - 1
           /\ Cardinality(Kids(f, b)) # 0
           /\ \A c \in Bufs : c # b => Kids(g, c) = Kids(f, c)
<1>1. Kids(g, b) = Kids(f, b) \ {v} /\ v \in Kids(f, b)
  BY Zenon DEF Kids, SameElse
<1>2. Cardinality(Kids(f, b) \ {v}) = Cardinality(Kids(f, b)) - 1
  BY <1>1, KidsFinite, FS_RemoveElement, Zenon
<1>3. Cardinality(Kids(f, b)) # 0
  BY <1>1, KidsFinite, FS_EmptySet, Zenon
<1>4. ASSUME NEW c \in Bufs, c # b PROVE Kids(g, c) = Kids(f, c)
  BY <1>4, Zenon DEF Kids, SameElse
<1> QED
  BY <1>1, <1>2, <1>3, <1>4, Zenon

\* A buffer with no lock has no live view.
LEMMA Unlocked ==
    ASSUME NEW f, NEW r, CountsAre(f, r), NEW b \in Bufs, r[b] = 0,
           NEW v \in Views, f[v].st = "live"
    PROVE  f[v].src # b
<1>1. Kids(f, b) = {}
  BY KidsFinite, FS_EmptySet, Zenon DEF CountsAre
<1> QED
  BY <1>1, Zenon DEF Kids

\* When the buffer itself has no lock there is no live view at all.
LEMMA NoneLive ==
    ASSUME NEW f, NEW r, CountsAre(f, r), Rooted(f, r), r[Root] = 0,
           \A v \in Views : f[v].src \in Bufs,
           NEW x \in Views, f[x].st = "live"
    PROVE  FALSE
<1>1. PICK rank \in [Views -> Nat] : \A v, w \in Views :
          f[v].st = "live" /\ f[w].st = "live" /\ f[v].src = w => rank[w] < rank[v]
  BY Zenon DEF Rooted
<1> DEFINE S == {v \in Views : f[v].st = "live"}
           T == {rank[v] : v \in S}
<1>2. T \subseteq Nat /\ T # {}
  BY <1>1
<1>3. IsWellFoundedOn(OpToRel(<, Nat), Nat)
  BY NatLessThanWellFounded
<1>4. PICK d \in T : \A e \in T : ~(<<e, d>> \in OpToRel(<, Nat))
  BY <1>2, <1>3, WFMin
<1>5. \A e \in T : ~(e < d)
  BY <1>2, <1>4 DEF OpToRel
<1>6. PICK v \in S : d = rank[v]
  BY Zenon
<1>7. f[v].src # Root
  BY <1>6, Unlocked, Names, Zenon
<1>8. f[v].src \in Views /\ f[f[v].src].st = "live"
  BY <1>6, <1>7, Names, Zenon DEF Rooted
<1>9. rank[f[v].src] < rank[v]
  BY <1>1, <1>6, <1>8, Zenon
<1>10. rank[f[v].src] \in T
  BY <1>8, Zenon
<1> QED
  BY <1>5, <1>6, <1>9, <1>10, Zenon

\* Between the tables f and g of views v was opened on b.
IsOpening(f, g, b, v) ==
    /\ b = Root \/ f[b].st = "live"
    /\ f[v].st # "live" /\ v # b /\ g[v].st = "live" /\ g[v].src = b
    /\ SameElse(f, g, v)

\* The counts r and s before and after.
CountsOpened(r, s, b, v) ==
    /\ s[b] = r[b] + 1 /\ s[v] = 0
    /\ \A c \in Bufs : c # b /\ c # v => s[c] = r[c]

\* What opening a view of b does to the locks.
LEMMA Opened ==
    ASSUME NEW f, NEW g, NEW r \in [Bufs -> Nat], CountsAre(f, r), Rooted(f, r),
           \A w \in Views : f[w].src \in Bufs,
           NEW b \in Bufs, NEW v \in Views, IsOpening(f, g, b, v),
           NEW s \in [Bufs -> Nat], CountsOpened(r, s, b, v)
    PROVE  CountsAre(g, s) /\ Rooted(g, s)
<1>a. /\ b = Root \/ f[b].st = "live"
      /\ f[v].st # "live" /\ v # b /\ g[v].st = "live" /\ g[v].src = b
      /\ SameElse(f, g, v)
  BY Zenon DEF IsOpening
<1>b. /\ s[b] = r[b] + 1 /\ s[v] = 0
      /\ \A c \in Bufs : c # b /\ c # v => s[c] = r[c]
  BY Zenon DEF CountsOpened
<1>1. /\ Cardinality(Kids(g, b)) = Cardinality(Kids(f, b)) + 1
      /\ \A c \in Bufs : c # b => Kids(g, c) = Kids(f, c)
  BY <1>a, KidsOpened, Zenon
<1>2. v \in Bufs /\ r[v] = 0
  BY <1>a, Names, Zenon DEF Rooted
<1>3. CountsAre(g, s)
  <2>1. SUFFICES ASSUME NEW c \in Bufs PROVE s[c] = Cardinality(Kids(g, c))
    BY Zenon DEF CountsAre
  <2>2. r[c] = Cardinality(Kids(f, c))
    BY Zenon DEF CountsAre
  <2>3. CASE c = b
    BY <1>b, <1>1, <2>2, <2>3, Zenon
  <2>4. CASE c # b /\ c # v
    BY <1>b, <1>1, <2>2, <2>4, Zenon
  <2>5. CASE c # b /\ c = v
    BY <1>b, <1>1, <1>2, <2>2, <2>5, Zenon
  <2> QED
    BY <2>3, <2>4, <2>5, Zenon
<1>4. \A w \in Views : g[w].st # "live" => s[w] = 0
  <2>1. SUFFICES ASSUME NEW w \in Views, g[w].st # "live" PROVE s[w] = 0
    BY Zenon
  <2>2. w # v /\ f[w].st # "live" /\ w \in Bufs
    BY <1>a, <2>1, Names, Zenon DEF SameElse
  <2>3. w # b
    BY <1>a, <2>2, Names, Zenon
  <2> QED
    BY <1>b, <2>2, <2>3, Zenon DEF Rooted
<1>5. \A w \in Views : g[w].st = "live" /\ g[w].src # Root => g[g[w].src].st = "live"
  <2>1. SUFFICES ASSUME NEW w \in Views, g[w].st = "live", g[w].src # Root
                 PROVE  g[g[w].src].st = "live"
    BY Zenon
  <2>2. CASE w = v
    <3>1. g[w].src = b /\ b \in Views /\ f[b].st = "live"
      BY <1>a, <2>1, <2>2, Names, Zenon
    <3>2. g[b].st = "live"
      BY <1>a, <3>1, Zenon DEF SameElse
    <3> QED
      BY <3>1, <3>2, Zenon
  <2>3. CASE w # v
    <3>1. f[w].st = "live" /\ g[w].src = f[w].src /\ f[w].src \in Views
      BY <1>a, <2>1, <2>3, Names, Zenon DEF SameElse
    <3>2. f[f[w].src].st = "live"
      BY <2>1, <3>1, Zenon DEF Rooted
    <3> QED
      BY <1>a, <3>1, <3>2, Zenon DEF SameElse
  <2> QED
    BY <2>2, <2>3, Zenon
<1>6. PICK rank \in [Views -> Nat] : \A x, w \in Views :
          f[x].st = "live" /\ f[w].st = "live" /\ f[x].src = w => rank[w] < rank[x]
  BY Zenon DEF Rooted
<1> DEFINE top == IF b = Root THEN 0 ELSE rank[b] + 1
           rk == [rank EXCEPT ![v] = top]
<1>7. top \in Nat
  <2>1. CASE b = Root
    BY <2>1
  <2>2. CASE b # Root
    <3>1. b \in Views
      BY <2>2, Names, Zenon
    <3> QED
      BY <2>2, <3>1
  <2> QED
    BY <2>1, <2>2
<1>8. rk \in [Views -> Nat] /\ rk[v] = top /\ \A w \in Views : w # v => rk[w] = rank[w]
  <2> HIDE DEF top
  <2> QED
    BY <1>7
<1>9. ASSUME NEW x \in Views, NEW w \in Views, g[x].st = "live", g[w].st = "live", g[x].src = w
      PROVE  rk[w] < rk[x]
  <2> HIDE DEF rk
  <2>1. CASE x = v
    <3>1. w = b /\ b # Root
      BY <1>a, <1>9, <2>1, Names, Zenon
    <3>2. rk[x] = rank[w] + 1 /\ rk[w] = rank[w]
      BY <1>a, <1>8, <2>1, <3>1, Zenon
    <3> QED
      BY <3>2
  <2>2. CASE x # v
    <3>1. f[x].st = "live" /\ f[x].src = w
      BY <1>a, <1>9, <2>2, Zenon DEF SameElse
    <3>2. w # v
      <4>1. CountsAre(f, r) /\ v \in Bufs /\ r[v] = 0 /\ f[x].st = "live"
        BY <1>2, <3>1, Zenon
      <4>2. f[x].src # v
        BY <4>1, Unlocked, Zenon
      <4> QED
        BY <3>1, <4>2, Zenon
    <3>3. f[w].st = "live"
      BY <1>a, <1>9, <3>2, Zenon DEF SameElse
    <3> QED
      BY <1>6, <1>8, <2>2, <3>1, <3>2, <3>3, Zenon
  <2> QED
    BY <2>1, <2>2, Zenon
<1> HIDE DEF rk
<1>10. \E k \in [Views -> Nat] : \A x, w \in Views :
           g[x].st = "live" /\ g[w].st = "live" /\ g[x].src = w => k[w] < k[x]
  BY <1>8, <1>9, Zenon
<1> QED
  BY <1>3, <1>4, <1>5, <1>10, Zenon DEF Rooted

\* What closing a view of b does to the locks.
LEMMA Closed ==
    ASSUME NEW f, NEW g, NEW r \in [Bufs -> Nat], CountsAre(f, r), Rooted(f, r),
           \A w \in Views : f[w].src \in Bufs,
           NEW b \in Bufs, NEW v \in Views, f[v].st = "live", f[v].src = b, r[v] = 0,
           g[v].st # "live",
           SameElse(f, g, v),
           NEW s, s = [r EXCEPT ![b] = @ - 1]
    PROVE  s \in [Bufs -> Nat] /\ b # v /\ CountsAre(g, s) /\ Rooted(g, s)
<1>1. /\ Cardinality(Kids(g, b)) = Cardinality(Kids(f, b)) - 1
      /\ Cardinality(Kids(f, b)) # 0
      /\ \A c \in Bufs : c # b => Kids(g, c) = Kids(f, c)
  BY KidsClosed, Zenon
<1>2. b # v
  BY Unlocked, Names, Zenon
<1>3. r[b] = Cardinality(Kids(f, b)) /\ r[b] \in Nat /\ v \in Bufs
  BY Names, Zenon DEF CountsAre
<1>4. s \in [Bufs -> Nat] /\ s[b] = r[b] - 1 /\ \A c \in Bufs : c # b => s[c] = r[c]
  BY <1>1, <1>3
<1>5. CountsAre(g, s)
  BY <1>1, <1>3, <1>4, Zenon DEF CountsAre
<1>6. \A w \in Views : g[w].st # "live" => s[w] = 0
  <2>1. SUFFICES ASSUME NEW w \in Views, g[w].st # "live" PROVE s[w] = 0
    BY Zenon
  <2>2. w \in Bufs /\ r[w] = 0
    BY <2>1, Names, Zenon DEF Rooted, SameElse
  <2>3. w # b
    BY <1>1, <1>3, <2>2, Zenon
  <2> QED
    BY <1>4, <2>2, <2>3, Zenon
<1>7. ASSUME NEW w \in Views, g[w].st = "live"
      PROVE  w # v /\ f[w].st = "live" /\ g[w].src = f[w].src /\ f[w].src # v
  <2>1. w # v /\ f[w].st = "live" /\ g[w].src = f[w].src
    BY <1>7, Zenon DEF SameElse
  <2>2. f[w].src # v
    BY <1>3, <2>1, Unlocked, Zenon
  <2> QED
    BY <2>1, <2>2, Zenon
<1>8. \A w \in Views : g[w].st = "live" /\ g[w].src # Root => g[g[w].src].st = "live"
  <2>1. SUFFICES ASSUME NEW w \in Views, g[w].st = "live", g[w].src # Root
                 PROVE  g[g[w].src].st = "live"
    BY Zenon
  <2>2. f[w].st = "live" /\ g[w].src = f[w].src /\ f[w].src # v /\ f[w].src \in Views
    BY <1>7, <2>1, Names, Zenon
  <2>3. f[f[w].src].st = "live"
    BY <2>1, <2>2, Zenon DEF Rooted
  <2> QED
    BY <2>1, <2>2, <2>3, Zenon DEF SameElse
<1>9. \E k \in [Views -> Nat] : \A x, w \in Views :
          g[x].st = "live" /\ g[w].st = "live" /\ g[x].src = w => k[w] < k[x]
  BY <1>7, Zenon DEF Rooted
<1> QED
  BY <1>2, <1>4, <1>5, <1>6, <1>8, <1>9, Zenon DEF Rooted

\* The same views live, of the same sources, under the same counts.
LEMMA Kept ==
    ASSUME NEW f, NEW g, NEW r, CountsAre(f, r), Rooted(f, r),
           \A w \in Views : f[w].src \in Bufs,
           \A w \in Views : g[w].st = "live" <=> f[w].st = "live",
           \A w \in Views : f[w].st = "live" => g[w].src = f[w].src
    PROVE  CountsAre(g, r) /\ Rooted(g, r)
<1>1. \A b \in Bufs : Kids(g, b) = Kids(f, b)
  BY Zenon DEF Kids
<1>2. CountsAre(g, r)
  BY <1>1, Zenon DEF CountsAre
<1>3. \A w \in Views : g[w].st # "live" => r[w] = 0
  BY Zenon DEF Rooted
<1>4. \A w \in Views : g[w].st = "live" /\ g[w].src # Root => g[g[w].src].st = "live"
  <2>1. SUFFICES ASSUME NEW w \in Views, g[w].st = "live", g[w].src # Root
                 PROVE  g[g[w].src].st = "live"
    BY Zenon
  <2>2. f[w].st = "live" /\ g[w].src = f[w].src /\ f[w].src \in Views
    BY <2>1, Names, Zenon
  <2>3. f[f[w].src].st = "live"
    BY <2>1, <2>2, Zenon DEF Rooted
  <2> QED
    BY <2>2, <2>3, Zenon
<1>5. \E k \in [Views -> Nat] : \A x, w \in Views :
          g[x].st = "live" /\ g[w].st = "live" /\ g[x].src = w => k[w] < k[x]
  BY Zenon DEF Rooted
<1> QED
  BY <1>2, <1>3, <1>4, <1>5, Zenon DEF Rooted

-----------------------------------------------------------------------------
(* The views through every step.                                           *)

\* What a step does to a view that stays live.
KeepsWindows ==
    \A w \in Views : view[w].st = "live" /\ view'[w].st = "live"
                     => /\ view'[w].base = view[w].base /\ view'[w].sz = view[w].sz
                        /\ view'[w].src = view[w].src

\* The window w lies in the block or the window it was taken from.
Fits(w) ==
    /\ Alive(w.src) /\ Base(w.src) <= w.base
    /\ w.base + w.sz <= Base(w.src) + Struct(w.src).sz

\* A view that a step opens fits.
NewFits == \A w \in Views : view[w].st # "live" /\ view'[w].st = "live" => Fits(view'[w])

\* Every live view fits.
WindowsFit == \A w \in Views : view[w].st = "live" => Fits(view[w])

\* The records of the views that steps make.
LEMMA LostWindow ==
    ASSUME NEW w \in Window
    PROVE  /\ [w EXCEPT !.st = "lost"] \in Window
           /\ [w EXCEPT !.st = "lost"].st = "lost" /\ [w EXCEPT !.st = "lost"].src = w.src
BY DEF Window, ViewRecord

\* A view nobody holds.
LEMMA UnusedWindow ==
    ASSUME NEW st \in {"free", "cached"}, NEW b \in Bufs
    PROVE  Unused(st, b) \in Window /\ Unused(st, b).st = st /\ Unused(st, b).src = b
BY Numbers DEF Unused, Window, ViewRecord

\* A view that is read.
LEMMA RetrievedWindow ==
    ASSUME NEW w \in Window, NEW len \in 1 .. buf_readable(w)
    PROVE  LET u == Retrieved(w, len)
           IN  u \in Window /\ u.st = w.st /\ u.src = w.src /\ u.base = w.base /\ u.sz = w.sz
<1>1. /\ w.read_idx \in Nat /\ w.write_idx \in Nat /\ w.write_idx <= MaxSz /\ w.p_sz = 0
      /\ MaxSz \in Nat
  BY Numbers DEF Window, ViewRecord
<1> DEFINE u == Retrieved(w, len)
<1>2. CASE len < buf_readable(w)
  <2>1. u = [w EXCEPT !.read_idx = w.read_idx + len]
    BY <1>2 DEF Retrieved
  <2>2. w.read_idx + len \in 0 .. MaxSz /\ w.read_idx + len <= w.write_idx
    BY <1>1, <1>2 DEF buf_readable
  <2>3. PICK i \in 0 .. MaxSz : i = w.read_idx + len
    BY <2>2, Zenon
  <2>4. u = [w EXCEPT !.read_idx = i] /\ i <= w.write_idx
    BY <2>1, <2>2, <2>3, Zenon
  <2> HIDE DEF u
  <2>5. u \in Window /\ u.st = w.st /\ u.src = w.src /\ u.base = w.base /\ u.sz = w.sz
    BY <2>4 DEF Window, ViewRecord
  <2> QED
    BY <2>5, Zenon DEF u
<1>3. CASE ~(len < buf_readable(w))
  <2> DEFINE x == [w EXCEPT !.read_idx = 0]
  <2>1. u = [w EXCEPT !.read_idx = 0, !.write_idx = 0]
    BY <1>1, <1>3, Zenon DEF Retrieved
  <2>2. [w EXCEPT !.read_idx = 0, !.write_idx = 0] = [x EXCEPT !.write_idx = 0]
    OBVIOUS
  <2>3. x \in Window /\ x.st = w.st /\ x.src = w.src /\ x.base = w.base /\ x.sz = w.sz /\ x.read_idx = 0
    BY <1>1 DEF Window, ViewRecord
  <2> HIDE DEF x, u
  <2>4. u = [x EXCEPT !.write_idx = 0]
    BY <2>1, <2>2, Zenon
  <2>5. u \in Window /\ u.st = x.st /\ u.src = x.src /\ u.base = x.base /\ u.sz = x.sz
    BY <1>1, <2>3, <2>4 DEF Window, ViewRecord
  <2> QED
    BY <2>3, <2>5, Zenon DEF u
<1> QED
  BY <1>2, <1>3, Zenon

\* A view forgotten by the view that kept it.
LEMMA ForgottenIs ==
    ASSUME LockTypes, NEW v \in Views
    PROVE  /\ Forgotten(view, v) \in [Views -> Window]
           /\ \A w \in Views : w # cache[v] => Forgotten(view, v)[w] = view[w]
           /\ \A w \in Views : w = cache[v] => /\ Forgotten(view, v)[w].st = "lost"
                                               /\ Forgotten(view, v)[w].src = view[w].src
<1>1. view \in [Views -> Window] /\ cache[v] \in Views \cup {Null}
  BY Names DEF LockTypes
<1>2. CASE cache[v] = Null
  <2>1. Forgotten(view, v) = view /\ Null \notin Views
    BY <1>2, Names, Zenon DEF Forgotten
  <2> QED
    BY <1>1, <1>2, <2>1, Zenon
<1>3. CASE cache[v] # Null
  <2> DEFINE c == cache[v]
             u == [view[c] EXCEPT !.st = "lost"]
             f == Forgotten(view, v)
  <2>1. c \in Views
    BY <1>1, <1>3, Zenon
  <2>2. f = [view EXCEPT ![c] = u]
    BY <1>3, Zenon DEF Forgotten
  <2>3. u \in Window /\ u.st = "lost" /\ u.src = view[c].src
    <3>1. view[c] \in Window
      BY <1>1, <2>1
    <3> QED
      BY <3>1, LostWindow
  <2> HIDE DEF u, f, c
  <2>4. f \in [Views -> Window] /\ f[c] = u /\ \A w \in Views : w # c => f[w] = view[w]
    BY <1>1, <2>1, <2>2, <2>3
  <2> QED
    BY <2>3, <2>4, Zenon DEF f, c
<1> QED
  BY <1>2, <1>3, Zenon

\* What a buffer or a live view shows lies in the block.
LEMMA StructFits ==
    ASSUME Formed(buf), LockTypes, NEW b \in Bufs
    PROVE  /\ Base(b) \in Nat /\ Struct(b).read_idx \in Nat /\ Struct(b).write_idx \in Nat
           /\ Struct(b).read_idx <= Struct(b).write_idx
           /\ Struct(b).sz \in Nat /\ Struct(b).write_idx <= Struct(b).sz
           /\ Base(b) + Struct(b).write_idx <= MaxSz
<1>1. CASE b = Root
  <2>1. Base(b) = 0 /\ Struct(b) = buf
    BY <1>1, Zenon DEF Base, Struct
  <2>2. /\ buf.read_idx \in Nat /\ buf.write_idx \in Nat /\ buf.read_idx <= buf.write_idx
        /\ buf.write_idx <= MaxSz /\ buf.sz \in Nat /\ buf.write_idx <= buf.sz
    BY Numbers DEF Formed
  <2> QED
    BY <2>1, <2>2
<1>2. CASE b # Root
  <2> DEFINE w == view[b]
  <2>1. Base(b) = w.base /\ Struct(b) = w
    BY <1>2, Zenon DEF Base, Struct
  <2>2. w \in Window
    BY <1>2, Names DEF LockTypes
  <2> HIDE DEF w
  <2>3. /\ w.base \in Nat /\ w.sz \in Nat /\ w.read_idx \in Nat /\ w.write_idx \in Nat
        /\ w.read_idx <= w.write_idx /\ w.write_idx <= w.sz /\ w.base + w.sz <= MaxSz
    BY <2>2, Numbers DEF Window, ViewRecord
  <2>4. w.base + w.write_idx <= MaxSz
    BY <2>3, Numbers
  <2> QED
    BY <2>1, <2>3, <2>4, Zenon
<1> QED
  BY <1>1, <1>2, Zenon

\* The sources of the views.
LEMMA Sources ==
    ASSUME LockTypes
    PROVE  \A w \in Views : view[w].src \in Bufs
BY DEF LockTypes, Window, ViewRecord

\* A view is opened, new or from the cache.
LEMMA OpenStep ==
    ASSUME Formed(buf), LockInv, NEW b \in Bufs, NEW size \in ViewSizes, buf_readonlyView(b, size)
    PROVE  LockInv' /\ KeepsWindows /\ NewFits
<1> DEFINE n == buf_readable(Struct(b))
           len == IF size > n THEN n ELSE size
<1>1. PICK v \in Views :
          /\ IF cache[b] = Null THEN view[v].st = "free" ELSE v = cache[b]
          /\ OpenView(b, v, len)
  BY Zenon DEF buf_readonlyView
<1>2. /\ LockTypes /\ released' = released /\ released \in BOOLEAN /\ Alive(b)
      /\ CountsAre(view, refcount) /\ CachesAre(view, cache) /\ Rooted(view, refcount)
  BY Zenon DEF LockInv, buf_readonlyView
<1>3. /\ refcount \in [Bufs -> Nat] /\ cache \in [Bufs -> Views \cup {Null}]
      /\ view \in [Views -> Window]
  BY <1>2, Zenon DEF LockTypes
<1>4. \/ cache[b] = Null /\ view[v].st = "free"
      \/ cache[b] = v /\ view[v].st = "cached" /\ view[v].src = b
  BY <1>1, <1>2, Zenon DEF CachesAre
<1>5. view[v].st # "live" /\ view[v].st \in {"free", "cached"}
  BY <1>4
<1>6. (b = Root \/ view[b].st = "live") /\ v # b /\ v \in Bufs
  BY <1>2, <1>5, Names, Zenon DEF Alive, Live
<1> DEFINE u == [st |-> "live", src |-> b, base |-> Base(b) + Struct(b).read_idx,
                 sz |-> len, p_sz |-> 0, read_idx |-> 0, write_idx |-> len]
           f == Forgotten(view, v)
<1>7. u \in Window /\ u.st = "live" /\ u.src = b /\ Fits(u)
  <2>1. size \in Nat
    BY BufferAssumption
  <2> DEFINE base == Base(b) + Struct(b).read_idx
  <2>2. /\ len \in 0 .. MaxSz /\ base \in 0 .. MaxSz /\ base + len <= MaxSz
    BY <1>2, <2>1, StructFits, Numbers DEF buf_readable
  <2>5. Base(b) <= base /\ base + len <= Base(b) + Struct(b).sz
    BY <1>2, <2>1, StructFits DEF buf_readable
  <2> HIDE DEF len, base
  <2>3. 0 \in 0 .. MaxSz /\ 0 <= len /\ len <= len
    BY <2>2, Numbers
  <2>4. [st |-> "live", src |-> b, base |-> base, sz |-> len, p_sz |-> 0,
         read_idx |-> 0, write_idx |-> len] \in Window
    BY <2>2, <2>3 DEF Window, ViewRecord
  <2>6. u.src = b /\ u.base = base /\ u.sz = len /\ u.st = "live"
    BY DEF base
  <2>7. Fits(u)
    BY <1>2, <2>5, <2>6, Zenon DEF Fits
  <2> QED
    BY <2>4, <2>6, <2>7 DEF base
<1>8. /\ view' = [f EXCEPT ![v] = u] /\ refcount' = [refcount EXCEPT ![b] = @ + 1, ![v] = 0]
      /\ cache' = [cache EXCEPT ![b] = IF @ = v THEN Null ELSE @, ![v] = Null]
  BY <1>1, Zenon DEF OpenView
<1> HIDE DEF u, len, n
<1>9. /\ f \in [Views -> Window]
      /\ \A w \in Views : w # cache[v] => f[w] = view[w]
      /\ \A w \in Views : w = cache[v] => f[w].st = "lost" /\ f[w].src = view[w].src
  BY <1>2, ForgottenIs, Zenon
<1> HIDE DEF f
<1>10. /\ view' \in [Views -> Window] /\ view'[v] = u
       /\ \A w \in Views : w # v => view'[w] = f[w]
  BY <1>7, <1>8, <1>9
<1>11. /\ refcount' \in [Bufs -> Nat] /\ refcount'[b] = refcount[b] + 1 /\ refcount'[v] = 0
       /\ \A c \in Bufs : c # b /\ c # v => refcount'[c] = refcount[c]
  BY <1>3, <1>6, <1>8
<1>12. /\ cache' \in [Bufs -> Views \cup {Null}] /\ cache'[b] = Null /\ cache'[v] = Null
       /\ \A c \in Bufs : c # b /\ c # v => cache'[c] = cache[c]
  <2> DEFINE x == IF cache[b] = v THEN Null ELSE cache[b]
  <2>1. x = Null
    BY <1>4, Zenon
  <2>2. cache' = [cache EXCEPT ![b] = x, ![v] = Null]
    BY <1>8, Zenon
  <2> HIDE DEF x
  <2> QED
    BY <1>3, <1>6, <2>1, <2>2
<1>13. \A w \in Views : w = cache[v] => view[w].st = "cached" /\ view[w].src = v
  BY <1>2, <1>6, Zenon DEF CachesAre
<1>14. SameElse(view, view', v)
  <2>1. SUFFICES ASSUME NEW w \in Views, w # v
                 PROVE  /\ view'[w].st = "live" <=> view[w].st = "live"
                        /\ view[w].st = "live" => view'[w].src = view[w].src
    BY Zenon DEF SameElse
  <2>2. CASE w = cache[v]
    <3>1. view[w].st = "cached" /\ view'[w].st = "lost"
      BY <1>9, <1>10, <1>13, <2>1, <2>2, Zenon
    <3> QED
      BY <3>1
  <2>3. CASE w # cache[v]
    BY <1>9, <1>10, <2>1, <2>3, Zenon
  <2> QED
    BY <2>2, <2>3, Zenon
<1>15. CountsAre(view', refcount') /\ Rooted(view', refcount')
  <2>1. view'[v].st = "live" /\ view'[v].src = b
    BY <1>7, <1>10, Zenon
  <2>2. \A w \in Views : view[w].src \in Bufs
    BY <1>2, Sources, Zenon
  <2>3. IsOpening(view, view', b, v)
    BY <1>5, <1>6, <1>14, <2>1, Zenon DEF IsOpening
  <2>4. CountsOpened(refcount, refcount', b, v)
    BY <1>11, Zenon DEF CountsOpened
  <2> QED
    BY <1>2, <1>3, <1>11, <2>2, <2>3, <2>4, Opened, Zenon
<1>16. CachesAre(view', cache')
  <2>1. SUFFICES ASSUME NEW c \in Bufs, NEW w \in Views
                 PROVE  cache'[c] = w <=> view'[w].st = "cached" /\ view'[w].src = c
    BY Zenon DEF CachesAre
  <2>2. cache[c] = w <=> view[w].st = "cached" /\ view[w].src = c
    BY <1>2, Zenon DEF CachesAre
  <2>3. cache'[c] = w => c # b /\ c # v /\ cache[c] = w
    BY <1>12, Names, Zenon
  <2>4. CASE w = v
    <3>1. view'[w].st = "live"
      BY <1>7, <1>10, <2>4, Zenon
    <3>2. cache'[c] # w
      <4>1. SUFFICES ASSUME cache'[c] = w PROVE FALSE
        BY Zenon
      <4>2. view[v].st = "cached" /\ view[v].src = c /\ c # b
        BY <2>2, <2>3, <2>4, <4>1, Zenon
      <4>3. view[v].st # "free"
        BY <4>2
      <4> QED
        BY <1>4, <4>2, <4>3, Zenon
    <3> QED
      BY <3>1, <3>2
  <2>5. CASE w # v /\ w = cache[v]
    <3>1. view'[w].st = "lost"
      BY <1>9, <1>10, <2>5, Zenon
    <3>2. cache'[c] # w
      BY <1>13, <2>2, <2>3, <2>5, Zenon
    <3> QED
      BY <3>1, <3>2
  <2>6. CASE w # v /\ w # cache[v]
    <3>1. view'[w] = view[w]
      BY <1>9, <1>10, <2>6, Zenon
    <3>2. cache[c] = w => c # b /\ c # v
      BY <1>4, <2>6, Names, Zenon
    <3>3. cache[c] = w => cache'[c] = w
      BY <1>12, <3>2, Zenon
    <3> QED
      BY <2>2, <2>3, <3>1, <3>3, Zenon
  <2> QED
    BY <2>4, <2>5, <2>6, Zenon
<1>17. LockInv'
  BY <1>2, <1>10, <1>11, <1>12, <1>15, <1>16, Zenon DEF LockInv, LockTypes
<1>18. KeepsWindows
  <2>1. SUFFICES ASSUME NEW w \in Views, view[w].st = "live"
                 PROVE  view'[w] = view[w]
    BY Zenon DEF KeepsWindows
  <2>2. w # v /\ w # cache[v]
    <3>1. w # v
      BY <1>5, <2>1, Zenon
    <3>2. view[w].st # "cached"
      BY <2>1
    <3> QED
      BY <1>13, <3>1, <3>2, Zenon
  <2> QED
    BY <1>9, <1>10, <2>2, Zenon
<1>19. NewFits
  <2>1. SUFFICES ASSUME NEW w \in Views, view[w].st # "live", view'[w].st = "live"
                 PROVE  Fits(view'[w])
    BY Zenon DEF NewFits
  <2>2. w = v
    BY <1>14, <2>1, Zenon DEF SameElse
  <2> QED
    BY <1>7, <1>10, <2>2, Zenon
<1> QED
  BY <1>17, <1>18, <1>19, Zenon

\* A view is released: its source keeps it, or it is freed.
LEMMA ReleaseStep ==
    ASSUME LockInv, NEW v \in Views, ReleaseView(v)
    PROVE  LockInv' /\ KeepsWindows /\ NewFits
<1> DEFINE b == view[v].src
           f == Forgotten(view, v)
<1>1. /\ LockTypes /\ released' = released /\ released \in BOOLEAN
      /\ CountsAre(view, refcount) /\ CachesAre(view, cache) /\ Rooted(view, refcount)
      /\ view[v].st = "live" /\ refcount[v] = 0
      /\ refcount' = [refcount EXCEPT ![b] = @ - 1]
  BY Zenon DEF LockInv, ReleaseView, Live
<1>2. /\ refcount \in [Bufs -> Nat] /\ cache \in [Bufs -> Views \cup {Null}]
      /\ view \in [Views -> Window]
  BY <1>1, Zenon DEF LockTypes
<1>3. b \in Bufs /\ v \in Bufs
  BY <1>1, Sources, Names, Zenon
<1>4. \/ /\ cache[b] = Null
         /\ cache' = [cache EXCEPT ![b] = v]
         /\ view' = [view EXCEPT ![v] = Unused("cached", b)]
      \/ /\ cache[b] # Null
         /\ cache' = [cache EXCEPT ![v] = Null]
         /\ view' = [f EXCEPT ![v] = Unused("free", Root)]
  BY Zenon DEF ReleaseView
<1>5. /\ f \in [Views -> Window]
      /\ \A w \in Views : w # cache[v] => f[w] = view[w]
      /\ \A w \in Views : w = cache[v] => f[w].st = "lost" /\ f[w].src = view[w].src
  BY <1>1, ForgottenIs, Zenon
<1>6. \A w \in Views : w = cache[v] => view[w].st = "cached" /\ view[w].src = v
  BY <1>1, <1>3, Zenon DEF CachesAre
<1>7. /\ Unused("cached", b) \in Window /\ Unused("cached", b).st = "cached"
      /\ Unused("cached", b).src = b
      /\ Unused("free", Root) \in Window /\ Unused("free", Root).st = "free"
  BY <1>3, Names, UnusedWindow
<1> HIDE DEF f, b
<1>8. /\ view' \in [Views -> Window] /\ view'[v].st # "live"
      /\ \A w \in Views : w # v /\ w # cache[v] => view'[w] = view[w]
      /\ \A w \in Views : w # v /\ w = cache[v] => view'[w].st \in {"lost", "cached"}
      /\ cache' \in [Bufs -> Views \cup {Null}]
  <2>1. CASE /\ cache[b] = Null
             /\ cache' = [cache EXCEPT ![b] = v]
             /\ view' = [view EXCEPT ![v] = Unused("cached", b)]
    <3>1. /\ view' \in [Views -> Window] /\ view'[v].st # "live"
          /\ \A w \in Views : w # v => view'[w] = view[w]
      BY <1>2, <1>7, <2>1
    <3>2. cache' \in [Bufs -> Views \cup {Null}]
      BY <1>2, <2>1
    <3>3. \A w \in Views : w = cache[v] => view[w].st \in {"lost", "cached"}
      BY <1>6
    <3> QED
      BY <3>1, <3>2, <3>3, Zenon
  <2>2. CASE /\ cache[b] # Null
             /\ cache' = [cache EXCEPT ![v] = Null]
             /\ view' = [f EXCEPT ![v] = Unused("free", Root)]
    <3>1. /\ view' \in [Views -> Window] /\ view'[v].st # "live"
          /\ \A w \in Views : w # v => view'[w] = f[w]
      BY <1>5, <1>7, <2>2
    <3>2. cache' \in [Bufs -> Views \cup {Null}]
      BY <1>2, <2>2
    <3>3. \A w \in Views : w = cache[v] => f[w].st \in {"lost", "cached"}
      BY <1>5
    <3> QED
      BY <1>5, <3>1, <3>2, <3>3, Zenon
  <2> QED
    BY <1>4, <2>1, <2>2, Zenon
<1>9. SameElse(view, view', v)
  <2>1. SUFFICES ASSUME NEW w \in Views, w # v
                 PROVE  /\ view'[w].st = "live" <=> view[w].st = "live"
                        /\ view[w].st = "live" => view'[w].src = view[w].src
    BY Zenon DEF SameElse
  <2>2. CASE w = cache[v]
    <3>1. view[w].st = "cached" /\ view'[w].st \in {"lost", "cached"}
      BY <1>6, <1>8, <2>1, <2>2, Zenon
    <3> QED
      BY <3>1
  <2>3. CASE w # cache[v]
    BY <1>8, <2>1, <2>3, Zenon
  <2> QED
    BY <2>2, <2>3, Zenon
<1>10. /\ refcount' \in [Bufs -> Nat] /\ b # v
       /\ CountsAre(view', refcount') /\ Rooted(view', refcount')
  <2>1. \A w \in Views : view[w].src \in Bufs
    BY <1>1, Sources, Zenon
  <2>2. view[v].src = b
    BY Zenon DEF b
  <2>3. view'[v].st # "live"
    BY <1>8, Zenon
  <2> QED
    BY <1>1, <1>2, <1>3, <1>9, <2>1, <2>2, <2>3, Closed, Zenon
<1>11. CachesAre(view', cache')
  <2>1. SUFFICES ASSUME NEW c \in Bufs, NEW w \in Views
                 PROVE  cache'[c] = w <=> view'[w].st = "cached" /\ view'[w].src = c
    BY Zenon DEF CachesAre
  <2>2. cache[c] = w <=> view[w].st = "cached" /\ view[w].src = c
    BY <1>1, Zenon DEF CachesAre
  <2>3. view[v].st # "cached"
    BY <1>1
  <2>4. CASE /\ cache[b] = Null
             /\ cache' = [cache EXCEPT ![b] = v]
             /\ view' = [view EXCEPT ![v] = Unused("cached", b)]
    <3>1. /\ view'[v].st = "cached" /\ view'[v].src = b
          /\ w # v => view'[w] = view[w]
      BY <1>2, <1>7, <2>4
    <3>2. cache'[b] = v /\ (c # b => cache'[c] = cache[c])
      BY <1>2, <1>3, <2>4
    <3>3. CASE w = v
      BY <2>2, <2>3, <3>1, <3>2, <3>3, Zenon
    <3>4. CASE w # v /\ c = b
      BY <2>2, <2>4, <3>1, <3>2, <3>4, Names, Zenon
    <3>5. CASE w # v /\ c # b
      BY <2>2, <3>1, <3>2, <3>5, Zenon
    <3> QED
      BY <3>3, <3>4, <3>5, Zenon
  <2>5. CASE /\ cache[b] # Null
             /\ cache' = [cache EXCEPT ![v] = Null]
             /\ view' = [f EXCEPT ![v] = Unused("free", Root)]
    <3>1. view'[v].st = "free" /\ (w # v => view'[w] = f[w])
      BY <1>5, <1>7, <2>5
    <3>2. cache'[v] = Null /\ (c # v => cache'[c] = cache[c])
      BY <1>2, <1>3, <2>5
    <3>3. CASE w = v
      <4>1. view'[w].st # "cached"
        BY <3>1, <3>3
      <4>2. cache'[c] # w
        BY <2>2, <2>3, <3>2, <3>3, Names, Zenon
      <4> QED
        BY <4>1, <4>2, Zenon
    <3>4. CASE w # v /\ w = cache[v]
      <4>1. view'[w].st # "cached"
        <5>1. view'[w].st = "lost"
          BY <1>5, <3>1, <3>4, Zenon
        <5> QED
          BY <5>1
      <4>2. cache'[c] # w
        BY <1>6, <2>2, <3>2, <3>4, Names, Zenon
      <4> QED
        BY <4>1, <4>2, Zenon
    <3>5. CASE w # v /\ w # cache[v]
      <4>1. view'[w] = view[w]
        BY <1>5, <3>1, <3>5, Zenon
      <4>2. cache'[c] = w <=> cache[c] = w
        BY <3>2, <3>5, Names, Zenon
      <4> QED
        BY <2>2, <4>1, <4>2, Zenon
    <3> QED
      BY <3>3, <3>4, <3>5, Zenon
  <2> QED
    BY <1>4, <2>4, <2>5, Zenon
<1>12. LockInv'
  BY <1>1, <1>8, <1>10, <1>11, Zenon DEF LockInv, LockTypes
<1>13. KeepsWindows
  <2>1. SUFFICES ASSUME NEW w \in Views, view[w].st = "live", view'[w].st = "live"
                 PROVE  view'[w] = view[w]
    BY Zenon DEF KeepsWindows
  <2>2. w # v /\ view[w].st # "cached"
    BY <1>8, <2>1
  <2>3. w # cache[v]
    BY <1>6, <2>2, Zenon
  <2> QED
    BY <1>8, <2>2, <2>3, Zenon
<1>14. NewFits
  BY <1>8, <1>9, Zenon DEF NewFits, SameElse
<1> QED
  BY <1>12, <1>13, <1>14, Zenon

\* A view is read.
LEMMA ReadViewStep ==
    ASSUME LockInv, NEW v \in Views, NEW len \in Lengths, ReadView(v, len)
    PROVE  LockInv' /\ KeepsWindows /\ NewFits
<1>1. /\ LockTypes /\ released' = released /\ released \in BOOLEAN
      /\ CountsAre(view, refcount) /\ CachesAre(view, cache) /\ Rooted(view, refcount)
      /\ refcount' = refcount /\ cache' = cache
      /\ len \in 1 .. buf_readable(view[v])
      /\ view' = [view EXCEPT ![v] = Retrieved(view[v], len)]
  BY Zenon DEF LockInv, ReadView
<1> DEFINE u == Retrieved(view[v], len)
<1>2. /\ refcount \in [Bufs -> Nat] /\ cache \in [Bufs -> Views \cup {Null}]
      /\ view \in [Views -> Window]
  BY <1>1, Zenon DEF LockTypes
<1>3. /\ u \in Window /\ u.st = view[v].st /\ u.src = view[v].src
      /\ u.base = view[v].base /\ u.sz = view[v].sz
  <2>1. view[v] \in Window
    BY <1>2
  <2> QED
    BY <1>1, <2>1, RetrievedWindow, Zenon
<1>4. view' = [view EXCEPT ![v] = u]
  BY <1>1, Zenon
<1> HIDE DEF u
<1>5. /\ view' \in [Views -> Window]
      /\ \A w \in Views : /\ view'[w].st = view[w].st /\ view'[w].src = view[w].src
                          /\ view'[w].base = view[w].base /\ view'[w].sz = view[w].sz
  <2>1. view' \in [Views -> Window] /\ view'[v] = u /\ \A w \in Views : w # v => view'[w] = view[w]
    BY <1>2, <1>3, <1>4
  <2> QED
    BY <1>3, <2>1, Zenon
<1>6. CachesAre(view', cache')
  <2>1. SUFFICES ASSUME NEW c \in Bufs, NEW w \in Views
                 PROVE  cache'[c] = w <=> view'[w].st = "cached" /\ view'[w].src = c
    BY Zenon DEF CachesAre
  <2>2. cache[c] = w <=> view[w].st = "cached" /\ view[w].src = c
    BY <1>1, Zenon DEF CachesAre
  <2> QED
    BY <1>1, <1>5, <2>2, Zenon
<1>7. CountsAre(view', refcount) /\ Rooted(view', refcount)
  <2>1. \A w \in Views : view[w].src \in Bufs
    BY <1>1, Sources, Zenon
  <2>2. \A w \in Views : view'[w].st = "live" <=> view[w].st = "live"
    BY <1>5, Zenon
  <2>3. \A w \in Views : view[w].st = "live" => view'[w].src = view[w].src
    BY <1>5, Zenon
  <2> QED
    BY <1>1, <2>1, <2>2, <2>3, Kept, ZenonT(60)
<1>8. KeepsWindows /\ NewFits
  BY <1>5, Zenon DEF KeepsWindows, NewFits
<1> QED
  BY <1>1, <1>2, <1>5, <1>6, <1>7, <1>8, Zenon DEF LockInv, LockTypes

\* The buffer is released, and with it the view it kept.
LEMMA BufReleaseStep ==
    ASSUME LockInv, buf_release
    PROVE  LockInv' /\ KeepsWindows /\ NewFits
<1> DEFINE k == cache[Root]
           f == Forgotten(view, k)
<1>1. /\ LockTypes /\ released' = TRUE
      /\ CountsAre(view, refcount) /\ CachesAre(view, cache) /\ Rooted(view, refcount)
      /\ refcount' = refcount
      /\ cache' = [c \in Bufs |-> IF c \in {Root, k} THEN Null ELSE cache[c]]
      /\ view' = IF k = Null THEN view ELSE [f EXCEPT ![k] = Unused("free", Root)]
  BY Zenon DEF LockInv, buf_release
<1>2. /\ refcount \in [Bufs -> Nat] /\ cache \in [Bufs -> Views \cup {Null}]
      /\ view \in [Views -> Window] /\ Root \in Bufs /\ k \in Views \cup {Null}
  BY <1>1, Names DEF LockTypes
<1> HIDE DEF k
<1>3. /\ cache' \in [Bufs -> Views \cup {Null}]
      /\ \A c \in Bufs : c = Root \/ c = k => cache'[c] = Null
      /\ \A c \in Bufs : c # Root /\ c # k => cache'[c] = cache[c]
  BY <1>1, <1>2
<1>4. CASE k = Null
  <2>1. view' = view
    BY <1>1, <1>4, Zenon
  <2>2. cache[Root] = Null
    BY <1>4, Zenon DEF k
  <2>3. \A c \in Bufs : cache'[c] = cache[c]
    BY <1>3, <1>4, <2>2, Names, Zenon
  <2>4. CachesAre(view', cache')
    <3>1. SUFFICES ASSUME NEW c \in Bufs, NEW w \in Views
                   PROVE  cache'[c] = w <=> view'[w].st = "cached" /\ view'[w].src = c
      BY Zenon DEF CachesAre
    <3>2. cache[c] = w <=> view[w].st = "cached" /\ view[w].src = c
      BY <1>1, Zenon DEF CachesAre
    <3> QED
      BY <2>1, <2>3, <3>2, Zenon
  <2>5. KeepsWindows /\ NewFits
    BY <2>1, Zenon DEF KeepsWindows, NewFits
  <2> QED
    BY <1>1, <1>2, <1>3, <2>1, <2>4, <2>5, Zenon DEF LockInv, LockTypes
<1>5. CASE k # Null
  <2>1. k \in Views /\ k \in Bufs /\ view[k].st = "cached" /\ view[k].src = Root
    BY <1>1, <1>2, <1>5, Names, Zenon DEF CachesAre, k
  <2>2. /\ f \in [Views -> Window]
        /\ \A w \in Views : w # cache[k] => f[w] = view[w]
        /\ \A w \in Views : w = cache[k] => f[w].st = "lost" /\ f[w].src = view[w].src
    BY <1>1, <2>1, ForgottenIs, Zenon
  <2> HIDE DEF f
  <2>3. Unused("free", Root) \in Window /\ Unused("free", Root).st = "free"
    BY <1>2, UnusedWindow
  <2>4. view' = [f EXCEPT ![k] = Unused("free", Root)]
    BY <1>1, <1>5, Zenon
  <2>5. /\ view' \in [Views -> Window] /\ view'[k].st = "free"
        /\ \A w \in Views : w # k => view'[w] = f[w]
    BY <2>1, <2>2, <2>3, <2>4
  <2>6. \A w \in Views : w = cache[k] => view[w].st = "cached" /\ view[w].src = k
    BY <1>1, <2>1, Zenon DEF CachesAre
  <2>7. \A w \in Views : w = k \/ w = cache[k] => view[w].st # "live" /\ view'[w].st \in {"free", "lost"}
    <3>1. view[k].st # "live" /\ view'[k].st \in {"free", "lost"}
      BY <2>1, <2>5
    <3>2. ASSUME NEW w \in Views, w # k, w = cache[k]
          PROVE  view[w].st # "live" /\ view'[w].st \in {"free", "lost"}
      <4>1. view[w].st = "cached" /\ view'[w].st = "lost"
        BY <2>2, <2>5, <2>6, <3>2, Zenon
      <4> QED
        BY <4>1
    <3> QED
      BY <3>1, <3>2, Zenon
  <2>8. \A w \in Views : w # k /\ w # cache[k] => view'[w] = view[w]
    BY <2>2, <2>5, Zenon
  <2>9. \A w \in Views : /\ view'[w].st = "live" <=> view[w].st = "live"
                         /\ view[w].st = "live" => view'[w] = view[w]
    <3>1. \A w \in Views : w = k \/ w = cache[k] => view[w].st # "live" /\ view'[w].st # "live"
      BY <2>7
    <3> QED
      BY <2>8, <3>1, Zenon
  <2>10. CountsAre(view', refcount) /\ Rooted(view', refcount)
    <3>1. \A w \in Views : view[w].src \in Bufs
      BY <1>1, Sources, Zenon
    <3>2. \A w \in Views : view'[w].st = "live" <=> view[w].st = "live"
      BY <2>9, Zenon
    <3>3. \A w \in Views : view[w].st = "live" => view'[w].src = view[w].src
      BY <2>9, Zenon
    <3> QED
      BY <1>1, <3>1, <3>2, <3>3, Kept, ZenonT(60)
  <2>11. CachesAre(view', cache')
    <3>1. SUFFICES ASSUME NEW c \in Bufs, NEW w \in Views
                   PROVE  cache'[c] = w <=> view'[w].st = "cached" /\ view'[w].src = c
      BY Zenon DEF CachesAre
    <3>2. cache[c] = w <=> view[w].st = "cached" /\ view[w].src = c
      BY <1>1, Zenon DEF CachesAre
    <3>3. cache[Root] = k
      BY Zenon DEF k
    <3>4. CASE w = k \/ w = cache[k]
      <4>1. view'[w].st # "cached"
        BY <2>7, <3>4
      <4>2. cache'[c] # w
        BY <1>3, <2>1, <2>6, <3>2, <3>4, Names, Zenon
      <4> QED
        BY <4>1, <4>2, Zenon
    <3>5. CASE w # k /\ w # cache[k]
      <4>1. view'[w] = view[w]
        BY <2>8, <3>5, Zenon
      <4>2. cache'[c] = w <=> cache[c] = w
        BY <1>3, <3>3, <3>5, Names, Zenon
      <4> QED
        BY <3>2, <4>1, <4>2, Zenon
    <3> QED
      BY <3>4, <3>5, Zenon
  <2>12. KeepsWindows /\ NewFits
    BY <2>9, Zenon DEF KeepsWindows, NewFits
  <2> QED
    BY <1>1, <1>2, <1>3, <2>5, <2>10, <2>11, <2>12, Zenon DEF LockInv, LockTypes
<1> QED
  BY <1>4, <1>5, Zenon

\* Every step.
LEMMA LockStep ==
    ASSUME BlockInv, LockInv, [Next]_vars
    PROVE  LockInv' /\ KeepsWindows /\ NewFits
<1>1. ASSUME UNCHANGED locks, released' = released PROVE LockInv' /\ KeepsWindows /\ NewFits
  BY <1>1, Zenon DEF LockInv, LockTypes, KeepsWindows, NewFits, locks
<1>2. CASE Write
  <2>1. UNCHANGED locks /\ released' = released
    BY <1>2, Zenon DEF Write, EnsureWritable, buf_unwrite, buf_setWriteIndex, buf_shrink,
                       buf_append, buf_has_written, buf_prepend, buf_readFd
  <2> QED
    BY <1>1, <2>1, Zenon
<1>3. CASE Read
  <2>1. \/ UNCHANGED locks /\ released' = released
        \/ \E v \in Views, len \in Lengths : ReadView(v, len)
    BY <1>3, Zenon DEF Read, buf_retrieve, buf_readStr, buf_setReadIndex, buf_readCStr
  <2> QED
    BY <1>1, <2>1, ReadViewStep, Zenon
<1>4. CASE View
  <2>1. Formed(buf)
    BY <1>4, NextUsable, Zenon DEF Next, BlockInv
  <2> QED
    BY <1>4, <2>1, OpenStep, ReleaseStep, BufReleaseStep, Zenon DEF View
<1>5. CASE UNCHANGED vars
  BY <1>1, <1>5, Zenon DEF vars, locks
<1> QED
  BY <1>2, <1>3, <1>4, <1>5, Zenon DEF Next

\* There are no views at first.
LEMMA LockInit ==
    ASSUME Init
    PROVE  LockInv
<1>1. /\ refcount = [b \in Bufs |-> 0] /\ cache = [b \in Bufs |-> Null]
      /\ view = [v \in Views |-> Unused("free", Root)] /\ released = FALSE
  BY Zenon DEF Init
<1>2. Unused("free", Root) \in Window /\ Unused("free", Root).st = "free"
  BY Names, UnusedWindow
<1>3. \A v \in Views : view[v].st = "free"
  BY <1>1, <1>2
<1>4. LockTypes
  <2>1. refcount \in [Bufs -> Nat] /\ cache \in [Bufs -> Views \cup {Null}]
    BY <1>1
  <2>2. view \in [Views -> Window]
    BY <1>1, <1>2
  <2> QED
    BY <2>1, <2>2 DEF LockTypes
<1>5. \A v \in Views : view[v].st # "live" /\ view[v].st # "cached"
  BY <1>3
<1>6. CountsAre(view, refcount)
  <2>1. SUFFICES ASSUME NEW b \in Bufs PROVE refcount[b] = Cardinality(Kids(view, b))
    BY Zenon DEF CountsAre
  <2>2. Kids(view, b) = {}
    BY <1>5, Zenon DEF Kids
  <2> QED
    BY <1>1, <2>2, FS_EmptySet, Zenon
<1>7. CachesAre(view, cache)
  <2>1. \A b \in Bufs : cache[b] = Null
    BY <1>1
  <2> QED
    BY <1>5, <2>1, Names, Zenon DEF CachesAre
<1>8. Rooted(view, refcount)
  <2>1. \A v \in Views : refcount[v] = 0
    BY <1>1, Names, Zenon
  <2>2. [v \in Views |-> 0] \in [Views -> Nat]
    OBVIOUS
  <2> QED
    BY <1>5, <2>1, <2>2, Zenon DEF Rooted
<1> QED
  BY <1>1, <1>4, <1>6, <1>7, <1>8 DEF LockInv

\* The counts, the caches and the sources of the views agree in every state.
THEOREM ViewsAlways == Spec => [](BlockInv /\ LockInv)
<1>1. Init => BlockInv /\ LockInv
  BY BlockInit, LockInit, Zenon
<1>2. BlockInv /\ LockInv /\ [Next]_vars => (BlockInv /\ LockInv)'
  BY BlockStep, LockStep, Zenon DEF StepGives, Shown, BlockInv
<1> QED
  BY <1>1, <1>2, PTL DEF Spec

\* A buffer is locked exactly as often as it has live views, for every number of
\* views, nested in any way, released and reused in any order.
THEOREM LocksCorrect == Spec => []LocksExact
<1>1. LockInv => LocksExact
  BY Zenon DEF LockInv, CountsAre, Kids, LocksExact, Live
<1> QED
  BY <1>1, ViewsAlways, PTL

\* A cached view is one that was released by the buffer that keeps it.
THEOREM CacheCorrect == Spec => []CacheExact
<1>1. LockInv => CacheExact
  BY Zenon DEF LockInv, CachesAre, CacheExact
<1> QED
  BY <1>1, ViewsAlways, PTL

\* Whether an assertion failed, and whether the indexes are displaced, are truth values.
LEMMA FlagTypes ==
    ASSUME failed \in BOOLEAN, displaced \in BOOLEAN, [Next]_vars
    PROVE  failed' \in BOOLEAN /\ displaced' \in BOOLEAN
<1>1. \A b, len : EnsureFails(b, len) \in BOOLEAN
  BY Zenon DEF EnsureFails
<1>2. \A x, y : (x # y) \in BOOLEAN /\ (x > y) \in BOOLEAN
  OBVIOUS
<1>3. CASE Write
  <2>1. failed' \in BOOLEAN
    BY <1>1, <1>3, Zenon DEF Write, EnsureWritable, buf_unwrite, buf_setWriteIndex, buf_shrink,
                             buf_append, buf_has_written, buf_prepend, buf_readFd
  <2>2. displaced' \in BOOLEAN
    BY <1>2, <1>3, Zenon DEF Write, EnsureWritable, buf_unwrite, buf_setWriteIndex, buf_shrink,
                             buf_append, buf_has_written, buf_prepend, buf_readFd
  <2> QED
    BY <2>1, <2>2
<1>4. CASE Read
  <2>1. failed' \in BOOLEAN
    BY <1>4, Zenon DEF Read, buf_retrieve, buf_readStr, buf_setReadIndex, buf_readCStr, ReadView
  <2>2. displaced' \in BOOLEAN
    BY <1>2, <1>4, Zenon DEF Read, buf_retrieve, buf_readStr, buf_setReadIndex, buf_readCStr, ReadView
  <2> QED
    BY <2>1, <2>2
<1>5. CASE View
  BY <1>5, Zenon DEF View, buf_readonlyView, ReleaseView, buf_release
<1>6. CASE UNCHANGED vars
  BY <1>6, Zenon DEF vars
<1> QED
  BY <1>3, <1>4, <1>5, <1>6, Zenon DEF Next

\* While a view lives the block keeps its size, and only the two calls that do not look
\* at the lock write into it.
LEMMA BytesKept ==
    ASSUME BlockInv, LockInv, Next, NEW v \in Views, view'[v].st = "live"
    PROVE  /\ buf'.sz = buf.sz
           /\ buf'.mem = buf.mem \/ \E data \in Datas : buf_prepend(data) \/ buf_has_written(data)
<1>1. Formed(buf) /\ CountsAre(view, refcount) /\ Rooted(view, refcount) /\ LockTypes
  BY NextUsable, Zenon DEF BlockInv, LockInv
<1>2. buf = [mem |-> buf.mem, sz |-> buf.sz, p_sz |-> buf.p_sz,
             read_idx |-> buf.read_idx, write_idx |-> buf.write_idx]
  BY <1>1 DEF Formed
<1>3. CASE Write
  <2>1. view' = view
    BY <1>3, Zenon DEF Write, EnsureWritable, buf_unwrite, buf_setWriteIndex, buf_shrink,
                       buf_append, buf_has_written, buf_prepend, buf_readFd, locks
  <2>2. CASE \E data \in Datas : buf_prepend(data) \/ buf_has_written(data)
    <3>1. PICK data \in Datas : buf_prepend(data) \/ buf_has_written(data)
      BY <2>2
    <3>2. data \in Seq(Byte)
      BY Numbers, Zenon
    <3>3. CASE buf_prepend(data)
      <4>1. buf' = [buf EXCEPT !.mem = Stored(@, buf.read_idx - Len(data), data),
                               !.read_idx = @ - Len(data)]
        BY <3>3, Zenon DEF buf_prepend
      <4>2. buf' = [mem |-> Stored(buf.mem, buf.read_idx - Len(data), data), sz |-> buf.sz,
                    p_sz |-> buf.p_sz, read_idx |-> buf.read_idx - Len(data),
                    write_idx |-> buf.write_idx]
        BY <1>2, <4>1, BlockUpdates
      <4> QED
        BY <2>2, <4>2
    <3>4. CASE buf_has_written(data)
      <4>1. Len(data) <= buf_writable(buf) /\ buf' = Put(buf, data)
        BY <3>4, Zenon DEF buf_has_written
      <4> QED
        BY <1>1, <2>2, <3>2, <4>1, PutCorrect, Zenon
    <3> QED
      BY <3>1, <3>3, <3>4, Zenon
  <2>3. CASE ~\E data \in Datas : buf_prepend(data) \/ buf_has_written(data)
    <3>1. ~buf_writeLocked
      BY <1>3, <2>3, Zenon DEF Write, EnsureWritable, buf_unwrite, buf_setWriteIndex, buf_shrink,
                               buf_append, buf_readFd, Writing
    <3>2. refcount[Root] \in Nat
      BY <1>1, Names DEF LockTypes
    <3>3. refcount[Root] = 0
      BY <3>1, <3>2 DEF buf_writeLocked
    <3>4. \A w \in Views : view[w].src \in Bufs
      BY <1>1, Sources, Zenon
    <3>5. view[v].st = "live"
      BY <2>1, Zenon
    <3> QED
      BY <1>1, <3>3, <3>4, <3>5, NoneLive, Zenon
  <2> QED
    BY <2>2, <2>3
<1>4. CASE Read
  <2>1. /\ buf_readable(buf) \in Nat /\ Lengths \subseteq Nat /\ buf_readable(buf) <= buf_readable(buf)
        /\ \A len \in 1 .. buf_readable(buf) : len \in Nat /\ len <= buf_readable(buf)
    BY <1>1, ContentType, Numbers DEF Lengths
  <2>2. ASSUME NEW len \in Nat, len <= buf_readable(buf), buf' = Retrieved(buf, len)
        PROVE  buf'.sz = buf.sz /\ buf'.mem = buf.mem
    BY <1>1, <2>2, RetrievedCorrect, Zenon
  <2>3. ASSUME NEW len \in Lengths, buf_retrieve(len)
        PROVE  buf'.sz = buf.sz /\ buf'.mem = buf.mem
    BY <2>1, <2>2, <2>3, Zenon DEF buf_retrieve
  <2>4. ASSUME NEW len \in Lengths, buf_readStr(len)
        PROVE  buf'.sz = buf.sz /\ buf'.mem = buf.mem
    <3> DEFINE n == IF buf_readable(buf) < len THEN buf_readable(buf) ELSE len
    <3>1. buf' = Retrieved(buf, n)
      BY <2>4, Zenon DEF buf_readStr
    <3>2. n \in Nat /\ n <= buf_readable(buf)
      BY <2>1
    <3> HIDE DEF n
    <3> QED
      BY <2>2, <3>1, <3>2, Zenon
  <2>5. ASSUME buf_readCStr PROVE buf'.sz = buf.sz /\ buf'.mem = buf.mem
    BY <2>1, <2>2, <2>5, Zenon DEF buf_readCStr
  <2>6. ASSUME NEW r \in Lengths, buf_setReadIndex(r)
        PROVE  buf'.sz = buf.sz /\ buf'.mem = buf.mem
    <3>1. buf' = [buf EXCEPT !.read_idx = r]
      BY <2>6, Zenon DEF buf_setReadIndex
    <3>2. buf' = [mem |-> buf.mem, sz |-> buf.sz, p_sz |-> buf.p_sz,
                  read_idx |-> r, write_idx |-> buf.write_idx]
      BY <1>2, <3>1, BlockUpdates
    <3> QED
      BY <3>2
  <2>7. ASSUME NEW w \in Views, NEW len \in Lengths, ReadView(w, len) PROVE buf' = buf
    BY <2>7, Zenon DEF ReadView
  <2> QED
    BY <1>4, <2>3, <2>4, <2>5, <2>6, <2>7, Zenon DEF Read
<1>5. CASE View
  <2>1. buf' = buf
    BY <1>5, Zenon DEF View, buf_readonlyView, ReleaseView, buf_release
  <2> QED
    BY <2>1, Zenon
<1> QED
  BY <1>3, <1>4, <1>5, Zenon DEF Next

\* A live view stays in the block, or in the window, it was taken from.
LEMMA FitsStep ==
    ASSUME BlockInv, LockInv, WindowsFit, [Next]_vars
    PROVE  WindowsFit'
<1>1. CASE UNCHANGED vars
  BY <1>1, Zenon DEF WindowsFit, Fits, Alive, Live, Base, Struct, vars, locks
<1>2. CASE Next
  <2>1. SUFFICES ASSUME NEW v \in Views, view'[v].st = "live"
                 PROVE  Fits(view[v])'
    BY Zenon DEF WindowsFit
  <2>2. LockInv' /\ KeepsWindows /\ NewFits /\ buf'.sz = buf.sz
    BY <1>2, <2>1, LockStep, BytesKept, Zenon
  <2> DEFINE b == view'[v].src
             base == view'[v].base
             sz == view'[v].sz
  <2>3. Alive(b) /\ Base(b) <= base /\ base + sz <= Base(b) + Struct(b).sz
    <3>1. CASE view[v].st = "live"
      <4>1. Fits(view[v]) /\ base = view[v].base /\ sz = view[v].sz /\ b = view[v].src
        BY <2>1, <2>2, <3>1, Zenon DEF WindowsFit, KeepsWindows
      <4> HIDE DEF b, base, sz
      <4> QED
        BY <4>1, Zenon DEF Fits
    <3>2. CASE view[v].st # "live"
      <4>1. Fits(view'[v])
        BY <2>1, <2>2, <3>2, Zenon DEF NewFits
      <4> QED
        BY <4>1, Zenon DEF Fits
    <3> QED
      BY <3>1, <3>2, Zenon
  <2>4. b \in Bufs /\ (b # Root => b \in Views /\ view[b].st = "live" /\ view'[b].st = "live")
    <3>1. b \in Bufs
      <4>1. LockTypes'
        BY <2>2, Zenon DEF LockInv
      <4>2. view' \in [Views -> Window]
        BY <4>1, Zenon DEF LockTypes
      <4> QED
        BY <4>2 DEF Window, ViewRecord
    <3>2. Rooted(view', refcount')
      BY <2>2, Zenon DEF LockInv
    <3>3. b # Root => view'[b].st = "live"
      BY <2>1, <3>2, Zenon DEF Rooted
    <3> HIDE DEF b
    <3>4. b # Root => view[b].st = "live"
      BY <2>3, Zenon DEF Alive, Live
    <3> QED
      BY <3>1, <3>3, <3>4, Names, Zenon
  <2>5. /\ (IF b = Root THEN 0 ELSE view'[b].base) = Base(b)
        /\ (IF b = Root THEN buf' ELSE view'[b]).sz = Struct(b).sz
    <3> HIDE DEF b
    <3>1. CASE b = Root
      BY <2>2, <3>1, Zenon DEF Base, Struct
    <3>2. CASE b # Root
      <4>1. view'[b].base = view[b].base /\ view'[b].sz = view[b].sz
        BY <2>2, <2>4, <3>2, Zenon DEF KeepsWindows
      <4> QED
        BY <3>2, <4>1, Zenon DEF Base, Struct
    <3> QED
      BY <3>1, <3>2, Zenon
  <2> DEFINE nbase == IF b = Root THEN 0 ELSE view'[b].base
             nsz == (IF b = Root THEN buf' ELSE view'[b]).sz
  <2>6. nbase <= base /\ base + sz <= nbase + nsz /\ (IF b = Root THEN TRUE ELSE view'[b].st = "live")
    <3>1. nbase = Base(b) /\ nsz = Struct(b).sz
      BY <2>5, Zenon
    <3> HIDE DEF nbase, nsz, base, sz
    <3>2. IF b = Root THEN TRUE ELSE view'[b].st = "live"
      BY <2>4, Zenon
    <3> QED
      BY <2>3, <3>1, <3>2, Zenon
  <2> QED
    BY <2>6, Zenon DEF Fits, Alive, Live, Base, Struct
<1> QED
  BY <1>1, <1>2

\* The windows in every state.
LEMMA FitsAlways == Spec => []WindowsFit
<1>1. Init => WindowsFit
  <2>1. SUFFICES ASSUME Init, NEW v \in Views PROVE view[v].st # "live"
    BY Zenon DEF WindowsFit
  <2>2. view = [w \in Views |-> Unused("free", Root)]
    BY <2>1, Zenon DEF Init
  <2> QED
    BY <2>2 DEF Unused
<1>2. BlockInv /\ LockInv /\ WindowsFit /\ [Next]_vars => WindowsFit'
  BY FitsStep, Zenon
<1> QED
  BY <1>1, <1>2, ViewsAlways, PTL DEF Spec

\* Every state has its types, ordered indexes unless a call displaced them, and live
\* views inside the blocks and windows they were taken from, which live as well.
THEOREM BufferTypes == Spec => []TypeOK
<1>1. BlockInv /\ LockInv /\ WindowsFit /\ failed \in BOOLEAN /\ displaced \in BOOLEAN => TypeOK
  <2>1. BlockInv => (~displaced => IndexesOrdered)
    BY FormedOrdered, Zenon DEF BlockInv, IndexesOrdered
  <2>2. LockTypes => view \in [Views -> ViewRecord]
    BY DEF LockTypes, Window
  <2>3. LockTypes => \A v \in Views : view[v].read_idx <= view[v].write_idx /\ view[v].write_idx <= view[v].sz
    BY DEF LockTypes, Window
  <2>4. LockTypes /\ WindowsFit => ViewsInside
    BY <2>3, Zenon DEF WindowsFit, Fits, ViewsInside, Live
  <2> QED
    BY <2>1, <2>2, <2>4, Zenon DEF LockInv, LockTypes, TypeOK
<1>2. Init => failed \in BOOLEAN /\ displaced \in BOOLEAN
  BY DEF Init
<1>3. /\ failed \in BOOLEAN /\ displaced \in BOOLEAN
      /\ [Next]_vars
      => (failed \in BOOLEAN /\ displaced \in BOOLEAN)'
  BY FlagTypes, Zenon
<1>4. Spec => [](failed \in BOOLEAN /\ displaced \in BOOLEAN)
  BY <1>2, <1>3, PTL DEF Spec
<1> QED
  BY <1>1, <1>4, FitsAlways, ViewsAlways, PTL

\* Bytes put in front of the readable part or behind it leave a view of it as it was.
LEMMA UnreadKept ==
    ASSUME Formed(buf), LockTypes, NEW v \in Views, Unread(v), NEW data \in Datas,
           buf_prepend(data) \/ buf_has_written(data)
    PROVE  \A k \in 1 .. view[v].sz :
               buf'.mem[view[v].base + k - 1] = buf.mem[view[v].base + k - 1]
<1>1. /\ data \in Seq(Byte) /\ Len(data) \in Nat
      /\ buf.read_idx \in Nat /\ buf.write_idx \in Nat /\ buf.sz \in Nat
      /\ buf.write_idx <= buf.sz /\ buf.mem \in [0 .. buf.sz - 1 -> Byte]
      /\ buf = [mem |-> buf.mem, sz |-> buf.sz, p_sz |-> buf.p_sz,
                read_idx |-> buf.read_idx, write_idx |-> buf.write_idx]
  BY Numbers DEF Formed
<1>2. view[v].base \in Nat /\ view[v].sz \in Nat
  <2>1. view[v] \in Window
    BY DEF LockTypes
  <2> QED
    BY <2>1, Numbers DEF Window, ViewRecord
<1>3. SUFFICES ASSUME NEW k \in 1 .. view[v].sz
               PROVE  buf'.mem[view[v].base + k - 1] = buf.mem[view[v].base + k - 1]
  BY Zenon
<1> DEFINE i == view[v].base + k - 1
<1>4. i \in 0 .. buf.sz - 1 /\ buf.read_idx <= i /\ i < buf.write_idx
  BY <1>1, <1>2 DEF Unread
<1> HIDE DEF i
<1>5. CASE buf_prepend(data)
  <2> DEFINE p == buf.read_idx - Len(data)
  <2>1. /\ Len(data) <= buf_prependable(buf)
        /\ buf' = [buf EXCEPT !.mem = Stored(buf.mem, p, data), !.read_idx = p]
    BY <1>5, Zenon DEF buf_prepend
  <2>2. p \in Nat /\ p + Len(data) <= i
    BY <1>1, <1>4, <2>1 DEF buf_prependable
  <2> HIDE DEF p
  <2>3. buf' = [mem |-> Stored(buf.mem, p, data), sz |-> buf.sz, p_sz |-> buf.p_sz,
                read_idx |-> p, write_idx |-> buf.write_idx]
    BY <1>1, <2>1, BlockUpdates
  <2>4. buf'.mem = Stored(buf.mem, p, data)
    BY <2>3
  <2>5. Stored(buf.mem, p, data)[i] = buf.mem[i]
    <3>1. DOMAIN buf.mem = 0 .. buf.sz - 1
      BY <1>1
    <3>2. i \notin p .. p + Len(data) - 1
      BY <1>1, <1>4, <2>2
    <3> QED
      BY <1>4, <3>1, <3>2, Zenon DEF Stored
  <2> QED
    BY <2>4, <2>5, Zenon DEF i
<1>6. CASE buf_has_written(data)
  <2> DEFINE n == buf.write_idx + Len(data)
  <2>1. buf' = [buf EXCEPT !.mem = Stored(buf.mem, buf.write_idx, data), !.write_idx = n]
    BY <1>6, Zenon DEF buf_has_written, Put
  <2> HIDE DEF n
  <2>2. buf' = [mem |-> Stored(buf.mem, buf.write_idx, data), sz |-> buf.sz, p_sz |-> buf.p_sz,
                read_idx |-> buf.read_idx, write_idx |-> n]
    BY <1>1, <2>1, BlockUpdates
  <2>3. buf'.mem = Stored(buf.mem, buf.write_idx, data)
    BY <2>2
  <2>4. Stored(buf.mem, buf.write_idx, data)[i] = buf.mem[i]
    <3>1. DOMAIN buf.mem = 0 .. buf.sz - 1
      BY <1>1
    <3>2. i \notin buf.write_idx .. buf.write_idx + Len(data) - 1
      BY <1>1, <1>4
    <3> QED
      BY <1>4, <3>1, <3>2, Zenon DEF Stored
  <2> QED
    BY <2>3, <2>4, Zenon DEF i
<1> QED
  BY <1>5, <1>6

\* What a reader sees through a live view is the same before and after every call, for
\* every number of views and every nesting of them, unless the buffer has read these
\* bytes and the call prepends or announces some.
THEOREM ViewsKeep == Spec => ViewsKept
<1>1. ASSUME BlockInv, LockInv, Next, NEW v \in Views, Live(v), Live(v)'
      PROVE  \/ Seen(v)' = Seen(v)
             \/ ~Unread(v) /\ \E data \in Datas : buf_prepend(data) \/ buf_has_written(data)
  <2>1. view[v].st = "live" /\ view'[v].st = "live"
    BY <1>1, Zenon DEF Live
  <2>2. view'[v].base = view[v].base /\ view'[v].sz = view[v].sz
    BY <1>1, <2>1, LockStep, Zenon DEF KeepsWindows
  <2>3. CASE buf'.mem = buf.mem
    BY <2>2, <2>3, Zenon DEF Seen, Cells
  <2>4. CASE Unread(v) /\ \E data \in Datas : buf_prepend(data) \/ buf_has_written(data)
    <3>1. Formed(buf) /\ LockTypes
      BY <1>1, NextUsable, Zenon DEF BlockInv, LockInv
    <3>2. \A k \in 1 .. view[v].sz : buf'.mem[view[v].base + k - 1] = buf.mem[view[v].base + k - 1]
      BY <2>4, <3>1, UnreadKept, Zenon
    <3>3. [k \in 1 .. view[v].sz |-> buf'.mem[view[v].base + k - 1]]
          = [k \in 1 .. view[v].sz |-> buf.mem[view[v].base + k - 1]]
      BY <3>2, Zenon
    <3> QED
      BY <2>2, <3>3, Zenon DEF Seen, Cells
  <2> QED
    BY <1>1, <2>1, <2>3, <2>4, BytesKept, Zenon
<1>2. BlockInv /\ LockInv /\ [Next]_vars
      => [\A v \in Views : Live(v) /\ Live(v)' =>
              \/ Seen(v)' = Seen(v)
              \/ ~Unread(v) /\ \E data \in Datas : buf_prepend(data) \/ buf_has_written(data)]_vars
  BY <1>1, Zenon
<1> QED
  BY <1>2, ViewsAlways, PTL DEF Spec, ViewsKept

=============================================================================
