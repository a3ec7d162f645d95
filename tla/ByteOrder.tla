------------------------------- MODULE ByteOrder ------------------------------
(***************************************************************************)
(* The integers of src/buffer.c on the wire: w bytes, two's complement,    *)
(* the most significant byte first or last.  A buffer is its readable      *)
(* bytes.  A 64-bit integer is the pair of its halves <<high, low>>, both  *)
(* read as 32-bit integers.                                                *)
(***************************************************************************)
EXTENDS Integers, Sequences

Byte == 0 .. 255

\* The bytes of x as an int16_t, an int32_t and an int64_t, high byte first.
Be16(x) == <<(x \div 256) % 256, x % 256>>
Be32(x) == <<(x \div 16777216) % 256, (x \div 65536) % 256,
             (x \div 256) % 256, x % 256>>
Be64(x) == Be32(x[1]) \o Be32(x[2])

\* What a byte and the bytes of an integer stand for.
Int8(b) == IF b < 128 THEN b ELSE b - 256
Int16(s) == Int8(s[1]) * 256 + s[2]
Int32(s) == Int8(s[1]) * 16777216 + s[2] * 65536 + s[3] * 256 + s[4]
Int64(s) == <<Int32(SubSeq(s, 1, 4)), Int32(SubSeq(s, 5, 8))>>

Backwards(s) == [i \in 1 .. Len(s) |-> s[Len(s) + 1 - i]]

htobe(w, x) ==
    IF w = 1 THEN <<x % 256>> ELSE IF w = 2 THEN Be16(x)
    ELSE IF w = 4 THEN Be32(x) ELSE Be64(x)

betoh_unsigned(w, s) ==
    IF w = 1 THEN s[1] ELSE IF w = 2 THEN s[1] * 256 + s[2]
    ELSE IF w = 4 THEN Int32(s) ELSE Int64(s)

betoh(w, s) ==
    IF w = 1 THEN Int8(s[1]) ELSE IF w = 2 THEN Int16(s)
    ELSE IF w = 4 THEN Int32(s) ELSE Int64(s)

-----------------------------------------------------------------------------
(* At the back and at the front of a buffer s.                             *)

buf_appendInt(s, w, x) == s \o htobe(w, x)
buf_appendIntLE(s, w, x) == s \o Backwards(htobe(w, x))
buf_prependInt(s, w, x) == htobe(w, x) \o s
buf_prependIntLE(s, w, x) == Backwards(htobe(w, x)) \o s

FrontBytes(s, w) == SubSeq(s, 1, w)
buf_retrieve(s, w) == SubSeq(s, w + 1, Len(s))

buf_peekInt(s, w) == betoh(w, FrontBytes(s, w))

\* Three bytes are the low ones of an int32_t whose high byte is zero.
buf_peekIntLE(s, w) ==
    IF w = 3 THEN Int32(<<0, s[3], s[2], s[1]>>)
    ELSE betoh(w, Backwards(FrontBytes(s, w)))

\* The integer and the bytes behind it.
buf_readInt(s, w) == <<buf_peekInt(s, w), buf_retrieve(s, w)>>
buf_readIntLE(s, w) == <<buf_peekIntLE(s, w), buf_retrieve(s, w)>>
=============================================================================
