-------------------------------- MODULE Hessian -------------------------------
(***************************************************************************)
(* The integers and strings of src/dubbo_hessian.c.  A string is known by  *)
(* its characters: t.ascii of one byte each, then t.wide that start with   *)
(* the byte t.lead.  On the wire it is a head that says how long it is,    *)
(* and the text.                                                           *)
(***************************************************************************)
EXTENDS ByteOrder, Utf8

CONSTANTS
    Beyond,     \* a copy ran past the end of the text
    Never       \* a call that does not come back

\* Texts as they are known here; the outcomes are none of the values that are returned.
AnyText == [ascii : Nat, wide : Nat, lead : 192 .. 247]

ASSUME HessianAssumption ==
    /\ \A v \in {Failed, Beyond, Never} :
          v \notin Int /\ v \notin [sz : Nat, freed : BOOLEAN] /\ v \notin [head : Seq(Byte), text : AnyText]
    /\ Failed # Beyond /\ Failed # Never /\ Beyond # Never

-----------------------------------------------------------------------------
(* Integers.                                                               *)

\* The integers whose two-byte form reads as one of a single byte.
EncodeGap == -2248 .. -2049

hs_encode_int_unsigned(val) ==
    IF val \in -16 .. 47 THEN <<val + 144>>
    ELSE IF val <= 4095 /\ -2048 <= val + 200 THEN <<(val \div 256) + 200, val % 256>>
    ELSE IF -262144 <= val /\ val <= 262143
    THEN <<(val \div 65536) + 212, (val \div 256) % 256, val % 256>>
    ELSE <<73>> \o Be32(val)

\* The sum overflows next to the largest integer; either outcome takes the last branch.
hs_encode_int(val) ==
    IF val \in -16 .. 47 THEN <<val + 144>>
    ELSE IF val <= 2047 /\ -2048 <= val + 200 THEN <<(val \div 256) + 200, val % 256>>
    ELSE IF -262144 <= val /\ val <= 262143
    THEN <<(val \div 65536) + 212, (val \div 256) % 256, val % 256>>
    ELSE <<73>> \o Be32(val)

hs_decode_int(s) ==
    IF Len(s) >= 1 /\ s[1] \in 128 .. 191 THEN s[1] - 144
    ELSE IF Len(s) >= 2 /\ s[1] \in 192 .. 207 THEN (s[1] - 200) * 256 + s[2]
    ELSE IF Len(s) >= 3 /\ s[1] \in 208 .. 215
    THEN (s[1] - 212) * 65536 + s[2] * 256 + s[3]
    ELSE IF Len(s) >= 5 /\ s[1] = 73 THEN Int32(SubSeq(s, 2, 5))
    ELSE Failed

-----------------------------------------------------------------------------
(* Strings.                                                                *)

Chars(t) == t.ascii + t.wide
Bytes(t) == t.ascii + t.wide * (1 + Announced(t.lead))

StringHead_up_to_1024(n) ==
    IF n <= 31 THEN <<n>>
    ELSE IF n <= 1024 THEN <<(48 + (n \div 256)) % 256, n % 256>>
    ELSE <<83, (n \div 256) % 256, n % 256>>

\* The first bytes of a string of length n: the compact forms, or 'S' and 16 bits.
StringHead(n) ==
    IF n <= 31 THEN <<n>>
    ELSE IF n <= 1023 THEN <<48 + n \div 256, n % 256>>
    ELSE <<83, (n \div 256) % 256, n % 256>>

\* The client announces bytes.
hs_encode_string(t) ==
    IF Bytes(t) > 32768 THEN Failed ELSE [head |-> StringHead(Bytes(t)), text |-> t]

\* The server announces characters, as the grammar at the top of the file has it.
PeerString(t) == [head |-> StringHead(Chars(t)), text |-> t]

\* A string of more than 65535 characters starts with a non-final chunk of that many.
PeerChunks(t) == [head |-> <<82, 255, 255>>, text |-> t]

PeerText(t) == IF Chars(t) > 65535 THEN PeerChunks(t) ELSE PeerString(t)

\* How many bytes utf8cpy takes a character to have from its first byte.
Width(c) ==
    IF c <= 128 THEN 1 ELSE IF c \in 192 .. 223 THEN 2 ELSE IF c \in 224 .. 239 THEN 3
    ELSE IF c \in 240 .. 247 THEN 4 ELSE Failed

\* The bytes of the first sz characters.
utf8cpy(t, sz) ==
    IF sz <= t.ascii THEN sz
    ELSE IF sz > Chars(t) THEN Beyond
    ELSE IF Width(t.lead) = Failed THEN Failed
    ELSE t.ascii + Width(t.lead) * (sz - t.ascii)

\* The length that the first bytes announce.
Length(head) ==
    IF head[1] <= 31 THEN head[1]
    ELSE IF head[1] \in 48 .. 51 THEN (head[1] - 48) * 256 + head[2]
    ELSE head[2] * 256 + head[3]

\* The bytes copied; a non-final chunk is decoded over and over.
internal_decode_string(f) ==
    IF f.head[1] \notin (0 .. 31) \cup (48 .. 51) \cup {82, 83} THEN Failed
    ELSE IF Len(f.head) + Bytes(f.text) < Len(f.head) + Length(f.head) THEN Failed
    ELSE IF f.head[1] = 82 THEN Never
    ELSE utf8cpy(f.text, Length(f.head))

\* The size of *out; with size 0 the realloc has freed the block that *out points to.
hs_decode_string(f) ==
    LET sz == internal_decode_string(f)
    IN  IF sz \in {Failed, Beyond, Never} THEN sz ELSE [sz |-> sz, freed |-> sz = 0]
=============================================================================
