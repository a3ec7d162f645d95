---------------------------------- MODULE Utf8 --------------------------------
(***************************************************************************)
(* Code points and their UTF-8 bytes: the strict decoder of                *)
(* src/lib/utf8_decode.c, the encoder inside src/lib/cJSON.c, and          *)
(* utf82ascii of src/dubbo_hessian.c, which rewrites a text in ASCII with  *)
(* the escapes of JSON.  A text is a sequence of bytes.                    *)
(***************************************************************************)
EXTENDS Integers, Sequences

CONSTANT Failed     \* NULL: a conversion was given up

UTF8_END == -1
UTF8_ERROR == -2

\* The code points that are characters: no surrogates.
Scalar(c) == c \in Nat /\ (c < 55296 \/ c > 57343) /\ c <= 1114111

-----------------------------------------------------------------------------
(* Encoding.                                                               *)

utf8_length(cp) ==
    IF cp < 128 THEN 1 ELSE IF cp < 2048 THEN 2 ELSE IF cp < 65536 THEN 3 ELSE 4

Continuation(bits) == 128 + (bits % 64)

utf8_encode(cp) ==
    IF cp < 128 THEN <<cp>>
    ELSE IF cp < 2048 THEN <<192 + cp \div 64, Continuation(cp)>>
    ELSE IF cp < 65536
    THEN <<224 + cp \div 4096, Continuation(cp \div 64), Continuation(cp)>>
    ELSE <<240 + cp \div 262144, Continuation(cp \div 4096),
           Continuation(cp \div 64), Continuation(cp)>>

-----------------------------------------------------------------------------
(* Decoding.                                                               *)

\* How many continuation bytes a first byte announces; 4 stands for none that is legal.
Announced(c) ==
    IF c < 128 THEN 0 ELSE IF c \in 192 .. 223 THEN 1 ELSE IF c \in 224 .. 239 THEN 2
    ELSE IF c \in 240 .. 247 THEN 3 ELSE 4

\* The n bytes after index i are there and are continuation bytes.
cont(s, i, n) == \A k \in 1 .. n : i + k <= Len(s) /\ s[i + k] \in 128 .. 191

\* The bits of the first byte and of the n bytes after it.
Payload(s, i, n) ==
    IF n = 0 THEN s[i]
    ELSE IF n = 1 THEN (s[i] % 32) * 64 + (s[i + 1] % 64)
    ELSE IF n = 2 THEN (s[i] % 16) * 4096 + (s[i + 1] % 64) * 64 + (s[i + 2] % 64)
    ELSE (s[i] % 8) * 262144 + (s[i + 1] % 64) * 4096 + (s[i + 2] % 64) * 64 + (s[i + 3] % 64)

Legal_with_aliases(n, r) == Scalar(r)

\* What n continuation bytes may encode: no aliases, no surrogates, nothing above.
Legal(n, r) ==
    \/ n = 0
    \/ n = 1 /\ r >= 128
    \/ n = 2 /\ r >= 2048 /\ (r < 55296 \/ r > 57343)
    \/ n = 3 /\ r >= 65536 /\ r <= 1114111

\* The character that starts at index i, and the index behind it.
utf8_decode_next(s, i) ==
    LET n == Announced(s[i])
    IN  IF i > Len(s) THEN [char |-> UTF8_END, next |-> i]
        ELSE IF n < 4 /\ cont(s, i, n) /\ Legal(n, Payload(s, i, n))
        THEN [char |-> Payload(s, i, n), next |-> i + n + 1]
        ELSE [char |-> UTF8_ERROR, next |-> i + 1]

-----------------------------------------------------------------------------
(* The escapes of JSON.                                                    *)

digits(d) == IF d < 10 THEN 48 + d ELSE 87 + d

\* \uXXXX
Escape(unit) ==
    <<92, 117, digits(unit \div 4096), digits((unit \div 256) % 16),
      digits((unit \div 16) % 16), digits(unit % 16)>>

EscapeChar_of_latin1(c) == IF c < 256 THEN <<c>> ELSE Escape(c % 65536)

\* A character in ASCII: itself, its escape, or those of its surrogate pair.
EscapeChar(c) ==
    IF c < 128 THEN <<c>>
    ELSE IF c < 65536 THEN Escape(c)
    ELSE Escape(55296 + (c - 65536) \div 1024) \o Escape(56320 + ((c - 65536) % 1024))

\* Concatenation, given up when one part is.
Join(s, t) == IF s = Failed \/ t = Failed THEN Failed ELSE s \o t

utf82ascii(s) ==
    LET from[i \in 1 .. Len(s) + 1] ==
            LET d == utf8_decode_next(s, i)
            IN  IF d.char = UTF8_END THEN << >>
                ELSE IF d.char = UTF8_ERROR THEN Failed
                ELSE Join(EscapeChar(d.char), from[d.next])
    IN  from[1]
=============================================================================
