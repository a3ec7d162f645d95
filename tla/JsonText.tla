-------------------------------- MODULE JsonText ------------------------------
(***************************************************************************)
(* A string inside the JSON arguments of a request.  rebuild_json_args of  *)
(* src/dubbo_codec.c has src/lib/cJSON.c parse and print it and rewrites   *)
(* the result in ASCII; the Dubbo server parses that again.  A literal is  *)
(* the bytes after its opening quote, up to and with the closing one.      *)
(***************************************************************************)
EXTENDS Utf8

Quote == 34
Backslash == 92

\* The letter of an escape of one character, and the character.
Letter ==
    [l \in {98, 102, 110, 114, 116} |->
        IF l = 98 THEN 8 ELSE IF l = 102 THEN 12 ELSE IF l = 110 THEN 10
        ELSE IF l = 114 THEN 13 ELSE 9]

Unescape ==
    [l \in DOMAIN Letter \cup {Quote, Backslash, 47} |-> IF l \in DOMAIN Letter THEN Letter[l] ELSE l]

-----------------------------------------------------------------------------
(* Parsing.                                                                *)

\* The closing quote at or behind index i, 0 if there is none.
ClosingQuote(s) ==
    LET from[i \in 1 .. Len(s) + 2] ==
            IF i > Len(s) THEN 0
            ELSE IF s[i] = Quote THEN i
            ELSE IF s[i] = Backslash THEN from[i + 2] ELSE from[i + 1]
    IN  from[1]

HexDigit(b) ==
    IF b \in 48 .. 57 THEN b - 48
    ELSE IF b \in 65 .. 70 THEN b - 55
    ELSE IF b \in 97 .. 102 THEN b - 87 ELSE Failed

\* Four digits from index i on; 0 when one of them is none.
parse_hex4(s, i) ==
    IF \E k \in 0 .. 3 : HexDigit(s[i + k]) = Failed THEN 0
    ELSE HexDigit(s[i]) * 4096 + HexDigit(s[i + 1]) * 256
         + HexDigit(s[i + 2]) * 16 + HexDigit(s[i + 3])

Surrogate(unit, base) == unit \in base .. base + 1023

\* The escape at index i of a string that ends before index end: its length and bytes.
utf16_literal_to_utf8(s, i, end) ==
    LET first == parse_hex4(s, i + 2)
        second == parse_hex4(s, i + 8)
        pair == 65536 + (first % 1024) * 1024 + (second % 1024)
    IN  IF end - i < 6 \/ Surrogate(first, 56320) THEN Failed
        ELSE IF ~Surrogate(first, 55296) THEN [length |-> 6, bytes |-> utf8_encode(first)]
        ELSE IF \/ end - i < 12 \/ s[i + 6] # Backslash \/ s[i + 7] # 117
                \/ ~Surrogate(second, 56320) THEN Failed
        ELSE [length |-> 12, bytes |-> utf8_encode(pair)]

\* The bytes a literal stands for.
parse_string(s) ==
    LET end == ClosingQuote(s)
        from[i \in 1 .. Len(s) + 1] ==
            LET escaped == utf16_literal_to_utf8(s, i, end)
            IN  IF i >= end THEN << >>
                ELSE IF s[i] # Backslash THEN Join(<<s[i]>>, from[i + 1])
                ELSE IF s[i + 1] \in DOMAIN Unescape
                THEN Join(<<Unescape[s[i + 1]]>>, from[i + 2])
                ELSE IF s[i + 1] # 117 \/ escaped = Failed THEN Failed
                ELSE Join(escaped.bytes, from[i + escaped.length])
    IN  IF end = 0 THEN Failed ELSE from[1]

-----------------------------------------------------------------------------
(* Printing.                                                               *)

\* A C string ends at its first zero.
CString(s) ==
    LET zeros == {i \in DOMAIN s : s[i] = 0}
    IN  IF zeros = {} THEN s
        ELSE SubSeq(s, 1, (CHOOSE i \in zeros : \A j \in zeros : i <= j) - 1)

PrintByte_verbatim(b) == IF b > 31 THEN <<b>> ELSE Escape(b)

PrintByte(b) ==
    IF b > 31 /\ b \notin {Quote, Backslash} THEN <<b>>
    ELSE IF b \in {Quote, Backslash} THEN <<Backslash, b>>
    ELSE IF \E l \in DOMAIN Letter : Letter[l] = b
    THEN <<Backslash, CHOOSE l \in DOMAIN Letter : Letter[l] = b>>
    ELSE Escape(b)

print_string_ptr(s) ==
    LET from[i \in 1 .. Len(s) + 1] ==
            IF i > Len(s) THEN <<Quote>> ELSE PrintByte(s[i]) \o from[i + 1]
    IN  from[1]

-----------------------------------------------------------------------------
\* cJSON_Parse, cJSON_PrintUnformatted and utf82ascii on one literal.
rebuild_json_args(s) ==
    LET text == parse_string(s)
    IN  IF text = Failed THEN Failed ELSE utf82ascii(print_string_ptr(CString(text)))
=============================================================================
