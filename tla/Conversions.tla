------------------------------ MODULE Conversions -----------------------------
(***************************************************************************)
(* The conversions between what the client holds and what is on the wire,  *)
(* one call at a time: which values come back as they were.                *)
(***************************************************************************)
EXTENDS Hessian, JsonText

CONSTANTS
    Ints,       \* integers, of which each width takes those it holds
    Before,     \* bytes already in a buffer
    Texts,      \* texts of Hessian strings
    Raw,        \* byte sequences given to the UTF-8 decoder
    Literals    \* JSON string literals among the arguments

\* The integers of 32 bits.
IsInt32(x) == x \in Int /\ -2147483647 - 1 <= x /\ x <= 2147483647

ASSUME ConversionsAssumption ==
    /\ \A x \in Ints : IsInt32(x)
    /\ Before \subseteq Seq(Byte) /\ Raw \subseteq Seq(Byte) \ {<< >>}
    /\ Literals \subseteq Seq(Byte)
    /\ Failed \notin Seq(Byte) /\ Failed \notin [length : Nat, bytes : Seq(Byte)]
    /\ Texts \subseteq AnyText

VARIABLE call   \* the last call: what it was given and what it returned

Idle == [op |-> "none"]

\* The integers of w bytes.
Fits(w, x) ==
    IF w = 1 THEN -128 <= x /\ x <= 127 ELSE w = 2 => -32768 <= x /\ x <= 32767

Values(w) == IF w = 8 THEN Ints \X Ints ELSE {x \in Ints : Fits(w, x)}

Init == call = Idle

AppendInt(w, x, s) ==
    \/ call' = [op |-> "append", w |-> w, arg |-> x, before |-> s, ret |-> buf_appendInt(s, w, x)]
    \/ call' = [op |-> "appendLE", w |-> w, arg |-> x, before |-> s, ret |-> buf_appendIntLE(s, w, x)]

PrependInt(w, x, s) ==
    \/ call' = [op |-> "prepend", w |-> w, arg |-> x, before |-> s, ret |-> buf_prependInt(s, w, x)]
    \/ call' = [op |-> "prependLE", w |-> w, arg |-> x, before |-> s, ret |-> buf_prependIntLE(s, w, x)]

EncodeInt(x) ==
    call' = [op |-> "int", arg |-> x, ret |-> hs_encode_int(x)]

EncodeString(t) ==
    call' = [op |-> "string", arg |-> t, ret |-> hs_encode_string(t)]

\* A string of a response.
DecodeString(t) ==
    call' = [op |-> "response", arg |-> t, ret |-> hs_decode_string(PeerText(t))]

DecodeChar(s) ==
    call' = [op |-> "char", arg |-> s, ret |-> utf8_decode_next(s, 1)]

RebuildArgs(s) ==
    call' = [op |-> "args", arg |-> s, ret |-> rebuild_json_args(s)]

Return == call # Idle /\ call' = Idle

Call ==
    \/ \E w \in {1, 2, 4, 8}, s \in Before : \E x \in Values(w) :
          AppendInt(w, x, s) \/ PrependInt(w, x, s)
    \/ \E x \in Ints : EncodeInt(x)
    \/ \E t \in Texts : EncodeString(t) \/ DecodeString(t)
    \/ \E s \in Raw : DecodeChar(s)
    \/ \E s \in Literals : RebuildArgs(s)

Next == (call = Idle /\ Call) \/ Return

Spec == Init /\ [][Next]_call

-----------------------------------------------------------------------------
(* Properties.                                                             *)

\* An integer put at either end of a buffer, in either byte order, is read
\* back from there with its sign, and the rest of the buffer is what it was;
\* the 24-bit read returns the low three bytes.  A Hessian integer decodes to
\* itself, except those from -2248 to -2049: hs_encode_int gives them the
\* two-byte form, whose first byte 0xbf the decoder takes for the integer 47.
IntsReadBack ==
    /\ call.op = "append" =>
          buf_readInt(buf_retrieve(call.ret, Len(call.before)), call.w) = <<call.arg, << >>>>
    /\ call.op = "appendLE" =>
          LET s == buf_retrieve(call.ret, Len(call.before))
          IN  /\ buf_readIntLE(s, call.w) = <<call.arg, << >>>>
              /\ call.w = 4 /\ 0 <= call.arg /\ call.arg < 16777216 => buf_peekIntLE(s, 3) = call.arg
    /\ call.op = "prepend" => buf_readInt(call.ret, call.w) = <<call.arg, call.before>>
    /\ call.op = "prependLE" => buf_readIntLE(call.ret, call.w) = <<call.arg, call.before>>
    /\ call.op = "int" =>
          hs_decode_int(call.ret) = IF call.arg \in EncodeGap THEN 47 ELSE call.arg

\* hs_decode_string returns every byte of a string whose length the server
\* counts in characters, if it is one chunk.  A string hs_encode_string wrote
\* is read back by that rule if and only if it is ASCII, since its length is
\* in bytes; it refuses only strings of more than 32768 bytes.
StringsReadBack ==
    /\ call.op = "response" =>
          call.ret = IF Chars(call.arg) > 65535 THEN Never
                     ELSE [sz |-> Bytes(call.arg), freed |-> call.arg.ascii + call.arg.wide = 0]
    /\ call.op = "string" =>
          /\ call.ret = Failed <=> Bytes(call.arg) > 32768
          /\ call.ret # Failed =>
                internal_decode_string(call.ret) =
                    IF call.arg.wide = 0 THEN Bytes(call.arg) ELSE Beyond

\* The decoder is strict: a character it returns is no surrogate, and the
\* bytes it took are the ones that encode that character and no others.
DecoderStrict ==
    call.op = "char" /\ call.ret.char >= 0 =>
        /\ Scalar(call.ret.char)
        /\ utf8_encode(call.ret.char) = SubSeq(call.arg, 1, call.ret.next - 1)
        /\ Width(call.arg[1]) = call.ret.next - 1

\* The bytes from i to i + n are one character: the well-formed byte sequences of the
\* Unicode standard, its table 3-7.
CharAt(s, i, n) ==
    /\ i + n <= Len(s) /\ \A k \in 1 .. n : s[i + k] \in 128 .. 191
    /\ \/ n = 0 /\ s[i] \in 0 .. 127
       \/ n = 1 /\ s[i] \in 194 .. 223
       \/ n = 2 /\ s[i] \in 224 .. 239 /\ (s[i] = 224 => s[i + 1] >= 160) /\ (s[i] = 237 => s[i + 1] <= 159)
       \/ n = 3 /\ s[i] \in 240 .. 244 /\ (s[i] = 240 => s[i + 1] >= 144) /\ (s[i] = 244 => s[i + 1] <= 143)

\* A text that can be cut into characters.
Utf8Text(s) ==
    \E Starts \in SUBSET (1 .. Len(s) + 1) :
        /\ 1 \in Starts
        /\ \A i \in Starts : i = Len(s) + 1 \/ \E n \in 0 .. 3 : CharAt(s, i, n) /\ i + n + 1 \in Starts

\* The rebuilt arguments are ASCII, so that their bytes are their characters,
\* and the text the server reads in them is the text given on the command
\* line, up to its first zero; the request is refused if and only if
\* the literal does not parse or is not UTF-8.
ArgsKept ==
    call.op = "args" =>
        LET text == parse_string(call.arg)
        IN  IF text # Failed /\ Utf8Text(CString(text))
            THEN call.ret \in Seq(0 .. 127) /\ parse_string(call.ret) = CString(text)
            ELSE call.ret = Failed
=============================================================================
