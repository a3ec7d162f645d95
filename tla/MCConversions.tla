---------------------------- MODULE MCConversions -----------------------------
(* Inputs of the TLC run of Conversions: the values on both sides of every  *)
(* boundary in the code.                                                   *)
EXTENDS Conversions

\* Both sides of each boundary.
Around(S) == UNION {{x - 1, x, x + 1} : x \in S}

MCInts ==
    Around({0, 128, -128, 256, 32767, -32768, -16, 47, 2047, -2048, -2049, -2248, -262144, 262143})
    \cup {2147483647, -2147483647 - 1}

MCBefore == {<< >>, <<0, 255>>}

MCTexts ==
    [ascii : {0, 1, 30, 31, 32, 1021, 1023, 1024, 32767, 32768, 32769, 65534, 65535},
     wide : {0, 1, 2}, lead : {195, 228, 240}]

\* The first bytes of every length and the edges of continuation bytes.
EdgeBytes == {0, 127, 128, 143, 144, 159, 160, 191, 192, 193, 194, 224, 237, 240, 244, 245, 255}

MCRaw == UNION {[1 .. n -> EdgeBytes] : n \in 1 .. 4}

\* Characters: those with an escape of their own, and the ends of each length.
Points == {8, 31, 34, 47, 65, 92, 127, 128, 2047, 2048, 55295, 57344, 65535, 65536, 128512, 1114111}

\* Pieces of a literal: raw characters, escapes, zero, and pieces that are broken.
Pieces ==
    {utf8_encode(c) : c \in Points \ {34, 92}}
    \cup {<<92, 98>>, <<92, 34>>, <<92, 47>>, <<92, 92>>, Escape(0), Escape(31), Escape(2047), Escape(65535)}
    \cup {Escape(55357) \o Escape(56832), Escape(55296) \o Escape(56320), Escape(56319) \o Escape(57343)}
    \cup {<<195>>, <<237, 160, 128>>, <<192, 128>>, Escape(55357), Escape(56832), <<92, 97>>, <<92, 117, 48>>}

MCLiterals == {s \o t \o <<Quote>> : s \in Pieces \cup {<< >>}, t \in Pieces} \cup {<<Quote>>, <<92, Quote>>}
=============================================================================
