SPECIFICATION Spec
CONSTANTS
    Failed = Failed
    Beyond = Beyond
    Never = Never
    Ints <- MCInts
    Before <- MCBefore
    Texts <- MCTexts
    Raw <- MCRaw
    Literals <- MCLiterals
INVARIANTS IntsReadBack StringsReadBack DecoderStrict ArgsKept
