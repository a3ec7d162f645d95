------------------------------- MODULE MCBuffer -------------------------------
(* Bounds of the TLC run of Buffer.                                        *)
EXTENDS Buffer

MCDatas == {<<1>>, <<0, 1>>}

\* Room for a header of one byte, and of two in front of a smaller buffer.
MCSizes == {[size |-> 2, prepend |-> 1], [size |-> 1, prepend |-> 2]}

=============================================================================
