------------------------------ MODULE ByteQueue ------------------------------
(***************************************************************************)
(* What src/buffer.h promises of the readable part of a buffer: a queue of *)
(* bytes.  Where the bytes lie, how much room there is and when the block  *)
(* is replaced are nobody's business.                                      *)
(***************************************************************************)
EXTENDS Naturals, Sequences

CONSTANT Byte

VARIABLE queue

Init == queue = << >>

\* buf_append, buf_has_written, buf_readFd: bytes behind the queue.
Put ==
    /\ queue' \in Seq(Byte) /\ Len(queue) <= Len(queue')
    /\ SubSeq(queue', 1, Len(queue)) = queue

\* buf_prepend: bytes in front of it.
PutFront ==
    /\ queue' \in Seq(Byte) /\ Len(queue) <= Len(queue')
    /\ SubSeq(queue', Len(queue') - Len(queue) + 1, Len(queue')) = queue

\* buf_retrieve, and everything that reads and consumes.
Take == \E n \in 0 .. Len(queue) : queue' = SubSeq(queue, n + 1, Len(queue))

\* buf_unwrite, buf_setWriteIndex.
TakeBack == \E n \in 0 .. Len(queue) : queue' = SubSeq(queue, 1, Len(queue) - n)

Next == Put \/ PutFront \/ Take \/ TakeBack

Spec == Init /\ [][Next]_queue

=============================================================================
