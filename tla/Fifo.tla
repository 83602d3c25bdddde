-------------------------------- MODULE Fifo --------------------------------
(***************************************************************************)
(* What a pipe promises (kernel/pipe.c): bytes leave it in the order in    *)
(* which they came, at most Capacity of them inside.                       *)
(***************************************************************************)
EXTENDS Integers, Sequences

CONSTANTS Byte, Capacity

VARIABLE fifo

FifoInit == fifo = <<>>

(* Bytes are added at one end, or removed from the other.                  *)
FifoStep(old, new) ==
  \/ Len(new) <= Capacity /\ \E n \in 0 .. Len(new) : old = SubSeq(new, 1, n)
  \/ \E n \in 0 .. Len(old) : new = SubSeq(old, n + 1, Len(old))

FifoNext == LET old == fifo new == fifo' IN FifoStep(old, new)

FifoSpec == FifoInit /\ [][FifoNext]_fifo
=============================================================================
