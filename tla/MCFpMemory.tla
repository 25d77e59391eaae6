----------------------------- MODULE MCFpMemory -----------------------------
(* FpMemory with three pages of 8 bytes, two of which share the cache slot  *)
(* of page 0; the bytes of a payload tell its length and the place in it.   *)
EXTENDS FpMemory

Payload(n) == [i \in 1..n |-> n * 16 + i]
MCCodePages == {1}
MCWords == {Payload(2), Payload(4), Payload(8)}
MCBlocks == {Payload(11)}
MCWordSizes == {8}
MCBlockSizes == {11}
MCStarts == {0, 5, 6, 9, 15, 23}
=============================================================================
