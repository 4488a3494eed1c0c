------------------------------- MODULE MCBits -------------------------------
(* Small instances of Bits.tla: two vectors in one word and one in two, with *)
(* words of four bits instead of 32.                                         *)
EXTENDS Bits

CONSTANTS narrow, wide, unsized

MCWidth == [v \in Vectors |-> CASE v = narrow -> 2 [] v = wide -> 5 [] v = unsized -> 0]
=============================================================================
