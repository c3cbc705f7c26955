----------------------------- MODULE MCNorlitFs -----------------------------
(* A partition of eight blocks behind block 0, formatted with a free block  *)
(* of two blocks and one of four.                                           *)
EXTENDS NorlitFs
MCPow == [l \in Lens |-> 2 ^ l]
MCFreeAtStart == [l \in Lens |-> CASE l = 1 -> 2 [] l = 2 -> 4 [] OTHER -> 0]
(* The same with seven blocks, of which an odd number is free.              *)
MCFreeOdd == [l \in Lens |-> CASE l = 0 -> 2 [] l = 2 -> 4 [] OTHER -> 0]
=============================================================================
