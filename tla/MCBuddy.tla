------------------------------- MODULE MCBuddy -------------------------------
(* Buddy, with the powers of two.                                           *)
EXTENDS Buddy

MCPow == [b \in 0 .. LISTS |-> 2 ^ b]
=============================================================================
