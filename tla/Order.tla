-------------------------------- MODULE Order -------------------------------
(* The one selection the kernel's list walks make: "the first in list       *)
(* order", where both lists (see IdList) are in ascending order.            *)
EXTENDS Integers

(* The least element of a finite, non-empty set of integers.                *)
Least(S) == CHOOSE i \in S : \A j \in S : i <= j
=============================================================================
