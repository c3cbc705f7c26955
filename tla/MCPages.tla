------------------------------- MODULE MCPages -------------------------------
(* Two processes with up to two threads each.  Which page is where matters  *)
(* only as far as two places hold the same one or hold a free one, and this *)
(* is all that View keeps.                                                  *)
EXTENDS Pages
View == << [x \in Place |-> IF mem.at[x] \in Page
                            THEN {y \in Place : mem.at[y] = mem.at[x]} ELSE {mem.at[x]}],
           {x \in Place : mem.at[x] \in mem.free}, Cardinality(mem.free), mem.halted,
           mem.free \subseteq Page, stack, wait >>
=============================================================================
