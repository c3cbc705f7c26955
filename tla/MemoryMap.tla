------------------------------ MODULE MemoryMap ------------------------------
(***************************************************************************)
(* init_memory of kernel/memory/memory.c: which memory the allocator of     *)
(* module Buddy is given.  Its two loops go over the regions that the       *)
(* firmware reports, the first for what the loader has mapped, the second,  *)
(* when init_paging has mapped the rest, for what is above.                 *)
(*                                                                         *)
(* An address is counted in pages.  Regions are u64, and what is given is   *)
(* computed in u32, modulo WORD.                                            *)
(***************************************************************************)
EXTENDS Integers, Sequences, FiniteSets

CONSTANTS
  Map,             \* the memory maps to examine: sequences of regions
  KERNEL_END,      \* behind the kernel
  LOADER_MAPPED,   \* what is mapped before init_paging
  MAX_MAPPING,     \* what can be mapped at all
  LEAST,           \* the least memory the system starts with, 16 MB
  WORD             \* the pages of 4 GB

ASSUME MappingAssumption ==
  /\ KERNEL_END \in Nat /\ LOADER_MAPPED \in Nat /\ MAX_MAPPING \in Nat /\ WORD \in Nat
  /\ KERNEL_END < LOADER_MAPPED /\ LOADER_MAPPED <= MAX_MAPPING /\ MAX_MAPPING < WORD
ASSUME MapAssumption == \A m \in Map : m \in Seq([base : Nat, limit : Nat, type : Nat])

VARIABLES items,     \* the regions: base, limit, which is a size, and type
          ai,        \* the loops' item
          max,       \* the end of memory, as the first loop finds it
          given,     \* the ranges that memory_free_nocheck is called with
          mappc      \* which loop it is in
mapvars == <<items, ai, max, given, mappc>>

MapFrom(maps) == items \in maps /\ ai = 1 /\ max = 0 /\ given = <<>> /\ mappc = "first"
MapInit == MapFrom(Map)

(* The range from base to limit, after what was cut off it below and above. *)
Wrap(n) == n % WORD
CutBelow(r, bound) ==
  IF r.base < bound THEN [base |-> bound, limit |-> Wrap(r.base + r.limit - bound)] ELSE r
CutAbove(r, bound) ==
  IF Wrap(r.base + r.limit) > bound THEN [r EXCEPT !.limit = bound - r.base] ELSE r
Narrow(a) == [base |-> Wrap(a.base), limit |-> Wrap(a.limit)]
EndsBelow(r, bound) == r.base < bound /\ Wrap(r.base + r.limit) <= bound
GiveOf(r, low, high) ==
  given' = IF EndsBelow(r, low) THEN given
           ELSE Append(given, CutAbove(CutBelow(r, low), high))

Available == items[ai].type = 1
Within(loop) == mappc = loop /\ ai <= Len(items)

(* The first loop.  Types 1, 3 and 4 move the end of memory.                *)
FirstLoop ==
  /\ Within("first") /\ ai' = ai + 1
  /\ IF Available /\ items[ai].base < LOADER_MAPPED
       THEN GiveOf(Narrow(items[ai]), KERNEL_END, LOADER_MAPPED)
       ELSE UNCHANGED given
  /\ max' = IF items[ai].type \in {1, 3, 4} THEN items[ai].base + items[ai].limit ELSE max
  /\ UNCHANGED <<items, mappc>>

TooLittle == /\ mappc = "first" /\ ai > Len(items) /\ max < LEAST /\ mappc' = "panic"
             /\ UNCHANGED <<items, ai, max, given>>
init_paging == /\ mappc = "first" /\ ai > Len(items) /\ max >= LEAST
               /\ mappc' = "second" /\ ai' = 1
               /\ UNCHANGED <<items, max, given>>

(* Slip: the part below is not cut off again.                               *)
GiveWhole(r) == GiveOf(r, 0, MAX_MAPPING)

(* The second loop.                                                         *)
GiveAbove(r) == GiveOf(r, LOADER_MAPPED, MAX_MAPPING)
SecondLoop ==
  /\ Within("second") /\ ai' = ai + 1
  /\ IF Available /\ items[ai].base < MAX_MAPPING
       THEN GiveAbove(Narrow(items[ai]))
       ELSE UNCHANGED given
  /\ UNCHANGED <<items, max, mappc>>
MapDone == /\ mappc = "second" /\ ai > Len(items) /\ mappc' = "done"
           /\ UNCHANGED <<items, ai, max, given>>

MapNext == FirstLoop \/ TooLittle \/ init_paging \/ SecondLoop \/ MapDone
MapSpec == MapInit /\ [][MapNext]_mapvars

(* A map the code is made for: its regions are in order and apart, and none *)
(* that begins below what can be mapped reaches the last page of 4 GB.      *)
Orderly ==
  /\ \A i, n \in DOMAIN items : i < n => items[i].base + items[i].limit <= items[n].base
  /\ \A i \in DOMAIN items : items[i].base < MAX_MAPPING => items[i].base + items[i].limit < WORD

PagesOf(r) == r.base .. r.base + r.limit - 1
Usable == UNION {PagesOf(items[i]) : i \in {n \in DOMAIN items : items[n].type = 1}}
Given == UNION {PagesOf(given[i]) : i \in DOMAIN given}

(* The allocator gets the memory there is, and each page once: nothing of   *)
(* the kernel and nothing that is not memory, in the first loop only what   *)
(* the loader has mapped, in the second what init_paging has, and in the    *)
(* end all of it.  The two loops cut the same regions at the same border    *)
(* by different conditions.                                                 *)
GivenOnce ==
  Orderly =>
    /\ \A i, n \in DOMAIN given : i # n => PagesOf(given[i]) \cap PagesOf(given[n]) = {}
    /\ Given \subseteq Usable \ (0 .. KERNEL_END - 1)
    /\ mappc = "first" => Given \subseteq 0 .. LOADER_MAPPED - 1
    /\ mappc = "second" => Given \subseteq 0 .. max - 1
    /\ mappc = "done" => Given = Usable \cap (KERNEL_END .. MAX_MAPPING - 1)
=============================================================================
