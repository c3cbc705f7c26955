-------------------------------- MODULE Buddy --------------------------------
(***************************************************************************)
(* kernel/memory/memory.c: the buddy allocator.  Each critical section of   *)
(* memoryLock is one step, so that with several processors (the SMP build)  *)
(* the steps of their calls interleave; with one processor the model is the *)
(* default build, where a call runs from start to end.                      *)
(*                                                                         *)
(* Addresses and sizes are in units of 4 bytes, the smallest block, and     *)
(* memoryBlocks[b] (bit - 2 in the code) lists the blocks of Pow[b] units.     *)
(* Each list is in ascending order, since memory_block_free links a block   *)
(* before the first greater one: it is the set of its addresses, and its    *)
(* head the least of them.                                                  *)
(***************************************************************************)
EXTENDS Integers, FiniteSets, Order

CONSTANTS
  CPU,      \* the processors
  BOOT,     \* the one that runs init_memory
  BASE,     \* the memory init_memory frees is BASE .. BASE + LIMIT - 1
  LIMIT,
  LISTS,    \* number of lists, 28 in the code
  Pow       \* the powers of two, "1 << bit"

ASSUME MemoryAssumption == /\ BOOT \in CPU /\ BASE \in Nat /\ LIMIT \in Nat
                           /\ LISTS \in Nat /\ BASE + LIMIT < Pow[LISTS]
ASSUME PowAssumption == /\ Pow \in [0 .. LISTS -> Nat] /\ Pow[0] = 1
                        /\ \A b \in 0 .. LISTS - 1 : Pow[b + 1] = 2 * Pow[b]

Bit     == 0 .. LISTS - 1
Address == BASE .. BASE + LIMIT - 1
Block   == Address \X Bit
NONE    == <<-1, 0>>

Units(k) == k[1] .. k[1] + Pow[k[2]] - 1
Covers(K) == UNION {Units(k) : k \in K}

VARIABLES
  memoryBlocks,       \* [Bit -> SUBSET Address]
  freeMemoryCounter,
  owned,              \* the blocks the callers of memory_alloc hold
  blk,                \* per CPU: the block memory_block_free has in hand
  rest,               \* per CPU: what memory_free_nocheck has yet to free
  keep,               \* per CPU: the block memory_alloc is about to return
  up,                 \* init_memory is done
  halted              \* the bit memory_alloc ran out of memory for, or -1

mvars == <<memoryBlocks, freeMemoryCounter, owned, blk, rest, keep, up, halted>>

NothingLeft == [address |-> 0, size |-> 0, bit |-> 0, half |-> "low"]
Span(a, s) == [address |-> a, size |-> s, bit |-> 0, half |-> "low"]

MInit ==
  /\ memoryBlocks = [b \in Bit |-> {}]
  /\ freeMemoryCounter = 0
  /\ owned = {}
  /\ blk = [c \in CPU |-> NONE]
  /\ rest = [c \in CPU |-> IF c = BOOT THEN Span(BASE, LIMIT) ELSE NothingLeft]
  /\ keep = [c \in CPU |-> NONE]
  /\ up = FALSE /\ halted = -1

(* An odd multiple of Pow[b], given a multiple: "address & sizep".             *)
OddMultiple(a, b) == (a \div Pow[b]) % 2 = 1

(***************************************************************************)
(* memory_block_free: one call of it, up to its unlock.                     *)
(***************************************************************************)
(* Slip: the lower neighbour is not looked for.                             *)
BuddyAbove(k) == IF OddMultiple(k[1], k[2]) THEN -1 ELSE k[1] + Pow[k[2]]

BuddyOf(k) == IF OddMultiple(k[1], k[2]) THEN k[1] - Pow[k[2]] ELSE k[1] + Pow[k[2]]

(* The buddy is listed: it is unlinked, and the call recurs with both.      *)
Merge(c) ==
  LET k == blk[c]  IN
  /\ k # NONE /\ BuddyOf(k) \in memoryBlocks[k[2]]
  /\ memoryBlocks' = [memoryBlocks EXCEPT ![k[2]] = @ \ {BuddyOf(k)}]
  /\ freeMemoryCounter' = freeMemoryCounter + Pow[k[2]] - 2 * Pow[k[2]]
  /\ blk' = [blk EXCEPT ![c] = <<Least({k[1], BuddyOf(k)}), k[2] + 1>>]
  /\ UNCHANGED <<owned, rest, keep, up, halted>>

(* Slip: the list is not searched for the buddy.                            *)
LinkBlindly(c) ==
  LET k == blk[c]  IN
  /\ k # NONE
  /\ memoryBlocks' = [memoryBlocks EXCEPT ![k[2]] = @ \cup {k[1]}]
  /\ freeMemoryCounter' = freeMemoryCounter + Pow[k[2]]
  /\ blk' = [blk EXCEPT ![c] = NONE]
  /\ UNCHANGED <<owned, rest, keep, up, halted>>

LinkBlock(c) ==
  LET k == blk[c]  IN
  /\ k # NONE /\ BuddyOf(k) \notin memoryBlocks[k[2]]
  /\ memoryBlocks' = [memoryBlocks EXCEPT ![k[2]] = @ \cup {k[1]}]
  /\ freeMemoryCounter' = freeMemoryCounter + Pow[k[2]]
  /\ blk' = [blk EXCEPT ![c] = NONE]
  /\ UNCHANGED <<owned, rest, keep, up, halted>>

(***************************************************************************)
(* memory_free_nocheck: the pieces of a range, from both of its ends, by    *)
(* growing size.  Between two pieces it calls memory_block_free.            *)
(***************************************************************************)
Looping(c) == blk[c] = NONE /\ rest[c].size >= Pow[rest[c].bit] /\ rest[c].bit < LISTS

LowPiece(c) ==
  LET r == rest[c]  IN
  /\ Looping(c) /\ r.half = "low"
  /\ IF OddMultiple(r.address, r.bit)
       THEN /\ blk' = [blk EXCEPT ![c] = <<r.address, r.bit>>]
            /\ rest' = [rest EXCEPT ![c] = [address |-> r.address + Pow[r.bit],
                          size |-> r.size - Pow[r.bit], bit |-> r.bit, half |-> "high"]]
       ELSE rest' = [rest EXCEPT ![c].half = "high"] /\ UNCHANGED blk
  /\ UNCHANGED <<memoryBlocks, freeMemoryCounter, owned, keep, up, halted>>

(* Slip: the loop stays at its size.                                        *)
HighPieceStays(c) ==
  LET r == rest[c]  IN
  /\ Looping(c) /\ r.half = "high"
  /\ IF OddMultiple(r.size, r.bit)
       THEN /\ blk' = [blk EXCEPT ![c] = <<r.address + r.size - Pow[r.bit], r.bit>>]
            /\ rest' = [rest EXCEPT ![c] = [address |-> r.address,
                          size |-> r.size - Pow[r.bit], bit |-> r.bit, half |-> "low"]]
       ELSE rest' = [rest EXCEPT ![c].half = "low"] /\ UNCHANGED blk
  /\ UNCHANGED <<memoryBlocks, freeMemoryCounter, owned, keep, up, halted>>

HighPiece(c) ==
  LET r == rest[c]  IN
  /\ Looping(c) /\ r.half = "high"
  /\ IF OddMultiple(r.size, r.bit)
       THEN /\ blk' = [blk EXCEPT ![c] = <<r.address + r.size - Pow[r.bit], r.bit>>]
            /\ rest' = [rest EXCEPT ![c] = [address |-> r.address,
                          size |-> r.size - Pow[r.bit], bit |-> r.bit + 1, half |-> "low"]]
       ELSE /\ rest' = [rest EXCEPT ![c] = [address |-> r.address,
                          size |-> r.size, bit |-> r.bit + 1, half |-> "low"]]
            /\ UNCHANGED blk
  /\ UNCHANGED <<memoryBlocks, freeMemoryCounter, owned, keep, up, halted>>

(* The loop ends, and memory_alloc returns the block it kept.               *)
EndRange(c) ==
  /\ blk[c] = NONE /\ ~Looping(c) /\ rest[c] # NothingLeft
  /\ rest' = [rest EXCEPT ![c] = NothingLeft]
  /\ keep' = [keep EXCEPT ![c] = NONE]
  /\ owned' = owned \cup ({keep[c]} \ {NONE})
  /\ up' = TRUE
  /\ UNCHANGED <<memoryBlocks, freeMemoryCounter, blk, halted>>

(***************************************************************************)
(* memory_alloc(b + 2), ALLOC_PAGE and malloc.                              *)
(***************************************************************************)
Idle(c) == up /\ blk[c] = NONE /\ rest[c] = NothingLeft
Listing(b) == {k \in b .. LISTS - 1 : memoryBlocks[k] # {}}

(* The head of the smallest list that will do.                              *)
Detach(a, k) ==
  /\ k \in Bit /\ memoryBlocks[k] # {} /\ a = Least(memoryBlocks[k])
  /\ memoryBlocks' = [memoryBlocks EXCEPT ![k] = @ \ {a}]
  /\ freeMemoryCounter' = freeMemoryCounter - Pow[k]

AllocExact(c, b) ==
  /\ Idle(c) /\ memoryBlocks[b] # {}
  /\ LET a == Least(memoryBlocks[b])
     IN  Detach(a, b) /\ owned' = owned \cup {<<a, b>>}
  /\ UNCHANGED <<blk, rest, keep, up, halted>>

(* Slip: the part to return is taken for twice the block.                   *)
AllocSplitShort(c, b) ==
  /\ Idle(c) /\ memoryBlocks[b] = {} /\ Listing(b) # {}
  /\ LET k == Least(Listing(b))
         a == Least(memoryBlocks[k])
     IN  /\ Detach(a, k)
         /\ keep' = [keep EXCEPT ![c] = <<a, b>>]
         /\ rest' = [rest EXCEPT ![c] = Span(a + 2 * Pow[b], Pow[k] - 2 * Pow[b])]
  /\ UNCHANGED <<owned, blk, up, halted>>

(* A greater block is detached, and the part that is not needed is freed    *)
(* after the unlock: until then it is in no list.                           *)
AllocSplit(c, b) ==
  /\ Idle(c) /\ memoryBlocks[b] = {} /\ Listing(b) # {}
  /\ LET k == Least(Listing(b))
         a == Least(memoryBlocks[k])
     IN  /\ Detach(a, k)
         /\ keep' = [keep EXCEPT ![c] = <<a, b>>]
         /\ rest' = [rest EXCEPT ![c] = Span(a + Pow[b], Pow[k] - Pow[b])]
  /\ UNCHANGED <<owned, blk, up, halted>>

(* "Norlit OS ran out of memory": the processor stops, with the lock held.  *)
AllocHalt(c, b) ==
  /\ Idle(c) /\ Listing(b) = {}
  /\ halted' = b
  /\ UNCHANGED <<memoryBlocks, freeMemoryCounter, owned, blk, rest, keep, up>>

(* free and FREE_PAGE.  The size free reads is that of the block, so that   *)
(* memory_free_nocheck calls memory_block_free once, with the block.        *)
Free(c, k) ==
  /\ Idle(c) /\ k \in owned
  /\ owned' = owned \ {k}
  /\ blk' = [blk EXCEPT ![c] = k]
  /\ UNCHANGED <<memoryBlocks, freeMemoryCounter, rest, keep, up, halted>>

Step(c) ==
  /\ halted = -1
  /\ Merge(c) \/ LinkBlock(c) \/ LowPiece(c) \/ HighPiece(c) \/ EndRange(c)
Call(c) ==
  /\ halted = -1
  /\ \/ \E b \in Bit : AllocExact(c, b) \/ AllocSplit(c, b) \/ AllocHalt(c, b)
     \/ \E k \in owned : Free(c, k)
MNext == \E c \in CPU : Step(c) \/ Call(c)
MSpec == MInit /\ [][MNext]_mvars

(* A call goes on until it returns; whether one is made is the caller's.    *)
FairMSpec == MSpec /\ \A c \in CPU : WF_mvars(Step(c))

MTypeOK ==
  /\ memoryBlocks \in [Bit -> SUBSET Address]
  /\ freeMemoryCounter \in Nat
  /\ owned \in SUBSET Block
  /\ blk \in [CPU -> Block \cup {NONE}] /\ keep \in [CPU -> Block \cup {NONE}]
  /\ rest \in [CPU -> [address : Nat, size : Nat, bit : 0 .. LISTS, half : {"low", "high"}]]
  /\ up \in BOOLEAN /\ halted \in Bit \cup {-1}

(***************************************************************************)
(* Properties.                                                              *)
(***************************************************************************)
Listed == UNION {memoryBlocks[b] \X {b} : b \in Bit}
HandUnits(k) == IF k = NONE THEN {} ELSE Units(k)
RestUnits(c) == rest[c].address .. rest[c].address + rest[c].size - 1

(* Where a unit can be: in a listed block, in a block of a caller, or in    *)
(* the hands of a processor between two critical sections, which frees a    *)
(* block, keeps the block to return, and has a range left to free.          *)
Place == ({"listed", "owned"} \X Block) \cup ({"freed", "kept", "left"} \X CPU)
Holds(p) == CASE p[1] = "listed" -> IF p[2] \in Listed THEN Units(p[2]) ELSE {}
              [] p[1] = "owned" -> IF p[2] \in owned THEN Units(p[2]) ELSE {}
              [] p[1] = "freed" -> HandUnits(blk[p[2]])
              [] p[1] = "kept" -> HandUnits(keep[p[2]])
              [] OTHER -> RestUnits(p[2])

(* No unit of memory is lost or given twice: each one is in one place.      *)
(* freeMemoryCounter, which each path changes by a sum of its own, is the   *)
(* number of units listed.                                                  *)
Conservation ==
  /\ MTypeOK
  /\ \A p \in Place : Holds(p) \subseteq Address
  /\ \A u \in Address : Cardinality({p \in Place : u \in Holds(p)}) = 1
  /\ freeMemoryCounter = Cardinality(Covers(Listed))

(* Memory does not fragment more than its owners force it to: a run of      *)
(* listed units that could be a block is inside a single listed block,      *)
(* however the calls that split and merged it interleaved.                  *)
Aligned(b) == {a \in Address : a % Pow[b] = 0 /\ a + Pow[b] - 1 \in Address}
Coalesced ==
  \A b \in Bit : \A a \in Aligned(b) :
    Units(<<a, b>>) \subseteq Covers(Listed) =>
      \E k \in Listed : Units(<<a, b>>) \subseteq Units(k)

(* When no other processor is inside a call, the system stops for lack of   *)
(* memory only when each run that could be the block has a unit somebody    *)
(* holds.                                                                   *)
OutOfMemoryIsReal ==
  halted # -1 /\ (\A c \in CPU : Idle(c)) =>
    \A a \in Aligned(halted) : Units(<<a, halted>>) \cap Covers(owned) # {}

(* Each call ends: the merges and the pieces come to an end.                *)
CallsEnd == \A c \in CPU : blk[c] # NONE \/ rest[c] # NothingLeft ~> Idle(c) \/ halted # -1
=============================================================================
