-------------------------- MODULE Structures_proofs --------------------------
(***************************************************************************)
(* Three structures of the kernel, for every size.  The allocator of        *)
(* kernel/memory/memory.c loses no memory, gives none twice and merges what *)
(* is free, with any number of processors; the ring of messages implements  *)
(* the bounded queue; and the lists of processes and threads stay linked    *)
(* and in order, and both walks do what their callers rely on.              *)
(***************************************************************************)
EXTENDS Buddy, MsgRing, IdList, Order_proofs, SequenceTheorems

(***************************************************************************)
(* The powers of two.  Induction is on the finite set of the exponents.     *)
(***************************************************************************)
Exponent == 0 .. LISTS

LEMMA PowType ==
  /\ LISTS \in Nat /\ Pow[0] = 1 /\ 0 \in Exponent
  /\ \A b \in Exponent : b \in Nat /\ Pow[b] \in Nat
  /\ \A b \in Bit : b \in Exponent /\ b + 1 \in Exponent /\ Pow[b + 1] = 2 * Pow[b]
BY MemoryAssumption, PowAssumption DEF Exponent, Bit

(* A set of exponents that holds 0 and with each one the next, if that is   *)
(* one, holds all.                                                          *)
LEMMA ExponentInduction ==
  ASSUME NEW S, 0 \in S, \A b \in Bit : b \in S => b + 1 \in S
  PROVE  Exponent \subseteq S
<1> DEFINE T == Exponent \ S
<1> SUFFICES ASSUME T # {} PROVE FALSE
  OBVIOUS
<1>1. IsFiniteSet(T) /\ T \subseteq Int
  <2>1. IsFiniteSet(Exponent) /\ T \in SUBSET Exponent /\ Exponent \subseteq Int
    BY PowType, FS_Interval DEF Exponent
  <2>. QED
    BY ONLY <2>1, FS_Subset
<1>2. Least(T) \in T /\ \A j \in T : Least(T) <= j
  BY <1>1, LeastIsLeast
<1>3. PICK n \in T : \A j \in T : n <= j
  BY <1>2
<1>4. n \in Nat /\ n # 0 /\ n \in Exponent
  BY <1>3, PowType
<1>5. n - 1 \in Bit /\ n - 1 \in Exponent /\ (n - 1) + 1 = n
  BY <1>4, PowType DEF Exponent, Bit
<1>6. n - 1 \in S
  BY <1>3, <1>4, <1>5
<1>. QED
  BY <1>3, <1>5, <1>6

LEMMA PowPositive == \A b \in Exponent : Pow[b] \in Nat /\ Pow[b] >= 1
<1> DEFINE S == {b \in Exponent : Pow[b] >= 1}
<1>1. 0 \in S
  BY PowType
<1>2. \A b \in Bit : b \in S => b + 1 \in S
  BY PowType
<1>3. Exponent \subseteq S
  <2> HIDE DEF S
  <2>. QED
    BY <1>1, <1>2, ExponentInduction
<1>. QED
  BY <1>3, PowType

(* The lesser of two powers divides the greater.                            *)
LEMMA PowDivides ==
  ASSUME NEW b \in Exponent, NEW d \in Exponent, b <= d
  PROVE  \E m \in Nat : m >= 1 /\ Pow[d] = m * Pow[b]
<1> DEFINE S == {n \in Exponent : b <= n => \E m \in Nat : m >= 1 /\ Pow[n] = m * Pow[b]}
<1>0. Pow[b] \in Nat /\ b \in Nat /\ Pow[b] = 1 * Pow[b]
  BY PowPositive, PowType
<1>1. 0 \in S
  <2>1. b <= 0 => b = 0
    BY <1>0
  <2>. QED
    BY <1>0, <2>1, PowType
<1>2. ASSUME NEW n \in Bit, n \in S
      PROVE  n + 1 \in S
  <2>1. n \in Nat /\ n + 1 \in Exponent /\ Pow[n + 1] = 2 * Pow[n] /\ Pow[n] \in Nat
    BY PowType
  <2>2. CASE b <= n
    <3>1. PICK m \in Nat : m >= 1 /\ Pow[n] = m * Pow[b]
      BY <1>2, <2>2
    <3>2. 2 * m \in Nat /\ 2 * m >= 1 /\ 2 * (m * Pow[b]) = (2 * m) * Pow[b]
      BY <1>0, <3>1
    <3>. QED
      BY <2>1, <3>1, <3>2
  <2>3. CASE b = n + 1
    BY <1>0, <2>1, <2>3
  <2>4. CASE b > n + 1
    BY <1>0, <2>1, <2>4
  <2>. QED
    BY <1>0, <2>1, <2>2, <2>3, <2>4
<1>3. Exponent \subseteq S
  <2> HIDE DEF S
  <2>. QED
    BY <1>1, <1>2, ExponentInduction
<1>. QED
  BY <1>3

LEMMA PowGrows ==
  ASSUME NEW b \in Exponent, NEW d \in Exponent
  PROVE  /\ b <= d => Pow[b] <= Pow[d]
         /\ b < d => 2 * Pow[b] <= Pow[d]
<1>1. ASSUME NEW a \in Exponent, a <= d PROVE Pow[a] <= Pow[d]
  <2>1. PICK m \in Nat : m >= 1 /\ Pow[d] = m * Pow[a]
    BY <1>1, PowDivides
  <2>2. Pow[a] \in Nat
    BY PowType
  <2>. QED
    BY <2>1, <2>2
<1>2. ASSUME b < d PROVE 2 * Pow[b] <= Pow[d]
  <2>1. b \in Bit /\ b + 1 \in Exponent /\ b + 1 <= d
    BY <1>2, PowType DEF Exponent, Bit
  <2>. QED
    BY <1>1, <2>1, PowType
<1>. QED
  BY <1>1, <1>2

(***************************************************************************)
(* Multiples.                                                               *)
(***************************************************************************)
LEMMA Divide ==
  ASSUME NEW p \in Nat, p >= 1, NEW a \in Nat
  PROVE  /\ a \div p \in Nat /\ a % p \in 0 .. p - 1
         /\ a = (a \div p) * p + (a % p)
  OBVIOUS

LEMMA Multiples ==
  ASSUME NEW p \in Nat, p >= 1, NEW q \in Nat
  PROVE  q * p \in Nat /\ (q * p) % p = 0 /\ (q * p) \div p = q
  OBVIOUS

(* An odd multiple of a power is apart from the next multiple of twice it   *)
(* by that power, on both sides, and an even one is one.                    *)
LEMMA Parity ==
  ASSUME NEW a \in Nat, NEW b \in Bit, a % Pow[b] = 0
  PROVE  /\ OddMultiple(a, b) =>
              /\ a >= Pow[b] /\ a - Pow[b] \in Nat
              /\ (a - Pow[b]) % Pow[b + 1] = 0 /\ (a + Pow[b]) % Pow[b + 1] = 0
              /\ ~OddMultiple(a - Pow[b], b) /\ ~OddMultiple(a + Pow[b], b)
         /\ ~OddMultiple(a, b) => a % Pow[b + 1] = 0 /\ OddMultiple(a + Pow[b], b)
<1> DEFINE p == Pow[b]
           q == a \div p
<1>1. p \in Nat /\ p >= 1 /\ Pow[b + 1] = 2 * p
  BY PowType, PowPositive
<1>2. q \in Nat /\ a = q * p
  <2>1. q \in Nat /\ a % p \in 0 .. p - 1 /\ a = q * p + (a % p)
    BY <1>1, Divide
  <2>. QED
    BY <1>1, <2>1
<1>3. OddMultiple(a, b) <=> q % 2 = 1
  BY DEF OddMultiple
<1> HIDE DEF p, q
<1>4. ASSUME NEW r \in Nat
      PROVE  /\ (2 * r) * p = r * (2 * p) /\ (2 * r) * p \in Nat
             /\ ((2 * r) * p) % (2 * p) = 0
             /\ ((2 * r) * p) \div p = 2 * r /\ ((2 * r + 1) * p) \div p = 2 * r + 1
             /\ (2 * r + 1) * p = (2 * r) * p + p /\ (2 * r + 2) * p = (2 * r + 1) * p + p
  <2>1. (2 * r) * p = r * (2 * p)
    BY <1>1
  <2>2. (r * (2 * p)) % (2 * p) = 0
    BY <1>1, Multiples
  <2>3. ((2 * r) * p) \div p = 2 * r /\ ((2 * r + 1) * p) \div p = 2 * r + 1 /\ (2 * r) * p \in Nat
    BY <1>1, Multiples
  <2>4. (2 * r + 1) * p = (2 * r) * p + p /\ (2 * r + 2) * p = (2 * r + 1) * p + p
    BY <1>1
  <2>. QED
    BY <2>1, <2>2, <2>3, <2>4
<1>5. CASE q % 2 = 1
  <2>1. PICK r \in Nat : q = 2 * r + 1
    BY <1>2, <1>5
  <2> DEFINE c == (2 * r) * p
             d == (2 * (r + 1)) * p
  <2>2. a - p = c /\ a + p = d
    BY <1>1, <1>2, <1>4, <2>1
  <2>3. c \in Nat /\ c % (2 * p) = 0 /\ c \div p = 2 * r
    BY <1>4
  <2>4. d % (2 * p) = 0 /\ d \div p = 2 * (r + 1)
    <3>1. r + 1 \in Nat
      OBVIOUS
    <3>. QED
      BY <1>4, <3>1
  <2> HIDE DEF c, d
  <2>5. (a - p) % (2 * p) = 0 /\ (a + p) % (2 * p) = 0 /\ a - p \in Nat
    BY <2>2, <2>3, <2>4
  <2>6. (a - p) \div p = 2 * r /\ (a + p) \div p = 2 * (r + 1)
    BY <2>2, <2>3, <2>4
  <2>7. ~OddMultiple(a - p, b) /\ ~OddMultiple(a + p, b)
    BY <2>6 DEF OddMultiple, p
  <2>. QED
    BY <1>1, <1>3, <1>5, <2>5, <2>7 DEF p
<1>6. CASE q % 2 # 1
  <2>1. PICK r \in Nat : q = 2 * r
    BY <1>2, <1>6
  <2> DEFINE c == (2 * r) * p
             d == (2 * r + 1) * p
  <2>2. a = c /\ a + p = d
    BY <1>1, <1>2, <1>4, <2>1
  <2>3. c % (2 * p) = 0 /\ d \div p = 2 * r + 1
    BY <1>4
  <2> HIDE DEF c, d
  <2>4. (a + p) \div p = 2 * r + 1 /\ a % (2 * p) = 0
    BY <2>2, <2>3
  <2>5. OddMultiple(a + p, b)
    BY <2>4 DEF OddMultiple, p
  <2>. QED
    BY <1>1, <1>3, <1>6, <2>4, <2>5 DEF p
<1>. QED
  BY <1>5, <1>6

(***************************************************************************)
(* The invariant.  Each unit is in one place (Divided); what is cut out of  *)
(* a range, and so every block, is aligned to its size, since the loop of   *)
(* memory_free_nocheck leaves of a range a multiple of the size it is at    *)
(* (RangeAligned); no two buddies are listed (Unmerged).                    *)
(***************************************************************************)
Held == [p \in Place |-> Holds(p)]
Divided(f) ==
  /\ \A p, q \in Place : p # q => f[p] \cap f[q] = {}
  /\ \A p \in Place : f[p] \subseteq Address
  /\ \A u \in Address : \E p \in Place : u \in f[p]

OnSize(k) == k[1] % Pow[k[2]] = 0
RangeAligned(r) ==
  /\ r.size % Pow[r.bit] = 0
  /\ r.half = "low" => r.address % Pow[r.bit] = 0
  /\ r.half = "high" => r.bit < LISTS /\ r.address % Pow[r.bit + 1] = 0
InHands(c) ==
  /\ blk[c] # NONE => OnSize(blk[c])
  /\ keep[c] # NONE => OnSize(keep[c]) /\ rest[c] # NothingLeft
BlocksOnSize ==
  /\ \A k \in Listed \cup owned : OnSize(k)
  /\ \A c \in CPU : RangeAligned(rest[c]) /\ InHands(c)
Unmerged == \A k \in Listed : <<BuddyOf(k), k[2]>> \notin Listed
Counted == freeMemoryCounter = Cardinality(Covers(Listed))
Stopped == halted # -1 => Listing(halted) = {}

MInv == MTypeOK /\ Divided(Held) /\ BlocksOnSize /\ Unmerged /\ Counted /\ Stopped

(***************************************************************************)
(* Blocks and places.                                                       *)
(***************************************************************************)
LEMMA AddressType == Address \subseteq Nat /\ IsFiniteSet(Address)
BY MemoryAssumption, FS_Interval DEF Address

LEMMA BlockType ==
  ASSUME NEW k \in Block
  PROVE  /\ k = <<k[1], k[2]>> /\ k[1] \in Address /\ k[1] \in Nat /\ k # NONE
         /\ k[2] \in Bit /\ k[2] \in Exponent /\ Pow[k[2]] \in Nat /\ Pow[k[2]] >= 1
         /\ Units(k) = k[1] .. k[1] + Pow[k[2]] - 1
         /\ k[1] \in Units(k)
<1>1. k = <<k[1], k[2]>> /\ k[1] \in Address /\ k[2] \in Bit
  BY DEF Block
<1>2. k[1] \in Nat /\ k # NONE
  BY <1>1, AddressType DEF NONE
<1>3. k[2] \in Exponent /\ Pow[k[2]] \in Nat /\ Pow[k[2]] >= 1
  BY <1>1, PowType, PowPositive
<1>. QED
  BY <1>1, <1>2, <1>3 DEF Units

LEMMA ListedIs ==
  /\ \A k \in Block : k \in Listed <=> k[1] \in memoryBlocks[k[2]]
  /\ \A k \in Block : k \in Listed' <=> k[1] \in memoryBlocks'[k[2]]
BY BlockType DEF Listed

LEMMA ListedType ==
  ASSUME memoryBlocks \in [Bit -> SUBSET Address]
  PROVE  Listed \subseteq Block
BY DEF Listed, Block

(* The five kinds of places, and what is in each.                           *)
LEMMA Places ==
  /\ \A k \in Block : <<"listed", k>> \in Place /\ <<"owned", k>> \in Place
  /\ \A c \in CPU : /\ <<"freed", c>> \in Place /\ <<"kept", c>> \in Place
                    /\ <<"left", c>> \in Place
  /\ \A p \in Place : \/ \E k \in Block : p = <<"listed", k>> \/ p = <<"owned", k>>
                      \/ \E c \in CPU : p = <<"freed", c>> \/ p = <<"kept", c>>
                                        \/ p = <<"left", c>>
BY DEF Place

LEMMA HeldIs ==
  /\ \A k \in Block : /\ Held[<<"listed", k>>] = IF k \in Listed THEN Units(k) ELSE {}
                      /\ Held[<<"owned", k>>] = IF k \in owned THEN Units(k) ELSE {}
  /\ \A c \in CPU : /\ Held[<<"freed", c>>] = HandUnits(blk[c])
                    /\ Held[<<"kept", c>>] = HandUnits(keep[c])
                    /\ Held[<<"left", c>>] = RestUnits(c)
<1>1. \A p \in Place : Held[p] = Holds(p)
  BY DEF Held
<1>2. ASSUME NEW k \in Block
      PROVE  /\ Held[<<"listed", k>>] = IF k \in Listed THEN Units(k) ELSE {}
             /\ Held[<<"owned", k>>] = IF k \in owned THEN Units(k) ELSE {}
  BY <1>1, Places DEF Holds
<1>3. ASSUME NEW c \in CPU
      PROVE  /\ Held[<<"freed", c>>] = HandUnits(blk[c])
             /\ Held[<<"kept", c>>] = HandUnits(keep[c])
             /\ Held[<<"left", c>>] = RestUnits(c)
  BY <1>1, Places DEF Holds
<1>. QED
  BY <1>2, <1>3

LEMMA HeldIsNext ==
  /\ \A k \in Block : /\ Held'[<<"listed", k>>] = IF k \in Listed' THEN Units(k) ELSE {}
                      /\ Held'[<<"owned", k>>] = IF k \in owned' THEN Units(k) ELSE {}
  /\ \A c \in CPU : /\ Held'[<<"freed", c>>] = HandUnits(blk'[c])
                    /\ Held'[<<"kept", c>>] = HandUnits(keep'[c])
                    /\ Held'[<<"left", c>>] = RestUnits(c)'
<1>1. \A p \in Place : Held'[p] = Holds(p)'
  BY DEF Held
<1>2. ASSUME NEW k \in Block
      PROVE  /\ Held'[<<"listed", k>>] = IF k \in Listed' THEN Units(k) ELSE {}
             /\ Held'[<<"owned", k>>] = IF k \in owned' THEN Units(k) ELSE {}
  BY <1>1, Places DEF Holds
<1>3. ASSUME NEW c \in CPU
      PROVE  /\ Held'[<<"freed", c>>] = HandUnits(blk'[c])
             /\ Held'[<<"kept", c>>] = HandUnits(keep'[c])
             /\ Held'[<<"left", c>>] = RestUnits(c)'
  BY <1>1, Places DEF Holds
<1>. QED
  BY <1>2, <1>3

(* What is moved between some places and divided among them stays divided.  *)
LEMMA Exchange ==
  ASSUME NEW f, NEW g, NEW J \in SUBSET Place, Divided(f),
         \A p \in Place \ J : g[p] = f[p],
         \A p, q \in J : p # q => g[p] \cap g[q] = {},
         \A u : (\E p \in J : u \in g[p]) <=> (\E p \in J : u \in f[p])
  PROVE  Divided(g)
<1>1. ASSUME NEW p \in Place, NEW q \in Place, p # q, NEW u \in g[p], u \in g[q]
      PROVE  FALSE
  <2>1. CASE p \in J /\ q \in J
    BY <1>1, <2>1
  <2>2. CASE p \in J /\ q \notin J
    <3>1. PICK r \in J : u \in f[r]
      BY <1>1, <2>2
    <3>2. u \in f[q] /\ r # q /\ r \in Place
      BY <1>1, <2>2, <3>1
    <3>. QED
      BY <3>1, <3>2 DEF Divided
  <2>3. CASE p \notin J /\ q \in J
    <3>1. PICK r \in J : u \in f[r]
      BY <1>1, <2>3
    <3>2. u \in f[p] /\ r # p /\ r \in Place
      BY <1>1, <2>3, <3>1
    <3>. QED
      BY <3>1, <3>2 DEF Divided
  <2>4. CASE p \notin J /\ q \notin J
    BY <1>1, <2>4 DEF Divided
  <2>. QED
    BY <2>1, <2>2, <2>3, <2>4
<1>2. \A p \in Place : g[p] \subseteq Address
  BY DEF Divided
<1>3. ASSUME NEW u \in Address
      PROVE  \E p \in Place : u \in g[p]
  BY DEF Divided
<1>. QED
  BY <1>1, <1>2, <1>3 DEF Divided

(* Places that J leaves out keep what they hold.                            *)
Elsewhere(J) ==
  /\ \A k \in Block : <<"listed", k>> \notin J => (k \in Listed' <=> k \in Listed)
  /\ \A k \in Block : <<"owned", k>> \notin J => (k \in owned' <=> k \in owned)
  /\ \A c \in CPU : <<"freed", c>> \notin J => blk'[c] = blk[c]
  /\ \A c \in CPU : <<"kept", c>> \notin J => keep'[c] = keep[c]
  /\ \A c \in CPU : <<"left", c>> \notin J => RestUnits(c)' = RestUnits(c)

LEMMA Moved ==
  ASSUME Divided(Held), NEW J \in SUBSET Place, Elsewhere(J),
         \A p, q \in J : p # q => Held'[p] \cap Held'[q] = {},
         \A u : (\E p \in J : u \in Held'[p]) <=> (\E p \in J : u \in Held[p])
  PROVE  Divided(Held)'
<1>1. ASSUME NEW p \in Place \ J PROVE Held'[p] = Held[p]
  <2>1. CASE \E k \in Block : p = <<"listed", k>>
    <3>1. PICK k \in Block : p = <<"listed", k>> /\ <<"listed", k>> \notin J
      BY <1>1, <2>1
    <3>2. k \in Listed' <=> k \in Listed
      BY <3>1 DEF Elsewhere
    <3>3. Held[<<"listed", k>>] = IF k \in Listed THEN Units(k) ELSE {}
      BY HeldIs
    <3>4. Held'[<<"listed", k>>] = IF k \in Listed' THEN Units(k) ELSE {}
      BY HeldIsNext
    <3>. QED
      BY <3>1, <3>2, <3>3, <3>4
  <2>2. CASE \E k \in Block : p = <<"owned", k>>
    <3>1. PICK k \in Block : p = <<"owned", k>> /\ <<"owned", k>> \notin J
      BY <1>1, <2>2
    <3>2. k \in owned' <=> k \in owned
      BY <3>1 DEF Elsewhere
    <3>3. Held[<<"owned", k>>] = IF k \in owned THEN Units(k) ELSE {}
      BY HeldIs
    <3>4. Held'[<<"owned", k>>] = IF k \in owned' THEN Units(k) ELSE {}
      BY HeldIsNext
    <3>. QED
      BY <3>1, <3>2, <3>3, <3>4
  <2>3. CASE \E c \in CPU : p = <<"freed", c>>
    <3>1. PICK c \in CPU : p = <<"freed", c>> /\ <<"freed", c>> \notin J
      BY <1>1, <2>3
    <3>2. blk'[c] = blk[c]
      BY <3>1 DEF Elsewhere
    <3>3. Held[<<"freed", c>>] = HandUnits(blk[c])
      BY HeldIs
    <3>4. Held'[<<"freed", c>>] = HandUnits(blk'[c])
      BY HeldIsNext
    <3>. QED
      BY <3>1, <3>2, <3>3, <3>4
  <2>4. CASE \E c \in CPU : p = <<"kept", c>>
    <3>1. PICK c \in CPU : p = <<"kept", c>> /\ <<"kept", c>> \notin J
      BY <1>1, <2>4
    <3>2. keep'[c] = keep[c]
      BY <3>1 DEF Elsewhere
    <3>3. Held[<<"kept", c>>] = HandUnits(keep[c])
      BY HeldIs
    <3>4. Held'[<<"kept", c>>] = HandUnits(keep'[c])
      BY HeldIsNext
    <3>. QED
      BY <3>1, <3>2, <3>3, <3>4
  <2>5. CASE \E c \in CPU : p = <<"left", c>>
    <3>1. PICK c \in CPU : p = <<"left", c>> /\ <<"left", c>> \notin J
      BY <1>1, <2>5
    <3>2. RestUnits(c)' = RestUnits(c)
      BY <3>1 DEF Elsewhere
    <3>3. Held[<<"left", c>>] = RestUnits(c)
      BY HeldIs
    <3>4. Held'[<<"left", c>>] = RestUnits(c)'
      BY HeldIsNext
    <3>. QED
      BY <3>1, <3>2, <3>3, <3>4
  <2>. QED
    BY <2>1, <2>2, <2>3, <2>4, <2>5, Places
<1>2. Divided(Held')
  BY <1>1, Exchange
<1>. QED
  BY <1>2 DEF Divided, Place, Block, Address, Bit

LEMMA MovedTwo ==
  ASSUME Divided(Held), NEW i \in Place, NEW j \in Place, i # j, Elsewhere({i, j}),
         Held'[i] \cap Held'[j] = {}, Held'[i] \cup Held'[j] = Held[i] \cup Held[j]
  PROVE  Divided(Held)'
<1> DEFINE J == {i, j}
<1>1. J \in SUBSET Place /\ \A p, q \in J : p # q => Held'[p] \cap Held'[q] = {}
  OBVIOUS
<1>2. \A u : (\E p \in J : u \in Held'[p]) <=> (\E p \in J : u \in Held[p])
  <2>1. ASSUME NEW u
        PROVE  (u \in Held'[i] \/ u \in Held'[j]) <=> (u \in Held[i] \/ u \in Held[j])
    <3>1. u \in Held'[i] \cup Held'[j] <=> u \in Held[i] \cup Held[j]
      OBVIOUS
    <3>. QED
      BY <3>1
  <2>. QED
    BY <2>1
<1>. QED
  BY <1>1, <1>2, Moved

LEMMA MovedThree ==
  ASSUME Divided(Held), NEW i \in Place, NEW j \in Place, NEW m \in Place,
         i # j, i # m, j # m, Elsewhere({i, j, m}), Held'[i] \cap Held'[j] = {},
         Held'[i] \cap Held'[m] = {}, Held'[j] \cap Held'[m] = {},
         Held'[i] \cup Held'[j] \cup Held'[m] = Held[i] \cup Held[j] \cup Held[m]
  PROVE  Divided(Held)'
<1> DEFINE J == {i, j, m}
<1>1. J \in SUBSET Place /\ \A p, q \in J : p # q => Held'[p] \cap Held'[q] = {}
  OBVIOUS
<1>2. \A u : (\E p \in J : u \in Held'[p]) <=> (\E p \in J : u \in Held[p])
  <2>1. ASSUME NEW u
        PROVE  (u \in Held'[i] \/ u \in Held'[j] \/ u \in Held'[m])
                 <=> (u \in Held[i] \/ u \in Held[j] \/ u \in Held[m])
    <3>1. u \in Held'[i] \cup Held'[j] \cup Held'[m]
            <=> u \in Held[i] \cup Held[j] \cup Held[m]
      OBVIOUS
    <3>. QED
      BY <3>1
  <2>. QED
    BY <2>1
<1>. QED
  BY <1>1, <1>2, Moved

LEMMA Unmoved == ASSUME Divided(Held), Elsewhere({}) PROVE Divided(Held)'
<1>1. {} \in SUBSET Place
  OBVIOUS
<1>. QED
  BY <1>1, Moved

(***************************************************************************)
(* The counter.                                                             *)
(***************************************************************************)
LEMMA CoversOneMore ==
  ASSUME NEW K, Covers(K) \subseteq Address, NEW k \in Block,
         Covers(K) \cap Units(k) = {}
  PROVE  /\ Cardinality(Covers(K)) \in Nat
         /\ Cardinality(Covers(K \cup {k})) = Cardinality(Covers(K)) + Pow[k[2]]
<1>1. IsFiniteSet(Covers(K)) /\ Cardinality(Covers(K)) \in Nat
  <2>1. IsFiniteSet(Covers(K))
    BY AddressType, FS_Subset
  <2>. QED
    BY <2>1, FS_CardinalityType
<1>2. IsFiniteSet(Units(k)) /\ Cardinality(Units(k)) = Pow[k[2]]
  <2> DEFINE z == k[1] + Pow[k[2]] - 1
  <2>1. k[1] \in Int /\ z \in Int /\ z - k[1] + 1 = Pow[k[2]] /\ ~(k[1] > z)
    <3>1. k[1] \in Nat /\ Pow[k[2]] \in Nat /\ Pow[k[2]] >= 1
      BY BlockType
    <3>. QED
      BY <3>1
  <2>2. Units(k) = k[1] .. z
    BY DEF Units
  <2> HIDE DEF z
  <2>3. /\ IsFiniteSet(k[1] .. z)
        /\ Cardinality(k[1] .. z) = IF k[1] > z THEN 0 ELSE z - k[1] + 1
    BY ONLY <2>1, FS_Interval
  <2>. QED
    BY <2>1, <2>2, <2>3
<1>3. Covers(K \cup {k}) = Covers(K) \cup Units(k)
  BY DEF Covers
<1>4. Cardinality(Covers(K) \cup Units(k))
        = Cardinality(Covers(K)) + Cardinality(Units(k)) - Cardinality({})
  BY <1>1, <1>2, FS_Union
<1>5. Cardinality({}) = 0
  BY FS_EmptySet
<1>6. Pow[k[2]] \in Nat
  BY BlockType
<1>7. Cardinality(Covers(K \cup {k})) = Cardinality(Covers(K)) + Pow[k[2]] - 0
  BY <1>2, <1>3, <1>4, <1>5
<1>. QED
  BY <1>1, <1>6, <1>7

(***************************************************************************)
(* The lists, and what the invariant says of blocks in and out of them.     *)
(***************************************************************************)
LEMMA ListRemove ==
  ASSUME memoryBlocks \in [Bit -> SUBSET Address], NEW k \in Block,
         memoryBlocks' = [memoryBlocks EXCEPT ![k[2]] = @ \ {k[1]}]
  PROVE  Listed' = Listed \ {k} /\ memoryBlocks' \in [Bit -> SUBSET Address]
<1>1. memoryBlocks' \in [Bit -> SUBSET Address]
  BY BlockType
<1>2. Listed \subseteq Block /\ Listed' \subseteq Block
  BY <1>1 DEF Listed, Block
<1>3. ASSUME NEW l \in Block PROVE l \in Listed' <=> l \in Listed /\ l # k
  <2>1. l \in Listed' <=> l[1] \in memoryBlocks'[l[2]]
    BY ListedIs
  <2>2. l \in Listed <=> l[1] \in memoryBlocks[l[2]]
    BY ListedIs
  <2>3. l = <<l[1], l[2]>> /\ k = <<k[1], k[2]>> /\ l[2] \in Bit /\ k[2] \in Bit
    BY BlockType
  <2>. QED
    BY <2>1, <2>2, <2>3
<1>. QED
  BY <1>1, <1>2, <1>3

LEMMA ListAdd ==
  ASSUME memoryBlocks \in [Bit -> SUBSET Address], NEW k \in Block,
         memoryBlocks' = [memoryBlocks EXCEPT ![k[2]] = @ \cup {k[1]}]
  PROVE  Listed' = Listed \cup {k} /\ memoryBlocks' \in [Bit -> SUBSET Address]
<1>1. memoryBlocks' \in [Bit -> SUBSET Address]
  BY BlockType
<1>2. Listed \subseteq Block /\ Listed' \subseteq Block
  BY <1>1 DEF Listed, Block
<1>3. ASSUME NEW l \in Block PROVE l \in Listed' <=> l \in Listed \/ l = k
  <2>1. l \in Listed' <=> l[1] \in memoryBlocks'[l[2]]
    BY ListedIs
  <2>2. l \in Listed <=> l[1] \in memoryBlocks[l[2]]
    BY ListedIs
  <2>3. l = <<l[1], l[2]>> /\ k = <<k[1], k[2]>> /\ l[2] \in Bit /\ k[2] \in Bit
    BY BlockType
  <2>. QED
    BY <2>1, <2>2, <2>3
<1>. QED
  BY <1>1, <1>2, <1>3

(* A listed block is apart from the other ones.                             *)
LEMMA ListedApart ==
  ASSUME MTypeOK, Divided(Held)
  PROVE  /\ Listed \subseteq Block /\ Covers(Listed) \subseteq Address
         /\ \A k \in Listed : Covers(Listed \ {k}) \cap Units(k) = {}
<1>1. Listed \subseteq Block
  BY ListedType DEF MTypeOK
<1>2. \A k \in Listed : Held[<<"listed", k>>] = Units(k) /\ <<"listed", k>> \in Place
  BY <1>1, HeldIs, Places
<1>3. Covers(Listed) \subseteq Address
  <2>1. ASSUME NEW k \in Listed PROVE Units(k) \subseteq Address
    BY <1>2 DEF Divided
  <2>. QED
    BY <2>1 DEF Covers
<1>4. ASSUME NEW k \in Listed, NEW l \in Listed, l # k PROVE Units(k) \cap Units(l) = {}
  <2>1. <<"listed", k>> # <<"listed", l>>
    BY <1>4
  <2>. QED
    BY <1>2, <2>1 DEF Divided
<1>. QED
  BY <1>1, <1>3, <1>4 DEF Covers

(* So is a block that a processor is about to free.                         *)
LEMMA FreedApart ==
  ASSUME MTypeOK, Divided(Held), NEW c \in CPU, blk[c] # NONE
  PROVE  /\ blk[c] \in Block /\ Units(blk[c]) \subseteq Address
         /\ blk[c] \notin Listed /\ Covers(Listed) \cap Units(blk[c]) = {}
<1>1. blk[c] \in Block
  BY DEF MTypeOK
<1>2. Held[<<"freed", c>>] = Units(blk[c]) /\ <<"freed", c>> \in Place
  BY HeldIs, Places DEF HandUnits
<1>3. Listed \subseteq Block
  BY ListedApart
<1>4. ASSUME NEW l \in Listed PROVE Units(l) \cap Units(blk[c]) = {}
  <2>1. Held[<<"listed", l>>] = Units(l) /\ <<"listed", l>> \in Place
    BY <1>3, HeldIs, Places
  <2>2. <<"listed", l>> # <<"freed", c>>
    OBVIOUS
  <2>. QED
    BY <1>2, <2>1, <2>2 DEF Divided
<1>5. blk[c][1] \in Units(blk[c])
  BY <1>1, BlockType
<1>. QED
  BY <1>1, <1>2, <1>4, <1>5 DEF Covers, Divided

(* Taking a block off its list takes its units off the counter.             *)
LEMMA CountRemoved ==
  ASSUME MTypeOK, Divided(Held), Counted, NEW k \in Listed, Listed' = Listed \ {k},
         freeMemoryCounter' = freeMemoryCounter - Pow[k[2]]
  PROVE  Counted' /\ freeMemoryCounter' \in Nat
<1>1. k \in Block /\ Covers(Listed \ {k}) \subseteq Address
      /\ Covers(Listed \ {k}) \cap Units(k) = {}
  BY ListedApart DEF Covers
<1>2. /\ Cardinality(Covers(Listed \ {k})) \in Nat
      /\ Cardinality(Covers((Listed \ {k}) \cup {k})) = Cardinality(Covers(Listed \ {k})) + Pow[k[2]]
  BY <1>1, CoversOneMore
<1>3. (Listed \ {k}) \cup {k} = Listed
  OBVIOUS
<1>4. freeMemoryCounter = Cardinality(Covers(Listed \ {k})) + Pow[k[2]]
  BY <1>2, <1>3 DEF Counted
<1>5. Pow[k[2]] \in Nat
  BY <1>1, BlockType
<1>6. freeMemoryCounter' = Cardinality(Covers(Listed \ {k}))
  BY <1>2, <1>4, <1>5
<1>. QED
  BY <1>2, <1>6 DEF Counted

LEMMA LeastOfTwo ==
  ASSUME NEW a \in Nat, NEW b \in Nat
  PROVE  Least({a, b}) = IF a <= b THEN a ELSE b
<1>1. IsFiniteSet({a, b}) /\ {a, b} # {} /\ {a, b} \subseteq Int
  <2>1. IsFiniteSet({a}) /\ IsFiniteSet({a} \cup {b})
    BY FS_Singleton, FS_AddElement
  <2>2. {a} \cup {b} = {a, b}
    OBVIOUS
  <2>. QED
    BY <2>1, <2>2
<1>2. Least({a, b}) \in {a, b} /\ \A j \in {a, b} : Least({a, b}) <= j
  BY <1>1, LeastIsLeast
<1>. QED
  BY <1>2

(***************************************************************************)
(* memory_block_free.                                                       *)
(***************************************************************************)
(* Two buddies make up the block that is twice as large.                    *)
LEMMA MergedBlock ==
  ASSUME NEW k \in Block, OnSize(k), NEW l \in Block, l = <<BuddyOf(k), k[2]>>,
         Units(k) \subseteq Address, Units(l) \subseteq Address,
         NEW n, n = <<Least({k[1], BuddyOf(k)}), k[2] + 1>>
  PROVE  n \in Block /\ OnSize(n) /\ Units(n) = Units(k) \cup Units(l)
<1> DEFINE p == Pow[k[2]]
<1>1. /\ k[1] \in Nat /\ l[1] \in Nat /\ l[1] = BuddyOf(k) /\ l[2] = k[2] /\ k[2] \in Bit
      /\ p \in Nat /\ p >= 1 /\ k[1] \in Address /\ l[1] \in Address
      /\ Units(k) = k[1] .. k[1] + p - 1 /\ Units(l) = l[1] .. l[1] + p - 1
  BY BlockType
<1>2. k[2] + 1 \in Exponent /\ Pow[k[2] + 1] = 2 * p
  BY <1>1, PowType
<1>3. n[1] = IF k[1] <= l[1] THEN k[1] ELSE l[1]
  BY <1>1, LeastOfTwo
<1>4. n[2] = k[2] + 1 /\ n = <<n[1], n[2]>>
  OBVIOUS
<1>5. /\ n[1] % (2 * p) = 0 /\ n[1] \in Nat
      /\ \/ k[1] = n[1] /\ l[1] = n[1] + p
         \/ l[1] = n[1] /\ k[1] = n[1] + p
  <2>1. k[1] % Pow[k[2]] = 0
    BY DEF OnSize
  <2>2. CASE OddMultiple(k[1], k[2])
    <3>1. l[1] = k[1] - p
      BY <1>1, <2>2 DEF BuddyOf
    <3>2. (k[1] - p) % (2 * p) = 0
      <4>1. k[1] \in Nat /\ k[2] \in Bit
        BY <1>1
      <4>2. (k[1] - Pow[k[2]]) % Pow[k[2] + 1] = 0
        BY <2>1, <2>2, <4>1, Parity
      <4>. QED  BY ONLY <4>2, <1>2
    <3>. QED
      BY <1>1, <1>3, <3>1, <3>2
  <2>3. CASE ~OddMultiple(k[1], k[2])
    <3>1. l[1] = k[1] + p
      BY <1>1, <2>3 DEF BuddyOf
    <3>2. k[1] % (2 * p) = 0
      <4>1. k[1] \in Nat /\ k[2] \in Bit
        BY <1>1
      <4>2. k[1] % Pow[k[2] + 1] = 0
        BY <2>1, <2>3, <4>1, Parity
      <4>. QED  BY ONLY <4>2, <1>2
    <3>. QED
      BY <1>1, <1>3, <3>1, <3>2
  <2>. QED
    BY <2>2, <2>3
<1>6. Units(n) = n[1] .. n[1] + 2 * p - 1
  BY <1>2, <1>4 DEF Units
<1> HIDE DEF p
<1>7. Units(n) = Units(k) \cup Units(l)
  BY <1>1, <1>5, <1>6, SMTT(30)
<1>8. OnSize(n)
  BY <1>2, <1>4, <1>5 DEF OnSize, p
<1>9. n[1] \in Address /\ n[1] + 2 * p - 1 \in Address
  <2>1. k[1] + p - 1 \in Address /\ l[1] + p - 1 \in Address
    BY <1>1
  <2>. QED
    BY <1>1, <1>5, <2>1
<1>10. n[2] \in Bit
  <2>1. 2 * p <= BASE + LIMIT /\ BASE + LIMIT < Pow[LISTS]
    BY <1>1, <1>5, <1>9, MemoryAssumption DEF Address
  <2>2. k[2] + 1 # LISTS
    BY <1>1, <1>2, <2>1, MemoryAssumption
  <2>. QED
    BY <1>1, <1>4, <2>2, MemoryAssumption DEF Bit
<1>11. n \in Block
  BY <1>4, <1>9, <1>10 DEF Block
<1>. QED
  BY <1>7, <1>8, <1>11

(* Buddies are so of each other.                                            *)
LEMMA BuddyBack ==
  ASSUME NEW k \in Block, OnSize(k)
  PROVE  /\ BuddyOf(k) # k[1]
         /\ \A l \in Block : l = <<BuddyOf(k), k[2]>> => k = <<BuddyOf(l), l[2]>>
<1> DEFINE p == Pow[k[2]]
<1>1. k[1] \in Nat /\ k[2] \in Bit /\ p \in Nat /\ p >= 1 /\ k = <<k[1], k[2]>>
  BY BlockType
<1>2. k[1] % Pow[k[2]] = 0
  BY DEF OnSize
<1>3. CASE OddMultiple(k[1], k[2])
  <2>1. BuddyOf(k) = k[1] - p /\ ~OddMultiple(k[1] - p, k[2])
    BY <1>1, <1>2, <1>3, Parity DEF BuddyOf
  <2>. QED
    BY <1>1, <2>1 DEF BuddyOf
<1>4. CASE ~OddMultiple(k[1], k[2])
  <2>1. BuddyOf(k) = k[1] + p /\ OddMultiple(k[1] + p, k[2])
    BY <1>1, <1>2, <1>4, Parity DEF BuddyOf
  <2>. QED
    BY <1>1, <2>1 DEF BuddyOf
<1>. QED
  BY <1>3, <1>4

LEMMA MergeKeeps ==
  ASSUME MInv, halted = -1, NEW c \in CPU, Merge(c)
  PROVE  MInv'
<1> DEFINE k == blk[c]
           l == <<BuddyOf(k), k[2]>>
           n == <<Least({k[1], BuddyOf(k)}), k[2] + 1>>
<1>1. /\ k # NONE /\ BuddyOf(k) \in memoryBlocks[k[2]]
      /\ memoryBlocks' = [memoryBlocks EXCEPT ![k[2]] = @ \ {BuddyOf(k)}]
      /\ freeMemoryCounter' = freeMemoryCounter + Pow[k[2]] - 2 * Pow[k[2]]
      /\ blk' = [blk EXCEPT ![c] = n]
      /\ UNCHANGED <<owned, rest, keep, up, halted>>
  BY DEF Merge
<1>2. k \in Block /\ Units(k) \subseteq Address /\ k \notin Listed
      /\ Covers(Listed) \cap Units(k) = {}
  BY <1>1, FreedApart DEF MInv
<1>3. k[2] \in Bit /\ Pow[k[2]] \in Nat /\ k[1] \in Units(k)
  BY <1>2, BlockType
<1>4. l \in Block /\ l[1] = BuddyOf(k) /\ l[2] = k[2]
  BY <1>1, <1>3 DEF MInv, MTypeOK, Block
<1>5. l \in Listed
  BY <1>1, <1>4, ListedIs
<1>6. Units(l) \subseteq Address /\ Units(l) \cap Units(k) = {}
  BY <1>2, <1>5, ListedApart DEF MInv, Covers
<1>7. OnSize(k)
  BY <1>1 DEF MInv, BlocksOnSize, InHands
<1>8. n \in Block /\ OnSize(n) /\ Units(n) = Units(k) \cup Units(l)
  BY <1>2, <1>4, <1>6, <1>7, MergedBlock
<1>9. Listed' = Listed \ {l} /\ memoryBlocks' \in [Bit -> SUBSET Address]
  BY <1>1, <1>4, ListRemove DEF MInv, MTypeOK
<1>10. Counted' /\ freeMemoryCounter' \in Nat
  <2>1. freeMemoryCounter \in Nat
    BY DEF MInv, MTypeOK
  <2>2. freeMemoryCounter' = freeMemoryCounter - Pow[l[2]]
    BY <1>1, <1>3, <1>4, <2>1
  <2>. QED
    BY <1>5, <1>9, <2>2, CountRemoved DEF MInv
<1> HIDE DEF k, l, n
<1>11. blk'[c] = n /\ \A d \in CPU : d # c => blk'[d] = blk[d]
  BY <1>1 DEF MInv, MTypeOK
<1>12. MTypeOK'
  BY <1>1, <1>8, <1>9, <1>10 DEF MInv, MTypeOK
<1>13. Divided(Held)'
  <2>1. /\ Held[<<"listed", l>>] = Units(l) /\ Held'[<<"listed", l>>] = {}
        /\ Held[<<"freed", c>>] = Units(k) /\ Held'[<<"freed", c>>] = Units(n)
    <3>1. HandUnits(n) = Units(n) /\ HandUnits(k) = Units(k)
      BY <1>1, <1>8, BlockType DEF HandUnits
    <3>. QED
      BY <1>4, <1>5, <1>9, <1>11, <3>1, HeldIs, HeldIsNext DEF k
  <2>2. Elsewhere({<<"listed", l>>, <<"freed", c>>})
    BY <1>1, <1>9, <1>11 DEF Elsewhere, RestUnits
  <2>3. <<"listed", l>> \in Place /\ <<"freed", c>> \in Place /\ <<"listed", l>> # <<"freed", c>>
    BY <1>4, Places
  <2>4. Units(n) \cap {} = {} /\ {} \cup Units(n) = Units(l) \cup Units(k)
    BY <1>8
  <2>. QED
    BY <2>1, <2>2, <2>3, <2>4, MovedTwo DEF MInv
<1>14. BlocksOnSize'
  BY <1>1, <1>8, <1>9, <1>11 DEF MInv, BlocksOnSize, RangeAligned, InHands, OnSize
<1>15. Unmerged'
  BY <1>9 DEF MInv, Unmerged, BuddyOf
<1>16. Stopped'
  BY <1>1 DEF Stopped
<1>. QED
  BY <1>10, <1>12, <1>13, <1>14, <1>15, <1>16 DEF MInv

LEMMA LinkKeeps ==
  ASSUME MInv, halted = -1, NEW c \in CPU, LinkBlock(c)
  PROVE  MInv'
<1> DEFINE k == blk[c]
<1>1. /\ k # NONE /\ BuddyOf(k) \notin memoryBlocks[k[2]]
      /\ memoryBlocks' = [memoryBlocks EXCEPT ![k[2]] = @ \cup {k[1]}]
      /\ freeMemoryCounter' = freeMemoryCounter + Pow[k[2]]
      /\ blk' = [blk EXCEPT ![c] = NONE]
      /\ UNCHANGED <<owned, rest, keep, up, halted>>
  BY DEF LinkBlock
<1>2. k \in Block /\ k \notin Listed /\ Covers(Listed) \cap Units(k) = {}
  BY <1>1, FreedApart DEF MInv
<1>3. OnSize(k)
  BY <1>1 DEF MInv, BlocksOnSize, InHands
<1>4. Listed' = Listed \cup {k} /\ memoryBlocks' \in [Bit -> SUBSET Address]
  BY <1>1, <1>2, ListAdd DEF MInv, MTypeOK
<1>5. Counted' /\ freeMemoryCounter' \in Nat
  <2>1. Covers(Listed) \subseteq Address
    BY ListedApart DEF MInv
  <2>2. /\ Cardinality(Covers(Listed)) \in Nat
        /\ Cardinality(Covers(Listed \cup {k})) = Cardinality(Covers(Listed)) + Pow[k[2]]
    BY <1>2, <2>1, CoversOneMore
  <2>3. Pow[k[2]] \in Nat
    BY <1>2, BlockType
  <2>4. freeMemoryCounter' = Cardinality(Covers(Listed'))
    BY <1>1, <1>4, <2>2 DEF MInv, Counted
  <2>5. freeMemoryCounter' \in Nat
    BY <1>1, <2>2, <2>3 DEF MInv, Counted
  <2>. QED
    BY <2>4, <2>5 DEF Counted
<1> HIDE DEF k
<1>6. blk'[c] = NONE /\ \A d \in CPU : d # c => blk'[d] = blk[d]
  BY <1>1 DEF MInv, MTypeOK
<1>7. MTypeOK'
  BY <1>1, <1>4, <1>5 DEF MInv, MTypeOK
<1>8. Divided(Held)'
  <2>1. /\ Held[<<"listed", k>>] = {} /\ Held'[<<"listed", k>>] = Units(k)
        /\ Held[<<"freed", c>>] = Units(k) /\ Held'[<<"freed", c>>] = {}
    <3>1. HandUnits(NONE) = {} /\ HandUnits(k) = Units(k)
      BY <1>1 DEF HandUnits
    <3>. QED
      BY <1>2, <1>4, <1>6, <3>1, HeldIs, HeldIsNext DEF k
  <2>2. Elsewhere({<<"listed", k>>, <<"freed", c>>})
    BY <1>1, <1>4, <1>6 DEF Elsewhere, RestUnits
  <2>3. <<"listed", k>> \in Place /\ <<"freed", c>> \in Place /\ <<"listed", k>> # <<"freed", c>>
    BY <1>2, Places
  <2>. QED
    BY <2>1, <2>2, <2>3, MovedTwo DEF MInv
<1>9. BlocksOnSize'
  BY <1>1, <1>3, <1>4, <1>6 DEF MInv, BlocksOnSize, RangeAligned, InHands, OnSize
<1>10. Unmerged'
  <2>1. Listed \subseteq Block /\ <<BuddyOf(k), k[2]>> \notin Listed
    <3>1. Listed \subseteq Block
      BY ListedApart DEF MInv
    <3>. QED
      BY <1>1, <3>1, ListedIs
  <2>2. ASSUME NEW m \in Listed PROVE <<BuddyOf(m), m[2]>> \notin Listed \cup {k}
    <3>1. m \in Block /\ OnSize(m) /\ <<BuddyOf(m), m[2]>> \notin Listed
      BY <2>1 DEF MInv, Unmerged, BlocksOnSize
    <3>2. <<BuddyOf(m), m[2]>> # k
      BY <1>2, <2>1, <3>1, BuddyBack
    <3>. QED
      BY <3>1, <3>2
  <2>3. <<BuddyOf(k), k[2]>> # k
    BY <1>2, <1>3, BuddyBack
  <2>4. \A m \in Listed' : <<BuddyOf(m), m[2]>> \notin Listed'
    BY <1>4, <2>1, <2>2, <2>3
  <2>. QED
    BY <2>4 DEF Unmerged, BuddyOf
<1>11. Stopped'
  BY <1>1 DEF Stopped
<1>. QED
  BY <1>5, <1>7, <1>8, <1>9, <1>10, <1>11 DEF MInv

(***************************************************************************)
(* memory_free_nocheck.                                                     *)
(***************************************************************************)
(* Sums of multiples are multiples.                                         *)
LEMMA SumOfMultiples ==
  ASSUME NEW p \in Nat, p >= 1, NEW a \in Nat, NEW s \in Nat, a % p = 0, s % p = 0
  PROVE  /\ (a + s) % p = 0
         /\ s >= p => (s - p) % p = 0 /\ s - p \in Nat /\ (a + s - p) % p = 0 /\ a + s - p \in Nat
         /\ s < p => s = 0
<1> DEFINE x == a \div p
           y == s \div p
<1>1. x \in Nat /\ y \in Nat /\ a = x * p /\ s = y * p
  <2>1. /\ x \in Nat /\ a = x * p + (a % p)
        /\ y \in Nat /\ s = y * p + (s % p)
    BY Divide
  <2>. QED
    BY <2>1
<1> HIDE DEF x, y
<1>2. a + s = (x + y) * p
  BY <1>1
<1>3. (a + s) % p = 0
  BY <1>1, <1>2, Multiples
<1>4. ASSUME s >= p
      PROVE  (s - p) % p = 0 /\ s - p \in Nat /\ (a + s - p) % p = 0 /\ a + s - p \in Nat
  <2>1. y # 0
    BY <1>1, <1>4
  <2>2. y - 1 \in Nat /\ x + (y - 1) \in Nat
    BY <1>1, <2>1
  <2>3. s - p = (y - 1) * p /\ a + s - p = (x + (y - 1)) * p
    BY <1>1, <2>2
  <2>4. ((y - 1) * p) % p = 0 /\ ((x + (y - 1)) * p) % p = 0
    BY <2>2, Multiples
  <2>. QED
    BY <1>4, <2>3, <2>4
<1>5. ASSUME s < p PROVE s = 0
  <2>1. y = 0
    <3>1. y >= 1 => y * p >= p
      BY <1>1
    <3>. QED
      BY <1>1, <1>5, <3>1
  <2>. QED
    BY <1>1, <2>1
<1>. QED
  BY <1>3, <1>4, <1>5

LEMMA RangeType ==
  ASSUME MTypeOK, NEW c \in CPU
  PROVE  /\ rest[c] = [address |-> rest[c].address, size |-> rest[c].size,
                       bit |-> rest[c].bit, half |-> rest[c].half]
         /\ rest[c].address \in Nat /\ rest[c].size \in Nat /\ rest[c].bit \in Exponent
         /\ rest[c].half \in {"low", "high"}
<1>1. rest[c] \in [address : Nat, size : Nat, bit : 0 .. LISTS, half : {"low", "high"}]
  BY DEF MTypeOK
<1>. QED
  BY <1>1 DEF Exponent

(* A step of the loop: a block k, if there is one, is cut off the range,    *)
(* and r is left.                                                           *)
LEMMA PieceKeeps ==
  ASSUME MInv, NEW c \in CPU, blk[c] = NONE,
         NEW k \in Block \cup {NONE}, k # NONE => OnSize(k),
         NEW r \in [address : Nat, size : Nat, bit : 0 .. LISTS, half : {"low", "high"}],
         RangeAligned(r), r # NothingLeft,
         HandUnits(k) \cup (r.address .. r.address + r.size - 1) = RestUnits(c),
         HandUnits(k) \cap (r.address .. r.address + r.size - 1) = {},
         blk' = [blk EXCEPT ![c] = k], rest' = [rest EXCEPT ![c] = r],
         UNCHANGED <<memoryBlocks, freeMemoryCounter, owned, keep, up, halted>>
  PROVE  MInv'
<1>1. /\ blk'[c] = k /\ \A d \in CPU : d # c => blk'[d] = blk[d]
      /\ rest'[c] = r /\ \A d \in CPU : d # c => rest'[d] = rest[d]
  BY DEF MInv, MTypeOK
<1>2. MTypeOK'
  BY DEF MInv, MTypeOK
<1>3. Listed' = Listed
  BY DEF Listed
<1>4. Divided(Held)'
  <2>1. /\ Held[<<"freed", c>>] = {} /\ Held'[<<"freed", c>>] = HandUnits(k)
        /\ Held[<<"left", c>>] = RestUnits(c)
        /\ Held'[<<"left", c>>] = r.address .. r.address + r.size - 1
    <3>1. HandUnits(NONE) = {} /\ RestUnits(c)' = r.address .. r.address + r.size - 1
      BY <1>1 DEF HandUnits, RestUnits
    <3>. QED
      BY <1>1, <3>1, HeldIs, HeldIsNext, ZenonT(60)
  <2>2. Elsewhere({<<"freed", c>>, <<"left", c>>})
    BY <1>1, <1>3 DEF Elsewhere, RestUnits
  <2>3. <<"freed", c>> \in Place /\ <<"left", c>> \in Place /\ <<"freed", c>> # <<"left", c>>
    BY Places
  <2>. QED
    BY <2>1, <2>2, <2>3, MovedTwo DEF MInv
<1>5. BlocksOnSize'
  <2>1. \A b \in Listed' \cup owned' : OnSize(b)
    BY <1>3 DEF MInv, BlocksOnSize
  <2>2. ASSUME NEW d \in CPU PROVE RangeAligned(rest'[d]) /\ InHands(d)'
    BY <1>1 DEF MInv, BlocksOnSize, InHands
  <2>. QED
    BY <2>1, <2>2 DEF BlocksOnSize, OnSize, RangeAligned
<1>6. Unmerged' /\ Counted' /\ Stopped'
  BY <1>3 DEF MInv, Unmerged, Counted, Stopped, BuddyOf, Listing
<1>. QED
  BY <1>2, <1>4, <1>5, <1>6 DEF MInv

(* What the range a processor is at looks like in the loop.                 *)
LEMMA RangeInLoop ==
  ASSUME MInv, NEW c \in CPU, Looping(c)
  PROVE  /\ blk[c] = NONE /\ RangeAligned(rest[c]) /\ rest[c].bit \in Bit
         /\ rest[c].bit + 1 \in Exponent /\ Pow[rest[c].bit] \in Nat /\ Pow[rest[c].bit] >= 1
         /\ Pow[rest[c].bit + 1] = 2 * Pow[rest[c].bit]
         /\ rest[c].size >= Pow[rest[c].bit]
         /\ RestUnits(c) = rest[c].address .. rest[c].address + rest[c].size - 1
         /\ RestUnits(c) \subseteq Address
<1>1. MTypeOK /\ Divided(Held) /\ BlocksOnSize
  BY DEF MInv
<1>2. rest[c].bit \in Exponent
  BY <1>1, RangeType
<1>3. rest[c].bit \in Bit
  BY <1>2, PowType DEF Looping, Bit, Exponent
<1>4. <<"left", c>> \in Place /\ Held[<<"left", c>>] = RestUnits(c)
  BY HeldIs, Places
<1>5. RestUnits(c) \subseteq Address
  BY <1>1, <1>4 DEF Divided
<1>. QED
  BY <1>1, <1>2, <1>3, <1>5, PowType, PowPositive DEF Looping, BlocksOnSize, RestUnits

LEMMA LowPieceKeeps ==
  ASSUME MInv, halted = -1, NEW c \in CPU, LowPiece(c)
  PROVE  MInv'
<1> DEFINE r == rest[c]
           p == Pow[r.bit]
<1>1. /\ Looping(c) /\ r.half = "low"
      /\ UNCHANGED <<memoryBlocks, freeMemoryCounter, owned, keep, up, halted>>
  BY DEF LowPiece
<1>2. MTypeOK /\ blk \in [CPU -> Block \cup {NONE}]
  BY DEF MInv, MTypeOK
<1>3. /\ r.address \in Nat /\ r.size \in Nat /\ r.bit \in Exponent
      /\ r = [address |-> r.address, size |-> r.size, bit |-> r.bit, half |-> r.half]
  BY <1>2, RangeType
<1>4. /\ blk[c] = NONE /\ r.bit \in Bit /\ p \in Nat /\ p >= 1 /\ r.size >= p
      /\ RestUnits(c) = r.address .. r.address + r.size - 1 /\ RestUnits(c) \subseteq Address
      /\ r.size % p = 0 /\ r.address % p = 0
  BY <1>1, RangeInLoop DEF RangeAligned
<1>5. r.bit < LISTS
  BY <1>1 DEF Looping
<1>6. CASE OddMultiple(r.address, r.bit)
  <2> DEFINE k == <<r.address, r.bit>>
             q == [address |-> r.address + p, size |-> r.size - p, bit |-> r.bit, half |-> "high"]
  <2>1. blk' = [blk EXCEPT ![c] = k] /\ rest' = [rest EXCEPT ![c] = q]
    BY <1>6 DEF LowPiece
  <2>2. r.address \in Address
    BY <1>3, <1>4
  <2>3. k \in Block /\ OnSize(k)
    BY <1>4, <2>2 DEF Block, OnSize
  <2>4. /\ (r.address + p) % Pow[r.bit + 1] = 0
        /\ (r.size - p) % p = 0 /\ r.size - p \in Nat /\ r.address + p \in Nat
    <3>1. (r.address + p) % Pow[r.bit + 1] = 0
      BY <1>3, <1>4, <1>6, Parity
    <3>2. (r.size - p) % p = 0 /\ r.size - p \in Nat
      BY <1>3, <1>4, SumOfMultiples
    <3>. QED
      BY <1>3, <1>4, <3>1, <3>2
  <2>5. RangeAligned(q)
    BY <1>5, <2>4 DEF RangeAligned
  <2>6. q \in [address : Nat, size : Nat, bit : 0 .. LISTS, half : {"low", "high"}]
    BY <1>3, <2>4 DEF Exponent
  <2>7. q # NothingLeft
    BY DEF NothingLeft
  <2>8. HandUnits(k) = r.address .. r.address + p - 1
    BY <2>3, BlockType DEF HandUnits
  <2> DEFINE A == r.address .. r.address + p - 1
             B == r.address + p .. r.address + p + (r.size - p) - 1
  <2>9. A \cup B = RestUnits(c) /\ A \cap B = {}
    BY <1>3, <1>4, SMTT(30)
  <2>. QED
    <3>1. /\ HandUnits(k) \cup (q.address .. q.address + q.size - 1) = RestUnits(c)
          /\ HandUnits(k) \cap (q.address .. q.address + q.size - 1) = {}
      BY <2>8, <2>9
    <3> HIDE DEF q, k
    <3>. QED
      BY <1>1, <1>4, <2>1, <2>3, <2>5, <2>6, <2>7, <3>1, PieceKeeps
<1>7. CASE ~OddMultiple(r.address, r.bit)
  <2> DEFINE q == [address |-> r.address, size |-> r.size, bit |-> r.bit, half |-> "high"]
  <2>1. blk' = [blk EXCEPT ![c] = NONE] /\ rest' = [rest EXCEPT ![c] = q]
    <3>1. blk' = blk /\ rest' = [rest EXCEPT ![c].half = "high"]
      BY <1>7 DEF LowPiece
    <3>2. q = [r EXCEPT !.half = "high"]
      BY <1>3
    <3>3. blk = [blk EXCEPT ![c] = NONE]
      BY <1>2, <1>4
    <3>4. rest' = [rest EXCEPT ![c] = [r EXCEPT !.half = "high"]]
      BY <3>1
    <3> HIDE DEF q
    <3>. QED
      BY <3>1, <3>2, <3>3, <3>4
  <2>2. r.address % Pow[r.bit + 1] = 0
    BY <1>3, <1>4, <1>7, Parity
  <2>3. RangeAligned(q)
    BY <1>4, <1>5, <2>2 DEF RangeAligned
  <2>4. q \in [address : Nat, size : Nat, bit : 0 .. LISTS, half : {"low", "high"}]
    BY <1>3 DEF Exponent
  <2>5. q # NothingLeft
    BY DEF NothingLeft
  <2>6. /\ HandUnits(NONE) \cup (q.address .. q.address + q.size - 1) = RestUnits(c)
        /\ HandUnits(NONE) \cap (q.address .. q.address + q.size - 1) = {}
    BY <1>4 DEF HandUnits
  <2>. QED
    <3> HIDE DEF q
    <3>. QED
      BY <1>1, <1>4, <2>1, <2>3, <2>4, <2>5, <2>6, PieceKeeps
<1>. QED
  BY <1>6, <1>7

LEMMA PowMultiple ==
  ASSUME NEW b \in Exponent, NEW d \in Exponent, b <= d, NEW a \in Nat, a % Pow[d] = 0
  PROVE  a % Pow[b] = 0
<1> DEFINE p == Pow[b]
           q == a \div Pow[d]
<1>1. p \in Nat /\ p >= 1 /\ Pow[d] \in Nat /\ Pow[d] >= 1
  BY PowPositive
<1>2. q \in Nat /\ a = q * Pow[d]
  <2>1. q \in Nat /\ a = q * Pow[d] + (a % Pow[d])
    BY <1>1, Divide
  <2>. QED
    BY <1>1, <2>1
<1>3. PICK m \in Nat : Pow[d] = m * p
  BY PowDivides
<1> HIDE DEF p, q
<1>4. a = (q * m) * p /\ q * m \in Nat
  BY <1>1, <1>2, <1>3
<1>5. a % p = 0
  BY <1>1, <1>4, Multiples
<1>. QED
  BY <1>5 DEF p

LEMMA HighPieceKeeps ==
  ASSUME MInv, halted = -1, NEW c \in CPU, HighPiece(c)
  PROVE  MInv'
<1> DEFINE r == rest[c]
           p == Pow[r.bit]
<1>1. /\ Looping(c) /\ r.half = "high"
      /\ UNCHANGED <<memoryBlocks, freeMemoryCounter, owned, keep, up, halted>>
  BY DEF HighPiece
<1>2. MTypeOK /\ blk \in [CPU -> Block \cup {NONE}]
  BY DEF MInv, MTypeOK
<1>3. /\ r.address \in Nat /\ r.size \in Nat /\ r.bit \in Exponent
      /\ r = [address |-> r.address, size |-> r.size, bit |-> r.bit, half |-> r.half]
  BY <1>2, RangeType
<1>4. /\ blk[c] = NONE /\ r.bit \in Bit /\ p \in Nat /\ p >= 1 /\ r.size >= p
      /\ r.bit + 1 \in Exponent /\ Pow[r.bit + 1] = 2 * p
      /\ RestUnits(c) = r.address .. r.address + r.size - 1 /\ RestUnits(c) \subseteq Address
      /\ r.size % p = 0 /\ r.address % (2 * p) = 0
  BY <1>1, RangeInLoop DEF RangeAligned
<1>5. r.bit + 1 # 0
  BY <1>3, PowType
<1>6. CASE OddMultiple(r.size, r.bit)
  <2> DEFINE e == r.address + r.size - p
             k == <<e, r.bit>>
             q == [address |-> r.address, size |-> r.size - p, bit |-> r.bit + 1, half |-> "low"]
  <2>1. blk' = [blk EXCEPT ![c] = k] /\ rest' = [rest EXCEPT ![c] = q]
    BY <1>6 DEF HighPiece
  <2>2. e \in Address
    <3>1. e \in RestUnits(c)
      BY <1>3, <1>4
    <3>. QED
      BY <1>4, <3>1
  <2>3. r.address % p = 0
    <3>1. r.address % Pow[r.bit + 1] = 0 /\ r.bit <= r.bit + 1
      BY <1>3, <1>4, PowType
    <3>. QED
      BY <1>3, <1>4, <3>1, PowMultiple
  <2>4. e % p = 0
    BY <1>3, <1>4, <2>3, SumOfMultiples
  <2>5. k \in Block /\ OnSize(k)
    BY <1>4, <2>2, <2>4 DEF Block, OnSize
  <2>6. (r.size - p) % (2 * p) = 0 /\ r.size - p \in Nat
    BY <1>3, <1>4, <1>6, Parity
  <2>7. RangeAligned(q)
    BY <1>4, <2>6 DEF RangeAligned
  <2>8. q \in [address : Nat, size : Nat, bit : 0 .. LISTS, half : {"low", "high"}]
    BY <1>3, <1>4, <2>6 DEF Exponent
  <2>9. q # NothingLeft
    BY <1>5 DEF NothingLeft
  <2>10. HandUnits(k) = e .. e + p - 1
    BY <2>5, BlockType DEF HandUnits
  <2> DEFINE A == e .. e + p - 1
             B == r.address .. r.address + (r.size - p) - 1
  <2>11. A \cup B = RestUnits(c) /\ A \cap B = {}
    BY <1>3, <1>4, SMTT(30)
  <2>. QED
    <3>1. /\ HandUnits(k) \cup (q.address .. q.address + q.size - 1) = RestUnits(c)
          /\ HandUnits(k) \cap (q.address .. q.address + q.size - 1) = {}
      BY <2>10, <2>11
    <3> HIDE DEF q, k
    <3>. QED
      BY <1>1, <1>4, <2>1, <2>5, <2>7, <2>8, <2>9, <3>1, PieceKeeps
<1>7. CASE ~OddMultiple(r.size, r.bit)
  <2> DEFINE q == [address |-> r.address, size |-> r.size, bit |-> r.bit + 1, half |-> "low"]
  <2>1. blk' = [blk EXCEPT ![c] = NONE] /\ rest' = [rest EXCEPT ![c] = q]
    <3>1. blk' = blk /\ rest' = [rest EXCEPT ![c] = q]
      BY <1>7 DEF HighPiece
    <3>2. blk = [blk EXCEPT ![c] = NONE]
      BY <1>2, <1>4
    <3> HIDE DEF q
    <3>. QED
      BY <3>1, <3>2
  <2>2. r.size % (2 * p) = 0
    BY <1>3, <1>4, <1>7, Parity
  <2>3. RangeAligned(q)
    BY <1>4, <2>2 DEF RangeAligned
  <2>4. q \in [address : Nat, size : Nat, bit : 0 .. LISTS, half : {"low", "high"}]
    BY <1>3, <1>4 DEF Exponent
  <2>5. q # NothingLeft
    BY <1>5 DEF NothingLeft
  <2>6. /\ HandUnits(NONE) \cup (q.address .. q.address + q.size - 1) = RestUnits(c)
        /\ HandUnits(NONE) \cap (q.address .. q.address + q.size - 1) = {}
    BY <1>4 DEF HandUnits
  <2>. QED
    <3> HIDE DEF q
    <3>. QED
      BY <1>1, <1>4, <2>1, <2>3, <2>4, <2>5, <2>6, PieceKeeps
<1>. QED
  BY <1>6, <1>7

(* When the loop is at its end nothing is left of the range.                *)
LEMMA RangeAtEnd ==
  ASSUME MInv, NEW c \in CPU, blk[c] = NONE, ~Looping(c)
  PROVE  RestUnits(c) = {}
<1> DEFINE r == rest[c]
<1>1. MTypeOK /\ Divided(Held) /\ RangeAligned(r)
  BY DEF MInv, BlocksOnSize
<1>2. r.address \in Nat /\ r.size \in Nat /\ r.bit \in Exponent /\ r.size % Pow[r.bit] = 0
  BY <1>1, RangeType DEF RangeAligned
<1>3. Pow[r.bit] \in Nat /\ Pow[r.bit] >= 1
  BY <1>2, PowPositive
<1>4. r.size < Pow[r.bit] \/ r.bit = LISTS
  BY <1>2, <1>3, PowType DEF Looping, Exponent
<1>5. r.size <= LIMIT
  <2>1. r.address .. r.address + r.size - 1 \subseteq Address
    <3>1. <<"left", c>> \in Place /\ Held[<<"left", c>>] = RestUnits(c)
      BY HeldIs, Places
    <3>. QED
      BY <1>1, <3>1 DEF Divided, RestUnits
  <2>2. CASE r.size # 0
    <3>1. r.address \in Address /\ r.address + r.size - 1 \in Address
      BY <1>2, <2>1, <2>2
    <3>. QED
      BY <1>2, <3>1, MemoryAssumption DEF Address
  <2>. QED
    BY <1>2, <2>2, MemoryAssumption
<1>6. r.size < Pow[r.bit]
  BY <1>2, <1>3, <1>4, <1>5, MemoryAssumption
<1>7. r.size = 0
  BY <1>2, <1>3, <1>6, SumOfMultiples
<1>. QED
  BY <1>2, <1>7 DEF RestUnits

LEMMA NothingLeftIs ==
  /\ NothingLeft.address = 0 /\ NothingLeft.size = 0 /\ NothingLeft.bit = 0
  /\ RangeAligned(NothingLeft)
  /\ NothingLeft \in [address : Nat, size : Nat, bit : 0 .. LISTS, half : {"low", "high"}]
BY PowType DEF NothingLeft, RangeAligned, Exponent

LEMMA EndRangeKeeps ==
  ASSUME MInv, halted = -1, NEW c \in CPU, EndRange(c)
  PROVE  MInv'
<1> DEFINE k == keep[c]
<1>1. /\ blk[c] = NONE /\ ~Looping(c)
      /\ rest' = [rest EXCEPT ![c] = NothingLeft] /\ keep' = [keep EXCEPT ![c] = NONE]
      /\ owned' = owned \cup ({k} \ {NONE}) /\ up' = TRUE
      /\ UNCHANGED <<memoryBlocks, freeMemoryCounter, blk, halted>>
  BY DEF EndRange
<1>2. MTypeOK /\ Divided(Held) /\ k \in Block \cup {NONE} /\ (k # NONE => OnSize(k))
  BY DEF MInv, MTypeOK, BlocksOnSize, InHands
<1>3. RestUnits(c) = {}
  BY <1>1, RangeAtEnd
<1>4. /\ rest'[c] = NothingLeft /\ \A d \in CPU : d # c => rest'[d] = rest[d]
      /\ keep'[c] = NONE /\ \A d \in CPU : d # c => keep'[d] = keep[d]
  BY <1>1, <1>2 DEF MTypeOK
<1>5. RestUnits(c)' = {}
  BY <1>4, NothingLeftIs DEF RestUnits
<1> HIDE DEF k
<1>6. MTypeOK'
  <2>1. rest' \in [CPU -> [address : Nat, size : Nat, bit : 0 .. LISTS, half : {"low", "high"}]]
    BY <1>1, <1>2, NothingLeftIs DEF MTypeOK
  <2>2. owned' \in SUBSET Block
    BY <1>1, <1>2 DEF MTypeOK
  <2>. QED
    BY <1>1, <1>2, <2>1, <2>2 DEF MTypeOK
<1>7. Listed' = Listed
  BY <1>1 DEF Listed
<1>8. Divided(Held)'
  <2>1. CASE k = NONE
    <3>1. owned' = owned /\ keep' = keep
      BY <1>1, <1>2, <2>1 DEF k, MTypeOK
    <3>2. Elsewhere({})
      BY <1>1, <1>3, <1>4, <1>5, <1>7, <3>1 DEF Elsewhere, RestUnits
    <3>. QED
      BY <1>2, <3>2, Unmoved
  <2>2. CASE k # NONE
    <3>1. k \in Block /\ k[1] \in Units(k) /\ owned' = owned \cup {k}
      BY <1>1, <1>2, <2>2, BlockType
    <3>2. <<"kept", c>> \in Place /\ <<"owned", k>> \in Place /\ <<"kept", c>> # <<"owned", k>>
      BY <3>1, Places
    <3>3. HandUnits(NONE) = {} /\ HandUnits(k) = Units(k)
      BY <2>2 DEF HandUnits
    <3>4. Held[<<"kept", c>>] = Units(k) /\ Held'[<<"kept", c>>] = {}
      BY <1>4, <3>3, HeldIs, HeldIsNext DEF k
    <3>5. Held[<<"owned", k>>] = {} /\ Held'[<<"owned", k>>] = Units(k)
      <4>1. Held[<<"owned", k>>] \cap Units(k) = {}
        BY <1>2, <3>2, <3>4 DEF Divided
      <4>2. Held[<<"owned", k>>] = IF k \in owned THEN Units(k) ELSE {}
        BY <3>1, HeldIs
      <4>3. Held'[<<"owned", k>>] = IF k \in owned' THEN Units(k) ELSE {}
        BY <3>1, HeldIsNext
      <4>. QED
        BY <3>1, <4>1, <4>2, <4>3
    <3>6. Elsewhere({<<"kept", c>>, <<"owned", k>>})
      BY <1>1, <1>3, <1>4, <1>5, <1>7, <3>1 DEF Elsewhere, RestUnits
    <3>. QED
      BY <1>2, <3>2, <3>4, <3>5, <3>6, MovedTwo
  <2>. QED
    BY <2>1, <2>2
<1>9. BlocksOnSize'
  <2>1. \A b \in Listed' \cup owned' : OnSize(b)
    BY <1>1, <1>2, <1>7 DEF MInv, BlocksOnSize
  <2>2. ASSUME NEW d \in CPU PROVE RangeAligned(rest'[d]) /\ InHands(d)'
    BY <1>1, <1>4, NothingLeftIs DEF MInv, BlocksOnSize, InHands
  <2>. QED
    BY <2>1, <2>2 DEF BlocksOnSize, OnSize, RangeAligned
<1>10. Unmerged' /\ Counted' /\ Stopped'
  BY <1>1, <1>7 DEF MInv, Unmerged, Counted, Stopped, BuddyOf, Listing
<1>. QED
  BY <1>6, <1>8, <1>9, <1>10 DEF MInv

(***************************************************************************)
(* memory_alloc and its callers.                                            *)
(***************************************************************************)
(* What a call takes off a list is a listed block.                          *)
LEMMA HeadIsListed ==
  ASSUME MTypeOK, NEW b \in Bit, memoryBlocks[b] # {}
  PROVE  /\ Least(memoryBlocks[b]) \in memoryBlocks[b]
         /\ <<Least(memoryBlocks[b]), b>> \in Block /\ <<Least(memoryBlocks[b]), b>> \in Listed
<1>1. memoryBlocks[b] \in SUBSET Address
  BY DEF MTypeOK
<1>2. IsFiniteSet(memoryBlocks[b]) /\ memoryBlocks[b] \subseteq Int
  <2>1. IsFiniteSet(Address) /\ Address \subseteq Int
    BY AddressType
  <2>. QED
    BY ONLY <1>1, <2>1, FS_Subset
<1>3. Least(memoryBlocks[b]) \in memoryBlocks[b]
  BY <1>2, LeastIsLeast
<1>. QED
  BY <1>1, <1>3 DEF Listed, Block

LEMMA DetachKeeps ==
  ASSUME MInv, NEW k \in Bit, NEW a, Detach(a, k)
  PROVE  /\ <<a, k>> \in Block /\ <<a, k>> \in Listed /\ Listed' = Listed \ {<<a, k>>}
         /\ memoryBlocks' \in [Bit -> SUBSET Address] /\ freeMemoryCounter' \in Nat
         /\ Counted' /\ Unmerged'
<1> DEFINE l == <<a, k>>
<1>1. l \in Block /\ l \in Listed
  BY HeadIsListed DEF Detach, MInv
<1>2. memoryBlocks' = [memoryBlocks EXCEPT ![l[2]] = @ \ {l[1]}]
      /\ freeMemoryCounter' = freeMemoryCounter - Pow[l[2]]
  BY DEF Detach
<1> HIDE DEF l
<1>3. Listed' = Listed \ {l} /\ memoryBlocks' \in [Bit -> SUBSET Address]
  BY <1>1, <1>2, ListRemove DEF MInv, MTypeOK
<1>4. Counted' /\ freeMemoryCounter' \in Nat
  BY <1>1, <1>2, <1>3, CountRemoved DEF MInv
<1>5. Unmerged'
  BY <1>3 DEF MInv, Unmerged, BuddyOf
<1>. QED
  BY <1>1, <1>3, <1>4, <1>5 DEF l

(* What is in another place than a listed block is no unit of it.           *)
LEMMA NotOwned ==
  ASSUME MInv, NEW l \in Listed
  PROVE  l \notin owned
<1>1. l \in Block
  BY ListedApart DEF MInv
<1>2. /\ Held[<<"listed", l>>] = Units(l) /\ <<"listed", l>> \in Place /\ l[1] \in Units(l)
      /\ Held[<<"owned", l>>] = (IF l \in owned THEN Units(l) ELSE {}) /\ <<"owned", l>> \in Place
  BY <1>1, HeldIs, Places, BlockType
<1>3. Held[<<"listed", l>>] \cap Held[<<"owned", l>>] = {}
  BY <1>2 DEF MInv, Divided
<1>. QED
  BY <1>2, <1>3

LEMMA AllocExactKeeps ==
  ASSUME MInv, halted = -1, NEW c \in CPU, NEW b \in Bit, AllocExact(c, b)
  PROVE  MInv'
<1> DEFINE a == Least(memoryBlocks[b])
           l == <<a, b>>
<1>1. /\ Detach(a, b) /\ owned' = owned \cup {l}
      /\ UNCHANGED <<blk, rest, keep, up, halted>>
  BY DEF AllocExact
<1>2. /\ l \in Block /\ l \in Listed /\ Listed' = Listed \ {l}
      /\ memoryBlocks' \in [Bit -> SUBSET Address] /\ freeMemoryCounter' \in Nat
      /\ Counted' /\ Unmerged'
  BY <1>1, DetachKeeps
<1> HIDE DEF a, l
<1>3. MTypeOK'
  BY <1>1, <1>2 DEF MInv, MTypeOK
<1>4. Divided(Held)'
  <2>1. l \notin owned
    BY <1>2, NotOwned
  <2>2. /\ Held[<<"listed", l>>] = Units(l) /\ Held'[<<"listed", l>>] = {}
        /\ Held[<<"owned", l>>] = {} /\ Held'[<<"owned", l>>] = Units(l)
    BY <1>1, <1>2, <2>1, HeldIs, HeldIsNext
  <2>3. <<"listed", l>> \in Place /\ <<"owned", l>> \in Place /\ <<"listed", l>> # <<"owned", l>>
    BY <1>2, Places
  <2>4. Elsewhere({<<"listed", l>>, <<"owned", l>>})
    BY <1>1, <1>2 DEF Elsewhere, RestUnits
  <2>. QED
    BY <2>2, <2>3, <2>4, MovedTwo DEF MInv
<1>5. BlocksOnSize'
  BY <1>1, <1>2 DEF MInv, BlocksOnSize, RangeAligned, InHands, OnSize
<1>6. Stopped'
  BY <1>1 DEF Stopped
<1>. QED
  BY <1>2, <1>3, <1>4, <1>5, <1>6 DEF MInv

LEMMA AllocHaltKeeps ==
  ASSUME MInv, halted = -1, NEW c \in CPU, NEW b \in Bit, AllocHalt(c, b)
  PROVE  MInv'
<1>1. /\ Listing(b) = {} /\ halted' = b
      /\ UNCHANGED <<memoryBlocks, freeMemoryCounter, owned, blk, rest, keep, up>>
  BY DEF AllocHalt
<1>2. Listed' = Listed
  BY <1>1 DEF Listed
<1>3. MTypeOK'
  BY <1>1 DEF MInv, MTypeOK
<1>4. Divided(Held)'
  <2>1. Elsewhere({})
    BY <1>1, <1>2 DEF Elsewhere, RestUnits
  <2>. QED
    BY <2>1, Unmoved DEF MInv
<1>5. BlocksOnSize' /\ Unmerged' /\ Counted' /\ Stopped'
  BY <1>1, <1>2
     DEF MInv, BlocksOnSize, RangeAligned, InHands, OnSize, Unmerged, BuddyOf, Counted,
         Stopped, Listing
<1>. QED
  BY <1>3, <1>4, <1>5 DEF MInv

LEMMA FreeKeeps ==
  ASSUME MInv, halted = -1, NEW c \in CPU, NEW k \in owned, Free(c, k)
  PROVE  MInv'
<1>1. /\ blk[c] = NONE /\ owned' = owned \ {k} /\ blk' = [blk EXCEPT ![c] = k]
      /\ UNCHANGED <<memoryBlocks, freeMemoryCounter, rest, keep, up, halted>>
  BY DEF Free, Idle
<1>2. k \in Block /\ OnSize(k) /\ k # NONE /\ MTypeOK
  BY BlockType DEF MInv, MTypeOK, BlocksOnSize
<1>3. Listed' = Listed
  BY <1>1 DEF Listed
<1>4. blk'[c] = k /\ \A d \in CPU : d # c => blk'[d] = blk[d]
  BY <1>1, <1>2 DEF MTypeOK
<1>5. MTypeOK'
  BY <1>1, <1>2 DEF MTypeOK
<1>6. Divided(Held)'
  <2>1. HandUnits(k) = Units(k) /\ HandUnits(NONE) = {}
    BY <1>2 DEF HandUnits
  <2>2. /\ Held[<<"owned", k>>] = Units(k) /\ Held'[<<"owned", k>>] = {}
        /\ Held[<<"freed", c>>] = {} /\ Held'[<<"freed", c>>] = Units(k)
    BY <1>1, <1>2, <1>4, <2>1, HeldIs, HeldIsNext
  <2>3. <<"owned", k>> \in Place /\ <<"freed", c>> \in Place /\ <<"owned", k>> # <<"freed", c>>
    BY <1>2, Places
  <2>4. Elsewhere({<<"owned", k>>, <<"freed", c>>})
    BY <1>1, <1>3, <1>4 DEF Elsewhere, RestUnits
  <2>. QED
    BY <2>2, <2>3, <2>4, MovedTwo DEF MInv
<1>7. BlocksOnSize'
  BY <1>1, <1>2, <1>3, <1>4 DEF MInv, BlocksOnSize, RangeAligned, InHands, OnSize
<1>8. Unmerged' /\ Counted' /\ Stopped'
  BY <1>1, <1>3 DEF MInv, Unmerged, Counted, Stopped, BuddyOf, Listing
<1>. QED
  BY <1>5, <1>6, <1>7, <1>8 DEF MInv

LEMMA AllocSplitKeeps ==
  ASSUME MInv, halted = -1, NEW c \in CPU, NEW b \in Bit, AllocSplit(c, b)
  PROVE  MInv'
<1> DEFINE k == Least(Listing(b))
           a == Least(memoryBlocks[k])
           l == <<a, k>>
           i == <<a, b>>
           r == Span(a + Pow[b], Pow[k] - Pow[b])
<1>1. /\ Idle(c) /\ memoryBlocks[b] = {} /\ Listing(b) # {} /\ Detach(a, k)
      /\ keep' = [keep EXCEPT ![c] = i] /\ rest' = [rest EXCEPT ![c] = r]
      /\ UNCHANGED <<owned, blk, up, halted>>
  BY DEF AllocSplit
<1>2. k \in Listing(b)
  <2>1. b .. LISTS - 1 \subseteq Int /\ IsFiniteSet(b .. LISTS - 1)
    BY PowType, FS_Interval DEF Bit
  <2>2. Listing(b) \in SUBSET (b .. LISTS - 1)
    BY DEF Listing
  <2>3. IsFiniteSet(Listing(b)) /\ Listing(b) \subseteq Int
    BY ONLY <2>1, <2>2, FS_Subset
  <2>. QED
    BY <1>1, <2>3, LeastIsLeast
<1>3. k \in Bit /\ b < k /\ b <= k /\ b \in Exponent /\ k \in Exponent
  <2>1. k \in b .. LISTS - 1 /\ memoryBlocks[k] # {} /\ memoryBlocks[b] = {}
    BY <1>1, <1>2 DEF Listing
  <2> HIDE DEF k
  <2>2. k # b
    BY <2>1
  <2>. QED
    BY <2>1, <2>2, PowType DEF Bit
<1>4. /\ l \in Block /\ l \in Listed /\ Listed' = Listed \ {l}
      /\ memoryBlocks' \in [Bit -> SUBSET Address] /\ freeMemoryCounter' \in Nat
      /\ Counted' /\ Unmerged'
  BY <1>1, <1>3, DetachKeeps
<1>5. /\ Pow[b] \in Nat /\ Pow[b] >= 1 /\ Pow[k] \in Nat /\ 2 * Pow[b] <= Pow[k]
      /\ a \in Nat /\ a \in Address /\ Units(l) = a .. a + Pow[k] - 1
  <2>1. l[1] = a /\ l[2] = k
    OBVIOUS
  <2>2. 2 * Pow[b] <= Pow[k]
    BY <1>3, PowGrows
  <2>3. Pow[b] \in Nat /\ Pow[b] >= 1
    BY <1>3, PowPositive
  <2>. QED
    BY <1>4, <2>1, <2>2, <2>3, BlockType
<1>6. i \in Block /\ OnSize(i)
  <2>1. a % Pow[k] = 0
    BY <1>4 DEF MInv, BlocksOnSize, OnSize
  <2>2. a % Pow[b] = 0
    BY <1>3, <1>5, <2>1, PowMultiple
  <2>. QED
    BY <1>5, <2>2 DEF OnSize, Block
<1>7. /\ r = [address |-> a + Pow[b], size |-> Pow[k] - Pow[b], bit |-> 0, half |-> "low"]
      /\ r.size \in Nat /\ r.size # 0 /\ r.address \in Nat /\ r # NothingLeft
      /\ r \in [address : Nat, size : Nat, bit : 0 .. LISTS, half : {"low", "high"}]
  BY <1>5, PowType DEF Span, NothingLeft
<1>8. RangeAligned(r)
  <2>1. r.size % 1 = 0 /\ r.address % 1 = 0
    BY <1>7
  <2>. QED
    BY <1>7, <2>1, PowType DEF RangeAligned
<1>9. blk[c] = NONE /\ rest[c] = NothingLeft /\ keep[c] = NONE
  BY <1>1 DEF Idle, MInv, BlocksOnSize, InHands
<1>10. /\ HandUnits(i) = a .. a + Pow[b] - 1
       /\ r.address .. r.address + r.size - 1 = a + Pow[b] .. a + Pow[k] - 1
  <2>1. HandUnits(i) = Units(i) /\ Units(i) = i[1] .. i[1] + Pow[i[2]] - 1
    BY <1>6, BlockType DEF HandUnits
  <2>. QED
    BY <1>5, <1>7, <2>1, SMTT(30)
<1> DEFINE A == a .. a + Pow[b] - 1
           B == a + Pow[b] .. a + Pow[k] - 1
<1>11. A \cup B = Units(l) /\ A \cap B = {}
  BY <1>5, SMTT(30)
<1> HIDE DEF A, B
<1>12. /\ keep'[c] = i /\ \A d \in CPU : d # c => keep'[d] = keep[d]
       /\ rest'[c] = r /\ \A d \in CPU : d # c => rest'[d] = rest[d]
  BY <1>1 DEF MInv, MTypeOK
<1> HIDE DEF k, a, l, i, r
<1>13. MTypeOK'
  BY <1>1, <1>4, <1>6, <1>7 DEF MInv, MTypeOK
<1>14. Divided(Held)'
  <2>1. Held[<<"listed", l>>] = Units(l) /\ Held'[<<"listed", l>>] = {}
    BY <1>4, HeldIs, HeldIsNext
  <2>2. Held[<<"kept", c>>] = {} /\ Held'[<<"kept", c>>] = A
    <3>1. HandUnits(NONE) = {} /\ HandUnits(i) = A
      BY <1>10 DEF HandUnits, A
    <3>. QED
      BY <1>9, <1>12, <3>1, HeldIs, HeldIsNext
  <2>3. Held[<<"left", c>>] = {} /\ Held'[<<"left", c>>] = B
    <3>1. RestUnits(c) = {}
      BY <1>9, NothingLeftIs DEF RestUnits
    <3>2. RestUnits(c)' = B
      BY <1>10, <1>12 DEF RestUnits, B
    <3>. QED
      BY <3>1, <3>2, HeldIs, HeldIsNext
  <2>4. /\ <<"listed", l>> \in Place /\ <<"kept", c>> \in Place /\ <<"left", c>> \in Place
        /\ <<"listed", l>> # <<"kept", c>> /\ <<"listed", l>> # <<"left", c>>
        /\ <<"kept", c>> # <<"left", c>>
    BY <1>4, Places
  <2>5. Elsewhere({<<"listed", l>>, <<"kept", c>>, <<"left", c>>})
    BY <1>1, <1>4, <1>12 DEF Elsewhere, RestUnits
  <2>6. {} \cup A \cup B = Units(l) \cup {} \cup {}
    BY <1>11
  <2>. QED
    BY <1>11, <2>1, <2>2, <2>3, <2>4, <2>5, <2>6, MovedThree DEF MInv
<1>15. BlocksOnSize'
  <2>1. \A d \in Listed' \cup owned' : OnSize(d)
    BY <1>1, <1>4 DEF MInv, BlocksOnSize
  <2>2. ASSUME NEW d \in CPU PROVE RangeAligned(rest'[d]) /\ InHands(d)'
    <3>1. CASE d = c
      BY <1>1, <1>6, <1>7, <1>8, <1>9, <1>12, <3>1 DEF InHands, OnSize
    <3>2. CASE d # c
      BY <1>1, <1>12, <3>2 DEF MInv, BlocksOnSize, InHands
    <3>. QED
      BY <3>1, <3>2
  <2>. QED
    BY <2>1, <2>2 DEF BlocksOnSize, OnSize, RangeAligned
<1>16. Stopped'
  BY <1>1 DEF Stopped
<1>. QED
  BY <1>4, <1>13, <1>14, <1>15, <1>16 DEF MInv

(***************************************************************************)
(* The start: init_memory has all of the memory to free.                    *)
(***************************************************************************)
LEMMA StartHolds == MInit => MInv
<1> SUFFICES ASSUME MInit PROVE MInv
  OBVIOUS
<1>1. /\ memoryBlocks = [b \in Bit |-> {}] /\ freeMemoryCounter = 0 /\ owned = {}
      /\ blk = [c \in CPU |-> NONE] /\ keep = [c \in CPU |-> NONE]
      /\ rest = [c \in CPU |-> IF c = BOOT THEN Span(BASE, LIMIT) ELSE NothingLeft]
      /\ up = FALSE /\ halted = -1
  BY DEF MInit
<1>2. Listed = {}
  BY <1>1 DEF Listed
<1>3. /\ Span(BASE, LIMIT) = [address |-> BASE, size |-> LIMIT, bit |-> 0, half |-> "low"]
      /\ Span(BASE, LIMIT) \in [address : Nat, size : Nat, bit : 0 .. LISTS, half : {"low", "high"}]
      /\ RangeAligned(Span(BASE, LIMIT))
  BY MemoryAssumption, PowType DEF Span, RangeAligned
<1>4. MTypeOK
  <2>1. \A c \in CPU : rest[c] \in [address : Nat, size : Nat, bit : 0 .. LISTS,
                                    half : {"low", "high"}]
    BY <1>1, <1>3, NothingLeftIs
  <2>2. rest \in [CPU -> [address : Nat, size : Nat, bit : 0 .. LISTS, half : {"low", "high"}]]
    BY <1>1, <2>1
  <2>. QED
    BY <1>1, <2>2 DEF MTypeOK
<1>5. /\ \A k \in Block : Held[<<"listed", k>>] = {} /\ Held[<<"owned", k>>] = {}
      /\ \A c \in CPU : Held[<<"freed", c>>] = {} /\ Held[<<"kept", c>>] = {}
      /\ \A c \in CPU : Held[<<"left", c>>] = IF c = BOOT THEN Address ELSE {}
  <2>1. \A c \in CPU : HandUnits(blk[c]) = {} /\ HandUnits(keep[c]) = {}
    BY <1>1 DEF HandUnits
  <2>2. \A c \in CPU : RestUnits(c) = IF c = BOOT THEN Address ELSE {}
    BY <1>1, <1>3, NothingLeftIs DEF RestUnits, Address
  <2>. QED
    BY <1>1, <1>2, <2>1, <2>2, HeldIs
<1>6. Divided(Held)
  <2>1. \A p \in Place : p # <<"left", BOOT>> => Held[p] = {}
    BY <1>5, Places
  <2>2. <<"left", BOOT>> \in Place /\ Held[<<"left", BOOT>>] = Address
    BY <1>5, Places, MemoryAssumption
  <2>. QED
    BY <2>1, <2>2 DEF Divided
<1>7. BlocksOnSize
  BY <1>1, <1>2, <1>3, NothingLeftIs DEF BlocksOnSize, InHands
<1>8. Unmerged /\ Stopped
  BY <1>1, <1>2 DEF Unmerged, Stopped
<1>9. Counted
  <2>1. Covers(Listed) = {}
    BY <1>2 DEF Covers
  <2>. QED
    BY <1>1, <2>1, FS_EmptySet DEF Counted
<1>. QED
  BY <1>4, <1>6, <1>7, <1>8, <1>9 DEF MInv

LEMMA StutterKeeps == MInv /\ UNCHANGED mvars => MInv'
<1> SUFFICES ASSUME MInv, UNCHANGED mvars PROVE MInv'
  OBVIOUS
<1>1. UNCHANGED <<memoryBlocks, freeMemoryCounter, owned, blk, rest, keep, up, halted>>
  BY DEF mvars
<1>2. Listed' = Listed
  BY <1>1 DEF Listed
<1>3. Divided(Held)'
  <2>1. Elsewhere({})
    BY <1>1, <1>2 DEF Elsewhere, RestUnits
  <2>. QED
    BY <2>1, Unmoved DEF MInv
<1>4. MTypeOK' /\ BlocksOnSize' /\ Unmerged' /\ Counted' /\ Stopped'
  BY <1>1, <1>2
     DEF MInv, MTypeOK, BlocksOnSize, RangeAligned, InHands, OnSize, Unmerged, BuddyOf,
         Counted, Stopped, Listing
<1>. QED
  BY <1>3, <1>4 DEF MInv

LEMMA StepKeeps == MInv /\ [MNext]_mvars => MInv'
<1> SUFFICES ASSUME MInv, [MNext]_mvars PROVE MInv'
  OBVIOUS
<1>1. ASSUME NEW c \in CPU, Step(c) PROVE MInv'
  BY <1>1, MergeKeeps, LinkKeeps, LowPieceKeeps, HighPieceKeeps, EndRangeKeeps DEF Step
<1>2. ASSUME NEW c \in CPU, Call(c) PROVE MInv'
  <2>1. halted = -1
    BY <1>2 DEF Call
  <2>2. CASE \E b \in Bit : AllocExact(c, b) \/ AllocSplit(c, b) \/ AllocHalt(c, b)
    BY <2>1, <2>2, AllocExactKeeps, AllocSplitKeeps, AllocHaltKeeps
  <2>3. CASE \E k \in owned : Free(c, k)
    BY <2>1, <2>3, FreeKeeps
  <2>. QED
    BY <1>2, <2>2, <2>3 DEF Call
<1>3. CASE UNCHANGED mvars
  BY <1>3, StutterKeeps
<1>. QED
  BY <1>1, <1>2, <1>3 DEF MNext

LEMMA MInvHolds == MSpec => []MInv
<1>1. MInit => MInv
  BY StartHolds
<1>2. MInv /\ [MNext]_mvars => MInv'
  BY StepKeeps
<1>. QED
  BY <1>1, <1>2, PTL DEF MSpec

(***************************************************************************)
(* What the invariant says of the memory.                                   *)
(***************************************************************************)
LEMMA Conserved == MInv => Conservation
<1> SUFFICES ASSUME MInv PROVE Conservation
  OBVIOUS
<1>1. \A p \in Place : Held[p] = Holds(p)
  BY DEF Held
<1>2. \A p \in Place : Holds(p) \subseteq Address
  BY <1>1 DEF MInv, Divided
<1>3. ASSUME NEW u \in Address
      PROVE  Cardinality({p \in Place : u \in Holds(p)}) = 1
  <2>1. PICK p \in Place : u \in Holds(p)
    BY <1>1 DEF MInv, Divided
  <2>2. \A q \in Place : u \in Holds(q) => q = p
    BY <1>1, <2>1 DEF MInv, Divided
  <2>3. {q \in Place : u \in Holds(q)} = {p}
    BY <2>1, <2>2
  <2>. QED
    BY <2>3, FS_Singleton
<1>. QED
  BY <1>2, <1>3 DEF MInv, Counted, Conservation

(* A block on its size that has a unit of a run on a lesser size has all.   *)
LEMMA Nested ==
  ASSUME NEW b \in Exponent, NEW d \in Exponent, b <= d,
         NEW a \in Nat, a % Pow[b] = 0, NEW x \in Nat, x % Pow[d] = 0,
         NEW u \in a .. a + Pow[b] - 1, u \in x .. x + Pow[d] - 1
  PROVE  a .. a + Pow[b] - 1 \subseteq x .. x + Pow[d] - 1
<1> DEFINE p == Pow[b]
           z == a \div p
           y == x \div p
<1>1. p \in Nat /\ p >= 1 /\ Pow[d] \in Nat
  BY PowPositive
<1>2. PICK m \in Nat : Pow[d] = m * p
  BY PowDivides
<1>3. z \in Nat /\ y \in Nat /\ a = z * p /\ x = y * p
  <2>1. x % p = 0
    BY PowMultiple
  <2>2. /\ z \in Nat /\ a = z * p + (a % p)
        /\ y \in Nat /\ x = y * p + (x % p)
    BY <1>1, Divide
  <2>. QED
    BY <1>1, <2>1, <2>2
<1>4. u \in Int /\ z * p <= u /\ u < z * p + p /\ y * p <= u /\ u < y * p + m * p
  BY <1>1, <1>2, <1>3
<1> HIDE DEF p, z, y
<1>5. y <= z
  <2>1. z + 1 <= y => z * p + p <= y * p
    <3>1. ASSUME z + 1 <= y PROVE z * p + p <= y * p
      <4>1. PICK t \in Nat : y = z + 1 + t
        BY <1>3, <3>1
      <4>2. y * p = z * p + p + t * p /\ t * p \in Nat
        BY <1>1, <1>3, <4>1
      <4>. QED
        BY <1>1, <1>3, <4>2
    <3>. QED
      BY <3>1
  <2>2. z * p \in Nat /\ y * p \in Nat
    BY <1>1, <1>3
  <2>. QED
    BY <1>1, <1>3, <1>4, <2>1, <2>2
<1>6. z + 1 <= y + m
  <2>1. ASSUME y + m <= z PROVE y * p + m * p <= z * p
    <3>1. PICK t \in Nat : z = y + m + t
      BY <1>2, <1>3, <2>1
    <3>2. z * p = y * p + m * p + t * p /\ t * p \in Nat
      BY <1>1, <1>2, <1>3, <3>1
    <3>. QED
      BY <1>1, <1>2, <1>3, <3>2
  <2>2. z * p \in Nat /\ y * p \in Nat /\ m * p \in Nat
    BY <1>1, <1>2, <1>3
  <2>. QED
    BY <1>1, <1>2, <1>3, <1>4, <2>1, <2>2
<1>7. y * p <= z * p /\ z * p + p <= y * p + m * p
  <2>1. PICK t \in Nat : z = y + t
    BY <1>3, <1>5
  <2>2. PICK w \in Nat : y + m = z + 1 + w
    BY <1>2, <1>3, <1>6
  <2>3. z * p = y * p + t * p /\ y * p + m * p = z * p + p + w * p
    <3>1. (y + m) * p = (z + 1 + w) * p
      BY <2>2
    <3>. QED
      BY <1>1, <1>2, <1>3, <2>1, <3>1
  <2>4. t * p \in Nat /\ w * p \in Nat /\ y * p \in Nat /\ z * p \in Nat /\ m * p \in Nat
    BY <1>1, <1>2, <1>3
  <2>. QED
    BY <1>1, <2>3, <2>4
<1>8. a >= x /\ a + p <= x + Pow[d]
  BY <1>2, <1>3, <1>7
<1>9. a .. a + p - 1 \subseteq x .. x + Pow[d] - 1
  BY <1>1, <1>8
<1>. QED
  BY <1>9 DEF p

(* A run on its size is half of the next, or the block that has it is no    *)
(* greater: it is the run.                                                  *)
LEMMA CoveringBlock ==
  ASSUME NEW b \in Bit, NEW a \in Nat, NEW k \in Block, Units(<<a, b>>) \subseteq Units(k)
  PROVE  k[2] >= b /\ (k[2] = b => k = <<a, b>>)
<1>1. /\ k[1] \in Nat /\ k[2] \in Exponent /\ Pow[k[2]] \in Nat /\ k = <<k[1], k[2]>>
      /\ Units(k) = k[1] .. k[1] + Pow[k[2]] - 1
  BY BlockType
<1>2. b \in Exponent /\ Pow[b] \in Nat /\ Pow[b] >= 1 /\ b \in Nat /\ k[2] \in Nat
  BY <1>1, PowType, PowPositive
<1>3. Units(<<a, b>>) = a .. a + Pow[b] - 1
  BY DEF Units
<1>4. a \in Units(k) /\ a + Pow[b] - 1 \in Units(k)
  BY <1>2, <1>3
<1>5. a >= k[1] /\ a + Pow[b] <= k[1] + Pow[k[2]]
  BY <1>1, <1>2, <1>4, SMTT(30)
<1>6. k[2] >= b
  <2>1. k[2] < b => 2 * Pow[k[2]] <= Pow[b]
    BY <1>1, <1>2, PowGrows
  <2>. QED
    BY <1>1, <1>2, <1>5, <2>1
<1>. QED
  BY <1>1, <1>2, <1>5, <1>6

Covered(b) ==
  \A a \in Aligned(b) : Units(<<a, b>>) \subseteq Covers(Listed) =>
    \E k \in Listed : Units(<<a, b>>) \subseteq Units(k)

LEMMA AlignedType ==
  ASSUME NEW b \in Bit, NEW a \in Aligned(b)
  PROVE  /\ a \in Nat /\ a \in Address /\ a % Pow[b] = 0 /\ <<a, b>> \in Block
         /\ Pow[b] \in Nat /\ Pow[b] >= 1 /\ b \in Exponent
         /\ Units(<<a, b>>) = a .. a + Pow[b] - 1 /\ Units(<<a, b>>) \subseteq Address
<1>1. a \in Address /\ a % Pow[b] = 0 /\ a + Pow[b] - 1 \in Address /\ a \in Nat
  BY AddressType DEF Aligned
<1>2. b \in Exponent /\ Pow[b] \in Nat /\ Pow[b] >= 1
  BY PowType, PowPositive
<1>3. <<a, b>> \in Block /\ Units(<<a, b>>) = a .. a + Pow[b] - 1
  BY <1>1 DEF Block, Units
<1>4. a .. a + Pow[b] - 1 \subseteq Address
  BY <1>1, <1>2, MemoryAssumption DEF Address
<1>. QED
  BY <1>1, <1>2, <1>3, <1>4

LEMMA CoveredUnits ==
  ASSUME 0 \in Bit PROVE Covered(0)
<1> SUFFICES ASSUME NEW a \in Aligned(0), Units(<<a, 0>>) \subseteq Covers(Listed)
             PROVE  \E k \in Listed : Units(<<a, 0>>) \subseteq Units(k)
  BY DEF Covered
<1>1. Units(<<a, 0>>) = {a}
  <2>1. a \in Nat /\ Units(<<a, 0>>) = a .. a + Pow[0] - 1
    BY AlignedType
  <2>. QED
    BY <2>1, PowType
<1>2. PICK k \in Listed : a \in Units(k)
  BY <1>1 DEF Covers
<1>. QED
  BY <1>1, <1>2

(* The two halves of a run are in blocks.  When neither has the other half  *)
(* as well, both are the halves: buddies, and both listed.                  *)
LEMMA CoveredTwice ==
  ASSUME MInv, NEW b \in Bit, b + 1 \in Bit, Covered(b)
  PROVE  Covered(b + 1)
<1> SUFFICES ASSUME NEW a \in Aligned(b + 1), Units(<<a, b + 1>>) \subseteq Covers(Listed)
             PROVE  \E k \in Listed : Units(<<a, b + 1>>) \subseteq Units(k)
  BY DEF Covered
<1> DEFINE p == Pow[b]
<1>1. /\ a \in Nat /\ a \in Address /\ a % (2 * p) = 0
      /\ p \in Nat /\ p >= 1 /\ Pow[b + 1] = 2 * p /\ b \in Exponent /\ b + 1 \in Exponent
      /\ Units(<<a, b + 1>>) = a .. a + 2 * p - 1 /\ Units(<<a, b + 1>>) \subseteq Address
      /\ Units(<<a, b>>) = a .. a + p - 1 /\ b \in Nat
  <2>1. /\ a \in Nat /\ a \in Address /\ a % Pow[b + 1] = 0
        /\ Units(<<a, b + 1>>) = a .. a + Pow[b + 1] - 1 /\ Units(<<a, b + 1>>) \subseteq Address
    BY AlignedType
  <2>. QED
    BY <2>1, PowType, PowPositive DEF Units
<1>2. /\ a % p = 0 /\ ~OddMultiple(a, b)
      /\ (a + p) % p = 0 /\ a + p \in Nat
  <2>1. a % p = 0
    BY <1>1, PowMultiple
  <2>2. ~OddMultiple(a, b)
    <3> DEFINE z == a \div (2 * p)
    <3>1. z \in Nat /\ a = z * (2 * p)
      <4>1. 2 * p \in Nat /\ 2 * p >= 1
        BY <1>1
      <4>2. z \in Nat /\ a = z * (2 * p) + (a % (2 * p))
        BY <1>1, <4>1, Divide
      <4>. QED
        BY <1>1, <4>1, <4>2
    <3> HIDE DEF z, p
    <3>2. a = (2 * z) * p /\ 2 * z \in Nat
      BY <1>1, <3>1
    <3>3. a \div p = 2 * z
      BY <1>1, <3>2, Multiples
    <3>4. (2 * z) % 2 = 0
      BY <3>1
    <3>. QED
      BY <3>3, <3>4 DEF OddMultiple, p
  <2> HIDE DEF p
  <2>3. p % p = 0
    BY <1>1
  <2>4. (a + p) % p = 0
    BY <1>1, <2>1, <2>3, SumOfMultiples
  <2>. QED
    BY <1>1, <2>1, <2>2, <2>4
<1>3. a \in Aligned(b) /\ a + p \in Aligned(b)
      /\ Units(<<a + p, b>>) = a + p .. a + 2 * p - 1
  <2>1. \A u \in a .. a + 2 * p - 1 : u \in Address
    BY <1>1
  <2>2. /\ a \in a .. a + 2 * p - 1 /\ a + p - 1 \in a .. a + 2 * p - 1
        /\ a + p \in a .. a + 2 * p - 1 /\ a + p + p - 1 \in a .. a + 2 * p - 1
        /\ a + p + p - 1 = a + 2 * p - 1
    BY <1>1, SMTT(30)
  <2>. QED
    BY <1>1, <1>2, <2>1, <2>2 DEF Aligned, Units
<1>4. /\ Units(<<a, b>>) \subseteq Units(<<a, b + 1>>)
      /\ Units(<<a + p, b>>) \subseteq Units(<<a, b + 1>>)
  <2> HIDE DEF p
  <2>1. a .. a + p - 1 \subseteq a .. a + 2 * p - 1
    BY <1>1
  <2>2. a + p .. a + 2 * p - 1 \subseteq a .. a + 2 * p - 1
    BY <1>1
  <2>. QED
    BY <1>1, <1>3, <2>1, <2>2
<1>5. PICK k \in Listed : Units(<<a, b>>) \subseteq Units(k)
  BY <1>3, <1>4 DEF Covered
<1>6. PICK l \in Listed : Units(<<a + p, b>>) \subseteq Units(l)
  BY <1>3, <1>4 DEF Covered
<1>7. k \in Block /\ l \in Block /\ OnSize(k) /\ OnSize(l)
  BY ListedApart DEF MInv, BlocksOnSize
<1>8. /\ k[2] >= b /\ (k[2] = b => k = <<a, b>>)
      /\ l[2] >= b /\ (l[2] = b => l = <<a + p, b>>)
  BY <1>1, <1>2, <1>5, <1>6, <1>7, CoveringBlock
<1>9. ASSUME NEW m \in Listed, m \in Block, OnSize(m), m[2] # b, m[2] >= b,
             NEW u \in Units(<<a, b + 1>>), u \in Units(m)
      PROVE  Units(<<a, b + 1>>) \subseteq Units(m)
  <2> DEFINE x == m[1]
             d == m[2]
             e == b + 1
  <2>1. /\ x \in Nat /\ d \in Exponent /\ d \in Nat
        /\ Units(m) = x .. x + Pow[d] - 1 /\ x % Pow[d] = 0
    BY <1>9, BlockType, PowType DEF OnSize
  <2>2. e \in Exponent /\ e <= d
    BY <1>1, <1>9, <2>1
  <2>3. a \in Nat /\ a % Pow[e] = 0 /\ Units(<<a, b + 1>>) = a .. a + Pow[e] - 1
    BY <1>1
  <2>4. u \in a .. a + Pow[e] - 1 /\ u \in x .. x + Pow[d] - 1
    BY <1>9, <2>1, <2>3
  <2> HIDE DEF x, d, e
  <2>5. a .. a + Pow[e] - 1 \subseteq x .. x + Pow[d] - 1
    BY <2>1, <2>2, <2>3, <2>4, Nested
  <2>. QED
    BY <2>1, <2>3, <2>5
<1>10. /\ a \in Units(<<a, b>>) /\ a \in Units(<<a, b + 1>>)
       /\ a + p \in Units(<<a + p, b>>) /\ a + p \in Units(<<a, b + 1>>)
  BY <1>1, <1>3
<1>11. CASE k[2] # b
  BY <1>5, <1>7, <1>8, <1>9, <1>10, <1>11
<1>12. CASE l[2] # b
  BY <1>6, <1>7, <1>8, <1>9, <1>10, <1>12
<1>13. CASE k[2] = b /\ l[2] = b
  <2>1. <<BuddyOf(k), k[2]>> = l
    BY <1>2, <1>8, <1>13 DEF BuddyOf
  <2>. QED
    BY <2>1 DEF MInv, Unmerged
<1>. QED
  BY <1>11, <1>12, <1>13

LEMMA MergedAll == MInv => Coalesced
<1> SUFFICES ASSUME MInv PROVE Coalesced
  OBVIOUS
<1> DEFINE S == {b \in Exponent : b \in Bit => Covered(b)}
<1>1. 0 \in S
  BY PowType, CoveredUnits
<1>2. \A b \in Bit : b \in S => b + 1 \in S
  BY PowType, CoveredTwice
<1>3. Exponent \subseteq S
  <2> HIDE DEF S
  <2>. QED
    BY <1>1, <1>2, ExponentInduction
<1>4. \A b \in Bit : Covered(b)
  BY <1>3, PowType
<1>. QED
  BY <1>4 DEF Covered, Coalesced

LEMMA StopsForCause == MInv => OutOfMemoryIsReal
<1> SUFFICES ASSUME MInv, halted # -1, \A c \in CPU : Idle(c), NEW a \in Aligned(halted)
             PROVE  Units(<<a, halted>>) \cap Covers(owned) # {}
  BY DEF OutOfMemoryIsReal
<1>1. halted \in Bit /\ Listing(halted) = {}
  BY DEF MInv, MTypeOK, Stopped
<1>2. /\ a \in Nat /\ <<a, halted>> \in Block /\ Units(<<a, halted>>) \subseteq Address
  BY <1>1, AlignedType
<1>3. ~(Units(<<a, halted>>) \subseteq Covers(Listed))
  <2>1. ASSUME NEW k \in Listed, Units(<<a, halted>>) \subseteq Units(k) PROVE FALSE
    <3>1. k \in Block
      BY ListedApart DEF MInv
    <3>2. k[2] >= halted /\ k[2] \in Bit /\ k[1] \in memoryBlocks[k[2]]
      BY <1>1, <1>2, <2>1, <3>1, CoveringBlock, BlockType, ListedIs
    <3>3. k[2] \in halted .. LISTS - 1
      BY <1>1, <3>2, PowType DEF Bit
    <3>. QED
      BY <1>1, <3>2, <3>3 DEF Listing
  <2>. QED
    BY <1>1, <2>1, MergedAll DEF Coalesced
<1>4. PICK u \in Units(<<a, halted>>) : u \in Address /\ u \notin Covers(Listed)
  BY <1>2, <1>3
<1>5. PICK p \in Place : u \in Held[p]
  BY <1>4 DEF MInv, Divided
<1>6. \A c \in CPU : /\ Held[<<"freed", c>>] = {} /\ Held[<<"kept", c>>] = {}
                     /\ Held[<<"left", c>>] = {}
  <2>1. ASSUME NEW c \in CPU
        PROVE  HandUnits(blk[c]) = {} /\ HandUnits(keep[c]) = {} /\ RestUnits(c) = {}
    <3>1. blk[c] = NONE /\ rest[c] = NothingLeft
      BY DEF Idle
    <3>2. keep[c] = NONE
      BY <3>1 DEF MInv, BlocksOnSize, InHands
    <3>. QED
      BY <3>1, <3>2, NothingLeftIs DEF HandUnits, RestUnits
  <2>. QED
    BY <2>1, HeldIs
<1>7. PICK k \in Block : p = <<"listed", k>> \/ p = <<"owned", k>>
  BY <1>5, <1>6, Places
<1>8. CASE p = <<"listed", k>>
  <2>1. k \in Listed /\ u \in Units(k)
    BY <1>5, <1>8, HeldIs
  <2>. QED
    BY <1>4, <2>1 DEF Covers
<1>9. CASE p = <<"owned", k>>
  <2>1. k \in owned /\ u \in Units(k)
    BY <1>5, <1>9, HeldIs
  <2>. QED
    BY <1>4, <2>1 DEF Covers
<1>. QED
  BY <1>7, <1>8, <1>9

(* No call of memory_alloc or memory_free, and no two calls that interleave *)
(* at the lock, lose a unit of memory or leave it in two places: each is in *)
(* a list, with one owner, or in the hands of one processor, and            *)
(* freeMemoryCounter is the number of those in the lists.                   *)
THEOREM MemoryIsConserved == MSpec => []Conservation
BY MInvHolds, Conserved, PTL

(* memory_block_free merges all that can be: what is listed and could be    *)
(* one block is inside one block, at each moment.                           *)
THEOREM MemoryIsMerged == MSpec => []Coalesced
BY MInvHolds, MergedAll, PTL

(* When memory_alloc stops the system, and no other call is under way, then *)
(* no order of merges would have helped: each run that could be the block   *)
(* has a unit that an owner holds.                                          *)
THEOREM StopIsForLackOfMemory == MSpec => []OutOfMemoryIsReal
BY MInvHolds, StopsForCause, PTL


(***************************************************************************)
(* The ring.                                                                *)
(***************************************************************************)
LEMMA Indices ==
  ASSUME RInv
  PROVE  /\ MAX_MESSAGE_COUNT \in Nat /\ MAX_MESSAGE_COUNT > 0
         /\ msgHead \in Nat /\ msgHead < MAX_MESSAGE_COUNT
         /\ msgTail \in Nat /\ msgTail < MAX_MESSAGE_COUNT
         /\ msgCount \in Nat /\ msgCount <= MAX_MESSAGE_COUNT
         /\ messages \in [Slot -> Message]
         /\ \A i \in 1 .. MAX_MESSAGE_COUNT : At(i) \in Slot
  BY RingAssumption DEF RInv, TypeOK, Slot, At

LEMMA QueueType ==
  ASSUME RInv PROVE Queue \in Seq(Message) /\ Len(Queue) = msgCount
<1>1. \A i \in 1 .. msgCount : messages[At(i)] \in Message
  BY Indices
<1>. QED
  BY <1>1, Indices DEF Queue

LEMMA QueueTypeNext ==
  ASSUME RInv' PROVE Queue' \in Seq(Message) /\ Len(Queue') = msgCount'
<1>1. /\ messages' \in [Slot -> Message] /\ msgCount' \in Nat
      /\ \A i \in 1 .. msgCount' : At(i)' \in Slot
  <2>1. /\ messages' \in [Slot -> Message]
        /\ msgCount' \in Nat /\ msgCount' <= MAX_MESSAGE_COUNT
        /\ msgTail' \in Nat /\ msgTail' < MAX_MESSAGE_COUNT
    BY RingAssumption DEF RInv, TypeOK, Slot
  <2>2. ASSUME NEW i \in 1 .. msgCount' PROVE At(i)' \in Slot
    <3> DEFINE n == msgTail'
    <3>1. /\ i \in Nat /\ i > 0 /\ i <= MAX_MESSAGE_COUNT /\ MAX_MESSAGE_COUNT \in Nat
          /\ n \in Nat /\ n < MAX_MESSAGE_COUNT
      BY <2>1, RingAssumption
    <3>2. At(i)' = IF n + i - 1 < MAX_MESSAGE_COUNT THEN n + i - 1
                   ELSE n + i - 1 - MAX_MESSAGE_COUNT
      BY DEF At
    <3> HIDE DEF n
    <3>3. CASE n + i - 1 < MAX_MESSAGE_COUNT
      BY <3>1, <3>2, <3>3 DEF Slot
    <3>4. CASE ~(n + i - 1 < MAX_MESSAGE_COUNT)
      BY <3>1, <3>2, <3>4 DEF Slot
    <3>. QED
      BY <3>3, <3>4
  <2>. QED
    BY <2>1, <2>2
<1>2. \A i \in 1 .. msgCount' : messages'[At(i)'] \in Message
  BY <1>1
<1>. QED
  BY <1>1, <1>2 DEF Queue

(* Taking the slot at the tail, whichever of the two wraps is used.         *)
LEMMA TakeOne ==
  ASSUME RInv, msgCount # 0, out' = messages[msgTail],
         msgTail' = Advance(msgTail, MAX_MESSAGE_COUNT), msgCount' = msgCount - 1,
         UNCHANGED <<messages, msgHead, alive>>
  PROVE  RInv' /\ F!Take
<1>1. RInv'
  <2>1. messages[msgTail] \in Message
    BY Indices DEF Slot
  <2>2. msgTail' \in Slot /\ msgCount' \in 0 .. MAX_MESSAGE_COUNT
    BY Indices DEF Advance, Slot
  <2>3. CountFits'
    BY Indices DEF RInv, CountFits, Advance
  <2>. QED
    BY <2>1, <2>2, <2>3 DEF RInv, TypeOK
<1>2. At(1) = msgTail /\ Queue # <<>> /\ Queue[1] = messages[msgTail]
  BY Indices DEF At, Queue
<1>3. out' = Head(Queue)
  BY <1>2, QueueType
<1>4. \A i \in 1 .. msgCount - 1 : At(i)' = At(i + 1)
  BY Indices DEF At, Advance
<1>5. Queue' = Tail(Queue)
  <2>1. Queue' \in Seq(Message) /\ Len(Queue') = msgCount - 1
    BY <1>1, QueueTypeNext
  <2>2. /\ Tail(Queue) \in Seq(Message) /\ Len(Tail(Queue)) = msgCount - 1
        /\ \A i \in 1 .. msgCount - 1 : Tail(Queue)[i] = Queue[i + 1]
    BY <1>2, QueueType, HeadTailProperties
  <2>3. \A i \in 1 .. msgCount - 1 : Queue'[i] = messages[At(i + 1)]
    BY <1>4 DEF Queue
  <2>4. \A i \in 1 .. msgCount - 1 : Queue[i + 1] = messages[At(i + 1)]
    BY Indices DEF Queue
  <2>. QED
    BY <2>1, <2>2, <2>3, <2>4, SeqEqual
<1>. QED
  BY <1>1, <1>2, <1>3, <1>5 DEF F!Take

LEMMA PutOne ==
  ASSUME RInv, NEW m \in Message, Put(m) PROVE RInv' /\ F!Put(m)
<1>1. /\ msgCount < MAX_MESSAGE_COUNT /\ alive
      /\ messages' = [messages EXCEPT ![msgHead] = m]
      /\ msgHead' = Advance(msgHead, MAX_MESSAGE_COUNT)
      /\ msgCount' = msgCount + 1
      /\ UNCHANGED <<msgTail, out, alive>>
  BY DEF Put
<1>2. RInv'
  <2>1. messages' \in [Slot -> Message]
    BY <1>1, Indices
  <2>2. msgHead' \in Slot /\ msgCount' \in 0 .. MAX_MESSAGE_COUNT
    BY <1>1, Indices DEF Advance, Slot
  <2>3. CountFits'
    BY <1>1, Indices DEF RInv, CountFits, Advance
  <2>. QED
    BY <1>1, <2>1, <2>2, <2>3, Indices DEF RInv, TypeOK
<1>3. At(msgCount + 1) = msgHead
  BY <1>1, Indices DEF RInv, CountFits, At
<1>4. \A i \in 1 .. msgCount : At(i) # msgHead
  BY <1>1, Indices DEF RInv, CountFits, At
<1>5. \A i \in 1 .. msgCount + 1 : messages'[At(i)'] = IF i = msgCount + 1 THEN m ELSE Queue[i]
  <2>1. SUFFICES ASSUME NEW i \in 1 .. msgCount + 1
                 PROVE  messages'[At(i)'] = IF i = msgCount + 1 THEN m ELSE Queue[i]
    OBVIOUS
  <2>2. At(i)' = At(i)
    BY <1>1 DEF At
  <2>3. At(i) \in Slot /\ (i # msgCount + 1 => i \in 1 .. msgCount)
    BY <1>1, Indices DEF At, Slot
  <2>4. CASE i = msgCount + 1
    BY <1>1, <1>3, <2>2, <2>3, <2>4, Indices
  <2>5. CASE i # msgCount + 1
    <3>1. At(i) # msgHead /\ Queue[i] = messages[At(i)]
      BY <1>4, <2>3, <2>5 DEF Queue
    <3>. QED
      BY <1>1, <2>2, <2>3, <2>5, <3>1, Indices
  <2>. QED
    BY <2>4, <2>5
<1>6. Queue' = Append(Queue, m)
  <2>1. Queue' \in Seq(Message) /\ Len(Queue') = msgCount + 1
    BY <1>1, <1>2, QueueTypeNext
  <2>2. \A i \in 1 .. msgCount + 1 : Queue'[i] = IF i = msgCount + 1 THEN m ELSE Queue[i]
    BY <1>1, <1>5 DEF Queue
  <2>3. /\ Append(Queue, m) \in Seq(Message) /\ Len(Append(Queue, m)) = msgCount + 1
        /\ \A i \in 1 .. msgCount + 1 :
              Append(Queue, m)[i] = IF i = msgCount + 1 THEN m ELSE Queue[i]
    BY QueueType, AppendProperties
  <2>. QED
    BY <2>1, <2>2, <2>3, SeqEqual
<1>7. Len(Queue) < MAX_MESSAGE_COUNT
  BY <1>1, QueueType
<1>. QED
  BY <1>1, <1>2, <1>6, <1>7 DEF F!Put

(* Every operation keeps the pointers right and is a step of the queue.     *)
LEMMA StepMaps ==
  ASSUME RInv, [RNext]_rvars PROVE RInv' /\ [F!FNext]_(F!fvars)
<1>1. ASSUME NEW m \in Message, Put(m) PROVE RInv' /\ [F!FNext]_(F!fvars)
  BY <1>1, PutOne DEF F!FNext
<1>2. CASE Take
  BY <1>2, TakeOne DEF Take, F!FNext
<1>3. CASE Recycle
  BY <1>3, TakeOne, SameSizeAssumption DEF Recycle, F!FNext
<1>4. CASE Dispose
  <2>1. Queue' = Queue
    BY <1>4 DEF Dispose, Queue, At
  <2>2. RInv'
    BY <1>4 DEF Dispose, RInv, TypeOK, CountFits
  <2>. QED
    BY <1>4, <2>1, <2>2 DEF Dispose, F!FNext, F!Close
<1>5. CASE Renew
  <2>1. RInv'
    BY <1>5, RingAssumption DEF Renew, RInv, TypeOK, CountFits, Slot
  <2>2. Queue = <<>> /\ Queue' = <<>>
    BY <1>5 DEF Renew, Queue
  <2>. QED
    BY <1>5, <2>1, <2>2 DEF Renew, F!FNext, F!Reopen
<1>6. CASE UNCHANGED rvars
  BY <1>6 DEF rvars, RInv, TypeOK, CountFits, F!fvars, Queue, At
<1>. QED
  BY <1>1, <1>2, <1>3, <1>4, <1>5, <1>6 DEF RNext

LEMMA RingStart == RInit => RInv /\ F!FInit
  BY RingAssumption DEF RInit, RInv, TypeOK, CountFits, Slot, F!FInit, Queue

(* The two pointers and the count always agree.                             *)
THEOREM PointersAgree == RSpec => [](TypeOK /\ CountFits)
<1>1. RInv <=> TypeOK /\ CountFits
  BY DEF RInv
<1>. QED
  BY <1>1, RingStart, StepMaps, PTL DEF RSpec

(* The ring of messages[] is a FIFO that loses, repeats and reorders        *)
(* nothing, for every MAX_MESSAGE_COUNT that equals KB_BUFFER_SIZE.         *)
THEOREM RingImplementsFifo == RSpec => RingIsFifo
<1>1. RInit => F!FInit
  BY RingStart
<1>2. RInv /\ [RNext]_rvars => [F!FNext]_(F!fvars)
  BY StepMaps
<1>3. RSpec => []RInv
  BY RingStart, StepMaps, PTL DEF RSpec
<1>. QED
  BY <1>1, <1>2, <1>3, PTL DEF RSpec, RingIsFifo, F!FSpec

(***************************************************************************)
(* The lists.  LInv is inductive: numbers are unique, the list is well      *)
(* linked and in their order, and both walks find what they look for.       *)
(***************************************************************************)
LEMMA StartLInv == LInit => LInv
<1>1. LInit => LTypeOK
  BY HeadAssumption, FirstAssumption DEF LInit, LTypeOK, Link
<1>2. LInit => Unique /\ Linked /\ Ascending /\ WalkKnows
  BY HeadAssumption DEF LInit, Unique, Linked, Ascending, WalkKnows, Link
<1>. QED
  BY <1>1, <1>2 DEF LInv

(* Removing a structure joins its neighbours.                               *)
LEMMA HideStep ==
  ASSUME LInv, NEW n \in Node, Hide(n) PROVE LInv'
<1>0. /\ pc = "idle" /\ n \in live /\ n # HEAD
      /\ next' = [next EXCEPT ![prev[n]] = next[n]]
      /\ prev' = [prev EXCEPT ![next[n]] = prev[n]]
      /\ live' = live \ {n}
      /\ UNCHANGED <<id, pc, node, entry, num, found>>
  BY HeadAssumption DEF Hide
<1>1. LTypeOK /\ Unique /\ Linked /\ Ascending
  BY DEF LInv
<1>2. /\ next[n] \in live \cup {HEAD} /\ prev[n] \in live \cup {HEAD}
      /\ prev[next[n]] = n /\ next[prev[n]] = n
      /\ live \subseteq Node /\ next \in [Link -> Link] /\ prev \in [Link -> Link]
      /\ next[n] \in Link /\ prev[n] \in Link /\ n \in Link
  BY <1>0, <1>1 DEF Linked, LTypeOK, Link
<1>3. LTypeOK'
  BY <1>0, <1>1, <1>2 DEF LTypeOK
<1>4. next[n] # n /\ prev[n] # n
  BY <1>0, <1>1, <1>2 DEF Ascending, LTypeOK
<1>5. Linked'
  BY <1>0, <1>1, <1>2, <1>4 DEF Linked, Link
<1>6. Ascending'
  <2> SUFFICES ASSUME NEW m \in live' \cup {HEAD}
               PROVE  /\ m # HEAD => id[m] >= FIRST
                      /\ m # HEAD /\ next'[m] # HEAD => id[m] < id[next'[m]]
                      /\ \A k \in live' : \/ m # HEAD /\ id[k] <= id[m]
                                          \/ next'[m] # HEAD /\ id[next'[m]] <= id[k]
    BY <1>0 DEF Ascending
  <2>1. m \in live \cup {HEAD} /\ m # n /\ m \in Link
    BY <1>0, <1>2 DEF Link
  <2>2. CASE m # prev[n]
    <3>1. next'[m] = next[m]
      BY <1>0, <1>2, <2>1, <2>2
    <3>. QED
      BY <1>0, <1>1, <2>1, <3>1 DEF Ascending
  <2>3. CASE m = prev[n]
    <3>1. next'[m] = next[n] /\ next[m] = n
      BY <1>0, <1>2, <2>3
    <3>2. id \in [Node -> Nat] /\ FIRST \in Nat
      BY <1>1, FirstAssumption DEF LTypeOK
    <3>3. m # HEAD => id[m] >= FIRST /\ id[m] < id[n] /\ id[m] \in Nat
      BY <1>0, <1>1, <1>2, <2>1, <3>1, <3>2 DEF Ascending
    <3>4. next[n] # HEAD => id[n] < id[next[n]] /\ id[next[n]] \in Nat
      BY <1>0, <1>1, <1>2, <3>2 DEF Ascending
    <3>5. ASSUME NEW k \in live'
          PROVE  \/ m # HEAD /\ id[k] <= id[m]
                 \/ next[n] # HEAD /\ id[next[n]] <= id[k]
      <4>1. k \in live /\ k # n /\ id[k] \in Nat /\ id[k] # id[n] /\ id[n] \in Nat
        BY <1>0, <1>1, <1>2, <3>2 DEF Unique
      <4>2. (m # HEAD /\ id[k] <= id[m]) \/ id[n] <= id[k]
        BY <1>1, <2>1, <3>1, <4>1 DEF Ascending
      <4>3. id[k] <= id[n] \/ (next[n] # HEAD /\ id[next[n]] <= id[k])
        BY <1>0, <1>1, <4>1 DEF Ascending
      <4>. QED
        BY <4>1, <4>2, <4>3
    <3>. QED
      BY <3>1, <3>2, <3>3, <3>4, <3>5, <1>2
  <2>. QED
    BY <2>2, <2>3
<1>7. Unique' /\ WalkKnows'
  BY <1>0, <1>1 DEF Unique, WalkKnows
<1>. QED
  BY <1>3, <1>5, <1>6, <1>7 DEF LInv
-----------------------------------------------------------------------------
(* Where the walk for a free number stops: the number is free, and the new  *)
(* structure belongs right before the entry it stopped at.                  *)
LEMMA StopsAtGap ==
  ASSUME LInv, pc = "insert", ~AtNum
  PROVE  /\ num \notin Ids
         /\ FIRST .. num - 1 \subseteq Ids
         /\ num \in Nat /\ num >= FIRST
         /\ entry \in live \cup {HEAD} /\ prev[entry] \in live \cup {HEAD}
         /\ next[prev[entry]] = entry
         /\ prev[entry] # HEAD => id[prev[entry]] < num
         /\ entry # HEAD => num < id[entry]
         /\ \A k \in live : /\ id[k] \in Nat
                            /\ (prev[entry] # HEAD /\ id[k] <= id[prev[entry]]) \/ (entry # HEAD /\ id[entry] <= id[k])
<1>1. LTypeOK /\ Linked /\ Ascending /\ WalkKnows
  BY DEF LInv
<1>2. /\ entry \in live \cup {HEAD} /\ num >= FIRST /\ num \in Nat /\ FIRST \in Nat
      /\ FIRST .. num - 1 \subseteq Ids
      /\ IF prev[entry] = HEAD THEN num = FIRST ELSE id[prev[entry]] = num - 1
  BY <1>1, FirstAssumption DEF WalkKnows, LTypeOK
<1>3. prev[entry] \in live \cup {HEAD} /\ next[prev[entry]] = entry
  BY <1>1, <1>2 DEF Linked
<1>4. \A k \in live : id[k] \in Nat /\ id[k] >= FIRST
  BY <1>1, HeadAssumption DEF LTypeOK, Ascending
<1>5. /\ prev[entry] # HEAD => id[prev[entry]] < num
      /\ prev[entry] # HEAD /\ entry # HEAD => id[prev[entry]] < id[entry]
  BY <1>1, <1>2, <1>3, <1>4 DEF Ascending
<1>6. entry # HEAD => num < id[entry]
  <2>1. entry # HEAD => id[entry] # num /\ id[entry] \in Nat /\ id[entry] >= FIRST
    BY <1>2, <1>4 DEF AtNum
  <2>. QED
    BY <2>1, <1>2, <1>3, <1>4, <1>5
<1>7. \A k \in live : /\ id[k] \in Nat
                      /\ (prev[entry] # HEAD /\ id[k] <= id[prev[entry]]) \/ (entry # HEAD /\ id[entry] <= id[k])
  BY <1>1, <1>3, <1>4 DEF Ascending
<1>8. num \notin Ids
  <2> SUFFICES ASSUME NEW k \in live PROVE id[k] # num
    BY DEF Ids
  <2>. QED
    BY <1>2, <1>3, <1>4, <1>5, <1>6, <1>7
<1>. QED
  BY <1>2, <1>3, <1>5, <1>6, <1>7, <1>8

LEMMA LinkStep ==
  ASSUME LInv, LinkNew PROVE LInv'
<1> DEFINE p == prev[entry]
<1>0. /\ pc = "insert" /\ ~AtNum
      /\ id' = [id EXCEPT ![node] = num]
      /\ next' = [next EXCEPT ![p] = node, ![node] = entry]
      /\ prev' = [prev EXCEPT ![node] = p, ![entry] = node]
      /\ live' = live \cup {node}
      /\ pc' = "idle" /\ node' = HEAD /\ entry' = HEAD /\ num' = FIRST /\ found' = found
  BY DEF LinkNew, InsertBefore, Done
<1>1. LTypeOK /\ Unique /\ Linked /\ Ascending /\ node \in Node \ live
  BY <1>0 DEF LInv, WalkKnows
<1>2. /\ num \notin Ids /\ num \in Nat /\ num >= FIRST
      /\ entry \in live \cup {HEAD} /\ p \in live \cup {HEAD} /\ next[p] = entry
      /\ p # HEAD => id[p] < num
      /\ entry # HEAD => num < id[entry]
      /\ \A k \in live : /\ id[k] \in Nat
                         /\ (p # HEAD /\ id[k] <= id[p]) \/ (entry # HEAD /\ id[entry] <= id[k])
  BY <1>0, StopsAtGap
<1>3. /\ live \subseteq Node /\ node \in Node /\ node \notin live /\ node # HEAD /\ HEAD \notin Node
      /\ next \in [Link -> Link] /\ prev \in [Link -> Link] /\ id \in [Node -> Nat]
      /\ node \in Link /\ entry \in Link /\ p \in Link /\ FIRST \in Nat
      /\ node # p /\ node # entry
  BY <1>1, <1>2, HeadAssumption, FirstAssumption DEF LTypeOK, Link
<1> HIDE DEF p
<1>4. /\ \A m \in live : id'[m] = id[m] /\ m # node
      /\ id'[node] = num
  BY <1>0, <1>3
<1>5. LTypeOK'
  BY <1>0, <1>1, <1>2, <1>3 DEF LTypeOK, Link
<1>6. Unique'
  <2>1. \A m \in live : id[m] # num
    BY <1>2 DEF Ids
  <2>. QED
    BY <1>0, <1>1, <1>4, <2>1 DEF Unique
<1>7. /\ next'[p] = node /\ next'[node] = entry
      /\ \A m \in (live \cup {HEAD}) \ {p} : next'[m] = next[m]
      /\ prev'[node] = p /\ prev'[entry] = node
      /\ \A m \in (live \cup {HEAD}) \ {entry} : prev'[m] = prev[m]
  BY <1>0, <1>3 DEF Link
<1>8. Linked'
  <2>1. \A m \in live \cup {HEAD} :
          /\ next[m] \in live \cup {HEAD} /\ prev[m] \in live \cup {HEAD}
          /\ prev[next[m]] = m /\ next[prev[m]] = m
    BY <1>1 DEF Linked
  <2>2. prev[entry] = p
    BY DEF p
  <2>3. ASSUME NEW m \in live \cup {HEAD, node}
        PROVE  /\ next'[m] \in live \cup {HEAD, node} /\ prev'[m] \in live \cup {HEAD, node}
               /\ prev'[next'[m]] = m /\ next'[prev'[m]] = m
    <3>1. CASE m = node
      BY <1>2, <1>7, <3>1
    <3>2. CASE m # node
      <4>1. next'[m] = IF m = p THEN node ELSE next[m]
        BY <1>7, <3>2
      <4>2. prev'[m] = IF m = entry THEN node ELSE prev[m]
        BY <1>7, <3>2
      <4>3. m # p => next[m] # entry
        BY <2>1, <2>2, <3>2
      <4>4. m # entry => prev[m] # p
        BY <1>2, <2>1, <3>2
      <4>. QED
        BY <1>2, <1>7, <2>1, <3>2, <4>1, <4>2, <4>3, <4>4
    <3>. QED
      BY <3>1, <3>2
  <2>. QED
    BY <1>0, <2>3, ZenonT(60) DEF Linked
<1>9. Ascending'
  <2> SUFFICES ASSUME NEW m \in live' \cup {HEAD}
               PROVE  /\ m # HEAD => id'[m] >= FIRST
                      /\ m # HEAD /\ next'[m] # HEAD => id'[m] < id'[next'[m]]
                      /\ \A k \in live' : \/ m # HEAD /\ id'[k] <= id'[m]
                                          \/ next'[m] # HEAD /\ id'[next'[m]] <= id'[k]
    BY <1>0 DEF Ascending
  <2>1. CASE m = node
    BY <1>0, <1>2, <1>3, <1>4, <1>7, <2>1
  <2>2. CASE m = p
    <3>1. /\ next'[m] = node /\ m # node
          /\ m # HEAD => id'[m] = id[m] /\ id[m] >= FIRST /\ id[m] \in Nat
      BY <1>1, <1>2, <1>3, <1>4, <1>7, <2>2 DEF Ascending
    <3>2. ASSUME NEW k \in live'
          PROVE  (m # HEAD /\ id'[k] <= id'[m]) \/ id'[node] <= id'[k]
      BY <1>0, <1>2, <1>3, <1>4, <2>2, <3>1
    <3>. QED
      BY <1>2, <1>3, <1>4, <2>2, <3>1, <3>2
  <2>3. CASE m # node /\ m # p
    <3>1. m \in live \cup {HEAD} /\ next'[m] = next[m] /\ next[m] \in live \cup {HEAD}
      BY <1>0, <1>1, <1>7, <2>3 DEF Linked
    <3>2. /\ m # HEAD => id[m] >= FIRST /\ id'[m] = id[m] /\ id[m] \in Nat
          /\ next[m] # HEAD => id'[next[m]] = id[next[m]] /\ id[next[m]] \in Nat
          /\ m # HEAD /\ next[m] # HEAD => id[m] < id[next[m]]
      BY <1>1, <1>2, <1>4, <3>1 DEF Ascending
    <3>3. \A k \in live : \/ m # HEAD /\ id[k] <= id[m]
                          \/ next[m] # HEAD /\ id[next[m]] <= id[k]
      BY <1>1, <3>1 DEF Ascending
    <3>4. \/ m # HEAD /\ num <= id[m]
          \/ next[m] # HEAD /\ id[next[m]] <= num
      <4>1. next[m] # entry
        BY <1>1, <2>3, <3>1 DEF Linked, p
      <4>2. CASE entry # HEAD
        <5>1. \/ m # HEAD /\ id[entry] <= id[m]
              \/ next[m] # HEAD /\ id[next[m]] <= id[entry]
          BY <1>2, <3>3, <4>2
        <5>2. next[m] # HEAD => id[next[m]] # id[entry]
          BY <1>1, <1>2, <3>1, <4>1, <4>2 DEF Unique
        <5>3. CASE m # HEAD /\ id[entry] <= id[m]
          BY <1>2, <3>2, <4>2, <5>3
        <5>4. CASE next[m] # HEAD /\ id[next[m]] <= id[entry]
          <6>1. next[m] \in live /\ id[next[m]] < id[entry] /\ entry \in live
            BY <1>2, <3>1, <3>2, <4>2, <5>2, <5>4
          <6>2. p # HEAD /\ id[next[m]] <= id[p]
            BY <1>2, <6>1
          <6>. QED
            BY <1>2, <3>2, <5>4, <6>2
        <5>. QED
          BY <5>1, <5>3, <5>4
      <4>3. CASE entry = HEAD
        <5>1. next[m] # HEAD /\ next[m] \in live
          BY <3>1, <4>1, <4>3
        <5>2. p # HEAD /\ id[next[m]] <= id[p]
          BY <1>2, <4>3, <5>1
        <5>. QED
          BY <1>2, <3>2, <5>1, <5>2
      <4>. QED
        BY <4>2, <4>3
    <3>. QED
      BY <1>0, <1>4, <3>1, <3>2, <3>3, <3>4
  <2>. QED
    BY <2>1, <2>2, <2>3
<1>10. WalkKnows'
  BY <1>0 DEF WalkKnows
<1>. QED
  BY <1>5, <1>6, <1>8, <1>9, <1>10 DEF LInv
-----------------------------------------------------------------------------
(* The steps of the two walks.                                              *)
LEMMA WalkStep ==
  ASSUME LInv,
         (\E n \in Node : StartInsert(n)) \/ PassTaken \/ PassOther \/ Return
         \/ (\E i \in Nat : StartFind(i) /\ i >= FIRST)
  PROVE  LInv'
<1>0. LTypeOK /\ Unique /\ Linked /\ Ascending /\ WalkKnows /\ UNCHANGED <<next, prev, id, live>>
  BY DEF LInv, StartInsert, PassTaken, PassOther, Return, StartFind
<1>1. Unique' /\ Linked' /\ Ascending'
  BY <1>0 DEF Unique, Linked, Ascending
<1>2. /\ next \in [Link -> Link] /\ live \cup {HEAD} \subseteq Link /\ HEAD \in Link
      /\ \A n \in live \cup {HEAD} : next[n] \in live \cup {HEAD} /\ prev[next[n]] = n
      /\ id \in [Node -> Nat] /\ live \subseteq Node /\ FIRST \in Nat /\ num \in Nat
      /\ \A k \in live : id[k] \in Nat /\ id[k] >= FIRST
  BY <1>0, FirstAssumption DEF LTypeOK, Linked, Link, Ascending
<1>3. CASE \E n \in Node : StartInsert(n)
  <2>1. PICK n \in Node \ live : StartInsert(n)
    BY <1>3 DEF StartInsert
  <2>2. /\ pc' = "insert" /\ entry' = next[HEAD] /\ num' = FIRST /\ node' = n /\ found' = found
    BY <2>1 DEF StartInsert, Walk
  <2>3. LTypeOK'
    BY <1>0, <1>2, <2>2 DEF LTypeOK, Link
  <2>4. WalkKnows'
    BY <1>0, <1>2, <2>2 DEF WalkKnows
  <2>. QED
    BY <1>1, <2>3, <2>4 DEF LInv
<1>4. CASE PassTaken
  <2>1. /\ pc = "insert" /\ pc' = pc /\ entry # HEAD /\ id[entry] = num
        /\ entry' = next[entry] /\ num' = num + 1 /\ UNCHANGED <<node, found>>
    BY <1>4 DEF PassTaken, AtNum
  <2>2. /\ entry \in live /\ node \in Node \ live /\ num >= FIRST
        /\ FIRST .. num - 1 \subseteq Ids
    BY <1>0, <2>1 DEF WalkKnows
  <2>3. LTypeOK'
    BY <1>0, <1>2, <2>1, <2>2 DEF LTypeOK
  <2>4. num \in Ids /\ Ids' = Ids
    BY <1>0, <2>1, <2>2 DEF Ids
  <2>5. FIRST .. num' - 1 \subseteq Ids'
    BY <1>2, <2>1, <2>2, <2>4
  <2>6. prev[entry'] = entry /\ id[entry] = num' - 1
    BY <1>2, <2>1, <2>2
  <2>7. WalkKnows'
    BY <1>0, <1>2, <2>1, <2>2, <2>5, <2>6 DEF WalkKnows
  <2>. QED
    BY <1>1, <2>3, <2>7 DEF LInv
<1>5. CASE PassOther
  <2>1. /\ pc = "find" /\ pc' = pc /\ entry # HEAD /\ id[entry] # num
        /\ entry' = next[entry] /\ UNCHANGED <<node, num, found>>
    BY <1>5 DEF PassOther, AtNum
  <2>2. entry \in live /\ \A k \in live : id[k] = num => id[entry] <= num
    BY <1>0, <2>1 DEF WalkKnows
  <2>3. \A k \in live : id[k] = num => entry' # HEAD /\ id[entry'] <= num
    <3> SUFFICES ASSUME NEW k \in live, id[k] = num
                 PROVE  next[entry] # HEAD /\ id[next[entry]] <= num
      BY <2>1
    <3>1. id[k] <= id[entry] \/ (next[entry] # HEAD /\ id[next[entry]] <= id[k])
      BY <1>0, <2>2 DEF Ascending
    <3>2. ~(id[k] <= id[entry])
      BY <1>2, <2>1, <2>2
    <3>. QED
      BY <3>1, <3>2
  <2>4. LTypeOK' /\ WalkKnows'
    BY <1>0, <1>2, <2>1, <2>2, <2>3 DEF LTypeOK, WalkKnows
  <2>. QED
    BY <1>1, <2>4 DEF LInv
<1>6. CASE Return
  <2>1. pc' = "idle" /\ entry' = HEAD /\ node' = HEAD /\ num' = FIRST /\ found' = entry
    BY <1>6 DEF Return, Done
  <2>2. LTypeOK' /\ WalkKnows'
    BY <1>0, <1>2, <2>1 DEF LTypeOK, WalkKnows
  <2>. QED
    BY <1>1, <2>2 DEF LInv
<1>7. CASE \E i \in Nat : StartFind(i) /\ i >= FIRST
  <2>1. PICK i \in Nat : StartFind(i)
    BY <1>7
  <2>2. pc' = "find" /\ entry' = next[HEAD] /\ num' = i /\ UNCHANGED <<node, found>>
    BY <2>1 DEF StartFind, Walk
  <2>3. \A k \in live : next[HEAD] # HEAD /\ id[next[HEAD]] <= id[k]
    BY <1>0 DEF Ascending
  <2>4. LTypeOK' /\ WalkKnows'
    BY <1>0, <1>2, <2>2, <2>3 DEF LTypeOK, WalkKnows
  <2>. QED
    BY <1>1, <2>4 DEF LInv
<1>. QED
  BY <1>3, <1>4, <1>5, <1>6, <1>7

LEMMA NextLInv == LInv /\ [LNext]_lvars => LInv'
<1> SUFFICES ASSUME LInv, [LNext]_lvars PROVE LInv'
  OBVIOUS
<1>1. CASE \E n \in Node : Hide(n)
  BY <1>1, HideStep
<1>2. CASE LinkNew
  BY <1>2, LinkStep
<1>3. CASE (\E n \in Node : StartInsert(n)) \/ PassTaken \/ PassOther \/ Return
  BY <1>3, WalkStep
<1>4. ASSUME NEW i \in FIRST .. FIRST + Cardinality(Node), StartFind(i) PROVE LInv'
  <2>1. i \in Nat /\ i >= FIRST
    BY FirstAssumption
  <2>. QED
    BY <1>4, <2>1, WalkStep
<1>5. CASE UNCHANGED lvars
  BY <1>5 DEF lvars, LInv, LTypeOK, Unique, Linked, Ascending, WalkKnows, Ids
<1>. QED
  BY <1>1, <1>2, <1>3, <1>4, <1>5 DEF LNext

THEOREM ListInvariance == LSpec => []LInv
<1>. QED
  BY StartLInv, NextLInv, PTL DEF LSpec

(* Pids and threadIDs are unique, and both lists are well linked and in     *)
(* ascending order of them: Proc names processes and threads by them, and   *)
(* takes the first of a list for the smallest.                              *)
THEOREM NumbersAreUniqueAndOrdered == LSpec => [](Unique /\ Linked /\ Ascending)
<1>1. LInv => Unique /\ Linked /\ Ascending
  BY DEF LInv
<1>. QED
  BY <1>1, ListInvariance, PTL

(* newProcess and createThread give out the smallest free number.           *)
THEOREM FirstGapIsTaken == LSpec => SmallestFree
<1>1. ASSUME LInv, [LNext]_lvars, pc = "insert", pc' = "idle"
      PROVE  id'[node] \notin Ids /\ FIRST .. id'[node] - 1 \subseteq Ids
  <2>1. LinkNew
    BY <1>1 DEF LNext, StartInsert, Hide, PassTaken, PassOther, Return, StartFind, Walk, lvars
  <2>2. node \in Node /\ id \in [Node -> Nat]
    BY <1>1 DEF LInv, LTypeOK, WalkKnows
  <2>3. id'[node] = num
    BY <2>1, <2>2 DEF LinkNew
  <2>. QED
    BY <1>1, <2>1, <2>3, StopsAtGap DEF LinkNew
<1>. QED
  BY <1>1, ListInvariance, PTL DEF LSpec, SmallestFree

(* getProcessById finds a process exactly when it is in the table.          *)
THEOREM LookupIsRight == LSpec => FindsIt
<1>1. ASSUME LInv, [LNext]_lvars, pc = "find", pc' = "idle"
      PROVE  IF num \in Ids THEN found' \in live /\ id[found'] = num ELSE found' = HEAD
  <2>1. Return
    BY <1>1 DEF LNext, StartInsert, Hide, PassTaken, LinkNew, PassOther, StartFind, Walk, lvars
  <2>2. entry \in live \cup {HEAD} /\ found' = entry /\ (entry = HEAD \/ id[entry] = num)
    BY <1>1, <2>1 DEF LInv, WalkKnows, Return, AtNum
  <2>3. num \in Ids => entry # HEAD
    BY <1>1 DEF LInv, WalkKnows, Ids
  <2>. QED
    BY <2>2, <2>3, HeadAssumption DEF Ids
<1>. QED
  BY <1>1, ListInvariance, PTL DEF LSpec, FindsIt
=============================================================================
