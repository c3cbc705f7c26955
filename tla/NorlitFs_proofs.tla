--------------------------- MODULE NorlitFs_proofs ---------------------------
(***************************************************************************)
(* The file system keeps its tree and its free blocks apart, for every      *)
(* partition and any number of names, through crashes between any two       *)
(* writes.                                                                  *)
(***************************************************************************)
EXTENDS NorlitFs, Order_proofs

(***************************************************************************)
(* What can be reached.                                                     *)
(***************************************************************************)
LEMMA ReachIs ==
  ASSUME NEW D, NEW succ \in [D -> SUBSET D], NEW from \in SUBSET D
  PROVE  /\ Reach(from, succ) \subseteq D
         /\ from \subseteq Reach(from, succ)
         /\ \A f \in Reach(from, succ) : succ[f] \subseteq Reach(from, succ)
         /\ \A S : from \subseteq S /\ (\A f \in S \cap D : succ[f] \subseteq S)
                     => Reach(from, succ) \subseteq S
<1> DEFINE W == from \cup UNION Range(succ)
           Closed(S) == from \subseteq S /\ \A f \in S : succ[f] \subseteq S
<1>1. Reach(from, succ) = {b \in W : \A S \in SUBSET W : Closed(S) => b \in S}
  BY DEF Reach
<1>2. \A f \in D : succ[f] \subseteq W /\ succ[f] \subseteq D
  BY DEF Range
<1>3. W \subseteq D /\ from \subseteq W
  BY DEF Range
<1> HIDE DEF W
<1>4. ASSUME NEW S, from \subseteq S, \A f \in S \cap D : succ[f] \subseteq S
      PROVE  Reach(from, succ) \subseteq S
  <2>1. S \cap W \in SUBSET W /\ Closed(S \cap W)
    BY <1>2, <1>3, <1>4
  <2>. QED
    BY <1>1, <2>1
<1>5. \A f \in Reach(from, succ) : succ[f] \subseteq Reach(from, succ)
  <2> SUFFICES ASSUME NEW f \in Reach(from, succ), NEW g \in succ[f]
               PROVE  g \in Reach(from, succ)
    OBVIOUS
  <2>1. f \in W /\ g \in W
    BY <1>1, <1>2, <1>3
  <2>2. ASSUME NEW S \in SUBSET W, Closed(S) PROVE g \in S
    BY <1>1, <2>2
  <2>. QED
    BY <1>1, <2>1, <2>2
<1>. QED
  BY <1>1, <1>3, <1>4, <1>5

LEMMA ReachNothing ==
  ASSUME NEW D, NEW succ \in [D -> SUBSET D]
  PROVE  Reach({}, succ) = {}
BY ReachIs

(* Only what is reached matters.                                            *)
LEMMA ReachSame ==
  ASSUME NEW D, NEW succ \in [D -> SUBSET D], NEW next \in [D -> SUBSET D], NEW from \in SUBSET D,
         \A f \in Reach(from, succ) : next[f] = succ[f]
  PROVE  Reach(from, next) = Reach(from, succ)
<1> DEFINE R == Reach(from, succ)
           T == Reach(from, next)
<1>1. /\ from \subseteq R /\ \A f \in R : succ[f] \subseteq R
      /\ \A S : from \subseteq S /\ (\A f \in S \cap D : succ[f] \subseteq S) => R \subseteq S
  BY ReachIs
<1>2. /\ from \subseteq T /\ \A f \in T : next[f] \subseteq T
      /\ \A S : from \subseteq S /\ (\A f \in S \cap D : next[f] \subseteq S) => T \subseteq S
  BY ReachIs
<1>3. \A f \in R : next[f] = succ[f]
  OBVIOUS
<1> HIDE DEF R, T
<1>4. T \subseteq R
  BY <1>1, <1>2, <1>3
<1>5. R \subseteq T
  BY <1>1, <1>2, <1>3, <1>4
<1>. QED
  BY <1>4, <1>5 DEF R, T

(* A leaf is added.                                                         *)
LEMMA ReachAdd ==
  ASSUME NEW D, NEW succ \in [D -> SUBSET D], NEW next \in [D -> SUBSET D], NEW from \in SUBSET D,
         NEW c \in D, c \notin Reach(from, succ), next[c] = {},
         NEW d \in Reach(from, succ), next[d] = succ[d] \cup {c},
         \A f \in Reach(from, succ) \ {d} : next[f] = succ[f]
  PROVE  Reach(from, next) = Reach(from, succ) \cup {c}
<1> DEFINE R == Reach(from, succ)
           T == Reach(from, next)
<1>1. /\ from \subseteq R /\ \A f \in R : succ[f] \subseteq R
      /\ \A S : from \subseteq S /\ (\A f \in S \cap D : succ[f] \subseteq S) => R \subseteq S
  BY ReachIs
<1>2. /\ from \subseteq T /\ \A f \in T : next[f] \subseteq T
      /\ \A S : from \subseteq S /\ (\A f \in S \cap D : next[f] \subseteq S) => T \subseteq S
  BY ReachIs
<1>3. /\ c \notin R /\ d \in R /\ \A f \in R \ {d} : next[f] = succ[f]
      /\ next[c] = {} /\ next[d] = succ[d] \cup {c}
  OBVIOUS
<1> HIDE DEF R, T
<1>4. T \subseteq R \cup {c}
  <2>1. from \subseteq R \cup {c}
    BY <1>1
  <2>2. ASSUME NEW f \in (R \cup {c}) \cap D PROVE next[f] \subseteq R \cup {c}
    BY <1>1, <1>3
  <2>. QED
    BY <1>2, <2>1, <2>2
<1>5. R \subseteq T \ {c}
  <2>1. from \subseteq T \ {c}
    BY <1>1, <1>2, <1>3
  <2>2. ASSUME NEW f \in (T \ {c}) \cap D PROVE succ[f] \subseteq T \ {c}
    <3>1. f \in R /\ succ[f] \subseteq R /\ succ[f] \subseteq next[f] /\ next[f] \subseteq T
      BY <1>1, <1>2, <1>3, <1>4
    <3>. QED
      BY <1>3, <3>1
  <2>. QED
    BY <1>1, <2>1, <2>2
<1>6. c \in T
  BY <1>2, <1>3, <1>5
<1>. QED
  BY <1>4, <1>5, <1>6 DEF R, T

(* The first, and what follows it.                                          *)
LEMMA ReachFirst ==
  ASSUME NEW D, NEW succ \in [D -> SUBSET D], NEW b \in D
  PROVE  Reach({b}, succ) = {b} \cup Reach(succ[b], succ)
<1> DEFINE R == Reach({b}, succ)
           T == Reach(succ[b], succ)
<1>1. /\ b \in R /\ \A f \in R : succ[f] \subseteq R
      /\ \A S : {b} \subseteq S /\ (\A f \in S \cap D : succ[f] \subseteq S) => R \subseteq S
  BY ReachIs
<1>2. /\ succ[b] \subseteq T /\ \A f \in T : succ[f] \subseteq T
      /\ \A S : succ[b] \subseteq S /\ (\A f \in S \cap D : succ[f] \subseteq S) => T \subseteq S
  BY ReachIs
<1> HIDE DEF R, T
<1>3. T \subseteq R
  BY <1>1, <1>2
<1>4. {b} \subseteq {b} \cup T /\ \A f \in ({b} \cup T) \cap D : succ[f] \subseteq {b} \cup T
  BY <1>2
<1>5. R \subseteq {b} \cup T
  BY <1>1, <1>4
<1>. QED
  BY <1>1, <1>3, <1>5 DEF R, T

LEMMA ReachWithin ==
  ASSUME NEW D, NEW succ \in [D -> SUBSET D], NEW from \in SUBSET D, NEW b \in Reach(from, succ)
  PROVE  Reach(succ[b], succ) \subseteq Reach(from, succ)
<1>1. b \in D /\ succ[b] \in SUBSET D /\ succ[b] \subseteq Reach(from, succ)
      /\ \A f \in Reach(from, succ) : succ[f] \subseteq Reach(from, succ)
  BY ReachIs
<1>2. \A S : succ[b] \subseteq S /\ (\A f \in S \cap D : succ[f] \subseteq S)
                => Reach(succ[b], succ) \subseteq S
  BY <1>1, ReachIs
<1>. QED
  BY <1>1, <1>2

(***************************************************************************)
(* What the blocks hold, read as lists and as a tree.                       *)
(***************************************************************************)
Cell == {Blank} \cup {Link(n) : n \in Ptr} \cup {FileBlock(d) : d \in Ptr}
        \cup {Dir(e) : e \in [Name -> Ptr]} \cup {Written(t) : t \in Text}

LEMMA CellIs ==
  ASSUME NEW c \in Cell
  PROVE  /\ c.kind \in {"blank", "free", "file", "data", "text"}
         /\ c.kind = "blank" => c = Blank
         /\ c.kind = "free" => c.next \in Ptr
         /\ c.kind = "file" => c.data \in Ptr
         /\ c.kind = "data" => c.entry \in [Name -> Ptr] /\ c = Dir(c.entry)
         /\ c.kind = "text" => c.text \in Text
BY DEF Cell, Blank, Link, FileBlock, Dir, Written

LEMMA CellMakes ==
  /\ Blank \in Cell /\ Blank.kind = "blank"
  /\ \A n \in Ptr : Link(n) \in Cell /\ Link(n).kind = "free" /\ Link(n).next = n
  /\ \A d \in Ptr : FileBlock(d) \in Cell /\ FileBlock(d).kind = "file" /\ FileBlock(d).data = d
  /\ \A e \in [Name -> Ptr] : Dir(e) \in Cell /\ Dir(e).kind = "data" /\ Dir(e).entry = e
  /\ \A t \in Text : Written(t) \in Cell /\ Written(t).kind = "text"
  /\ NoEntry \in [Name -> Ptr] /\ \A n \in Name : NoEntry[n] = 0
  /\ Range(NoEntry) \subseteq {0}
BY DEF Cell, Blank, Link, FileBlock, Dir, Written, NoEntry, Ptr, Range

NextIn(c, b)    == IF c[b].kind = "free" THEN c[b].next ELSE 0
LinksIn(c)      == [b \in Block |-> {NextIn(c, b)} \ {0}]
Chain(fr, c, l) == Reach({fr[l]} \ {0}, LinksIn(c))
Units(fr, c)    == {u \in Block : \E l \in Lens : \E b \in Chain(fr, c, l) : u \in Extent(b, l)}

DataIn(c, f)     == IF f \in Block /\ c[f].kind = "file" THEN c[f].data ELSE 0
EntryIn(c, f, n) == IF DataIn(c, f) # 0 /\ c[DataIn(c, f)].kind = "data"
                      THEN c[DataIn(c, f)].entry[n] ELSE 0
KidsIn(c, f)     == IF DataIn(c, f) = 0 \/ c[DataIn(c, f)].kind # "data" THEN {}
                    ELSE Range(c[DataIn(c, f)].entry) \ {0}
BranchesIn(c)    == [f \in Block |-> KidsIn(c, f)]
FilesIn(c)       == Reach({ROOT}, BranchesIn(c))
UsedIn(c)        == FilesIn(c) \cup {DataIn(c, f) : f \in FilesIn(c)}

LEMMA Views ==
  /\ Files = FilesIn(cell) /\ Used = UsedIn(cell)
  /\ \A f : DataOf(f) = DataIn(cell, f) /\ Children(f) = KidsIn(cell, f)
  /\ \A l : FreeList(l) = Chain(sb.freeBlock, cell, l)
  /\ Directory = DataIn(cell, dirAddr) /\ \A n : Entry(n) = EntryIn(cell, dirAddr, n)
<1>1. \A f : DataOf(f) = DataIn(cell, f)
  BY DEF DataOf, SeekDataBlock, DataIn
<1>2. \A f : Children(f) = KidsIn(cell, f)
  BY <1>1 DEF Children, KidsIn
<1>3. Branches = BranchesIn(cell)
  BY <1>2 DEF Branches, BranchesIn
<1>4. Files = FilesIn(cell)
  BY <1>3 DEF Files, FilesIn
<1>5. Used = UsedIn(cell)
  BY <1>1, <1>4 DEF Used, UsedIn
<1>6. \A l : FreeList(l) = Chain(sb.freeBlock, cell, l)
  <2>1. Links = LinksIn(cell)
    BY DEF Links, LinksIn, NextOf, NextIn
  <2>. QED
    BY <2>1 DEF FreeList, Chain
<1>7. Directory = DataIn(cell, dirAddr) /\ \A n : Entry(n) = EntryIn(cell, dirAddr, n)
  BY <1>1 DEF Directory, Entry, EntryIn
<1>. QED
  BY <1>1, <1>2, <1>4, <1>5, <1>6, <1>7

Cells == [Block -> Cell]
SameOn(S, c, e) == \A u \in S : e[u] = c[u]
Heads == [Lens -> Ptr]

LEMMA BlockIs == 0 \notin Block /\ Block \subseteq Nat /\ Ptr = Block \cup {0} /\ ROOT \in Block
BY PartitionAssumption DEF Ptr

LEMMA CellTypes ==
  ASSUME NEW c \in Cells
  PROVE  /\ \A b \in Block : NextIn(c, b) \in Ptr
         /\ \A f : DataIn(c, f) \in Ptr
         /\ LinksIn(c) \in [Block -> SUBSET Block]
         /\ BranchesIn(c) \in [Block -> SUBSET Block]
         /\ \A f, n : n \in Name => EntryIn(c, f, n) \in Ptr
         /\ \A f, n : n \in Name /\ EntryIn(c, f, n) # 0 => EntryIn(c, f, n) \in KidsIn(c, f)
<1>1. \A b \in Block : NextIn(c, b) \in Ptr
  BY CellIs DEF NextIn, Cells, Ptr
<1>2. \A f : DataIn(c, f) \in Ptr
  BY CellIs DEF DataIn, Cells, Ptr
<1>3. LinksIn(c) \in [Block -> SUBSET Block]
  BY <1>1 DEF LinksIn, Ptr
<1>4. \A f : KidsIn(c, f) \subseteq Block
  <2> SUFFICES ASSUME NEW f, KidsIn(c, f) # {} PROVE KidsIn(c, f) \subseteq Block
    OBVIOUS
  <2>1. DataIn(c, f) \in Block /\ c[DataIn(c, f)].kind = "data"
        /\ KidsIn(c, f) = Range(c[DataIn(c, f)].entry) \ {0}
    BY <1>2 DEF KidsIn, Ptr
  <2>2. c[DataIn(c, f)].entry \in [Name -> Ptr]
    BY <2>1, CellIs DEF Cells
  <2>. QED
    BY <2>1, <2>2 DEF Range, Ptr
<1>5. BranchesIn(c) \in [Block -> SUBSET Block]
  BY <1>4 DEF BranchesIn
<1>6. ASSUME NEW f, NEW n \in Name
      PROVE  EntryIn(c, f, n) \in Ptr /\ (EntryIn(c, f, n) # 0 => EntryIn(c, f, n) \in KidsIn(c, f))
  <2>1. CASE DataIn(c, f) # 0 /\ c[DataIn(c, f)].kind = "data"
    <3>1. DataIn(c, f) \in Block
      BY <1>2, <2>1 DEF Ptr
    <3>2. c[DataIn(c, f)].entry \in [Name -> Ptr]
      BY <2>1, <3>1, CellIs DEF Cells
    <3>. QED
      BY <2>1, <3>2 DEF EntryIn, KidsIn, Range
  <2>2. CASE ~(DataIn(c, f) # 0 /\ c[DataIn(c, f)].kind = "data")
    BY <2>2 DEF EntryIn, Ptr
  <2>. QED
    BY <2>1, <2>2
<1>. QED
  BY <1>1, <1>2, <1>3, <1>5, <1>6

LEMMA FilesAre ==
  ASSUME NEW c \in Cells
  PROVE  /\ ROOT \in FilesIn(c) /\ FilesIn(c) \subseteq Block
         /\ \A f \in FilesIn(c) : KidsIn(c, f) \subseteq FilesIn(c)
         /\ UsedIn(c) \subseteq Ptr
         /\ \A f \in FilesIn(c) : f \in UsedIn(c) /\ DataIn(c, f) \in UsedIn(c)
<1>1. BranchesIn(c) \in [Block -> SUBSET Block] /\ {ROOT} \in SUBSET Block
  BY CellTypes, BlockIs
<1>2. /\ FilesIn(c) \subseteq Block /\ {ROOT} \subseteq FilesIn(c)
      /\ \A f \in FilesIn(c) : BranchesIn(c)[f] \subseteq FilesIn(c)
  BY <1>1, ReachIs DEF FilesIn
<1>3. \A f \in FilesIn(c) : KidsIn(c, f) \subseteq FilesIn(c)
  BY <1>2 DEF BranchesIn
<1>. QED
  BY <1>2, <1>3, CellTypes, BlockIs DEF UsedIn

(* What no file uses does not matter to the files.                          *)
LEMMA FilesStay ==
  ASSUME NEW c \in Cells, NEW e \in Cells,
         \A f \in FilesIn(c) : DataIn(e, f) = DataIn(c, f) /\ KidsIn(e, f) = KidsIn(c, f)
  PROVE  FilesIn(e) = FilesIn(c) /\ UsedIn(e) = UsedIn(c)
<1>1. /\ BranchesIn(c) \in [Block -> SUBSET Block] /\ BranchesIn(e) \in [Block -> SUBSET Block]
      /\ {ROOT} \in SUBSET Block
  BY CellTypes, BlockIs
<1>2. \A f \in Reach({ROOT}, BranchesIn(c)) : BranchesIn(e)[f] = BranchesIn(c)[f]
  BY FilesAre DEF FilesIn, BranchesIn
<1>3. Reach({ROOT}, BranchesIn(e)) = Reach({ROOT}, BranchesIn(c))
  BY <1>1, <1>2, ReachSame
<1>4. FilesIn(e) = FilesIn(c)
  BY <1>3 DEF FilesIn
<1>. QED
  BY <1>4 DEF UsedIn

LEMMA FilesApart ==
  ASSUME NEW c \in Cells, NEW e \in Cells,
         SameOn(UsedIn(c) \ {0}, c, e)
  PROVE  /\ FilesIn(e) = FilesIn(c) /\ UsedIn(e) = UsedIn(c)
         /\ \A f \in FilesIn(c) :
              /\ e[f] = c[f] /\ DataIn(e, f) = DataIn(c, f)
              /\ DataIn(c, f) # 0 => e[DataIn(c, f)] = c[DataIn(c, f)]
         /\ \A f \in FilesIn(c), n \in Name : EntryIn(e, f, n) = EntryIn(c, f, n)
<1>1. \A f \in FilesIn(c) : f \in Block /\ f # 0 /\ f \in UsedIn(c) /\ DataIn(c, f) \in UsedIn(c)
  BY FilesAre, BlockIs
<1>2. \A f \in FilesIn(c) : e[f] = c[f] /\ (DataIn(c, f) # 0 => e[DataIn(c, f)] = c[DataIn(c, f)])
  BY <1>1 DEF SameOn
<1>3. \A f \in FilesIn(c) : DataIn(e, f) = DataIn(c, f)
  BY <1>2 DEF DataIn
<1>4. \A f \in FilesIn(c) : KidsIn(e, f) = KidsIn(c, f)
  BY <1>2, <1>3 DEF KidsIn
<1>5. \A f \in FilesIn(c), n \in Name : EntryIn(e, f, n) = EntryIn(c, f, n)
  BY <1>2, <1>3 DEF EntryIn
<1>. QED
  BY <1>2, <1>3, <1>4, <1>5, FilesStay

(***************************************************************************)
(* The powers of two, and extents.                                          *)
(***************************************************************************)
LEMMA PowPositive == \A l \in Lens : Pow[l] \in Nat /\ Pow[l] >= 1
<1> DEFINE T == {l \in Lens : Pow[l] = 0}
<1>1. LENS \in Nat /\ Lens \subseteq Int /\ \A l \in Lens : Pow[l] \in Nat
  BY PowAssumption DEF Lens
<1>2. IsFiniteSet(T) /\ T \subseteq Int
  <2>1. IsFiniteSet(Lens) /\ T \in SUBSET Lens /\ Lens \subseteq Int
    BY <1>1, FS_Interval DEF Lens
  <2>. QED
    BY ONLY <2>1, FS_Subset
<1>3. ASSUME T # {} PROVE FALSE
  <2>1. PICK n \in T : \A j \in T : n <= j
    BY <1>2, <1>3, LeastIsLeast
  <2>2. n \in Lens /\ Pow[n] = 0 /\ n \in Nat /\ n # 0
    BY <2>1, PowAssumption DEF Lens
  <2>3. n - 1 \in Lens /\ Pow[n] = 2 * Pow[n - 1] /\ Pow[n - 1] \in Nat
    BY <2>2, <1>1, PowAssumption DEF Lens
  <2>4. Pow[n - 1] = 0
    BY <2>2, <2>3
  <2>. QED
    BY <2>1, <2>2, <2>3, <2>4
<1>. QED
  BY <1>1, <1>3

LEMMA LensAre ==
  /\ 0 \in Lens /\ Pow[0] = 1 /\ LENS \in Nat /\ Lens = 0 .. LENS - 1 /\ Lens \subseteq Nat
  /\ \A l \in Lens \ {0} : l - 1 \in Lens /\ Pow[l] = 2 * Pow[l - 1]
  /\ \A l \in Lens, m \in Nat : m <= l => m \in Lens
BY PowAssumption DEF Lens

LEMMA ExtentHas ==
  ASSUME NEW b \in Nat, NEW l \in Lens
  PROVE  /\ b \in Extent(b, l) /\ Extent(b, l) \subseteq Nat
         /\ IsFiniteSet(Extent(b, l)) /\ Cardinality(Extent(b, l)) = Pow[l]
         /\ Extent(b, 0) = {b}
<1>1. Pow[l] \in Nat /\ Pow[l] >= 1 /\ Pow[0] = 1
  BY PowPositive, LensAre
<1>2. b \in Extent(b, l) /\ Extent(b, l) \subseteq Nat /\ Extent(b, 0) = {b}
  BY <1>1 DEF Extent
<1>3. b \in Int /\ b + Pow[l] - 1 \in Int /\ b + Pow[l] - 1 >= b
      /\ (b + Pow[l] - 1) - b + 1 = Pow[l]
  BY <1>1
<1>4. IsFiniteSet(b .. b + Pow[l] - 1) /\ Cardinality(b .. b + Pow[l] - 1) = Pow[l]
  <2>1. /\ IsFiniteSet(b .. b + Pow[l] - 1)
        /\ Cardinality(b .. b + Pow[l] - 1) =
             IF b > b + Pow[l] - 1 THEN 0 ELSE (b + Pow[l] - 1) - b + 1
    BY ONLY <1>3, FS_Interval
  <2>. QED
    BY <1>3, <2>1
<1>. QED
  BY <1>2, <1>4 DEF Extent

LEMMA Halves ==
  ASSUME NEW b \in Nat, NEW l \in Lens, l + 1 \in Lens
  PROVE  /\ b .. b + Pow[l + 1] - 1 = Extent(b, l + 1)
         /\ Extent(b, l + 1) = Extent(b, l) \cup Extent(b + Pow[l], l)
         /\ Extent(b, l) \cap Extent(b + Pow[l], l) = {}
         /\ b + Pow[l] \in Nat /\ b + Pow[l] # b
<1>1. Pow[l] \in Nat /\ Pow[l] >= 1 /\ Pow[l + 1] = 2 * Pow[l]
  <2>1. l + 1 \in Lens \ {0} /\ (l + 1) - 1 = l
    BY LensAre
  <2>. QED
    BY <2>1, PowPositive, LensAre
<1>. QED
  BY <1>1 DEF Extent

(***************************************************************************)
(* The lists of free blocks.                                                *)
(***************************************************************************)
(* A free block lies in the partition and is all zero behind its first,     *)
(* and no list comes back to it.                                            *)
Fitting(fr, c) ==
  \A l \in Lens : \A b \in Chain(fr, c, l) :
    /\ Extent(b, l) \subseteq Block
    /\ \A u \in Extent(b, l) \ {b} : c[u] = Blank
    /\ b \notin Reach(LinksIn(c)[b], LinksIn(c))
Apart(fr, c) ==
  \A l \in Lens, m \in Lens : \A b \in Chain(fr, c, l), d \in Chain(fr, c, m) :
    <<b, l>> # <<d, m>> => Extent(b, l) \cap Extent(d, m) = {}

LEMMA ChainIs ==
  ASSUME NEW fr \in Heads, NEW c \in Cells, NEW l \in Lens
  PROVE  /\ Chain(fr, c, l) \subseteq Block /\ Chain(fr, c, l) \subseteq Nat
         /\ fr[l] # 0 => fr[l] \in Chain(fr, c, l) /\ fr[l] \in Block
                         /\ Chain(fr, c, l) = {fr[l]} \cup Reach(LinksIn(c)[fr[l]], LinksIn(c))
         /\ fr[l] = 0 => Chain(fr, c, l) = {}
         /\ \A b \in Chain(fr, c, l) : Reach(LinksIn(c)[b], LinksIn(c)) \subseteq Chain(fr, c, l)
<1>1. LinksIn(c) \in [Block -> SUBSET Block] /\ {fr[l]} \ {0} \in SUBSET Block
  BY CellTypes, BlockIs DEF Heads
<1>2. Chain(fr, c, l) \subseteq Block /\ Chain(fr, c, l) \subseteq Nat
  <2>1. Reach({fr[l]} \ {0}, LinksIn(c)) \subseteq Block
    BY ONLY <1>1, ReachIs
  <2>. QED
    BY <2>1, BlockIs DEF Chain
<1>3. ASSUME fr[l] # 0
      PROVE  fr[l] \in Chain(fr, c, l) /\ fr[l] \in Block
             /\ Chain(fr, c, l) = {fr[l]} \cup Reach(LinksIn(c)[fr[l]], LinksIn(c))
  <2>1. fr[l] \in Block /\ {fr[l]} \ {0} = {fr[l]}
    BY <1>3, BlockIs DEF Heads
  <2>. QED
    BY <1>1, <2>1, ReachFirst DEF Chain
<1>4. fr[l] = 0 => Chain(fr, c, l) = {}
  BY <1>1, ReachNothing DEF Chain
<1>5. \A b \in Chain(fr, c, l) : Reach(LinksIn(c)[b], LinksIn(c)) \subseteq Chain(fr, c, l)
  BY <1>1, ReachWithin DEF Chain
<1>. QED
  BY <1>2, <1>3, <1>4, <1>5

LEMMA UnitsAre ==
  ASSUME NEW fr \in Heads, NEW c \in Cells
  PROVE  /\ Units(fr, c) \subseteq Block /\ IsFiniteSet(Units(fr, c))
         /\ Cardinality(Units(fr, c)) \in Nat
         /\ Fitting(fr, c) => \A l \in Lens : \A b \in Chain(fr, c, l) :
                                Extent(b, l) \subseteq Units(fr, c) /\ b \in Units(fr, c)
         /\ (\A l \in Lens : fr[l] = 0) => Units(fr, c) = {}
<1>1. Units(fr, c) \in SUBSET Block /\ IsFiniteSet(Block)
  BY PartitionAssumption DEF Units
<1>2. IsFiniteSet(Units(fr, c)) /\ Cardinality(Units(fr, c)) \in Nat
  BY ONLY <1>1, FS_Subset, FS_CardinalityType
<1>3. Fitting(fr, c) => \A l \in Lens : \A b \in Chain(fr, c, l) :
                          Extent(b, l) \subseteq Units(fr, c) /\ b \in Units(fr, c)
  BY ChainIs, ExtentHas DEF Fitting, Units
<1>4. (\A l \in Lens : fr[l] = 0) => Units(fr, c) = {}
  BY ChainIs DEF Units
<1>. QED
  BY <1>1, <1>2, <1>3, <1>4

(* Only what the lists have in them matters to them.                        *)
LEMMA ListsStay ==
  ASSUME NEW fr \in Heads, NEW c \in Cells, NEW e \in Cells, Fitting(fr, c), Apart(fr, c),
         \A l \in Lens : \A b \in Chain(fr, c, l) :
           NextIn(e, b) = NextIn(c, b) /\ \A u \in Extent(b, l) \ {b} : e[u] = Blank
  PROVE  Fitting(fr, e) /\ Apart(fr, e) /\ Units(fr, e) = Units(fr, c)
<1>1. LinksIn(c) \in [Block -> SUBSET Block] /\ LinksIn(e) \in [Block -> SUBSET Block]
  BY CellTypes
<1>2. ASSUME NEW l \in Lens, NEW b \in Chain(fr, c, l)
      PROVE  LinksIn(e)[b] = LinksIn(c)[b] /\ b \in Block
  BY ChainIs DEF LinksIn
<1>3. \A l \in Lens : Chain(fr, e, l) = Chain(fr, c, l)
  <2> SUFFICES ASSUME NEW l \in Lens PROVE Chain(fr, e, l) = Chain(fr, c, l)
    OBVIOUS
  <2>1. {fr[l]} \ {0} \in SUBSET Block
    BY BlockIs DEF Heads
  <2>2. \A b \in Reach({fr[l]} \ {0}, LinksIn(c)) : LinksIn(e)[b] = LinksIn(c)[b]
    BY <1>2 DEF Chain
  <2>3. Reach({fr[l]} \ {0}, LinksIn(e)) = Reach({fr[l]} \ {0}, LinksIn(c))
    <3> DEFINE A == LinksIn(c)
               B == LinksIn(e)
               F == {fr[l]} \ {0}
    <3>1. A \in [Block -> SUBSET Block] /\ B \in [Block -> SUBSET Block] /\ F \in SUBSET Block
          /\ \A b \in Reach(F, A) : B[b] = A[b]
      BY ONLY <1>1, <2>1, <2>2
    <3> HIDE DEF A, B, F
    <3>2. Reach(F, B) = Reach(F, A)
      BY ONLY <3>1, ReachSame
    <3>. QED
      BY <3>2 DEF A, B, F
  <2>. QED
    BY <2>3 DEF Chain
<1>4. ASSUME NEW l \in Lens, NEW b \in Chain(fr, c, l)
      PROVE  Reach(LinksIn(e)[b], LinksIn(e)) = Reach(LinksIn(c)[b], LinksIn(c))
  <2>1. LinksIn(c)[b] \in SUBSET Block /\ LinksIn(e)[b] = LinksIn(c)[b]
    BY <1>1, <1>2
  <2>2. \A d \in Reach(LinksIn(c)[b], LinksIn(c)) : LinksIn(e)[d] = LinksIn(c)[d]
    BY <1>2, ChainIs
  <2>. QED
    BY <1>1, <2>1, <2>2, ReachSame
<1>5. Fitting(fr, e)
  BY <1>3, <1>4 DEF Fitting
<1>6. Apart(fr, e)
  BY <1>3 DEF Apart
<1>7. Units(fr, e) = Units(fr, c)
  BY <1>3 DEF Units
<1>. QED
  BY <1>5, <1>6, <1>7

LEMMA ListsApart ==
  ASSUME NEW fr \in Heads, NEW c \in Cells, NEW e \in Cells, Fitting(fr, c), Apart(fr, c),
         SameOn(Units(fr, c), c, e)
  PROVE  Fitting(fr, e) /\ Apart(fr, e) /\ Units(fr, e) = Units(fr, c)
<1>1. ASSUME NEW l \in Lens, NEW b \in Chain(fr, c, l)
      PROVE  NextIn(e, b) = NextIn(c, b) /\ \A u \in Extent(b, l) \ {b} : e[u] = Blank
  <2>1. Extent(b, l) \subseteq Units(fr, c) /\ b \in Units(fr, c)
    BY UnitsAre
  <2>2. \A u \in Extent(b, l) \ {b} : c[u] = Blank
    BY DEF Fitting
  <2>. QED
    BY <2>1, <2>2 DEF NextIn, SameOn
<1>. QED
  BY <1>1, ListsStay

(* The first of a list is taken.                                            *)
LEMMA ListsTake ==
  ASSUME NEW fr \in Heads, NEW c \in Cells, Fitting(fr, c), Apart(fr, c), NEW l \in Lens, fr[l] # 0
  PROVE  LET f2 == [fr EXCEPT ![l] = NextIn(c, fr[l])]
             X  == Extent(fr[l], l)
         IN  /\ f2 \in Heads /\ Fitting(f2, c) /\ Apart(f2, c)
             /\ Units(f2, c) = Units(fr, c) \ X
             /\ X \subseteq Units(fr, c) /\ fr[l] \in X /\ fr[l] \in Block
             /\ Cardinality(Units(f2, c)) = Cardinality(Units(fr, c)) - Pow[l]
             /\ \A u \in X \ {fr[l]} : c[u] = Blank
<1> DEFINE h  == fr[l]
           f2 == [fr EXCEPT ![l] = NextIn(c, h)]
           X  == Extent(h, l)
<1>1. h \in Block /\ h \in Nat /\ h \in Chain(fr, c, l) /\ NextIn(c, h) \in Ptr
      /\ Chain(fr, c, l) = {h} \cup Reach(LinksIn(c)[h], LinksIn(c))
  BY ChainIs, CellTypes, BlockIs
<1>2. f2 \in Heads /\ f2[l] = NextIn(c, h) /\ \A m \in Lens \ {l} : f2[m] = fr[m]
  BY <1>1 DEF Heads
<1>3. LinksIn(c)[h] = {NextIn(c, h)} \ {0}
  BY <1>1 DEF LinksIn
<1>4. /\ X \subseteq Block /\ X \subseteq Units(fr, c) /\ h \in X
      /\ \A u \in X \ {h} : c[u] = Blank
      /\ h \notin Reach(LinksIn(c)[h], LinksIn(c))
      /\ IsFiniteSet(X) /\ Cardinality(X) = Pow[l]
  BY <1>1, UnitsAre, ExtentHas DEF Fitting
<1> HIDE DEF f2, h, X
<1>5. Chain(f2, c, l) = Chain(fr, c, l) \ {h} /\ \A m \in Lens \ {l} : Chain(f2, c, m) = Chain(fr, c, m)
  <2>1. \A m \in Lens \ {l} : Chain(f2, c, m) = Chain(fr, c, m)
    BY <1>2 DEF Chain
  <2>2. Chain(f2, c, l) = Reach(LinksIn(c)[h], LinksIn(c))
    BY <1>2, <1>3 DEF Chain
  <2>3. Chain(f2, c, l) = Chain(fr, c, l) \ {h}
    BY <1>1, <1>4, <2>2
  <2>. QED
    BY <2>1, <2>3
<1>6. \A m \in Lens : Chain(f2, c, m) \subseteq Chain(fr, c, m)
  BY <1>5
<1>7. Fitting(f2, c) /\ Apart(f2, c)
  BY <1>6 DEF Fitting, Apart
<1>8. Units(f2, c) = Units(fr, c) \ X
  <2>1. ASSUME NEW m \in Lens, NEW d \in Chain(f2, c, m)
        PROVE  Extent(d, m) \cap X = {} /\ d \in Chain(fr, c, m)
    <3>1. d \in Chain(fr, c, m) /\ <<d, m>> # <<h, l>>
      BY <1>5
    <3>. QED
      BY <3>1, <1>1 DEF Apart, X
  <2>2. ASSUME NEW m \in Lens, NEW d \in Chain(fr, c, m), NEW u \in Extent(d, m), u \notin X
        PROVE  d \in Chain(f2, c, m)
    BY <1>5, <2>2 DEF X
  <2>. QED
    BY <2>1, <2>2 DEF Units
<1>9. Cardinality(Units(f2, c)) = Cardinality(Units(fr, c)) - Pow[l]
  <2>1. IsFiniteSet(Units(fr, c)) /\ Units(fr, c) \cap X = X
    BY <1>4, UnitsAre
  <2>2. Cardinality(Units(fr, c) \ X) = Cardinality(Units(fr, c)) - Cardinality(Units(fr, c) \cap X)
    BY ONLY <2>1, <1>4, FS_Difference
  <2>. QED
    BY <1>4, <1>8, <2>1, <2>2
<1>. QED
  BY <1>1, <1>2, <1>4, <1>7, <1>8, <1>9 DEF f2, h, X

(* A block is put at the head of a list that was empty.                     *)
Unlisted(fr, c, n, l) ==
  /\ Extent(n, l) \subseteq Block /\ Extent(n, l) \cap Units(fr, c) = {}
  /\ \A u \in Extent(n, l) : c[u] = Blank

LEMMA ListsPut ==
  ASSUME NEW fr \in Heads, NEW c \in Cells, Fitting(fr, c), Apart(fr, c),
         NEW l \in Lens, fr[l] = 0, NEW n \in Block, Unlisted(fr, c, n, l)
  PROVE  LET f2 == [fr EXCEPT ![l] = n]
         IN  /\ f2 \in Heads /\ Fitting(f2, c) /\ Apart(f2, c)
             /\ Units(f2, c) = Units(fr, c) \cup Extent(n, l)
             /\ Cardinality(Units(f2, c)) = Cardinality(Units(fr, c)) + Pow[l]
<1> DEFINE f2 == [fr EXCEPT ![l] = n]
           X  == Extent(n, l)
<1>1. f2 \in Heads /\ f2[l] = n /\ n # 0 /\ n \in Nat /\ \A m \in Lens \ {l} : f2[m] = fr[m]
  BY BlockIs DEF Heads
<1>2. n \in X /\ IsFiniteSet(X) /\ Cardinality(X) = Pow[l] /\ Pow[l] \in Nat
  BY <1>1, ExtentHas, PowPositive
<1>3. X \subseteq Block /\ X \cap Units(fr, c) = {} /\ \A u \in X : c[u] = Blank
  BY DEF Unlisted
<1> HIDE DEF f2
<1>4. LinksIn(c)[n] = {}
  BY <1>2, <1>3, CellMakes DEF LinksIn, NextIn
<1>5. Reach(LinksIn(c)[n], LinksIn(c)) = {}
  BY <1>4, CellTypes, ReachNothing
<1>6. Chain(f2, c, l) = {n} /\ Chain(fr, c, l) = {}
  BY <1>1, <1>5, ChainIs
<1>7. \A m \in Lens \ {l} : Chain(f2, c, m) = Chain(fr, c, m)
  BY <1>1 DEF Chain
<1>8. Fitting(f2, c)
  BY <1>3, <1>5, <1>6, <1>7 DEF Fitting
<1>9. \A m \in Lens : \A d \in Chain(fr, c, m) : Extent(d, m) \subseteq Units(fr, c)
  BY UnitsAre
<1>10. Apart(f2, c)
  <2> SUFFICES ASSUME NEW m \in Lens, NEW k \in Lens, NEW b \in Chain(f2, c, m),
                      NEW d \in Chain(f2, c, k), <<b, m>> # <<d, k>>
               PROVE  Extent(b, m) \cap Extent(d, k) = {}
    BY DEF Apart
  <2>1. CASE m # l /\ k # l
    BY <1>7, <2>1 DEF Apart
  <2>2. CASE m = l /\ k # l
    BY <1>3, <1>6, <1>7, <1>9, <2>2
  <2>3. CASE m # l /\ k = l
    BY <1>3, <1>6, <1>7, <1>9, <2>3
  <2>4. CASE m = l /\ k = l
    BY <1>6, <2>4
  <2>. QED
    BY <2>1, <2>2, <2>3, <2>4
<1>11. Units(f2, c) = Units(fr, c) \cup X
  <2>1. \A m \in Lens \ {l} : Chain(f2, c, m) = Chain(fr, c, m)
    BY <1>7
  <2>2. \A u \in X : u \in Units(f2, c)
    BY <1>3, <1>6 DEF Units
  <2>3. \A u \in Units(fr, c) : u \in Units(f2, c)
    BY <1>6, <1>7 DEF Units
  <2>4. \A u \in Units(f2, c) : u \in X \/ u \in Units(fr, c)
    BY <1>6, <1>7 DEF Units
  <2>. QED
    BY <2>2, <2>3, <2>4
<1>12. Cardinality(Units(f2, c)) = Cardinality(Units(fr, c)) + Pow[l]
  <2>1. IsFiniteSet(Units(fr, c)) /\ Units(fr, c) \cap X = {} /\ Cardinality(Units(fr, c)) \in Nat
    BY <1>3, UnitsAre
  <2>2. Cardinality(Units(fr, c) \cup X)
          = Cardinality(Units(fr, c)) + Cardinality(X) - Cardinality(Units(fr, c) \cap X)
    BY ONLY <2>1, <1>2, FS_Union
  <2>3. Cardinality({}) = 0
    BY FS_EmptySet
  <2>4. Cardinality(Units(fr, c) \cap X) = 0
    BY <2>1, <2>3
  <2>5. Cardinality(Units(fr, c) \cup X) = Cardinality(Units(fr, c)) + Pow[l] - 0
    BY <1>2, <2>2, <2>4
  <2> HIDE DEF X
  <2>. QED
    BY <1>2, <1>11, <2>1, <2>5
<1>. QED
  BY <1>1, <1>8, <1>10, <1>11, <1>12 DEF f2

(***************************************************************************)
(* The inductive invariant.                                                 *)
(***************************************************************************)
Types ==
  /\ sb \in [signature : Signatures \cup {"zero"}, freeBlock : Heads, freeSize : Nat]
  /\ cell \in Cells
  /\ held \in [Block -> Text \cup {NOTHING}]
  /\ pc \in {"boot", "idle", "lookup", "malloc", "free", "link", "data", "file", "entry",
             "astray", "exited"}
  /\ path \in Path /\ dirAddr \in Ptr /\ blk \in Ptr /\ dataBlock \in Ptr
  /\ base \in Ptr /\ cid \in Ptr
  /\ want \in {"blk", "data"} /\ l2 \in Lens /\ crashes \in Nat

(* The lists of free blocks.                                                *)
Listed == Units(sb.freeBlock, cell)
Stored == /\ Fitting(sb.freeBlock, cell) /\ Apart(sb.freeBlock, cell)
          /\ sb.freeSize = Cardinality(Listed)

(* The blocks createFileBlock has taken and not yet entered anywhere: what  *)
(* is left of the block that is being split, the file block, and the data   *)
(* block.                                                                   *)
Cut == IF pc = "free" THEN base .. base + Pow[l2 + 1] - 1
       ELSE IF pc = "link" THEN Extent(base, l2) ELSE {}
Creating == pc \in {"malloc", "free", "link", "data", "file", "entry"}
HasBlk == \/ (pc \in {"malloc", "free", "link"} /\ want = "data")
          \/ pc \in {"data", "file"}
          \/ (pc = "entry" /\ blk # 0)
HasData == pc \in {"data", "file"} \/ (pc = "entry" /\ blk # 0)
Hand == Cut \cup (IF HasBlk THEN {blk} ELSE {}) \cup (IF HasData THEN {dataBlock} \ {0} ELSE {})

(* A superblock that has been overwritten lists nothing.                    *)
Emptied == ~Intact /\ pc \notin {"boot", "exited"} => \A l \in Lens : sb.freeBlock[l] = 0

(* The loop of mallocBlock over freeBlock: no smaller block is listed yet.  *)
Splitting ==
  /\ pc = "free" => l2 + 1 \in Lens /\ \A m \in 0 .. l2 : sb.freeBlock[m] = 0
  /\ pc = "link" => /\ \A m \in 0 .. l2 - 1 : sb.freeBlock[m] = 0
                    /\ cid = 0 /\ sb.freeBlock[l2] = base + Pow[l2]
                    /\ cell[base + Pow[l2]] = Blank
  /\ pc \in {"free", "link"} => base \in Block /\ Intact
  /\ \A u \in Cut \ {base} : cell[u] = Blank

(* Each block has one place.                                                *)
Places ==
  /\ Listed \cap UsedIn(cell) = {}
  /\ Hand \subseteq Block /\ Hand \cap Listed = {} /\ Hand \cap UsedIn(cell) = {}
  /\ HasBlk => blk # 0 /\ blk \notin Cut
  /\ HasData => blk # dataBlock
  /\ crashes = 0 /\ Intact => Block \subseteq Listed \cup Hand \cup UsedIn(cell)

(* The files, of which one has no data block after createFileBlock found    *)
(* none and overwrote the superblock.                                       *)
Branched(c) ==
  \A f \in FilesIn(c) :
    /\ c[f].kind = "file"
    /\ DataIn(c, f) # 0 => c[DataIn(c, f)].kind \in {"data", "text"}
    /\ \A g \in FilesIn(c) :
         /\ DataIn(c, f) # g
         /\ f # g /\ DataIn(c, f) # 0 => DataIn(c, f) # DataIn(c, g)
Holding(c, h) ==
  \A f \in FilesIn(c) :
    /\ DataIn(c, f) # 0
    /\ h[f] = NOTHING => c[DataIn(c, f)].kind = "data"
    /\ h[f] # NOTHING => c[DataIn(c, f)] = Written(h[f])
Tree == Branched(cell) /\ (Intact => Holding(cell, held))

(* The path, and the file that is being created in it.                      *)
OnPath ==
  /\ pc = "lookup" => dirAddr \in FilesIn(cell) \cup {0}
  /\ Creating => /\ dirAddr \in FilesIn(cell) /\ path # <<>>
                 /\ DataIn(cell, dirAddr) # 0 => cell[DataIn(cell, dirAddr)].kind = "data"
                 /\ EntryIn(cell, dirAddr, Head(path)) = 0
  /\ HasBlk => DataIn(cell, dirAddr) # 0
  /\ pc \in {"data", "file"} => want = "data"
  /\ pc = "file" \/ (pc = "entry" /\ blk # 0) =>
       /\ dataBlock # 0 => cell[dataBlock] = Dir(NoEntry)
       /\ Intact => dataBlock # 0
  /\ pc = "entry" /\ blk # 0 => cell[blk] = FileBlock(dataBlock) /\ held[blk] = NOTHING

NInv == Types /\ Emptied /\ Stored /\ Splitting /\ Places /\ Tree /\ OnPath

(* What the steps below need of the types and the invariant.                *)
LEMMA SbIs ==
  ASSUME Types
  PROVE  /\ sb.freeBlock \in Heads /\ sb.freeSize \in Nat /\ sb.signature \in Signatures \cup {"zero"}
         /\ \A l \in Lens : sb.freeBlock[l] \in Ptr
BY DEF Types, Heads

LEMMA SuperIs ==
  ASSUME Types, NEW fr \in Heads, NEW n \in Nat, sb' = Super(fr, n)
  PROVE  /\ sb' \in [signature : Signatures \cup {"zero"}, freeBlock : Heads, freeSize : Nat]
         /\ sb'.freeBlock = fr /\ sb'.freeSize = n
         /\ (Intact' <=> Intact)
BY SbIs DEF Super, Intact

LEMMA PathIs ==
  ASSUME NEW p \in Path
  PROVE  p # <<>> => Head(p) \in Name /\ Tail(p) \in Path
<1> SUFFICES ASSUME p # <<>> PROVE Head(p) \in Name /\ Tail(p) \in Path
  OBVIOUS
<1>1. PICK n \in 0 .. 2 : p \in [1 .. n -> Name]
  BY DEF Path
<1>2. n \in Nat /\ p \in Seq(Name) /\ Len(p) = n
  BY <1>1
<1>3. n # 0
  BY <1>2
<1>4. Head(p) \in Name /\ Tail(p) \in Seq(Name) /\ Len(Tail(p)) = n - 1
  BY <1>2, <1>3
<1>5. \A s \in Seq(Name) : s \in [1 .. Len(s) -> Name]
  OBVIOUS
<1>6. Tail(p) \in [1 .. n - 1 -> Name] /\ n - 1 \in 0 .. 2
  <2>1. Tail(p) \in [1 .. Len(Tail(p)) -> Name]
    BY <1>4, <1>5
  <2>2. n - 1 \in 0 .. 2
    BY <1>3
  <2>. QED
    BY ONLY <1>4, <2>1, <2>2
<1>. QED
  BY <1>4, <1>6 DEF Path

LEMMA EmptyPath == <<>> \in Path
<1>1. <<>> \in [1 .. 0 -> Name]
  OBVIOUS
<1>. QED
  BY <1>1 DEF Path

(* The state of the disk does not change.                                   *)
LEMMA DiskStays ==
  ASSUME Stored, Tree, sb' = sb, cell' = cell, held' = held
  PROVE  Stored' /\ Tree' /\ Listed' = Listed /\ (Intact' <=> Intact)
BY DEF Stored, Tree, Listed, Intact

LEMMA BootKeeps ==
  ASSUME NInv, Boot PROVE NInv'
<1> USE DEF Boot, local
<1>1. /\ Types /\ Emptied /\ Stored /\ Splitting /\ Places /\ Tree /\ OnPath
      /\ pc = "boot" /\ pc' \in {"idle", "exited"} /\ (pc' = "idle" => Intact)
  BY DEF NInv, Intact
<1>2. Stored' /\ Tree' /\ Listed' = Listed /\ (Intact' <=> Intact)
  BY <1>1, DiskStays
<1>3. Types'
  BY <1>1 DEF Types
<1>4. Emptied'
  BY <1>1, <1>2 DEF Emptied
<1>5. Hand' = {} /\ Cut' = {} /\ ~HasBlk' /\ ~HasData' /\ Hand = {}
  BY <1>1 DEF Hand, Cut, HasBlk, HasData
<1>6. Splitting'
  BY <1>1, <1>5 DEF Splitting
<1>7. Places'
  BY <1>1, <1>2, <1>5 DEF Places
<1>8. OnPath'
  BY <1>1, <1>5 DEF OnPath, Creating
<1>. QED
  BY <1>2, <1>3, <1>4, <1>6, <1>7, <1>8 DEF NInv

LEMMA CrashKeeps ==
  ASSUME NInv, Crash PROVE NInv'
<1> USE DEF Crash, Forget
<1>1. /\ Types /\ Emptied /\ Stored /\ Splitting /\ Places /\ Tree /\ OnPath
      /\ pc' = "boot" /\ crashes' = crashes + 1
  BY DEF NInv
<1>2. Stored' /\ Tree' /\ Listed' = Listed /\ (Intact' <=> Intact)
  BY <1>1, DiskStays
<1>3. Types'
  BY <1>1, EmptyPath, LensAre DEF Types, Ptr
<1>4. Emptied'
  BY <1>1 DEF Emptied
<1>5. Hand' = {} /\ Cut' = {} /\ ~HasBlk' /\ ~HasData'
  BY <1>1 DEF Hand, Cut, HasBlk, HasData
<1>6. Splitting'
  BY <1>1, <1>5 DEF Splitting
<1>7. Places'
  BY <1>1, <1>2, <1>5 DEF Places, Types
<1>8. OnPath'
  BY <1>1, <1>5 DEF OnPath, Creating
<1>. QED
  BY <1>2, <1>3, <1>4, <1>6, <1>7, <1>8 DEF NInv

(* The server goes on without a block in its hand.                          *)
LEMMA HandEmpty ==
  ASSUME NInv, pc \in {"idle", "lookup"}, pc' \in {"idle", "lookup", "astray"} \/ (pc' = "malloc" /\ want' = "blk"),
         sb' = sb, cell' = cell, held' = held, crashes' = crashes, Types'
  PROVE  Emptied' /\ Stored' /\ Splitting' /\ Places' /\ Tree' /\ ~HasBlk' /\ ~HasData'
<1>1. /\ Types /\ Emptied /\ Stored /\ Splitting /\ Places /\ Tree
  BY DEF NInv
<1>2. Stored' /\ Tree' /\ Listed' = Listed /\ (Intact' <=> Intact)
  BY <1>1, DiskStays
<1>3. Hand' = {} /\ Cut' = {} /\ ~HasBlk' /\ ~HasData' /\ Hand = {}
  BY DEF Hand, Cut, HasBlk, HasData
<1>4. Emptied'
  BY <1>1, <1>2 DEF Emptied
<1>5. Splitting'
  BY <1>1, <1>3 DEF Splitting
<1>6. Places'
  BY <1>1, <1>2, <1>3 DEF Places
<1>. QED
  BY <1>2, <1>3, <1>4, <1>5, <1>6

LEMMA OpenKeeps ==
  ASSUME NInv, NEW p \in Path, Open(p) PROVE NInv'
<1> USE DEF Open
<1>1. Types /\ Types'
  BY BlockIs DEF NInv, Types
<1>2. Emptied' /\ Stored' /\ Splitting' /\ Places' /\ Tree' /\ ~HasBlk' /\ ~HasData'
  BY <1>1, HandEmpty
<1>3. dirAddr' \in FilesIn(cell')
  BY <1>1, FilesAre DEF Types
<1>4. OnPath'
  BY <1>2, <1>3 DEF OnPath, Creating
<1>. QED
  BY <1>1, <1>2, <1>4 DEF NInv

LEMMA ReplyKeeps ==
  ASSUME NInv, Reply PROVE NInv'
<1> USE DEF Reply, Forget
<1>1. Types'
  BY EmptyPath, LensAre DEF NInv, Types, Ptr
<1>2. Emptied' /\ Stored' /\ Splitting' /\ Places' /\ Tree' /\ ~HasBlk' /\ ~HasData'
  BY <1>1, HandEmpty
<1>3. OnPath'
  BY <1>2 DEF OnPath, Creating
<1>. QED
  BY <1>1, <1>2, <1>3 DEF NInv

LEMMA AstrayKeeps ==
  ASSUME NInv, Astray PROVE NInv'
<1> USE DEF Astray, Forget
<1>1. Types'
  BY EmptyPath, LensAre DEF NInv, Types, Ptr
<1>2. Emptied' /\ Stored' /\ Splitting' /\ Places' /\ Tree' /\ ~HasBlk' /\ ~HasData'
  BY <1>1, HandEmpty
<1>3. OnPath'
  BY <1>2 DEF OnPath, Creating
<1>. QED
  BY <1>1, <1>2, <1>3 DEF NInv

(* A component of the path is looked up in a directory that is a file.      *)
LEMMA LookUpIs ==
  ASSUME NInv, LookUp
  PROVE  /\ dirAddr \in FilesIn(cell) /\ path # <<>>
         /\ Head(path) \in Name /\ Tail(path) \in Path
         /\ DataIn(cell, dirAddr) # 0 => cell[DataIn(cell, dirAddr)].kind = "data"
         /\ Entry(Head(path)) = EntryIn(cell, dirAddr, Head(path))
         /\ Entry(Head(path)) \in Ptr
         /\ Entry(Head(path)) # 0 => Entry(Head(path)) \in FilesIn(cell)
<1>1. Types /\ Tree /\ OnPath /\ pc = "lookup" /\ path # <<>> /\ path \in Path
      /\ cell \in Cells /\ dirAddr # 0
      /\ ~(Directory # 0 /\ cell[Directory].kind = "text")
  BY DEF NInv, LookUp, Strange, Types
<1>2. dirAddr \in FilesIn(cell)
  BY <1>1 DEF OnPath
<1>3. Directory = DataIn(cell, dirAddr) /\ Entry(Head(path)) = EntryIn(cell, dirAddr, Head(path))
  BY Views
<1>4. DataIn(cell, dirAddr) # 0 => cell[DataIn(cell, dirAddr)].kind = "data"
  BY <1>1, <1>2, <1>3 DEF Tree, Branched
<1>5. Head(path) \in Name /\ Tail(path) \in Path
  BY <1>1, PathIs
<1>6. EntryIn(cell, dirAddr, Head(path)) \in Ptr
      /\ (EntryIn(cell, dirAddr, Head(path)) # 0
            => EntryIn(cell, dirAddr, Head(path)) \in KidsIn(cell, dirAddr))
  BY <1>1, <1>5, CellTypes
<1>7. KidsIn(cell, dirAddr) \subseteq FilesIn(cell)
  BY <1>1, <1>2, FilesAre
<1>. QED
  BY <1>1, <1>2, <1>3, <1>4, <1>5, <1>6, <1>7

LEMMA FoundKeeps ==
  ASSUME NInv, Found PROVE NInv'
<1>1. /\ LookUp /\ pc = "lookup" /\ pc' = "lookup" /\ Entry(Head(path)) # 0
      /\ dirAddr' = Entry(Head(path)) /\ path' = Tail(path)
      /\ UNCHANGED <<sb, cell, want, blk, dataBlock, l2, base, cid, held, crashes>>
  BY DEF Found, LookUp
<1>2. dirAddr' \in FilesIn(cell') /\ dirAddr' \in Ptr /\ path' \in Path
  BY <1>1, LookUpIs
<1>3. Types'
  BY <1>1, <1>2 DEF NInv, Types
<1>4. Emptied' /\ Stored' /\ Splitting' /\ Places' /\ Tree' /\ ~HasBlk' /\ ~HasData'
  BY <1>1, <1>3, HandEmpty
<1>5. OnPath'
  BY <1>1, <1>2, <1>4 DEF OnPath, Creating
<1>. QED
  BY <1>3, <1>4, <1>5 DEF NInv

LEMMA NotFoundKeeps ==
  ASSUME NInv, NotFound PROVE NInv'
<1>1. /\ LookUp /\ pc = "lookup" /\ pc' = "malloc" /\ want' = "blk" /\ Entry(Head(path)) = 0
      /\ UNCHANGED <<sb, cell, path, dirAddr, blk, dataBlock, l2, base, cid, held, crashes>>
  BY DEF NotFound, LookUp
<1>2. /\ dirAddr \in FilesIn(cell) /\ path # <<>>
      /\ DataIn(cell, dirAddr) # 0 => cell[DataIn(cell, dirAddr)].kind = "data"
      /\ EntryIn(cell, dirAddr, Head(path)) = 0
  BY <1>1, LookUpIs
<1>3. Types'
  BY <1>1 DEF NInv, Types
<1>4. Emptied' /\ Stored' /\ Splitting' /\ Places' /\ Tree' /\ ~HasBlk' /\ ~HasData'
  BY <1>1, <1>3, HandEmpty
<1>5. OnPath'
  BY <1>1, <1>2, <1>4 DEF OnPath, Creating
<1>. QED
  BY <1>3, <1>4, <1>5 DEF NInv

(***************************************************************************)
(* mallocBlock.                                                             *)
(***************************************************************************)
LEMMA GotIs ==
  ASSUME Types, NEW b \in Ptr, Got(b)
  PROVE  /\ pc' \in {"malloc", "entry", "data"} /\ want' \in {"blk", "data"}
         /\ blk' \in Ptr /\ dataBlock' \in Ptr
         /\ want = "blk" /\ b = 0 => pc' = "entry" /\ blk' = 0
         /\ want = "blk" /\ b # 0 => pc' = "malloc" /\ want' = "data" /\ blk' = b
         /\ want = "data" => pc' = "data" /\ want' = "data" /\ blk' = blk /\ dataBlock' = b
BY DEF Got, Types

Rest == IF want = "data" THEN {blk} ELSE {}

(* It returns b, which it had in its hand or takes now.                     *)
LEMMA GotKeeps ==
  ASSUME NInv, NEW b \in Ptr, Got(b), pc \in {"malloc", "link"},
         crashes' = crashes, path' = path, dirAddr' = dirAddr, held' = held,
         Types', Stored', Tree', Intact' <=> Intact, Intact \/ sb' = sb,
         FilesIn(cell') = FilesIn(cell), UsedIn(cell') = UsedIn(cell),
         DataIn(cell', dirAddr) = DataIn(cell, dirAddr),
         DataIn(cell, dirAddr) # 0 => cell'[DataIn(cell, dirAddr)] = cell[DataIn(cell, dirAddr)],
         b # 0 => Intact /\ b \in Block /\ b \notin Listed' /\ b \notin UsedIn(cell) /\ b \notin Rest,
         Listed' \subseteq Listed, Listed \cup Hand \subseteq Listed' \cup {b} \cup Rest
  PROVE  NInv'
<1>1. Types /\ Emptied /\ Places /\ OnPath /\ Splitting
  BY DEF NInv
<1>2. /\ pc' \in {"malloc", "entry", "data"} /\ want' \in {"blk", "data"}
      /\ blk' \in Ptr /\ dataBlock' \in Ptr
      /\ want = "blk" /\ b = 0 => pc' = "entry" /\ blk' = 0
      /\ want = "blk" /\ b # 0 => pc' = "malloc" /\ want' = "data" /\ blk' = b
      /\ want = "data" => pc' = "data" /\ want' = "data" /\ blk' = blk /\ dataBlock' = b
      /\ want \in {"blk", "data"}
  BY <1>1, GotIs DEF Types
<1>3. Cut' = {} /\ (HasBlk <=> want = "data") /\ ~HasData /\ Rest \subseteq Hand
  BY <1>2 DEF Cut, HasBlk, HasData, Hand, Rest
<1>4. Hand' = Rest \cup ({b} \ {0})
  <2>1. CASE want = "blk" /\ b = 0
    BY <1>2, <1>3, <2>1 DEF Hand, HasBlk, HasData, Rest
  <2>2. CASE want = "blk" /\ b # 0
    BY <1>2, <1>3, <2>2 DEF Hand, HasBlk, HasData, Rest
  <2>3. CASE want = "data"
    BY <1>2, <1>3, <2>3 DEF Hand, HasBlk, HasData, Rest
  <2>. QED
    BY <1>2, <2>1, <2>2, <2>3
<1>5. Emptied'
  BY <1>1 DEF Emptied
<1>6. Splitting'
  BY <1>2, <1>3 DEF Splitting
<1>7. Places'
  <2>1. Listed' \cap UsedIn(cell)' = {}
    BY <1>1 DEF Places
  <2>2. Rest \subseteq Block /\ Rest \cap Listed = {} /\ Rest \cap UsedIn(cell) = {}
    BY <1>1, <1>3 DEF Places
  <2>3. Hand' \subseteq Block /\ Hand' \cap Listed' = {} /\ Hand' \cap UsedIn(cell)' = {}
    BY <1>4, <2>2
  <2>4. want = "data" => blk # 0
    BY <1>1, <1>3 DEF Places
  <2>5. HasBlk' => blk' # 0
    BY <1>2, <2>4 DEF HasBlk
  <2>6. HasData' => blk' # dataBlock'
    <3>1. HasData' => want = "data"
      BY <1>2 DEF HasData
    <3>. QED
      BY <1>2, <2>4, <3>1 DEF Rest
  <2>7. crashes' = 0 /\ Intact' => Block \subseteq Listed' \cup Hand' \cup UsedIn(cell)'
    BY <1>1, <1>4, BlockIs DEF Places
  <2>. QED
    BY <1>3, <2>1, <2>3, <2>5, <2>6, <2>7 DEF Places
<1>8. OnPath'
  <2>1. Creating
    BY DEF Creating
  <2>2. /\ dirAddr \in FilesIn(cell) /\ path # <<>>
        /\ DataIn(cell, dirAddr) # 0 => cell[DataIn(cell, dirAddr)].kind = "data"
        /\ EntryIn(cell, dirAddr, Head(path)) = 0
    BY <1>1, <2>1 DEF OnPath
  <2>3. EntryIn(cell', dirAddr, Head(path)) = EntryIn(cell, dirAddr, Head(path))
    BY DEF EntryIn
  <2>4. HasBlk' => DataIn(cell, dirAddr) # 0
    <3>1. CASE want = "data"
      BY <1>1, <1>3, <3>1 DEF OnPath
    <3>2. CASE want = "blk" /\ b # 0
      <4>1. Intact /\ Tree
        BY <3>2 DEF NInv
      <4>. QED
        BY <2>2, <4>1 DEF Tree, Holding
    <3>3. CASE want = "blk" /\ b = 0
      BY <1>2, <3>3 DEF HasBlk
    <3>. QED
      BY <1>2, <3>1, <3>2, <3>3
  <2>5. pc' = "entry" => blk' = 0
    BY <1>2
  <2>6. pc' = "data" => want' = "data"
    BY <1>2
  <2>. QED
    BY <1>2, <2>2, <2>3, <2>4, <2>5, <2>6 DEF OnPath
<1>. QED
  BY <1>5, <1>6, <1>7, <1>8 DEF NInv

LEMMA MallocNoneKeeps ==
  ASSUME NInv, MallocNone PROVE NInv'
<1>1. /\ pc = "malloc" /\ Got(0)
      /\ UNCHANGED <<sb, cell, path, dirAddr, l2, base, cid, held, crashes>>
  BY DEF MallocNone
<1>2. Types /\ Stored /\ Tree /\ 0 \in Ptr
  BY BlockIs DEF NInv
<1>3. Stored' /\ Tree' /\ Listed' = Listed /\ (Intact' <=> Intact)
  BY <1>1, <1>2, DiskStays
<1>4. Types'
  BY <1>1, <1>2, GotIs DEF Types
<1>5. Hand \subseteq Rest
  BY <1>1 DEF Hand, Cut, HasBlk, HasData, Rest
<1>. QED
  BY <1>1, <1>2, <1>3, <1>4, <1>5, GotKeeps

(* The first free block of a size is taken.                                 *)
LEMMA UnlinkedIs ==
  ASSUME NInv, NEW l \in Lens, sb.freeBlock[l] # 0, sb' = Unlinked(l), cell' = cell
  PROVE  /\ sb' \in [signature : Signatures \cup {"zero"}, freeBlock : Heads, freeSize : Nat]
         /\ (Intact' <=> Intact) /\ Stored'
         /\ \A m \in Lens \ {l} : sb'.freeBlock[m] = sb.freeBlock[m]
         /\ Extent(sb.freeBlock[l], l) \subseteq Listed
         /\ Listed' = Listed \ Extent(sb.freeBlock[l], l)
         /\ sb.freeBlock[l] \in Block /\ sb.freeBlock[l] \in Extent(sb.freeBlock[l], l)
         /\ \A u \in Extent(sb.freeBlock[l], l) \ {sb.freeBlock[l]} : cell[u] = Blank
<1> DEFINE fr == sb.freeBlock
           f2 == [fr EXCEPT ![l] = NextIn(cell, fr[l])]
           X  == Extent(fr[l], l)
<1>1. /\ Types /\ fr \in Heads /\ cell \in Cells /\ sb.freeSize \in Nat
      /\ Fitting(fr, cell) /\ Apart(fr, cell) /\ sb.freeSize = Cardinality(Units(fr, cell))
  BY SbIs DEF NInv, Types, Stored, Listed
<1>2. /\ f2 \in Heads /\ Fitting(f2, cell) /\ Apart(f2, cell)
      /\ Units(f2, cell) = Units(fr, cell) \ X
      /\ X \subseteq Units(fr, cell) /\ fr[l] \in X /\ fr[l] \in Block
      /\ Cardinality(Units(f2, cell)) = Cardinality(Units(fr, cell)) - Pow[l]
      /\ \A u \in X \ {fr[l]} : cell[u] = Blank
  <2> HIDE DEF fr
  <2>. QED
    BY <1>1, ListsTake DEF fr
<1>3. sb' = Super(f2, sb.freeSize - Pow[l])
  BY DEF Unlinked, NextOf, NextIn
<1>4. sb.freeSize - Pow[l] = Cardinality(Units(f2, cell)) /\ sb.freeSize - Pow[l] \in Nat
  <2>1. Cardinality(Units(f2, cell)) \in Nat
    BY <1>1, <1>2, UnitsAre
  <2>. QED
    BY <1>1, <1>2, <2>1
<1>5. /\ sb' \in [signature : Signatures \cup {"zero"}, freeBlock : Heads, freeSize : Nat]
      /\ sb'.freeBlock = f2 /\ sb'.freeSize = sb.freeSize - Pow[l]
      /\ (Intact' <=> Intact)
  BY <1>1, <1>2, <1>3, <1>4, SuperIs
<1>6. \A m \in Lens \ {l} : sb'.freeBlock[m] = sb.freeBlock[m]
  BY <1>1, <1>5 DEF Heads
<1>7. Stored' /\ Listed' = Listed \ X
  BY <1>2, <1>4, <1>5 DEF Stored, Listed
<1>. QED
  BY <1>2, <1>5, <1>6, <1>7 DEF Listed

LEMMA MallocExactKeeps ==
  ASSUME NInv, MallocExact PROVE NInv'
<1> DEFINE h == sb.freeBlock[0]
<1>1. /\ pc = "malloc" /\ h # 0 /\ sb' = Unlinked(0) /\ Got(h) /\ 0 \in Lens
      /\ UNCHANGED <<cell, path, dirAddr, l2, base, cid, held, crashes>>
  BY LensAre DEF MallocExact
<1>2. Types /\ Tree /\ Places /\ Emptied
  BY DEF NInv
<1>3. /\ sb' \in [signature : Signatures \cup {"zero"}, freeBlock : Heads, freeSize : Nat]
      /\ (Intact' <=> Intact) /\ Stored'
      /\ Extent(h, 0) \subseteq Listed /\ Listed' = Listed \ Extent(h, 0) /\ h \in Block
  BY <1>1, UnlinkedIs
<1>4. Extent(h, 0) = {h} /\ h \in Ptr
  BY <1>1, <1>3, BlockIs, ExtentHas
<1>5. Intact
  BY <1>1, <1>2 DEF Emptied
<1> HIDE DEF h
<1>6. Types'
  BY <1>1, <1>2, <1>3, <1>4, GotIs DEF Types
<1>7. Tree'
  BY <1>1, <1>2, <1>3 DEF Tree
<1>8. Hand = Rest
  BY <1>1 DEF Hand, Cut, HasBlk, HasData, Rest
<1>9. h \notin UsedIn(cell) /\ h \notin Rest /\ h \notin Listed'
  BY <1>2, <1>3, <1>4, <1>8 DEF Places
<1>10. Listed \cup Hand \subseteq Listed' \cup {h} \cup Rest /\ Listed' \subseteq Listed
  BY <1>3, <1>4, <1>8
<1>. QED
  BY <1>1, <1>3, <1>4, <1>5, <1>6, <1>7, <1>9, <1>10, GotKeeps

LEMMA MallocSplitKeeps ==
  ASSUME NInv, MallocSplit PROVE NInv'
<1> DEFINE l == Min(Larger)
           h == sb.freeBlock[l]
<1>1. /\ pc = "malloc" /\ pc' = "free" /\ Larger # {} /\ sb.freeBlock[0] = 0
      /\ sb' = Unlinked(l) /\ base' = h /\ l2' = l - 1
      /\ UNCHANGED <<cell, path, dirAddr, want, blk, dataBlock, cid, held, crashes>>
  BY DEF MallocSplit
<1>2. Types /\ Tree /\ Places /\ Emptied /\ OnPath
  BY DEF NInv
<1>3. l \in Larger /\ \A m \in Larger : l <= m
  <2>1. Larger \in SUBSET Lens /\ IsFiniteSet(Lens) /\ Larger \subseteq Int
    <3>1. LENS \in Nat /\ Lens = 0 .. LENS - 1 /\ 0 \in Int /\ LENS - 1 \in Int
      BY LensAre
    <3>2. IsFiniteSet(0 .. LENS - 1)
      BY ONLY <3>1, FS_Interval
    <3>. QED
      BY <3>1, <3>2 DEF Larger
  <2>2. IsFiniteSet(Larger)
    BY ONLY <2>1, FS_Subset
  <2>3. \E n \in Larger : \A m \in Larger : n <= m
    BY <1>1, <2>1, <2>2, LeastIsLeast
  <2>. QED
    BY <2>3 DEF Min
<1> HIDE DEF l
<1>4. /\ l \in Lens /\ l \in Nat /\ l # 0 /\ h # 0 /\ l - 1 \in Lens /\ (l - 1) + 1 = l
      /\ \A m \in 0 .. l - 1 : m \in Lens /\ m \in Lens \ {l} /\ sb.freeBlock[m] = 0
  <2>1. l \in Lens /\ l \in Nat /\ l # 0 /\ h # 0
    BY <1>1, <1>3, LensAre DEF Larger
  <2>2. l - 1 \in Lens /\ (l - 1) + 1 = l
    BY <2>1, LensAre
  <2>3. \A m \in 0 .. l - 1 : m \in Nat /\ m <= l /\ m # l /\ ~(l <= m)
    BY <2>1
  <2>4. \A m \in 0 .. l - 1 : m \in Lens /\ m \in Lens \ {l} /\ m \notin Larger
    BY <1>3, <2>1, <2>3, LensAre
  <2>. QED
    BY <2>1, <2>2, <2>4 DEF Larger
<1>5. /\ sb' \in [signature : Signatures \cup {"zero"}, freeBlock : Heads, freeSize : Nat]
      /\ (Intact' <=> Intact) /\ Stored'
      /\ \A m \in Lens \ {l} : sb'.freeBlock[m] = sb.freeBlock[m]
      /\ Extent(h, l) \subseteq Listed /\ Listed' = Listed \ Extent(h, l)
      /\ h \in Block /\ h \in Extent(h, l)
      /\ \A u \in Extent(h, l) \ {h} : cell[u] = Blank
  BY <1>1, <1>4, UnlinkedIs
<1>6. Intact /\ Intact'
  BY <1>1, <1>2, <1>4, <1>5 DEF Emptied
<1> HIDE DEF h
<1>7. Types'
  BY <1>1, <1>2, <1>4, <1>5, BlockIs DEF Types
<1>8. Tree'
  BY <1>1, <1>2, <1>5 DEF Tree
<1>9. Cut' = Extent(h, l)
  BY <1>1, <1>4 DEF Cut, Extent
<1>10. Hand = Rest /\ (HasBlk' <=> HasBlk) /\ ~HasData' /\ Hand' = Extent(h, l) \cup Hand
  <2>1. Hand = Rest /\ (HasBlk' <=> HasBlk) /\ ~HasData' /\ (HasBlk <=> want = "data")
    BY <1>1 DEF Hand, Cut, HasBlk, HasData, Rest
  <2>. QED
    BY <1>1, <1>9, <2>1 DEF Hand, Rest
<1>11. Splitting'
  <2>1. l2' + 1 \in Lens /\ \A m \in 0 .. l2' : sb'.freeBlock[m] = 0
    BY <1>1, <1>4, <1>5
  <2>2. \A u \in Cut' \ {base'} : cell'[u] = Blank
    BY <1>1, <1>5, <1>9
  <2>. QED
    BY <1>1, <1>5, <1>6, <2>1, <2>2 DEF Splitting
<1>12. Places'
  <2>1. Listed \subseteq Block
    BY <1>2, SbIs, UnitsAre DEF Types, Listed
  <2>2. HasBlk => blk \in Hand
    BY DEF Hand
  <2>. QED
    BY <1>1, <1>2, <1>5, <1>9, <1>10, <2>1, <2>2 DEF Places
<1>13. OnPath'
  BY <1>1, <1>2, <1>10 DEF OnPath, Creating
<1>14. Emptied'
  BY <1>6 DEF Emptied
<1>. QED
  BY <1>5, <1>7, <1>8, <1>11, <1>12, <1>13, <1>14 DEF NInv

LEMMA FreeHeadKeeps ==
  ASSUME NInv, FreeHead PROVE NInv'
<1> DEFINE n  == base + Pow[l2]
           fr == sb.freeBlock
           f2 == [fr EXCEPT ![l2] = n]
           X  == Extent(n, l2)
<1>1. /\ pc = "free" /\ pc' = "link" /\ cid' = fr[l2]
      /\ sb' = Super(f2, sb.freeSize + Pow[l2])
      /\ UNCHANGED <<cell, path, dirAddr, want, blk, dataBlock, l2, base, held, crashes>>
  BY DEF FreeHead
<1>2. Types /\ Stored /\ Tree /\ Places /\ Emptied /\ OnPath /\ Splitting
  BY DEF NInv
<1>3. /\ fr \in Heads /\ cell \in Cells /\ sb.freeSize \in Nat /\ l2 \in Lens /\ l2 \in Nat
      /\ Fitting(fr, cell) /\ Apart(fr, cell) /\ sb.freeSize = Cardinality(Units(fr, cell))
      /\ Listed = Units(fr, cell) /\ base \in Block /\ base \in Nat /\ Intact
      /\ l2 + 1 \in Lens /\ (\A m \in 0 .. l2 : fr[m] = 0) /\ fr[l2] = 0
      /\ \A u \in Cut \ {base} : cell[u] = Blank
  BY <1>1, <1>2, SbIs, LensAre, BlockIs DEF Types, Stored, Listed, Splitting
<1>4. /\ Cut = Extent(base, l2) \cup X /\ Extent(base, l2) \cap X = {}
      /\ n \in Nat /\ n # base /\ n \in X /\ base \in Extent(base, l2)
  <2>1. /\ base .. base + Pow[l2 + 1] - 1 = Extent(base, l2 + 1)
        /\ Extent(base, l2 + 1) = Extent(base, l2) \cup X
        /\ Extent(base, l2) \cap X = {}
        /\ n \in Nat /\ n # base
    BY <1>3, Halves
  <2>2. n \in X /\ base \in Extent(base, l2)
    BY <1>3, <2>1, ExtentHas
  <2>. QED
    BY <1>1, <2>1, <2>2 DEF Cut
<1>5. Cut \subseteq Hand /\ Hand \subseteq Block /\ Hand \cap Listed = {} /\ Hand \cap UsedIn(cell) = {}
  BY <1>2 DEF Hand, Places
<1>6. /\ n \in Block /\ X \subseteq Block /\ X \cap Units(fr, cell) = {}
      /\ \A u \in X : cell[u] = Blank
  BY <1>3, <1>4, <1>5
<1>7. /\ f2 \in Heads /\ Fitting(f2, cell) /\ Apart(f2, cell)
      /\ Units(f2, cell) = Units(fr, cell) \cup X
      /\ Cardinality(Units(f2, cell)) = Cardinality(Units(fr, cell)) + Pow[l2]
  <2>1. /\ fr \in Heads /\ cell \in Cells /\ Fitting(fr, cell) /\ Apart(fr, cell)
        /\ l2 \in Lens /\ fr[l2] = 0 /\ n \in Block /\ Unlisted(fr, cell, n, l2)
    BY <1>3, <1>6 DEF Unlisted
  <2> HIDE DEF fr, n, Fitting, Apart, Units, Unlisted
  <2>. QED
    BY <2>1, ListsPut, ZenonT(60)
<1>8. sb.freeSize + Pow[l2] \in Nat
  BY <1>3, PowPositive
<1>9. /\ sb' \in [signature : Signatures \cup {"zero"}, freeBlock : Heads, freeSize : Nat]
      /\ sb'.freeBlock = f2 /\ sb'.freeSize = sb.freeSize + Pow[l2]
      /\ (Intact' <=> Intact)
  <2> HIDE DEF f2
  <2>. QED
    BY <1>1, <1>2, <1>7, <1>8, SuperIs
<1>10. Stored' /\ Listed' = Listed \cup X
  <2> HIDE DEF f2
  <2>. QED
    BY <1>1, <1>3, <1>7, <1>9 DEF Stored, Listed
<1>11. f2[l2] = n /\ \A m \in 0 .. l2 - 1 : f2[m] = 0
  <2>1. \A m \in 0 .. l2 - 1 : m \in Lens /\ m # l2 /\ m \in 0 .. l2
    BY <1>3, LensAre
  <2>. QED
    BY <1>3, <2>1 DEF Heads
<1> HIDE DEF f2, X, n
<1>12. Types'
  BY <1>1, <1>2, <1>3, <1>9, BlockIs DEF Types
<1>13. Tree'
  BY <1>1, <1>2, <1>9 DEF Tree
<1>14. Cut' = Extent(base, l2)
  BY <1>1 DEF Cut
<1>15. (HasBlk' <=> HasBlk) /\ ~HasData' /\ ~HasData /\ Hand \subseteq Hand' \cup X /\ Hand' \subseteq Hand \ X
  <2>1. (HasBlk' <=> HasBlk) /\ ~HasData' /\ ~HasData
    BY <1>1 DEF HasBlk, HasData
  <2>2. HasBlk => blk \notin Cut
    BY <1>2 DEF Places
  <2>. QED
    BY <1>1, <1>4, <1>14, <2>1, <2>2 DEF Hand
<1>16. Splitting'
  <2>1. sb'.freeBlock[l2] = n /\ cell'[n] = Blank /\ cid' = 0
    BY <1>1, <1>3, <1>4, <1>6, <1>9, <1>11
  <2>2. \A u \in Cut' \ {base'} : cell'[u] = Blank
    BY <1>1, <1>3, <1>4, <1>14
  <2>3. base' \in Block /\ Intact' /\ \A m \in 0 .. l2' - 1 : sb'.freeBlock[m] = 0
    BY <1>1, <1>3, <1>9, <1>11
  <2>. QED
    BY <1>1, <2>1, <2>2, <2>3 DEF Splitting, n
<1>17. Places'
  <2>1. X \cap UsedIn(cell) = {} /\ (HasBlk => blk \notin Cut')
    BY <1>2, <1>4, <1>5, <1>14 DEF Places
  <2>. QED
    BY <1>1, <1>2, <1>5, <1>9, <1>10, <1>15, <2>1 DEF Places
<1>18. OnPath'
  BY <1>1, <1>2, <1>15 DEF OnPath, Creating
<1>19. Emptied'
  BY <1>3, <1>9 DEF Emptied
<1>. QED
  BY <1>10, <1>12, <1>13, <1>16, <1>17, <1>18, <1>19 DEF NInv

LEMMA TreeApart ==
  ASSUME NEW c \in Cells, NEW e \in Cells, NEW h, NEW k, Branched(c),
         SameOn(UsedIn(c) \ {0}, c, e), SameOn(FilesIn(c), h, k)
  PROVE  Branched(e) /\ (Holding(c, h) => Holding(e, k))
<1>1. /\ FilesIn(e) = FilesIn(c)
      /\ \A f \in FilesIn(c) :
            /\ e[f] = c[f] /\ DataIn(e, f) = DataIn(c, f)
            /\ DataIn(c, f) # 0 => e[DataIn(c, f)] = c[DataIn(c, f)]
  BY FilesApart
<1>2. \A f \in FilesIn(c) : f \in UsedIn(c) /\ f # 0
  BY FilesAre, BlockIs
<1>3. \A f \in FilesIn(c) : k[f] = h[f]
  BY DEF SameOn
<1>4. Branched(e)
  <2> SUFFICES ASSUME NEW f \in FilesIn(c)
               PROVE  /\ e[f].kind = "file"
                      /\ DataIn(e, f) # 0 => e[DataIn(e, f)].kind \in {"data", "text"}
                      /\ \A g \in FilesIn(c) :
                           /\ DataIn(e, f) # g
                           /\ f # g /\ DataIn(e, f) # 0 => DataIn(e, f) # DataIn(e, g)
    BY <1>1 DEF Branched
  <2>1. /\ c[f].kind = "file"
        /\ DataIn(c, f) # 0 => c[DataIn(c, f)].kind \in {"data", "text"}
        /\ \A g \in FilesIn(c) :
             /\ DataIn(c, f) # g
             /\ f # g /\ DataIn(c, f) # 0 => DataIn(c, f) # DataIn(c, g)
    BY DEF Branched
  <2>. QED
    BY <1>1, <2>1
<1>5. ASSUME Holding(c, h) PROVE Holding(e, k)
  <2> SUFFICES ASSUME NEW f \in FilesIn(c)
               PROVE  /\ DataIn(e, f) # 0
                      /\ k[f] = NOTHING => e[DataIn(e, f)].kind = "data"
                      /\ k[f] # NOTHING => e[DataIn(e, f)] = Written(k[f])
    BY <1>1 DEF Holding
  <2>1. /\ DataIn(c, f) # 0
        /\ h[f] = NOTHING => c[DataIn(c, f)].kind = "data"
        /\ h[f] # NOTHING => c[DataIn(c, f)] = Written(h[f])
    BY <1>5 DEF Holding
  <2>. QED
    BY <1>1, <1>3, <2>1
<1>. QED
  BY <1>4, <1>5

(* A free block's link to nowhere is written where all was zero before.     *)
LEMMA LinkWritten ==
  ASSUME NEW fr \in Heads, NEW c \in Cells, NEW e \in Cells, NEW l \in Lens,
         NEW n \in Block, fr[l] = n, c[n] = Blank, e[n] = Link(0), SameOn(Block \ {n}, c, e),
         Fitting(fr, c), Apart(fr, c)
  PROVE  Fitting(fr, e) /\ Apart(fr, e) /\ Units(fr, e) = Units(fr, c)
<1>1. n \in Block /\ n \in Chain(fr, c, l)
  BY ChainIs, BlockIs
<1>2. e[n] = Link(0) /\ \A u \in Block \ {n} : e[u] = c[u]
  BY DEF SameOn
<1>3. NextIn(c, n) = 0 /\ NextIn(e, n) = 0
  BY <1>2, CellMakes, BlockIs DEF NextIn
<1>4. ASSUME NEW m \in Lens, NEW b \in Chain(fr, c, m)
      PROVE  NextIn(e, b) = NextIn(c, b) /\ \A u \in Extent(b, m) \ {b} : e[u] = Blank
  <2>1. b \in Block /\ Extent(b, m) \subseteq Block /\ \A u \in Extent(b, m) \ {b} : c[u] = Blank
    BY ChainIs DEF Fitting
  <2>2. NextIn(e, b) = NextIn(c, b)
    BY <1>2, <1>3, <2>1 DEF NextIn
  <2>3. n \notin Extent(b, m) \ {b}
    <3>1. CASE <<b, m>> = <<n, l>>
      BY <3>1
    <3>2. CASE <<b, m>> # <<n, l>>
      <4>1. Extent(b, m) \cap Extent(n, l) = {}
        BY <1>1, <3>2 DEF Apart
      <4>2. n \in Extent(n, l)
        BY <1>1, BlockIs, ExtentHas
      <4>. QED
        BY <4>1, <4>2
    <3>. QED
      BY <3>1, <3>2
  <2>. QED
    BY <1>2, <2>1, <2>2, <2>3
<1>. QED
  BY <1>4, ListsStay

LEMMA FreeLinkKeeps ==
  ASSUME NInv, FreeLink PROVE NInv'
<1> DEFINE n == base + Pow[l2]
<1>1. /\ pc = "link" /\ cell' = [cell EXCEPT ![n] = Link(cid)]
      /\ l2 = 0 => Got(base) /\ l2' = l2
      /\ l2 # 0 => pc' = "free" /\ l2' = l2 - 1 /\ UNCHANGED <<blk, dataBlock, want>>
      /\ UNCHANGED <<sb, path, dirAddr, base, cid, held, crashes>>
  BY DEF FreeLink
<1>2. Types /\ Stored /\ Tree /\ Places /\ Emptied /\ OnPath /\ Splitting
  BY DEF NInv
<1>3. /\ sb.freeBlock \in Heads /\ cell \in Cells /\ l2 \in Lens /\ l2 \in Nat
      /\ Fitting(sb.freeBlock, cell) /\ Apart(sb.freeBlock, cell)
      /\ base \in Block /\ base \in Nat /\ base # 0 /\ Intact
      /\ sb.freeBlock[l2] = n /\ cell[n] = Blank /\ cid = 0
      /\ \A m \in 0 .. l2 - 1 : sb.freeBlock[m] = 0
      /\ \A u \in Cut \ {base} : cell[u] = Blank
  BY <1>1, <1>2, SbIs, LensAre, BlockIs DEF Types, Stored, Splitting
<1>4. Cut = Extent(base, l2) /\ n \notin Cut /\ n # 0
  <2>1. Pow[l2] \in Nat /\ Pow[l2] >= 1
    BY <1>3, PowPositive
  <2>. QED
    BY <1>1, <1>3, <2>1 DEF Cut, Extent
<1>5. n \in Block /\ n \in Listed
  <2>1. n \in Block /\ n \in Chain(sb.freeBlock, cell, l2)
    BY <1>3, <1>4, ChainIs
  <2>. QED
    BY <1>3, <2>1, UnitsAre DEF Listed
<1>6. cell' \in Cells /\ cell'[n] = Link(0) /\ \A u \in Block \ {n} : cell'[u] = cell[u]
  BY <1>1, <1>3, <1>5, CellMakes, BlockIs DEF Cells
<1> HIDE DEF n
<1>7. Fitting(sb.freeBlock, cell') /\ Apart(sb.freeBlock, cell')
      /\ Units(sb.freeBlock, cell') = Units(sb.freeBlock, cell)
  <2>1. SameOn(Block \ {n}, cell, cell')
    BY <1>6 DEF SameOn
  <2>2. /\ sb.freeBlock \in Heads /\ cell \in Cells /\ cell' \in Cells /\ l2 \in Lens
        /\ n \in Block /\ sb.freeBlock[l2] = n /\ cell[n] = Blank /\ cell'[n] = Link(0)
        /\ Fitting(sb.freeBlock, cell) /\ Apart(sb.freeBlock, cell)
    BY <1>3, <1>5, <1>6
  <2>. QED
    BY ONLY <2>1, <2>2, LinkWritten
<1>8. Stored' /\ Listed' = Listed /\ Intact' /\ (Intact' <=> Intact)
  BY <1>1, <1>2, <1>3, <1>7 DEF Stored, Listed, Intact
<1>9. SameOn(UsedIn(cell) \ {0}, cell, cell')
  <2>1. n \notin UsedIn(cell) /\ UsedIn(cell) \subseteq Ptr
    BY <1>2, <1>3, <1>5, FilesAre DEF Places
  <2>. QED
    BY <1>6, <2>1, BlockIs DEF SameOn
<1>10. /\ FilesIn(cell') = FilesIn(cell) /\ UsedIn(cell') = UsedIn(cell)
       /\ \A f \in FilesIn(cell) :
            /\ cell'[f] = cell[f] /\ DataIn(cell', f) = DataIn(cell, f)
            /\ DataIn(cell, f) # 0 => cell'[DataIn(cell, f)] = cell[DataIn(cell, f)]
  BY <1>3, <1>6, <1>9, FilesApart
<1>11. Tree'
  <2>1. Branched(cell') /\ (Holding(cell, held) => Holding(cell', held'))
    <3>1. SameOn(FilesIn(cell), held, held') /\ Branched(cell) /\ cell \in Cells /\ cell' \in Cells
      BY <1>1, <1>2, <1>3, <1>6 DEF Tree, SameOn
    <3>. QED
      BY <1>9, <3>1, TreeApart
  <2>. QED
    BY <1>2, <1>8, <2>1 DEF Tree
<1>12. dirAddr \in FilesIn(cell)
  BY <1>1, <1>2 DEF OnPath, Creating
<1>13. Hand = Cut \cup Rest /\ (HasBlk <=> want = "data") /\ (want = "data" => blk \notin Cut)
  BY <1>1, <1>2 DEF Hand, HasBlk, HasData, Rest, Places
<1>14. CASE l2 = 0
  <2>1. Got(base) /\ base \in Ptr /\ Cut = {base}
    BY <1>1, <1>3, <1>4, <1>14, BlockIs, ExtentHas
  <2>2. Types'
    BY <1>1, <1>2, <1>6, <1>14, <2>1, GotIs DEF Types
  <2>3. base \notin Listed' /\ base \notin UsedIn(cell) /\ base \notin Rest
    BY <1>2, <1>8, <1>13, <2>1 DEF Places, Rest
  <2>4. Listed' \subseteq Listed /\ Listed \cup Hand \subseteq Listed' \cup {base} \cup Rest
    BY <1>8, <1>13, <2>1
  <2>. QED
    BY <1>1, <1>3, <1>8, <1>10, <1>11, <1>12, <2>1, <2>2, <2>3, <2>4, GotKeeps
<1>15. CASE l2 # 0
  <2>1. /\ pc' = "free" /\ l2' = l2 - 1 /\ l2' + 1 = l2 /\ l2' \in Lens
        /\ UNCHANGED <<blk, dataBlock, want>>
    BY <1>1, <1>3, <1>15, LensAre
  <2>2. Types'
    BY <1>1, <1>2, <1>6, <2>1 DEF Types
  <2>3. Cut' = Cut
    BY <1>1, <1>4, <2>1 DEF Cut, Extent
  <2>4. (HasBlk' <=> HasBlk) /\ ~HasData' /\ Hand' = Hand
    <3>1. (HasBlk' <=> HasBlk) /\ ~HasData' /\ ~HasData
      BY <1>1, <2>1 DEF HasBlk, HasData
    <3>. QED
      BY <2>1, <2>3, <3>1 DEF Hand
  <2>5. \A u \in Cut' \ {base'} : cell'[u] = Blank
    <3>1. Cut \subseteq Block
      BY <1>2 DEF Hand, Places
    <3>. QED
      BY <1>1, <1>3, <1>4, <1>6, <2>3, <3>1
  <2>6. Splitting'
    BY <1>1, <1>3, <1>8, <2>1, <2>5 DEF Splitting
  <2>7. Places'
    BY <1>1, <1>2, <1>8, <1>10, <2>1, <2>3, <2>4 DEF Places
  <2>8. EntryIn(cell', dirAddr, Head(path)) = EntryIn(cell, dirAddr, Head(path))
    BY <1>10, <1>12 DEF EntryIn
  <2>9. OnPath'
    BY <1>1, <1>2, <1>10, <1>12, <2>1, <2>4, <2>8 DEF OnPath, Creating
  <2>10. Emptied'
    BY <1>8 DEF Emptied
  <2>. QED
    BY <1>8, <1>11, <2>2, <2>6, <2>7, <2>9, <2>10 DEF NInv
<1>. QED
  BY <1>14, <1>15

(***************************************************************************)
(* The rest of createFileBlock and HD_OPEN, and HD_WRITE.                   *)
(***************************************************************************)
(* A block that is neither free nor used is written.                        *)
LEMMA DiskApart ==
  ASSUME NInv, cell' \in Cells, sb' = sb, NEW b \in Hand, SameOn(Block \ {b}, cell, cell'),
         SameOn(Block \ {b}, held, held')
  PROVE  /\ Stored' /\ Tree' /\ Listed' = Listed /\ (Intact' <=> Intact)
         /\ FilesIn(cell') = FilesIn(cell) /\ UsedIn(cell') = UsedIn(cell)
         /\ b \in Block /\ b # 0 /\ b \notin UsedIn(cell)
         /\ \A f \in FilesIn(cell) :
              /\ cell'[f] = cell[f] /\ DataIn(cell', f) = DataIn(cell, f)
              /\ DataIn(cell, f) # 0 => cell'[DataIn(cell, f)] = cell[DataIn(cell, f)]
         /\ \A f \in FilesIn(cell), n \in Name : EntryIn(cell', f, n) = EntryIn(cell, f, n)
<1>1. /\ Types /\ Stored /\ Tree /\ Places /\ cell \in Cells /\ sb.freeBlock \in Heads
  BY SbIs DEF NInv, Types
<1>2. b \in Block /\ b # 0 /\ b \notin Listed /\ b \notin UsedIn(cell) /\ Listed \subseteq Block
  BY <1>1, BlockIs, UnitsAre DEF Places, Listed
<1>3. SameOn(Listed, cell, cell')
  BY <1>2 DEF SameOn
<1>4. SameOn(UsedIn(cell) \ {0}, cell, cell') /\ SameOn(FilesIn(cell), held, held')
  <2>1. UsedIn(cell) \ {0} \subseteq Block \ {b} /\ FilesIn(cell) \subseteq Block \ {b}
    BY <1>1, <1>2, FilesAre, BlockIs
  <2>. QED
    BY <2>1 DEF SameOn
<1>5. /\ Fitting(sb.freeBlock, cell') /\ Apart(sb.freeBlock, cell')
      /\ Units(sb.freeBlock, cell') = Units(sb.freeBlock, cell)
  <2>1. Fitting(sb.freeBlock, cell) /\ Apart(sb.freeBlock, cell)
        /\ SameOn(Units(sb.freeBlock, cell), cell, cell')
    BY <1>1, <1>3 DEF Stored, Listed
  <2>. QED
    BY <1>1, <2>1, ListsApart
<1>6. Stored' /\ Listed' = Listed /\ (Intact' <=> Intact)
  BY <1>1, <1>5 DEF Stored, Listed, Intact
<1>7. Branched(cell') /\ (Holding(cell, held) => Holding(cell', held'))
  <2>1. Branched(cell)
    BY <1>1 DEF Tree
  <2>. QED
    BY <1>1, <1>4, <2>1, TreeApart
<1>8. Tree'
  BY <1>1, <1>6, <1>7 DEF Tree
<1>9. /\ FilesIn(cell') = FilesIn(cell) /\ UsedIn(cell') = UsedIn(cell)
      /\ \A f \in FilesIn(cell) :
           /\ cell'[f] = cell[f] /\ DataIn(cell', f) = DataIn(cell, f)
           /\ DataIn(cell, f) # 0 => cell'[DataIn(cell, f)] = cell[DataIn(cell, f)]
      /\ \A f \in FilesIn(cell), n \in Name : EntryIn(cell', f, n) = EntryIn(cell, f, n)
  BY <1>1, <1>4, FilesApart
<1>. QED
  BY <1>2, <1>6, <1>8, <1>9

(* The superblock is overwritten.                                           *)
LEMMA SuperGone ==
  ASSUME NInv, sb' = Overwritten, cell' = cell
  PROVE  /\ sb' \in [signature : Signatures \cup {"zero"}, freeBlock : Heads, freeSize : Nat]
         /\ ~Intact' /\ Stored' /\ Tree' /\ Listed' = {} /\ Emptied'
<1>1. Types /\ Tree /\ cell \in Cells
  BY DEF NInv, Types
<1>2. [l \in Lens |-> 0] \in Heads
  BY BlockIs DEF Heads
<1>3. /\ sb' \in [signature : Signatures \cup {"zero"}, freeBlock : Heads, freeSize : Nat]
      /\ sb'.freeBlock = [l \in Lens |-> 0] /\ sb'.freeSize = 0 /\ sb'.signature = "zero"
  BY <1>2 DEF Overwritten
<1>4. ~Intact'
  BY <1>3 DEF Intact, NORLIT
<1>5. \A l \in Lens : sb'.freeBlock[l] = 0
  BY <1>3
<1>6. \A l \in Lens : Chain(sb'.freeBlock, cell, l) = {}
  BY <1>1, <1>2, <1>3, <1>5, ChainIs
<1>7. Listed' = {}
  BY <1>6 DEF Listed, Units
<1>8. Stored'
  <2>1. Fitting(sb'.freeBlock, cell') /\ Apart(sb'.freeBlock, cell')
    BY <1>6 DEF Fitting, Apart
  <2>. QED
    BY <1>3, <1>7, <2>1, FS_EmptySet DEF Stored
<1>9. Tree' /\ Emptied'
  BY <1>1, <1>4, <1>5 DEF Tree, Emptied
<1>. QED
  BY <1>3, <1>4, <1>7, <1>8, <1>9

LEMMA ClearDataKeeps ==
  ASSUME NInv, ClearData PROVE NInv'
<1>1. /\ pc = "data" /\ pc' = "file"
      /\ dataBlock # 0 => cell' = [cell EXCEPT ![dataBlock] = Dir(NoEntry)] /\ sb' = sb
      /\ dataBlock = 0 => sb' = Overwritten /\ cell' = cell
      /\ UNCHANGED <<path, dirAddr, want, blk, dataBlock, l2, base, cid, held, crashes>>
  BY DEF ClearData, local
<1>2. Types /\ Stored /\ Tree /\ Places /\ Emptied /\ OnPath
  BY DEF NInv
<1>3. /\ cell \in Cells /\ dataBlock \in Ptr /\ dirAddr \in FilesIn(cell) /\ path # <<>>
      /\ Head(path) \in Name
  BY <1>1, <1>2, PathIs DEF Types, OnPath, Creating
<1>4. Cut' = {} /\ HasBlk' /\ HasData' /\ HasBlk /\ HasData /\ Hand' = Hand /\ Cut = {}
  <2>1. Cut' = {} /\ HasBlk' /\ HasData' /\ HasBlk /\ HasData /\ Cut = {}
    BY <1>1 DEF Cut, HasBlk, HasData
  <2>. QED
    BY <1>1, <2>1 DEF Hand
<1>5. Splitting'
  BY <1>1, <1>4 DEF Splitting
<1>6. CASE dataBlock # 0
  <2>1. cell' \in Cells /\ cell'[dataBlock] = Dir(NoEntry) /\ SameOn(Block \ {dataBlock}, cell, cell')
    <3>1. dataBlock \in Block
      BY <1>3, <1>6 DEF Ptr
    <3>. QED
      BY <1>1, <1>3, <1>6, <3>1, CellMakes DEF Cells, SameOn
  <2>2. sb' = sb /\ dataBlock \in Hand /\ SameOn(Block \ {dataBlock}, held, held')
    BY <1>1, <1>4, <1>6 DEF Hand, SameOn
  <2>3. /\ Stored' /\ Tree' /\ Listed' = Listed /\ (Intact' <=> Intact)
        /\ FilesIn(cell') = FilesIn(cell) /\ UsedIn(cell') = UsedIn(cell)
        /\ \A f \in FilesIn(cell) :
              /\ cell'[f] = cell[f] /\ DataIn(cell', f) = DataIn(cell, f)
              /\ DataIn(cell, f) # 0 => cell'[DataIn(cell, f)] = cell[DataIn(cell, f)]
        /\ \A f \in FilesIn(cell), n \in Name : EntryIn(cell', f, n) = EntryIn(cell, f, n)
    BY <2>1, <2>2, DiskApart
  <2>4. Types'
    BY <1>1, <1>2, <2>1, <2>2 DEF Types
  <2>5. Emptied'
    BY <1>1, <1>2, <2>2, <2>3 DEF Emptied
  <2>6. Places'
    BY <1>1, <1>2, <1>4, <2>3 DEF Places
  <2>7. OnPath'
    BY <1>1, <1>2, <1>3, <1>4, <1>6, <2>1, <2>3 DEF OnPath, Creating
  <2>. QED
    BY <1>5, <2>3, <2>4, <2>5, <2>6, <2>7 DEF NInv
<1>7. CASE dataBlock = 0
  <2>1. /\ sb' \in [signature : Signatures \cup {"zero"}, freeBlock : Heads, freeSize : Nat]
        /\ ~Intact' /\ Stored' /\ Tree' /\ Listed' = {} /\ Emptied'
    BY <1>1, <1>7, SuperGone
  <2>2. Types'
    BY <1>1, <1>2, <1>7, <2>1 DEF Types
  <2>3. Places'
    BY <1>1, <1>2, <1>4, <1>7, <2>1 DEF Places
  <2>4. OnPath'
    BY <1>1, <1>2, <1>4, <1>7, <2>1 DEF OnPath, Creating
  <2>. QED
    BY <1>5, <2>1, <2>2, <2>3, <2>4 DEF NInv
<1>. QED
  BY <1>6, <1>7

LEMMA WriteFileKeeps ==
  ASSUME NInv, WriteFile PROVE NInv'
<1>1. /\ pc = "file" /\ pc' = "entry" /\ sb' = sb
      /\ cell' = [cell EXCEPT ![blk] = FileBlock(dataBlock)]
      /\ held' = [held EXCEPT ![blk] = NOTHING]
      /\ UNCHANGED <<path, dirAddr, want, blk, dataBlock, l2, base, cid, crashes>>
  BY DEF WriteFile, local
<1>2. Types /\ Stored /\ Tree /\ Places /\ Emptied /\ OnPath
  BY DEF NInv
<1>3. /\ cell \in Cells /\ dataBlock \in Ptr /\ dirAddr \in FilesIn(cell) /\ path # <<>>
      /\ Head(path) \in Name /\ held \in [Block -> Text \cup {NOTHING}]
  BY <1>1, <1>2, PathIs DEF Types, OnPath, Creating
<1>4. /\ Cut' = {} /\ HasBlk' /\ HasData' /\ HasBlk /\ HasData /\ Hand' = Hand /\ Cut = {}
      /\ blk # 0 /\ blk \in Hand /\ blk \in Block /\ blk # dataBlock
  <2>1. Cut' = {} /\ HasBlk /\ HasData /\ Cut = {}
    BY <1>1 DEF Cut, HasBlk, HasData
  <2>2. blk # 0 /\ blk # dataBlock
    BY <1>2, <2>1 DEF Places
  <2>3. HasBlk' /\ HasData'
    BY <1>1, <2>2 DEF HasBlk, HasData
  <2>4. Hand' = Hand /\ blk \in Hand
    BY <1>1, <2>1, <2>3 DEF Hand
  <2>. QED
    BY <1>2, <2>1, <2>2, <2>3, <2>4 DEF Places
<1>5. Splitting'
  BY <1>1, <1>4 DEF Splitting
<1>6. cell' \in Cells /\ cell'[blk] = FileBlock(dataBlock) /\ SameOn(Block \ {blk}, cell, cell')
  BY <1>1, <1>3, <1>4, CellMakes DEF Cells, SameOn
<1>7. /\ held' \in [Block -> Text \cup {NOTHING}] /\ held'[blk] = NOTHING
      /\ SameOn(Block \ {blk}, held, held')
  BY <1>1, <1>3, <1>4 DEF SameOn
<1>8. /\ Stored' /\ Tree' /\ Listed' = Listed /\ (Intact' <=> Intact)
      /\ FilesIn(cell') = FilesIn(cell) /\ UsedIn(cell') = UsedIn(cell)
      /\ \A f \in FilesIn(cell) :
            /\ cell'[f] = cell[f] /\ DataIn(cell', f) = DataIn(cell, f)
            /\ DataIn(cell, f) # 0 => cell'[DataIn(cell, f)] = cell[DataIn(cell, f)]
      /\ \A f \in FilesIn(cell), n \in Name : EntryIn(cell', f, n) = EntryIn(cell, f, n)
  BY <1>1, <1>4, <1>6, <1>7, DiskApart
<1>9. Types'
  BY <1>1, <1>2, <1>6, <1>7 DEF Types
<1>10. Emptied'
  BY <1>1, <1>2, <1>8 DEF Emptied
<1>11. Places'
  BY <1>1, <1>2, <1>4, <1>8 DEF Places
<1>12. dataBlock # 0 => cell'[dataBlock] = cell[dataBlock]
  BY <1>3, <1>4, <1>6, BlockIs DEF SameOn
<1>13. OnPath'
  BY <1>1, <1>2, <1>3, <1>4, <1>6, <1>7, <1>8, <1>12 DEF OnPath, Creating
<1>. QED
  BY <1>5, <1>8, <1>9, <1>10, <1>11, <1>13 DEF NInv

(* A new file is entered in a directory.                                    *)
LEMMA Entered ==
  ASSUME NEW c \in Cells, NEW e \in Cells, Branched(c), NEW f \in FilesIn(c), NEW n \in Name,
         DataIn(c, f) # 0, c[DataIn(c, f)].kind = "data", EntryIn(c, f, n) = 0,
         NEW x \in Block, x \notin UsedIn(c), NEW y \in Ptr, y \notin UsedIn(c) \ {0}, x # y,
         c[x] = FileBlock(y), y # 0 => c[y] = Dir(NoEntry),
         e[DataIn(c, f)] = Dir([c[DataIn(c, f)].entry EXCEPT ![n] = x]),
         SameOn(Block \ {DataIn(c, f)}, c, e)
  PROVE  /\ FilesIn(e) = FilesIn(c) \cup {x} /\ UsedIn(e) = UsedIn(c) \cup {x, y}
         /\ Branched(e) /\ DataIn(e, x) = y
         /\ \A g \in FilesIn(c) : DataIn(e, g) = DataIn(c, g)
<1> DEFINE d == DataIn(c, f)
           t == c[d].entry
<1>1. /\ d \in Block /\ d \in UsedIn(c) /\ d # x /\ x \notin FilesIn(c) /\ x # 0 /\ d # y
      /\ FilesIn(c) \subseteq Block /\ FilesIn(c) \subseteq UsedIn(c) /\ UsedIn(c) \subseteq Ptr
      /\ \A g \in FilesIn(c) : DataIn(c, g) \in UsedIn(c)
  <2>1. d \in Ptr /\ d # 0 /\ d \in UsedIn(c)
    BY CellTypes, FilesAre
  <2>2. d \in Block /\ d # x /\ d # y
    BY <2>1, BlockIs
  <2>. QED
    BY <2>1, <2>2, FilesAre, BlockIs
<1>2. t \in [Name -> Ptr] /\ t[n] = 0 /\ [t EXCEPT ![n] = x] \in [Name -> Ptr]
  <2>1. t \in [Name -> Ptr]
    BY <1>1, CellIs DEF Cells
  <2>2. t[n] = 0
    BY DEF EntryIn
  <2>3. x \in Ptr
    BY BlockIs
  <2>. QED
    BY <2>1, <2>2, <2>3
<1>3. /\ e[d].kind = "data" /\ e[d].entry = [t EXCEPT ![n] = x]
      /\ \A u \in Block \ {d} : e[u] = c[u]
  BY <1>2, CellMakes DEF SameOn
<1>4. Range([t EXCEPT ![n] = x]) \ {0} = (Range(t) \ {0}) \cup {x}
  BY <1>1, <1>2 DEF Range
<1>5. d \notin FilesIn(c) /\ c[d].kind = "data"
  BY DEF Branched
<1>6. \A g \in Block : DataIn(e, g) = DataIn(c, g)
  <2> SUFFICES ASSUME NEW g \in Block PROVE DataIn(e, g) = DataIn(c, g)
    OBVIOUS
  <2>1. CASE g = d
    BY <1>3, <1>5, <2>1 DEF DataIn
  <2>2. CASE g # d
    BY <1>3, <2>2 DEF DataIn
  <2>. QED
    BY <2>1, <2>2
<1>7. DataIn(c, x) = y
  BY CellMakes DEF DataIn
<1> HIDE DEF d
<1>8. KidsIn(e, x) = {}
  <2>1. CASE y = 0
    BY <1>6, <1>7, <2>1 DEF KidsIn
  <2>2. CASE y # 0
    <3>1. e[y] = Dir(NoEntry)
      BY <1>1, <1>3, <2>2, BlockIs
    <3>2. Range(e[y].entry) \ {0} = {}
      BY <3>1, CellMakes
    <3>. QED
      BY <1>6, <1>7, <3>2 DEF KidsIn
  <2>. QED
    BY <2>1, <2>2
<1>9. KidsIn(e, f) = KidsIn(c, f) \cup {x}
  <2>1. DataIn(e, f) = d /\ DataIn(c, f) = d /\ d # 0
    BY <1>1, <1>6 DEF d
  <2>2. KidsIn(c, f) = Range(t) \ {0}
    BY <1>5, <2>1 DEF KidsIn
  <2>3. KidsIn(e, f) = Range([t EXCEPT ![n] = x]) \ {0}
    BY <1>3, <2>1 DEF KidsIn
  <2>. QED
    BY <1>4, <2>2, <2>3
<1>10. \A g \in FilesIn(c) \ {f} : KidsIn(e, g) = KidsIn(c, g)
  <2> SUFFICES ASSUME NEW g \in FilesIn(c) \ {f} PROVE KidsIn(e, g) = KidsIn(c, g)
    OBVIOUS
  <2>1. g \in Block /\ DataIn(e, g) = DataIn(c, g) /\ DataIn(c, g) \in Ptr
    BY <1>1, <1>6, CellTypes
  <2>2. CASE DataIn(c, g) = 0
    BY <2>1, <2>2 DEF KidsIn
  <2>3. CASE DataIn(c, g) # 0
    <3>1. DataIn(c, g) # d /\ DataIn(c, g) \in Block
      BY <2>1, <2>3, BlockIs DEF Branched, d
    <3>2. e[DataIn(c, g)] = c[DataIn(c, g)]
      BY <1>3, <3>1
    <3>. QED
      BY <2>1, <3>2 DEF KidsIn
  <2>. QED
    BY <2>2, <2>3
<1>11. FilesIn(e) = FilesIn(c) \cup {x}
  <2> DEFINE A == BranchesIn(c)
             B == BranchesIn(e)
             F == {ROOT}
  <2>1. A \in [Block -> SUBSET Block] /\ B \in [Block -> SUBSET Block] /\ F \in SUBSET Block
    BY CellTypes, BlockIs
  <2>2. Reach(F, A) = FilesIn(c) /\ Reach(F, B) = FilesIn(e)
    BY DEF FilesIn
  <2>3. \A g \in Block : A[g] = KidsIn(c, g) /\ B[g] = KidsIn(e, g)
    BY DEF BranchesIn
  <2> HIDE DEF A, B, F
  <2>4. /\ x \in Block /\ x \notin Reach(F, A) /\ B[x] = {} /\ f \in Reach(F, A)
        /\ B[f] = A[f] \cup {x} /\ \A g \in Reach(F, A) \ {f} : B[g] = A[g]
    BY <1>1, <1>8, <1>9, <1>10, <2>2, <2>3
  <2>5. Reach(F, B) = Reach(F, A) \cup {x}
    BY ONLY <2>1, <2>4, ReachAdd
  <2>. QED
    BY <2>2, <2>5
<1>12. UsedIn(e) = UsedIn(c) \cup {x, y}
  <2>1. \A g \in FilesIn(c) : DataIn(e, g) = DataIn(c, g)
    BY <1>1, <1>6
  <2>2. DataIn(e, x) = y
    BY <1>6, <1>7
  <2>. QED
    BY <1>11, <2>1, <2>2 DEF UsedIn
<1>13. Branched(e)
  <2>1. ASSUME NEW g \in FilesIn(e)
        PROVE  /\ e[g].kind = "file"
               /\ DataIn(e, g) # 0 => e[DataIn(e, g)].kind \in {"data", "text"}
    <3>1. CASE g = x
      <4>1. e[x].kind = "file"
        BY <1>1, <1>3, CellMakes
      <4>2. ASSUME y # 0 PROVE e[y].kind = "data"
        <5>1. y \in Block \ {d} /\ c[y] = Dir(NoEntry)
          BY <1>1, <4>2, BlockIs
        <5>2. e[y] = Dir(NoEntry) /\ Dir(NoEntry).kind = "data"
          BY <1>3, <5>1, CellMakes
        <5>. QED
          BY <5>2
      <4>. QED
        BY <1>6, <1>7, <3>1, <4>1, <4>2
    <3>2. CASE g \in FilesIn(c)
      <4>1. g # d /\ g \in Block /\ c[g].kind = "file" /\ DataIn(c, g) \in Ptr
            /\ (DataIn(c, g) # 0 => c[DataIn(c, g)].kind \in {"data", "text"})
        BY <1>1, <1>5, <3>2, CellTypes DEF Branched
      <4>2. ASSUME DataIn(c, g) # 0 PROVE e[DataIn(c, g)].kind \in {"data", "text"}
        <5>1. DataIn(c, g) \in Block
          BY <4>1, <4>2, BlockIs
        <5>2. CASE DataIn(c, g) = d
          BY ONLY <1>3, <5>2
        <5>3. CASE DataIn(c, g) # d
          <6>1. e[DataIn(c, g)] = c[DataIn(c, g)]
            BY ONLY <1>3, <5>1, <5>3
          <6>. QED
            BY ONLY <4>1, <4>2, <6>1
        <5>. QED
          BY <5>2, <5>3
      <4>3. e[g] = c[g] /\ DataIn(e, g) = DataIn(c, g)
        BY ONLY <1>3, <1>6, <4>1
      <4>. QED
        BY ONLY <4>1, <4>2, <4>3
    <3>. QED
      BY <1>11, <3>1, <3>2
  <2>2. ASSUME NEW g \in FilesIn(e), NEW k \in FilesIn(e)
        PROVE  /\ DataIn(e, g) # k
               /\ g # k /\ DataIn(e, g) # 0 => DataIn(e, g) # DataIn(e, k)
    <3>1. DataIn(e, g) = DataIn(c, g) /\ DataIn(e, k) = DataIn(c, k) /\ g \in Block /\ k \in Block
      BY <1>1, <1>6, <1>11
    <3>2. CASE g \in FilesIn(c) /\ k \in FilesIn(c)
      BY <3>1, <3>2 DEF Branched
    <3>3. CASE g \in FilesIn(c) /\ k = x
      BY <1>1, <1>7, <3>1, <3>3
    <3>4. CASE g = x /\ k \in FilesIn(c)
      BY <1>1, <1>7, <3>1, <3>4, BlockIs
    <3>5. CASE g = x /\ k = x
      BY <1>7, <3>1, <3>5
    <3>. QED
      BY <1>11, <3>2, <3>3, <3>4, <3>5
  <2>. QED
    BY <2>1, <2>2 DEF Branched
<1>. QED
  BY <1>1, <1>6, <1>7, <1>11, <1>12, <1>13

LEMMA WriteEntryKeeps ==
  ASSUME NInv, WriteEntry PROVE NInv'
<1> DEFINE d == DataIn(cell, dirAddr)
           n == Head(path)
<1>1. /\ pc = "entry" /\ pc' = "lookup" /\ dirAddr' = blk /\ path' = Tail(path)
      /\ d # 0 => cell' = [cell EXCEPT ![d] = Dir([@.entry EXCEPT ![n] = blk])]
      /\ d = 0 => cell' = cell
      /\ UNCHANGED <<sb, want, blk, dataBlock, l2, base, cid, held, crashes>>
  <2>1. Directory = d
    BY Views
  <2>. QED
    BY <2>1 DEF WriteEntry
<1>2. Types /\ Stored /\ Tree /\ Places /\ Emptied /\ OnPath
  BY DEF NInv
<1>3. /\ cell \in Cells /\ dataBlock \in Ptr /\ blk \in Ptr /\ dirAddr \in FilesIn(cell) /\ path # <<>>
      /\ n \in Name /\ Tail(path) \in Path
      /\ (d # 0 => cell[d].kind = "data") /\ EntryIn(cell, dirAddr, n) = 0
  BY <1>1, <1>2, PathIs DEF Types, OnPath, Creating
<1>4. d \in Ptr /\ (d # 0 => d \in Block /\ cell[d].entry \in [Name -> Ptr]
                              /\ cell[d] = Dir(cell[d].entry) /\ cell[d].entry[n] = 0)
  <2>1. d \in Ptr
    BY <1>3, CellTypes
  <2>2. ASSUME d # 0 PROVE d \in Block /\ cell[d].entry \in [Name -> Ptr]
                           /\ cell[d] = Dir(cell[d].entry) /\ cell[d].entry[n] = 0
    <3>1. d \in Block /\ cell[d] \in Cell /\ cell[d].kind = "data"
      BY <1>3, <2>1, <2>2, BlockIs DEF Cells
    <3>2. cell[d].entry \in [Name -> Ptr] /\ cell[d] = Dir(cell[d].entry)
      BY <3>1, CellIs
    <3>3. cell[d].entry[n] = 0
      BY <1>3, <2>2, <3>1 DEF EntryIn
    <3>. QED
      BY <3>1, <3>2, <3>3
  <2>. QED
    BY <2>1, <2>2
<1>5. Cut' = {} /\ ~HasBlk' /\ ~HasData' /\ Hand' = {} /\ Cut = {}
  <2>1. Cut' = {} /\ ~HasBlk' /\ ~HasData' /\ Cut = {}
    BY <1>1 DEF Cut, HasBlk, HasData
  <2>. QED
    BY <2>1 DEF Hand
<1>6. Splitting'
  BY <1>1, <1>5 DEF Splitting
<1> HIDE DEF d, n
<1>7. CASE blk = 0
  <2>1. cell' = cell
    <3>1. CASE d # 0
      <4>1. [cell[d].entry EXCEPT ![n] = 0] = cell[d].entry
        BY <1>3, <1>4, <3>1
      <4>2. Dir([cell[d].entry EXCEPT ![n] = blk]) = cell[d]
        BY <1>4, <1>7, <3>1, <4>1
      <4>3. cell' = [cell EXCEPT ![d] = cell[d]]
        BY <1>1, <3>1, <4>2
      <4>. QED
        BY <1>3, <4>3 DEF Cells
    <3>2. CASE d = 0
      BY <1>1, <3>2
    <3>. QED
      BY <3>1, <3>2
  <2>2. Stored' /\ Tree' /\ Listed' = Listed /\ (Intact' <=> Intact)
    BY <1>1, <1>2, <2>1, DiskStays
  <2>3. Types'
    BY <1>1, <1>2, <1>3, <2>1 DEF Types
  <2>4. Emptied'
    BY <1>1, <1>2, <2>2 DEF Emptied
  <2>5. Hand = {}
    BY <1>1, <1>5, <1>7 DEF Hand, HasBlk, HasData
  <2>6. Places'
    BY <1>1, <1>2, <1>5, <2>1, <2>2, <2>5 DEF Places
  <2>7. OnPath'
    BY <1>1, <1>5, <1>7 DEF OnPath, Creating
  <2>. QED
    BY <1>6, <2>2, <2>3, <2>4, <2>6, <2>7 DEF NInv
<1>8. CASE blk # 0
  <2>1. HasBlk /\ HasData /\ Hand = {blk} \cup ({dataBlock} \ {0})
    BY <1>1, <1>5, <1>8 DEF Hand, HasBlk, HasData
  <2>2. /\ blk \in Block /\ blk # dataBlock /\ blk \notin UsedIn(cell) /\ blk \notin Listed
        /\ dataBlock \notin UsedIn(cell) \ {0} /\ dataBlock \notin Listed \ {0}
    <3>1. Hand \subseteq Block /\ Hand \cap Listed = {} /\ Hand \cap UsedIn(cell) = {} /\ blk # dataBlock
      BY <1>2, <2>1 DEF Places
    <3>. QED
      BY <2>1, <3>1
  <2>3. /\ d # 0 /\ cell[blk] = FileBlock(dataBlock) /\ held[blk] = NOTHING
        /\ (dataBlock # 0 => cell[dataBlock] = Dir(NoEntry)) /\ (Intact => dataBlock # 0)
    BY <1>1, <1>2, <1>8, <2>1 DEF OnPath, d
  <2>4. [cell[d].entry EXCEPT ![n] = blk] \in [Name -> Ptr]
    BY <1>3, <1>4, <2>3
  <2>5. /\ cell' \in Cells /\ cell'[d] = Dir([cell[d].entry EXCEPT ![n] = blk])
        /\ SameOn(Block \ {d}, cell, cell')
    BY <1>1, <1>3, <1>4, <2>3, <2>4, CellMakes DEF Cells, SameOn
  <2>6. /\ FilesIn(cell') = FilesIn(cell) \cup {blk}
        /\ UsedIn(cell') = UsedIn(cell) \cup {blk, dataBlock}
        /\ Branched(cell') /\ DataIn(cell', blk) = dataBlock
        /\ \A g \in FilesIn(cell) : DataIn(cell', g) = DataIn(cell, g)
    <3>1. Branched(cell)
      BY <1>2 DEF Tree
    <3>. QED
      BY <1>3, <2>2, <2>3, <2>5, <3>1, Entered DEF d
  <2>7. d \in UsedIn(cell) /\ d \notin Listed
    <3>1. d \in UsedIn(cell)
      BY <1>3, FilesAre DEF d
    <3>. QED
      BY <1>2, <3>1 DEF Places
  <2>8. Stored' /\ Listed' = Listed /\ (Intact' <=> Intact)
    <3>1. /\ sb.freeBlock \in Heads /\ Fitting(sb.freeBlock, cell) /\ Apart(sb.freeBlock, cell)
          /\ Listed \subseteq Block
      BY <1>2, <1>3, SbIs, UnitsAre DEF Stored, Listed
    <3>2. SameOn(Units(sb.freeBlock, cell), cell, cell')
      BY <2>5, <2>7, <3>1 DEF SameOn, Listed
    <3>3. /\ Fitting(sb.freeBlock, cell') /\ Apart(sb.freeBlock, cell')
          /\ Units(sb.freeBlock, cell') = Units(sb.freeBlock, cell)
      BY <1>3, <2>5, <3>1, <3>2, ListsApart
    <3>. QED
      BY <1>1, <1>2, <3>3 DEF Stored, Listed, Intact
  <2>9. ASSUME Intact PROVE Holding(cell', held')
    <3>1. Holding(cell, held) /\ Branched(cell)
      BY <1>2, <2>9 DEF Tree
    <3>2. held' = held
      BY <1>1
    <3>3. ASSUME NEW f \in FilesIn(cell')
          PROVE  /\ DataIn(cell', f) # 0
                 /\ held[f] = NOTHING => cell'[DataIn(cell', f)].kind = "data"
                 /\ held[f] # NOTHING => cell'[DataIn(cell', f)] = Written(held[f])
      <4>1. CASE f = blk
        <5>1. dataBlock \in Block \ {d}
          BY <1>3, <2>2, <2>3, <2>7, <2>9, BlockIs
        <5>2. cell'[dataBlock] = Dir(NoEntry)
          BY <2>3, <2>5, <5>1, BlockIs DEF SameOn
        <5>. QED
          BY <2>3, <2>6, <2>9, <4>1, <5>2, CellMakes
      <4>2. CASE f \in FilesIn(cell)
        <5>1. /\ DataIn(cell, f) # 0 /\ DataIn(cell, f) \in Block
              /\ (held[f] = NOTHING => cell[DataIn(cell, f)].kind = "data")
              /\ (held[f] # NOTHING => cell[DataIn(cell, f)] = Written(held[f]))
          BY <1>3, <3>1, <4>2, CellTypes, BlockIs DEF Holding
        <5>2. CASE DataIn(cell, f) = d
          <6>1. cell'[d].kind = "data" /\ cell[d].kind = "data"
            BY <1>3, <2>3, <2>4, <2>5, CellMakes
          <6>2. held[f] \in Text \cup {NOTHING}
            BY <1>2, <1>3, <4>2, FilesAre DEF Types
          <6>3. held[f] # NOTHING => cell[d].kind = "text"
            BY <5>1, <5>2, <6>2, CellMakes
          <6>. QED
            BY <2>6, <4>2, <5>1, <5>2, <6>1, <6>3
        <5>3. CASE DataIn(cell, f) # d
          <6>1. cell'[DataIn(cell, f)] = cell[DataIn(cell, f)]
            BY <2>5, <5>1, <5>3 DEF SameOn
          <6>. QED
            BY <2>6, <4>2, <5>1, <6>1
        <5>. QED
          BY <5>2, <5>3
      <4>. QED
        BY <2>6, <4>1, <4>2
    <3>. QED
      BY <3>2, <3>3 DEF Holding
  <2>10. Tree'
    BY <2>6, <2>8, <2>9 DEF Tree
  <2>11. Types'
    BY <1>1, <1>2, <1>3, <2>5 DEF Types
  <2>12. Emptied'
    BY <1>1, <1>2, <2>8 DEF Emptied
  <2>13. Places'
    <3>1. Listed \subseteq Block
      BY <1>2, <1>3, SbIs, UnitsAre DEF Listed
    <3>2. Listed' \cap UsedIn(cell') = {}
      BY <1>2, <2>2, <2>6, <2>8, <3>1, BlockIs DEF Places
    <3>3. crashes' = 0 /\ Intact' => Block \subseteq Listed' \cup UsedIn(cell')
      BY <1>1, <1>2, <2>1, <2>6, <2>8 DEF Places
    <3>. QED
      BY <1>5, <3>2, <3>3 DEF Places
  <2>14. OnPath'
    BY <1>1, <1>5, <2>6 DEF OnPath, Creating
  <2>. QED
    BY <1>6, <2>8, <2>10, <2>11, <2>12, <2>13, <2>14 DEF NInv
<1>. QED
  BY <1>7, <1>8

(* The data block of a file without files in it is written.                 *)
LEMMA Rewritten ==
  ASSUME NEW c \in Cells, NEW e \in Cells, Branched(c), NEW f \in FilesIn(c), KidsIn(c, f) = {},
         DataIn(c, f) # 0, NEW t \in Text, e[DataIn(c, f)] = Written(t),
         SameOn(Block \ {DataIn(c, f)}, c, e)
  PROVE  /\ FilesIn(e) = FilesIn(c) /\ UsedIn(e) = UsedIn(c) /\ Branched(e)
         /\ \A g \in FilesIn(c) : DataIn(e, g) = DataIn(c, g)
<1> DEFINE d == DataIn(c, f)
<1>1. /\ d \in Block /\ d # 0 /\ c[d].kind \in {"data", "text"} /\ d \notin FilesIn(c)
      /\ FilesIn(c) \subseteq Block /\ \A g \in FilesIn(c) : DataIn(c, g) \in Ptr
  BY CellTypes, FilesAre, BlockIs DEF Branched
<1>2. e[d].kind = "text" /\ \A u \in Block \ {d} : e[u] = c[u]
  BY CellMakes DEF SameOn
<1>3. \A g \in FilesIn(c) : DataIn(e, g) = DataIn(c, g) /\ e[g] = c[g]
  <2> SUFFICES ASSUME NEW g \in FilesIn(c) PROVE DataIn(e, g) = DataIn(c, g) /\ e[g] = c[g]
    OBVIOUS
  <2>1. g \in Block \ {d}
    BY <1>1
  <2>2. e[g] = c[g]
    BY <1>2, <2>1
  <2>. QED
    BY <2>2 DEF DataIn
<1>4. \A g \in FilesIn(c) \ {f} : DataIn(c, g) # d
  BY <1>1 DEF Branched
<1> HIDE DEF d
<1>5. ASSUME NEW g \in FilesIn(c) PROVE KidsIn(e, g) = KidsIn(c, g)
  <2>1. CASE g = f
    <3>1. DataIn(e, g) = d
      BY <1>3, <2>1 DEF d
    <3>. QED
      BY <1>2, <2>1, <3>1 DEF KidsIn
  <2>2. CASE g # f
    <3>1. DataIn(c, g) # 0 => DataIn(c, g) \in Block \ {d}
      BY <1>1, <1>4, <2>2, BlockIs
    <3>2. DataIn(c, g) # 0 => e[DataIn(c, g)] = c[DataIn(c, g)]
      BY <1>2, <3>1
    <3>. QED
      BY <1>3, <3>2 DEF KidsIn
  <2>. QED
    BY <2>1, <2>2
<1>6. FilesIn(e) = FilesIn(c) /\ UsedIn(e) = UsedIn(c)
  BY <1>3, <1>5, FilesStay
<1>7. Branched(e)
  <2>1. ASSUME NEW g \in FilesIn(c)
        PROVE  /\ e[g].kind = "file"
               /\ DataIn(e, g) # 0 => e[DataIn(e, g)].kind \in {"data", "text"}
               /\ \A k \in FilesIn(c) :
                    /\ DataIn(e, g) # k
                    /\ g # k /\ DataIn(e, g) # 0 => DataIn(e, g) # DataIn(e, k)
    <3>1. /\ c[g].kind = "file"
          /\ DataIn(c, g) # 0 => c[DataIn(c, g)].kind \in {"data", "text"}
          /\ \A k \in FilesIn(c) :
               /\ DataIn(c, g) # k
               /\ g # k /\ DataIn(c, g) # 0 => DataIn(c, g) # DataIn(c, k)
      BY DEF Branched
    <3>2. DataIn(c, g) # 0 => e[DataIn(c, g)].kind \in {"data", "text"}
      <4>1. CASE DataIn(c, g) = d
        BY <1>2, <4>1
      <4>2. CASE DataIn(c, g) # d
        <5>1. DataIn(c, g) # 0 => e[DataIn(c, g)] = c[DataIn(c, g)]
          BY <1>1, <1>2, <4>2, BlockIs
        <5>. QED
          BY <3>1, <5>1
      <4>. QED
        BY <4>1, <4>2
    <3>. QED
      BY <1>3, <3>1, <3>2
  <2>. QED
    BY <1>6, <2>1 DEF Branched
<1>. QED
  BY <1>3, <1>6, <1>7

LEMMA WriteKeeps ==
  ASSUME NInv, NEW f \in Files \ {ROOT}, NEW offset \in Offsets, NEW t \in Text, Write(f, offset, t)
  PROVE  NInv'
<1> DEFINE cls == SeekDataBlock(f, offset)
<1>1. /\ pc = "idle" /\ pc' = "idle" /\ held' = [held EXCEPT ![f] = t]
      /\ cls # 0 => cell' = [cell EXCEPT ![cls] = Written(t)] /\ sb' = sb
      /\ cls = 0 => sb' = Overwritten /\ cell' = cell
      /\ UNCHANGED <<path, dirAddr, want, blk, dataBlock, l2, base, cid, crashes>>
      /\ KidsIn(cell, f) = {} /\ f \in FilesIn(cell) /\ (cls # 0 => cls = DataIn(cell, f))
  <2>1. Files = FilesIn(cell) /\ Children(f) = KidsIn(cell, f)
    BY Views
  <2>2. cls # 0 => cls = DataIn(cell, f)
    BY DEF SeekDataBlock, DataIn
  <2>. QED
    BY <2>1, <2>2 DEF Write, local
<1> HIDE DEF cls
<1>2. Types /\ Stored /\ Tree /\ Places /\ Emptied /\ OnPath /\ cell \in Cells
  BY DEF NInv, Types
<1>3. f \in Block /\ held' \in [Block -> Text \cup {NOTHING}] /\ held'[f] = t
      /\ \A g \in Block \ {f} : held'[g] = held[g]
  BY <1>1, <1>2, FilesAre DEF Types
<1>4. Cut' = {} /\ ~HasBlk' /\ ~HasData' /\ Hand' = {} /\ Hand = {}
  BY <1>1 DEF Cut, HasBlk, HasData, Hand
<1>5. Splitting' /\ OnPath'
  BY <1>1, <1>4 DEF Splitting, OnPath, Creating
<1>6. CASE cls = 0
  <2>1. /\ sb' \in [signature : Signatures \cup {"zero"}, freeBlock : Heads, freeSize : Nat]
        /\ ~Intact' /\ Stored' /\ Tree' /\ Listed' = {} /\ Emptied'
    BY <1>1, <1>6, SuperGone
  <2>2. Types'
    BY <1>1, <1>2, <1>3, <1>6, <2>1 DEF Types
  <2>3. Places'
    BY <1>4, <2>1 DEF Places
  <2>. QED
    BY <1>5, <2>1, <2>2, <2>3 DEF NInv
<1>7. CASE cls # 0
  <2>1. cls = DataIn(cell, f) /\ cls \in Block /\ cls \in UsedIn(cell) /\ Branched(cell)
    BY <1>1, <1>2, <1>7, CellTypes, FilesAre, BlockIs DEF Tree
  <2>2. /\ cell' \in Cells /\ cell'[cls] = Written(t) /\ SameOn(Block \ {cls}, cell, cell')
    BY <1>1, <1>2, <1>7, <2>1, CellMakes DEF Cells, SameOn
  <2>3. /\ FilesIn(cell') = FilesIn(cell) /\ UsedIn(cell') = UsedIn(cell) /\ Branched(cell')
        /\ \A g \in FilesIn(cell) : DataIn(cell', g) = DataIn(cell, g)
    BY <1>1, <1>2, <1>7, <2>1, <2>2, Rewritten
  <2>4. Stored' /\ Listed' = Listed /\ (Intact' <=> Intact)
    <3>1. /\ sb.freeBlock \in Heads /\ Fitting(sb.freeBlock, cell) /\ Apart(sb.freeBlock, cell)
          /\ Listed \subseteq Block /\ cls \notin Listed
      BY <1>2, <2>1, SbIs, UnitsAre DEF Stored, Listed, Places
    <3>2. SameOn(Units(sb.freeBlock, cell), cell, cell')
      BY <2>2, <3>1 DEF SameOn, Listed
    <3>3. /\ Fitting(sb.freeBlock, cell') /\ Apart(sb.freeBlock, cell')
          /\ Units(sb.freeBlock, cell') = Units(sb.freeBlock, cell)
      BY <1>2, <2>2, <3>1, <3>2, ListsApart
    <3>. QED
      BY <1>1, <1>2, <1>7, <3>3 DEF Stored, Listed, Intact
  <2>5. ASSUME Intact PROVE Holding(cell', held')
    <3>1. Holding(cell, held) /\ Branched(cell)
      BY <1>2, <2>5 DEF Tree
    <3>2. ASSUME NEW g \in FilesIn(cell')
          PROVE  /\ DataIn(cell', g) # 0
                 /\ held'[g] = NOTHING => cell'[DataIn(cell', g)].kind = "data"
                 /\ held'[g] # NOTHING => cell'[DataIn(cell', g)] = Written(held'[g])
      <4>1. CASE g = f
        <5>1. t # NOTHING
          BY PartitionAssumption
        <5>. QED
          BY <1>1, <1>3, <1>7, <2>1, <2>2, <2>3, <4>1, <5>1
      <4>2. CASE g # f
        <5>1. /\ g \in FilesIn(cell) /\ g \in Block /\ DataIn(cell, g) # 0 /\ DataIn(cell, g) \in Block
              /\ (held[g] = NOTHING => cell[DataIn(cell, g)].kind = "data")
              /\ (held[g] # NOTHING => cell[DataIn(cell, g)] = Written(held[g]))
          BY <1>2, <2>3, <3>1, CellTypes, FilesAre, BlockIs DEF Holding
        <5>2. DataIn(cell, g) # cls
          BY <1>1, <2>1, <3>1, <4>2, <5>1 DEF Branched
        <5>3. cell'[DataIn(cell, g)] = cell[DataIn(cell, g)] /\ held'[g] = held[g]
          BY <1>3, <2>2, <4>2, <5>1, <5>2 DEF SameOn
        <5>. QED
          BY <2>3, <5>1, <5>3
      <4>. QED
        BY <4>1, <4>2
    <3>. QED
      BY <3>2 DEF Holding
  <2>6. Tree'
    BY <2>3, <2>4, <2>5 DEF Tree
  <2>7. Types'
    BY <1>1, <1>2, <1>3, <1>7, <2>2 DEF Types
  <2>8. Emptied'
    BY <1>1, <1>2, <1>7, <2>4 DEF Emptied
  <2>9. Places'
    BY <1>1, <1>2, <1>4, <2>3, <2>4 DEF Places
  <2>. QED
    BY <1>5, <2>4, <2>6, <2>7, <2>8, <2>9 DEF NInv
<1>. QED
  BY <1>6, <1>7

(***************************************************************************)
(* The partition as it was formatted.                                       *)
(***************************************************************************)
LEMMA FormattedIs ==
  ASSUME FInit
  PROVE  /\ sb \in [signature : Signatures \cup {"zero"}, freeBlock : Heads, freeSize : Nat]
         /\ sb.freeBlock = FreeAtStart /\ sb.freeSize = Cardinality(FreshUnits)
         /\ cell \in Cells /\ cell[ROOT] = FileBlock(ROOT_DATA) /\ cell[ROOT_DATA] = Dir(NoEntry)
         /\ \A b \in FreshUnits : cell[b] = IF b \in Range(FreeAtStart) THEN Link(0) ELSE Blank
         /\ FreshUnits = Block \ {ROOT, ROOT_DATA} /\ ROOT # ROOT_DATA /\ ROOT_DATA \in Block
<1>1. /\ FreshUnits = Block \ {ROOT, ROOT_DATA} /\ ROOT # ROOT_DATA /\ ROOT_DATA \in Block
      /\ ROOT \in Block /\ FreeAtStart \in Heads /\ IsFiniteSet(Block)
  BY PartitionAssumption DEF Heads
<1>2. Cardinality(FreshUnits) \in Nat
  <2>1. FreshUnits \in SUBSET Block
    BY <1>1
  <2>2. IsFiniteSet(FreshUnits)
    BY ONLY <1>1, <2>1, FS_Subset
  <2>. QED
    BY ONLY <2>2, FS_CardinalityType
<1>3. /\ sb \in [signature : Signatures \cup {"zero"}, freeBlock : Heads, freeSize : Nat]
      /\ sb.freeBlock = FreeAtStart /\ sb.freeSize = Cardinality(FreshUnits)
  BY <1>1, <1>2 DEF FInit
<1>4. cell = [b \in Block |-> IF b = ROOT THEN FileBlock(ROOT_DATA)
                              ELSE IF b = ROOT_DATA THEN Dir(NoEntry)
                              ELSE IF b \in Range(FreeAtStart) THEN Link(0) ELSE Blank]
  BY DEF FInit
<1>5. /\ FileBlock(ROOT_DATA) \in Cell /\ Dir(NoEntry) \in Cell /\ Link(0) \in Cell /\ Blank \in Cell
  BY <1>1, CellMakes, BlockIs
<1>6. cell \in Cells
  BY <1>4, <1>5 DEF Cells
<1>7. cell[ROOT] = FileBlock(ROOT_DATA) /\ cell[ROOT_DATA] = Dir(NoEntry)
      /\ \A b \in FreshUnits : cell[b] = IF b \in Range(FreeAtStart) THEN Link(0) ELSE Blank
  BY <1>1, <1>4
<1>. QED
  BY <1>1, <1>3, <1>6, <1>7

LEMMA StoredAtStart ==
  ASSUME FInit PROVE Stored /\ Listed = FreshUnits
<1> DEFINE fr == FreeAtStart
<1>1. /\ sb.freeBlock = fr /\ sb.freeSize = Cardinality(FreshUnits) /\ cell \in Cells
      /\ FreshUnits \subseteq Block /\ fr \in Heads
      /\ \A b \in FreshUnits : cell[b] = IF b \in Range(fr) THEN Link(0) ELSE Blank
  BY FormattedIs, PartitionAssumption DEF Heads
<1>2. /\ \A l \in Lens : fr[l] # 0 => l \in Formatted /\ Extent(fr[l], l) \subseteq FreshUnits
                                      /\ fr[l] \in Extent(fr[l], l) /\ fr[l] \in Nat /\ fr[l] \in Block
  <2> SUFFICES ASSUME NEW l \in Lens, fr[l] # 0
               PROVE  l \in Formatted /\ Extent(fr[l], l) \subseteq FreshUnits
                      /\ fr[l] \in Extent(fr[l], l) /\ fr[l] \in Nat /\ fr[l] \in Block
    OBVIOUS
  <2>1. l \in Formatted
    BY DEF Formatted
  <2>2. fr[l] \in Block /\ fr[l] \in Nat
    BY <1>1, BlockIs DEF Heads
  <2>. QED
    BY <2>1, <2>2, ExtentHas DEF FreshUnits
<1>3. \A b \in FreshUnits : NextIn(cell, b) = 0
  <2> SUFFICES ASSUME NEW b \in FreshUnits PROVE NextIn(cell, b) = 0
    OBVIOUS
  <2>1. CASE cell[b] = Link(0)
    BY <2>1, CellMakes, BlockIs DEF NextIn
  <2>2. CASE cell[b] = Blank
    BY <2>2, CellMakes DEF NextIn
  <2>. QED
    BY <1>1, <2>1, <2>2
<1>4. \A b \in FreshUnits : Reach(LinksIn(cell)[b], LinksIn(cell)) = {}
  <2> SUFFICES ASSUME NEW b \in FreshUnits PROVE Reach(LinksIn(cell)[b], LinksIn(cell)) = {}
    OBVIOUS
  <2>1. LinksIn(cell)[b] = {}
    BY <1>1, <1>3 DEF LinksIn
  <2>. QED
    BY <1>1, <2>1, CellTypes, ReachNothing
<1>5. \A l \in Lens : Chain(fr, cell, l) = IF fr[l] = 0 THEN {} ELSE {fr[l]}
  <2> SUFFICES ASSUME NEW l \in Lens PROVE Chain(fr, cell, l) = IF fr[l] = 0 THEN {} ELSE {fr[l]}
    OBVIOUS
  <2>1. /\ fr[l] # 0 => Chain(fr, cell, l) = {fr[l]} \cup Reach(LinksIn(cell)[fr[l]], LinksIn(cell))
        /\ fr[l] = 0 => Chain(fr, cell, l) = {}
    BY <1>1, ChainIs
  <2>2. fr[l] # 0 => fr[l] \in FreshUnits
    BY <1>2
  <2>. QED
    BY <1>4, <2>1, <2>2
<1>6. \A l \in Lens, m \in Lens : fr[l] # 0 /\ fr[m] # 0 /\ l # m
                                    => Extent(fr[l], l) \cap Extent(fr[m], m) = {}
  BY <1>2, PartitionAssumption
<1> HIDE DEF fr
<1>7. Apart(fr, cell)
  <2> SUFFICES ASSUME NEW l \in Lens, NEW m \in Lens, NEW b \in Chain(fr, cell, l),
                      NEW d \in Chain(fr, cell, m), <<b, l>> # <<d, m>>
               PROVE  Extent(b, l) \cap Extent(d, m) = {}
    BY DEF Apart
  <2>1. b = fr[l] /\ d = fr[m] /\ fr[l] # 0 /\ fr[m] # 0
    BY <1>5
  <2>2. l # m
    BY <2>1
  <2>. QED
    BY <1>6, <2>1, <2>2
<1>8. Fitting(fr, cell)
  <2> SUFFICES ASSUME NEW l \in Lens, NEW b \in Chain(fr, cell, l)
               PROVE  /\ Extent(b, l) \subseteq Block
                      /\ \A u \in Extent(b, l) \ {b} : cell[u] = Blank
                      /\ b \notin Reach(LinksIn(cell)[b], LinksIn(cell))
    BY DEF Fitting
  <2>1. b = fr[l] /\ fr[l] # 0 /\ Extent(b, l) \subseteq FreshUnits /\ b \in FreshUnits
    BY <1>2, <1>5
  <2>2. ASSUME NEW u \in Extent(b, l) \ {b} PROVE cell[u] = Blank
    <3>1. u \notin Range(fr)
      <4> SUFFICES ASSUME u \in Range(fr) PROVE FALSE
        OBVIOUS
      <4>1. PICK m \in Lens : u = fr[m]
        BY <1>1 DEF Range, Heads
      <4>2. fr[m] # 0 /\ m # l
        BY <1>1, <2>1, <2>2, <4>1, BlockIs
      <4>3. u \in Extent(fr[m], m)
        BY <1>2, <4>1, <4>2
      <4>. QED
        BY <1>6, <2>1, <2>2, <4>2, <4>3
    <3>. QED
      BY <1>1, <2>1, <3>1
  <2>. QED
    BY <1>1, <1>4, <2>1, <2>2
<1>9. Units(fr, cell) = FreshUnits
  <2>1. \A u \in FreshUnits : \E l \in Lens : fr[l] # 0 /\ u \in Extent(fr[l], l)
    BY DEF FreshUnits, Formatted, fr
  <2>2. \A u \in Units(fr, cell) : u \in FreshUnits
    BY <1>2, <1>5 DEF Units
  <2>3. \A u \in FreshUnits : u \in Units(fr, cell)
    BY <1>1, <1>5, <2>1 DEF Units
  <2>. QED
    BY <2>2, <2>3
<1>. QED
  BY <1>1, <1>7, <1>8, <1>9 DEF Stored, Listed, fr

LEMMA InvAtStart ==
  ASSUME FInit PROVE NInv
<1>1. /\ pc = "boot" /\ crashes = 0 /\ held = [b \in Block |-> NOTHING]
      /\ path = <<>> /\ dirAddr = 0 /\ want = "blk" /\ blk = 0 /\ dataBlock = 0
      /\ l2 = 0 /\ base = 0 /\ cid = 0
  BY DEF FInit
<1>2. /\ sb \in [signature : Signatures \cup {"zero"}, freeBlock : Heads, freeSize : Nat]
      /\ cell \in Cells /\ cell[ROOT] = FileBlock(ROOT_DATA) /\ cell[ROOT_DATA] = Dir(NoEntry)
      /\ FreshUnits = Block \ {ROOT, ROOT_DATA} /\ ROOT # ROOT_DATA /\ ROOT_DATA \in Block
  BY FormattedIs
<1>3. Types
  BY <1>1, <1>2, EmptyPath, BlockIs, LensAre DEF Types
<1>4. Stored /\ Listed = FreshUnits
  BY StoredAtStart
<1>5. DataIn(cell, ROOT) = ROOT_DATA /\ ROOT_DATA # 0 /\ ROOT_DATA \in Ptr /\ ROOT_DATA # ROOT
  BY <1>2, CellMakes, BlockIs DEF DataIn
<1>6. cell[ROOT].kind = "file" /\ cell[ROOT_DATA].kind = "data"
  BY <1>2, <1>5, CellMakes
<1>7. KidsIn(cell, ROOT) = {}
  <2>1. Range(cell[ROOT_DATA].entry) \ {0} = {}
    BY <1>2, CellMakes
  <2>. QED
    BY <1>5, <2>1 DEF KidsIn
<1>8. FilesIn(cell) = {ROOT} /\ UsedIn(cell) = {ROOT, ROOT_DATA}
  <2>1. BranchesIn(cell)[ROOT] = {}
    BY <1>7, BlockIs DEF BranchesIn
  <2>2. BranchesIn(cell) \in [Block -> SUBSET Block] /\ ROOT \in Block
    BY <1>2, CellTypes, BlockIs
  <2>3. FilesIn(cell) = {ROOT}
    BY <2>1, <2>2, ReachFirst, ReachNothing DEF FilesIn
  <2>. QED
    BY <1>5, <2>3 DEF UsedIn
<1>9. Cut = {} /\ Hand = {} /\ ~HasBlk /\ ~HasData
  BY <1>1 DEF Cut, Hand, HasBlk, HasData
<1>10. Emptied /\ Splitting /\ OnPath
  BY <1>1, <1>9 DEF Emptied, Splitting, OnPath, Creating
<1>11. Places
  BY <1>2, <1>4, <1>8, <1>9 DEF Places
<1>12. Tree
  <2>1. Branched(cell)
    BY <1>5, <1>6, <1>8 DEF Branched
  <2>2. Holding(cell, held)
    BY <1>1, <1>5, <1>6, <1>8, BlockIs DEF Holding
  <2>. QED
    BY <2>1, <2>2 DEF Tree
<1>. QED
  BY <1>3, <1>4, <1>10, <1>11, <1>12 DEF NInv

LEMMA StepKeeps ==
  ASSUME NInv, [FNext]_fvars PROVE NInv'
<1>1. CASE Serve
  BY <1>1, BootKeeps, ReplyKeeps, FoundKeeps, NotFoundKeeps, AstrayKeeps, MallocExactKeeps,
     MallocSplitKeeps, MallocNoneKeeps, FreeHeadKeeps, FreeLinkKeeps, ClearDataKeeps,
     WriteFileKeeps, WriteEntryKeeps DEF Serve
<1>2. CASE Crash
  BY <1>2, CrashKeeps
<1>3. CASE \E p \in Path : Open(p)
  BY <1>3, OpenKeeps
<1>4. CASE \E f \in Files \ {ROOT}, offset \in Offsets, t \in Text : Write(f, offset, t)
  BY <1>4, WriteKeeps
<1>5. CASE UNCHANGED fvars
  <2>1. Types' /\ Emptied' /\ Stored' /\ Splitting'
    BY <1>5 DEF NInv, fvars, local, Types, Emptied, Intact, Stored, Listed, Splitting, Cut
  <2>2. Places'
    BY <1>5 DEF NInv, fvars, local, Places, Listed, Hand, Cut, HasBlk, HasData, Intact
  <2>3. Tree' /\ OnPath'
    BY <1>5 DEF NInv, fvars, local, Tree, Intact, OnPath, Creating, HasBlk
  <2>. QED
    BY <2>1, <2>2, <2>3 DEF NInv
<1>. QED
  BY <1>1, <1>2, <1>3, <1>4, <1>5 DEF FNext

THEOREM InvariantHolds == FSpec => []NInv
<1>1. FInit => NInv
  BY InvAtStart
<1>2. NInv /\ [FNext]_fvars => NInv'
  BY StepKeeps
<1>. QED
  BY <1>1, <1>2, PTL DEF FSpec

(***************************************************************************)
(* What it means.                                                           *)
(***************************************************************************)
LEMMA FreeUnitsAre ==
  ASSUME NInv PROVE FreeUnits = Listed /\ \A l \in Lens : FreeList(l) = Chain(sb.freeBlock, cell, l)
<1>1. \A l : FreeList(l) = Chain(sb.freeBlock, cell, l)
  BY Views
<1>2. Fitting(sb.freeBlock, cell)
  BY DEF NInv, Stored
<1>3. \A u : u \in FreeUnits <=> \E l \in Lens : \E b \in Chain(sb.freeBlock, cell, l) : u \in Extent(b, l)
  BY <1>1 DEF FreeUnits, FreeExtents
<1>4. \A u : u \in Listed <=> \E l \in Lens : \E b \in Chain(sb.freeBlock, cell, l) : u \in Extent(b, l)
  BY <1>2 DEF Listed, Units, Fitting
<1>. QED
  BY <1>1, <1>3, <1>4

LEMMA TypesHold ==
  ASSUME Types PROVE FTypeOK
<1>1. \A b \in Block : cell[b] \in Cell
  BY DEF Types, Cells
<1>2. ASSUME NEW b \in Block
      PROVE  \/ cell[b] = Blank
             \/ (cell[b].kind = "free" /\ cell[b].next \in Ptr)
             \/ (cell[b].kind = "file" /\ cell[b].data \in Ptr)
             \/ (cell[b].kind = "data" /\ cell[b].entry \in [Name -> Ptr])
             \/ (cell[b].kind = "text" /\ cell[b].text \in Text)
  BY <1>1, CellIs
<1>. QED
  BY <1>2 DEF Types, FTypeOK, Heads

(* No block is both free and in a file, in two files' places or twice free, *)
(* whenever and however often power is lost (mallocBlock, freeBlock and     *)
(* createFileBlock of filesystem.c).                                        *)
THEOREM BlocksAreApart == FSpec => []NoBlockShared
<1>1. ASSUME NInv PROVE NoBlockShared
  <2>1. FTypeOK
    BY <1>1, TypesHold DEF NInv
  <2>2. FreeUnits \cap Used = {}
    BY <1>1, FreeUnitsAre, Views DEF NInv, Places
  <2>3. \A l \in Lens, m \in Lens : \A b \in FreeList(l), c \in FreeList(m) :
          <<b, l>> # <<c, m>> => Extent(b, l) \cap Extent(c, m) = {}
    <3>1. Apart(sb.freeBlock, cell)
      BY <1>1 DEF NInv, Stored
    <3>. QED
      BY <1>1, <3>1, FreeUnitsAre DEF Apart
  <2>. QED
    BY <2>1, <2>2, <2>3 DEF NoBlockShared
<1>. QED
  BY <1>1, InvariantHolds, PTL

(* Every name leads to a file that was written, with a data block of its    *)
(* own that holds what was written to it last: the order in which HD_OPEN   *)
(* writes the data block, the file block and the entry.                     *)
THEOREM TreeStaysIntact == FSpec => []TreeIntact
<1>1. ASSUME NInv PROVE TreeIntact
  <2> SUFFICES ASSUME Intact
               PROVE  /\ \A f \in Files : cell[f].kind = "file" /\ DataOf(f) # 0
                      /\ \A f \in Files :
                           IF held[f] = NOTHING THEN cell[DataOf(f)].kind = "data"
                                                ELSE cell[DataOf(f)] = Written(held[f])
                      /\ \A f, g \in Files : DataOf(f) # g /\ (f # g => DataOf(f) # DataOf(g))
    BY DEF TreeIntact
  <2>1. Branched(cell) /\ Holding(cell, held)
    BY <1>1 DEF NInv, Tree
  <2>2. Files = FilesIn(cell) /\ \A f : DataOf(f) = DataIn(cell, f)
    BY Views
  <2>3. \A f \in FilesIn(cell) : cell[f].kind = "file" /\ DataIn(cell, f) # 0
    BY <2>1 DEF Branched, Holding
  <2>4. \A f \in FilesIn(cell) :
          IF held[f] = NOTHING THEN cell[DataIn(cell, f)].kind = "data"
                               ELSE cell[DataIn(cell, f)] = Written(held[f])
    BY <2>1 DEF Holding
  <2>5. \A f, g \in FilesIn(cell) : DataIn(cell, f) # g /\ (f # g => DataIn(cell, f) # DataIn(cell, g))
    BY <2>1, <2>3 DEF Branched
  <2>. QED
    BY <2>2, <2>3, <2>4, <2>5
<1>. QED
  BY <1>1, InvariantHolds, PTL

(* Without a crash no block is lost, and freeSize is the number of free     *)
(* blocks with and without.                                                 *)
THEOREM NoBlockLost == FSpec => []NothingLeaks
<1>1. ASSUME NInv PROVE NothingLeaks
  <2>1. FreeUnits = Listed /\ Used = UsedIn(cell)
    BY <1>1, FreeUnitsAre, Views
  <2>2. sb.freeSize = Cardinality(Listed)
    BY <1>1 DEF NInv, Stored
  <2>3. ASSUME Intact, crashes = 0, pc = "idle" PROVE Listed \cup UsedIn(cell) = Block
    <3>1. Hand = {}
      BY <2>3 DEF Hand, Cut, HasBlk, HasData
    <3>2. Block \subseteq Listed \cup UsedIn(cell)
      BY <1>1, <2>3, <3>1 DEF NInv, Places
    <3>3. Listed \subseteq Block
      BY DEF Listed, Units
    <3>4. UsedIn(cell) \subseteq Block
      <4>1. cell \in Cells /\ Holding(cell, held)
        BY <1>1, <2>3 DEF NInv, Types, Tree
      <4>2. \A f \in FilesIn(cell) : f \in Block /\ DataIn(cell, f) \in Block
        BY <4>1, FilesAre, CellTypes, BlockIs DEF Holding
      <4>. QED
        BY <4>2 DEF UsedIn
    <3>. QED
      BY <3>2, <3>3, <3>4
  <2>. QED
    BY <2>1, <2>2, <2>3 DEF NothingLeaks
<1>. QED
  BY <1>1, InvariantHolds, PTL
=============================================================================
