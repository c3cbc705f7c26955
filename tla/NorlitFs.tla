------------------------------- MODULE NorlitFs -------------------------------
(***************************************************************************)
(* kernel/driver/filesystem/filesystem.c: how the file system allocates     *)
(* blocks, creates the files a path names and writes their contents, write  *)
(* by write, with power lost between any two writes.                        *)
(*                                                                         *)
(* The server is one process that calls the disk and waits, so that between *)
(* two of its writes only a crash can come; a read is part of the write or  *)
(* the decision it serves.  A block of 2KB is named by its number, and the  *)
(* superblock is sector 1 of block 0.  Of a block the model keeps what the  *)
(* server reads of it: the link of a free block, the data block of a file   *)
(* block, the entries of a directory by the hash of their names, and which  *)
(* text a program has put over them: files and directories are not told     *)
(* apart.                                                                   *)
(***************************************************************************)
EXTENDS Integers, Sequences, FiniteSets, FiniteSetsExt, Functions

CONSTANTS
  Block,        \* the blocks of the partition behind block 0
  LENS,         \* sizes of free blocks, 20 in the code
  FreeAtStart,  \* [Len -> the base of the free block of 2^len blocks, or 0]
  ROOT,         \* the root directory's file block ...
  ROOT_DATA,    \* ... and its data block
  Name,         \* hashes of names
  Text,         \* what programs write, a block at a time, and where:
  Offsets,      \* 0 alone in the repository, since each file has one block
  Signatures,   \* what the superblock may hold when the system first starts
  MAX_CRASHES,  \* bound
  Pow           \* the powers of two, "1 << len"

NORLIT == "NorlitFS"
NOTHING == "nothing"   \* written to a file yet
Lens   == 0 .. LENS - 1
Path   == UNION {[1 .. n -> Name] : n \in 0 .. 2}   \* bound: two components
Ptr    == Block \cup {0}
Extent(b, l) == b .. b + Pow[l] - 1

(* The partition when it was formatted, outside the repository: each block  *)
(* is the root's or free.                                                   *)
Formatted == {l \in Lens : FreeAtStart[l] # 0}
FreshUnits == UNION {Extent(FreeAtStart[l], l) : l \in Formatted}
ASSUME PowAssumption ==
  /\ LENS \in Nat \ {0} /\ Pow \in [Lens -> Nat] /\ Pow[0] = 1
  /\ \A l \in Lens \ {0} : Pow[l] = 2 * Pow[l - 1]
ASSUME PartitionAssumption ==
  /\ Block \subseteq Nat \ {0} /\ IsFiniteSet(Block) /\ NOTHING \notin Text /\ MAX_CRASHES \in Nat
  /\ ROOT \in Block /\ ROOT_DATA \in Block /\ ROOT # ROOT_DATA
  /\ FreeAtStart \in [Lens -> Ptr] /\ FreshUnits = Block \ {ROOT, ROOT_DATA}
  /\ \A l, m \in Formatted : l # m => Extent(FreeAtStart[l], l) \cap Extent(FreeAtStart[m], m) = {}

(* What a block holds.  The partition was all zero when it was formatted.   *)
Blank   == [kind |-> "blank"]
Link(n) == [kind |-> "free", next |-> n]
FileBlock(d) == [kind |-> "file", data |-> d]
Dir(e)  == [kind |-> "data", entry |-> e]
Written(t) == [kind |-> "text", text |-> t]
NoEntry == [n \in Name |-> 0]
VARIABLES
  sb,       \* the superblock: signature, freeBlock, freeSize
  cell,     \* [Block -> what it holds]
  pc,       \* the server: where it is
  path,     \* the components it has yet to look up
  dirAddr,  \* the file block it has come to
  want,     \* which of its two blocks createFileBlock is allocating
  blk, dataBlock,   \* the two blocks
  l2, base, cid,    \* the loop of mallocBlock over freeBlock
  held,     \* what each file should hold, by its file block (history)
  crashes

local == <<path, dirAddr, want, blk, dataBlock, l2, base, cid>>
fvars == <<sb, cell, pc, local, held, crashes>>

Forget ==
  /\ path' = <<>> /\ dirAddr' = 0 /\ want' = "blk" /\ blk' = 0 /\ dataBlock' = 0
  /\ l2' = 0 /\ base' = 0 /\ cid' = 0

FInit ==
  /\ sb \in [signature : Signatures, freeBlock : {FreeAtStart},
             freeSize : {Cardinality(FreshUnits)}]
  /\ cell = [b \in Block |-> IF b = ROOT THEN FileBlock(ROOT_DATA)
                             ELSE IF b = ROOT_DATA THEN Dir(NoEntry)
                             ELSE IF b \in Range(FreeAtStart) THEN Link(0) ELSE Blank]
  /\ pc = "boot" /\ crashes = 0 /\ held = [b \in Block |-> NOTHING]
  /\ path = <<>> /\ dirAddr = 0 /\ want = "blk" /\ blk = 0 /\ dataBlock = 0
  /\ l2 = 0 /\ base = 0 /\ cid = 0

(* norlitfs_bottom reads the superblock and serves, or it calls EXIT.       *)
Boot ==
  /\ pc = "boot"
  /\ pc' = IF sb.signature = NORLIT THEN "idle" ELSE "exited"
  /\ UNCHANGED <<sb, cell, local, held, crashes>>

(* Power is lost, and the system starts again from what is on the disk.     *)
Crash ==
  /\ pc # "boot" /\ crashes < MAX_CRASHES
  /\ crashes' = crashes + 1 /\ pc' = "boot"
  /\ Forget
  /\ UNCHANGED <<sb, cell, held>>

(* HD_OPEN.  A file has one data block; behind it the answer is 0.          *)
Open(p) ==
  /\ pc = "idle" /\ pc' = "lookup"
  /\ path' = p /\ dirAddr' = ROOT
  /\ UNCHANGED <<sb, cell, want, blk, dataBlock, l2, base, cid, held, crashes>>

SeekDataBlock(f, offset) ==
  IF f \in Block /\ cell[f].kind = "file" /\ offset = 0 THEN cell[f].data ELSE 0
DataOf(f) == SeekDataBlock(f, 0)
Directory == DataOf(dirAddr)
Entry(n) == IF Directory # 0 /\ cell[Directory].kind = "data"
              THEN cell[Directory].entry[n] ELSE 0

(* A creation failed and the path goes on, so that block 0 is read as a     *)
(* file, or the path goes on behind a file that holds text.                 *)
Strange == dirAddr = 0 \/ (Directory # 0 /\ cell[Directory].kind = "text")
LookUp == pc = "lookup" /\ path # <<>> /\ ~Strange

(* All components are looked up: the file block goes back as the handle.    *)
Reply ==
  /\ pc = "lookup" /\ path = <<>>
  /\ pc' = "idle" /\ Forget
  /\ UNCHANGED <<sb, cell, held, crashes>>

(* Slip: the component is looked up again.                                  *)
FoundStay ==
  /\ LookUp /\ Entry(Head(path)) # 0
  /\ UNCHANGED <<sb, cell, pc, local, held, crashes>>

Found ==
  /\ LookUp /\ Entry(Head(path)) # 0
  /\ dirAddr' = Entry(Head(path)) /\ path' = Tail(path)
  /\ UNCHANGED <<sb, cell, pc, want, blk, dataBlock, l2, base, cid, held, crashes>>

(* Slip: the entry is written before the blocks it leads to.                *)
NotFoundEarly ==
  /\ LookUp /\ Entry(Head(path)) = 0
  /\ \E l \in Lens :
       /\ sb.freeBlock[l] # 0
       /\ cell' = [cell EXCEPT ![Directory].entry[Head(path)] = sb.freeBlock[l]]
  /\ pc' = "malloc" /\ want' = "blk"
  /\ UNCHANGED <<sb, path, dirAddr, blk, dataBlock, l2, base, cid, held, crashes>>

NotFound ==
  /\ LookUp /\ Entry(Head(path)) = 0
  /\ pc' = "malloc" /\ want' = "blk"
  /\ UNCHANGED <<sb, cell, path, dirAddr, blk, dataBlock, l2, base, cid, held, crashes>>

(* What the server does then depends on bytes that are not data of its own. *)
Astray ==
  /\ pc = "lookup" /\ path # <<>> /\ Strange
  /\ pc' = "astray" /\ Forget
  /\ UNCHANGED <<sb, cell, held, crashes>>

(***************************************************************************)
(* mallocBlock(0), twice in createFileBlock.  Got(b) is its return.         *)
(***************************************************************************)
Got(b) ==
  IF want = "blk"
    THEN /\ blk' = b
         /\ IF b = 0 THEN pc' = "entry" /\ UNCHANGED want
                     ELSE pc' = "malloc" /\ want' = "data"
         /\ UNCHANGED dataBlock
    ELSE dataBlock' = b /\ pc' = "data" /\ UNCHANGED <<blk, want>>

Super(free, size) == [signature |-> sb.signature, freeBlock |-> free, freeSize |-> size]
NextOf(b) == IF cell[b].kind = "free" THEN cell[b].next ELSE 0
Larger == {l \in Lens : sb.freeBlock[l] # 0}

(* The superblock without its first free block of 2^l blocks.               *)
Unlinked(l) == Super([sb.freeBlock EXCEPT ![l] = NextOf(@)], sb.freeSize - Pow[l])

MallocExact ==
  /\ pc = "malloc" /\ sb.freeBlock[0] # 0
  /\ sb' = Unlinked(0)
  /\ Got(sb.freeBlock[0])
  /\ UNCHANGED <<cell, path, dirAddr, l2, base, cid, held, crashes>>

MallocSplit ==
  /\ pc = "malloc" /\ sb.freeBlock[0] = 0 /\ Larger # {}
  /\ LET l == Min(Larger)
     IN  /\ sb' = Unlinked(l)
         /\ base' = sb.freeBlock[l]
         /\ l2' = l - 1
  /\ pc' = "free"
  /\ UNCHANGED <<cell, path, dirAddr, want, blk, dataBlock, cid, held, crashes>>

MallocNone ==
  /\ pc = "malloc" /\ Larger = {}
  /\ Got(0)
  /\ UNCHANGED <<sb, cell, path, dirAddr, l2, base, cid, held, crashes>>

(* Slip: freeBlock writes the block before it.                              *)
FreeHeadShort ==
  /\ pc = "free"
  /\ cid' = sb.freeBlock[l2]
  /\ sb' = Super([sb.freeBlock EXCEPT ![l2] = base], sb.freeSize + Pow[l2])
  /\ pc' = "link"
  /\ UNCHANGED <<cell, path, dirAddr, want, blk, dataBlock, l2, base, held, crashes>>

(* freeBlock(rt + 2^l2, l2), its first write: the superblock.               *)
FreeHead ==
  /\ pc = "free"
  /\ cid' = sb.freeBlock[l2]
  /\ sb' = Super([sb.freeBlock EXCEPT ![l2] = base + Pow[l2]], sb.freeSize + Pow[l2])
  /\ pc' = "link"
  /\ UNCHANGED <<cell, path, dirAddr, want, blk, dataBlock, l2, base, held, crashes>>

(* Slip: the loop ends one size early.                                      *)
FreeLinkEarly ==
  /\ pc = "link"
  /\ cell' = [cell EXCEPT ![base + Pow[l2]] = Link(cid)]
  /\ IF l2 <= 1 THEN Got(base) /\ UNCHANGED l2
                ELSE pc' = "free" /\ l2' = l2 - 1 /\ UNCHANGED <<blk, dataBlock, want>>
  /\ UNCHANGED <<sb, path, dirAddr, base, cid, held, crashes>>

(* Its second write: the link.                                              *)
FreeLink ==
  /\ pc = "link"
  /\ cell' = [cell EXCEPT ![base + Pow[l2]] = Link(cid)]
  /\ IF l2 = 0 THEN Got(base) /\ UNCHANGED l2
               ELSE pc' = "free" /\ l2' = l2 - 1 /\ UNCHANGED <<blk, dataBlock, want>>
  /\ UNCHANGED <<sb, path, dirAddr, base, cid, held, crashes>>

(***************************************************************************)
(* The rest of createFileBlock and HD_OPEN.                                 *)
(***************************************************************************)
(* Block 0, with the superblock in it, is overwritten.                      *)
Overwritten == [signature |-> "zero", freeBlock |-> [l \in Lens |-> 0], freeSize |-> 0]

(* The new file's data block is cleared.  The answer of the second          *)
(* mallocBlock is not looked at: when there was no block left, it is block  *)
(* 0 that is cleared, and with it the superblock.                           *)
ClearData ==
  /\ pc = "data"
  /\ IF dataBlock # 0
       THEN cell' = [cell EXCEPT ![dataBlock] = Dir(NoEntry)] /\ UNCHANGED sb
       ELSE sb' = Overwritten /\ UNCHANGED cell
  /\ pc' = "file"
  /\ UNCHANGED <<local, held, crashes>>

WriteFile ==
  /\ pc = "file"
  /\ cell' = [cell EXCEPT ![blk] = FileBlock(dataBlock)]
  /\ held' = [held EXCEPT ![blk] = NOTHING]
  /\ pc' = "entry"
  /\ UNCHANGED <<sb, local, crashes>>

(* The entry, whose address stays 0 (no entry) when there was no block.     *)
WriteEntry ==
  /\ pc = "entry"
  /\ cell' = IF Directory # 0 THEN [cell EXCEPT ![Directory] = Dir([@.entry EXCEPT ![Head(path)] = blk])]
                              ELSE cell
  /\ dirAddr' = blk /\ path' = Tail(path)
  /\ pc' = "lookup"
  /\ UNCHANGED <<sb, want, blk, dataBlock, l2, base, cid, held, crashes>>

(* What can be reached: the least set that has from and, of each b in it,   *)
(* all of succ[b].                                                          *)
Reach(from, succ) ==
  LET Within == from \cup UNION Range(succ)
  IN  {b \in Within : \A S \in SUBSET Within :
                      from \subseteq S /\ (\A f \in S : succ[f] \subseteq S) => b \in S}

(* The files the root leads to, and the blocks they use.                    *)
Children(f) == IF DataOf(f) = 0 \/ cell[DataOf(f)].kind # "data" THEN {}
               ELSE Range(cell[DataOf(f)].entry) \ {0}
Branches == [f \in Block |-> Children(f)]
Files == Reach({ROOT}, Branches)
Used == Files \cup {DataOf(f) : f \in Files}

(* HD_WRITE, and HD_READ, which answers with the same block: of a file that *)
(* some program has opened, which may be any there is, and is no directory. *)
(* Behind the end of a file it is block 0 that is written.                  *)
Write(f, offset, t) ==
  /\ pc = "idle" /\ Children(f) = {}
  /\ LET cls == SeekDataBlock(f, offset)
     IN  IF cls # 0 THEN cell' = [cell EXCEPT ![cls] = Written(t)] /\ UNCHANGED sb
                    ELSE sb' = Overwritten /\ UNCHANGED cell
  /\ held' = [held EXCEPT ![f] = t]
  /\ UNCHANGED <<pc, local, crashes>>

Serve == \/ Boot \/ Reply \/ Found \/ NotFound \/ Astray
         \/ MallocExact \/ MallocSplit \/ MallocNone \/ FreeHead \/ FreeLink
         \/ ClearData \/ WriteFile \/ WriteEntry
FNext == \/ Serve \/ Crash \/ \E p \in Path : Open(p)
         \/ \E f \in Files \ {ROOT}, offset \in Offsets, t \in Text : Write(f, offset, t)
(* The disk answers each request and the server has the CPU again and again. *)
FSpec == FInit /\ [][FNext]_fvars /\ WF_fvars(Serve)

FTypeOK ==
  /\ sb \in [signature : Signatures \cup {"zero"}, freeBlock : [Lens -> Ptr], freeSize : Nat]
  /\ \A b \in Block :
       \/ cell[b] = Blank
       \/ cell[b].kind = "free" /\ cell[b].next \in Ptr
       \/ cell[b].kind = "file" /\ cell[b].data \in Ptr
       \/ cell[b].kind = "data" /\ cell[b].entry \in [Name -> Ptr]
       \/ cell[b].kind = "text" /\ cell[b].text \in Text
  /\ held \in [Block -> Text \cup {NOTHING}]
  /\ pc \in {"boot", "idle", "lookup", "malloc", "free", "link", "data", "file", "entry",
             "astray", "exited"}
  /\ path \in Path /\ {dirAddr, blk, dataBlock, base, cid} \subseteq Ptr
  /\ want \in {"blk", "data"} /\ l2 \in Lens

(***************************************************************************)
(* Properties.                                                              *)
(***************************************************************************)
Intact == sb.signature = NORLIT

(* The free blocks of 2^l blocks, along their links.                        *)
Links == [b \in Block |-> {NextOf(b)} \ {0}]
FreeList(l) == Reach({sb.freeBlock[l]} \ {0}, Links)
FreeExtents == UNION {{Extent(b, l) : b \in FreeList(l)} : l \in Lens}
FreeUnits   == UNION FreeExtents

(* Each entry leads to a file block that was written, with a data block of  *)
(* its own that was cleared before: whatever write a crash prevents, no     *)
(* name leads to a block that is something else.  A file that a program has *)
(* written holds what was written last, whatever is created around it.      *)
TreeIntact ==
  Intact => /\ \A f \in Files : cell[f].kind = "file" /\ DataOf(f) # 0
            /\ \A f \in Files :
                 IF held[f] = NOTHING THEN cell[DataOf(f)].kind = "data"
                                      ELSE cell[DataOf(f)] = Written(held[f])
            /\ \A f, g \in Files : DataOf(f) # g /\ (f # g => DataOf(f) # DataOf(g))

(* A block is free or in one file, never both and never twice free: also    *)
(* when a crash cuts a split short, which may lose blocks but not share     *)
(* them.                                                                    *)
NoBlockShared ==
  /\ FTypeOK
  /\ Intact => /\ FreeUnits \cap Used = {}
               /\ \A l \in Lens, m \in Lens : \A b \in FreeList(l), c \in FreeList(m) :
                    <<b, l>> # <<c, m>> => Extent(b, l) \cap Extent(c, m) = {}

(* Only a crash loses blocks: without one, each block is free or in a file  *)
(* whenever the server waits.  freeSize, which is kept apart from the       *)
(* lists, is the number of free blocks, crash or not.                       *)
NothingLeaks ==
  Intact => /\ crashes = 0 /\ pc = "idle" => FreeUnits \cup Used = Block
            /\ sb.freeSize = Cardinality(FreeUnits)

(* Each HD_OPEN comes to an end: the split and the path do.                 *)
OpenEnds == pc \notin {"idle", "astray", "exited"} ~> pc \in {"idle", "astray", "exited"}

(* filesystem.h 47, 'u8 signature[8]; /* "NorlitFS" */': a superblock that  *)
(* had it keeps it, whatever files are created.                             *)
SignatureStays == [][Intact => Intact']_fvars
=============================================================================
