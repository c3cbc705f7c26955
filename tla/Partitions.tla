----------------------------- MODULE Partitions -----------------------------
(***************************************************************************)
(* How the file system comes to its partition: readPartition of             *)
(* kernel/driver/harddisk/harddisk.c fills a table from the sectors of the  *)
(* disk, norlitfs_bottom of filesystem.c looks a partition up in it and     *)
(* opens it by its number, and HD_READ adds the start the table gives.      *)
(*                                                                         *)
(* A sector is what its four entries say, as far as they are read.  The     *)
(* messages between the two drivers are those of module Servers.            *)
(***************************************************************************)
EXTENDS Integers, Sequences, FiniteSets

CONSTANTS
  Mbr,             \* the master boot records to examine
  Ebr,             \* the extended boot records, by sector
  MAX_PARTITIONS   \* slots of the table, 64 in the code

(* The types, as far as they are told apart.                                *)
PartType == {"none", "norlit", "extended", "gpt", "other"}

(* The last entry of the type extended leads to the chain.                  *)
Extended(m) ==
  LET S == {i \in 1 .. 4 : m.entry[i].type = "extended"}
  IN  IF S = {} THEN 0 ELSE m.entry[CHOOSE i \in S : \A j \in S : j <= i].start

ASSUME TableAssumption == MAX_PARTITIONS \in Nat /\ MAX_PARTITIONS >= 4
(* Wherever the chain leads is a sector of the disk, though not the first.  *)
ASSUME DiskAssumption ==
  /\ \A m \in Mbr : m.entry \in [1 .. 4 -> [type : PartType, start : Nat]]
  /\ \A e \in Ebr :
       /\ DOMAIN e \subseteq Nat \ {0}
       /\ e \in [DOMAIN e -> [valid : BOOLEAN, type : PartType, start : Nat, last : BOOLEAN, next : Nat]]
       /\ \A m \in Mbr : Extended(m) # 0 =>
            /\ Extended(m) \in DOMAIN e
            /\ \A s \in DOMAIN e : e[s].valid /\ ~e[s].last => Extended(m) + e[s].next \in DOMAIN e

(* The page of the table holds anything before it is filled.                *)
GARBAGE == [type |-> "garbage", start |-> -1]

VARIABLES mbr, ebr,            \* the disk
          part, partCount,     \* HardDisk
          extSec, id,          \* the locals of readPartition
          hdpc,                \* where the disk driver is
          fspc, slot, handle   \* where the file system is, its loop, what it has opened
diskvars == <<mbr, ebr, part, partCount, extSec, id, hdpc, fspc, slot, handle>>

PartFrom(mbrs, ebrs, counts) ==
  /\ mbr \in mbrs /\ ebr \in ebrs
  /\ part = [i \in 0 .. MAX_PARTITIONS - 1 |-> GARBAGE]
  /\ partCount \in counts
  /\ extSec = 0 /\ id = 0 /\ hdpc = "mbr"
  /\ fspc = "wait" /\ slot = 0 /\ handle = 0
PartInit == PartFrom(Mbr, Ebr, {0, MAX_PARTITIONS})   \* counts memory may hold

BrokenMbr == /\ hdpc = "mbr" /\ ~mbr.valid /\ hdpc' = "serve"
             /\ UNCHANGED <<mbr, ebr, part, partCount, extSec, id, fspc, slot, handle>>
Gpt == /\ hdpc = "mbr" /\ mbr.valid /\ mbr.entry[1].type = "gpt" /\ hdpc' = "serve"
       /\ partCount' = 0
       /\ UNCHANGED <<mbr, ebr, part, extSec, id, fspc, slot, handle>>
Primaries ==
  /\ hdpc = "mbr" /\ mbr.valid /\ mbr.entry[1].type # "gpt" /\ hdpc' = "ebr"
  /\ part' = [i \in DOMAIN part |-> IF i < 4 THEN mbr.entry[i + 1] ELSE part[i]]
  /\ id' = 4 /\ extSec' = Extended(mbr)
  /\ UNCHANGED <<mbr, ebr, partCount, fspc, slot, handle>>

(* One record of the chain: its partition counts from the record itself,    *)
(* the next record from the first one.                                      *)
Filled(base) == [part EXCEPT ![id] = [type |-> ebr[extSec].type, start |-> base + ebr[extSec].start]]
MoreRecords == extSec # 0 /\ id < MAX_PARTITIONS
ReadEbrFrom(base) ==
  /\ hdpc = "ebr" /\ MoreRecords /\ ebr[extSec].valid
  /\ part' = Filled(base) /\ id' = id + 1
  /\ extSec' = IF ebr[extSec].last THEN 0 ELSE Extended(mbr) + ebr[extSec].next
  /\ UNCHANGED <<mbr, ebr, partCount, hdpc, fspc, slot, handle>>

(* Slip: the partition counts from the first record.                        *)
ReadEbrOfFirst == ReadEbrFrom(Extended(mbr))
ReadEbr == ReadEbrFrom(extSec)

(* A broken record ends the chain, and its slot counts.                     *)
BrokenEbr ==
  /\ hdpc = "ebr" /\ MoreRecords /\ ~ebr[extSec].valid
  /\ id' = id + 1 /\ extSec' = 0
  /\ UNCHANGED <<mbr, ebr, part, partCount, hdpc, fspc, slot, handle>>
ChainEnds == /\ hdpc = "ebr" /\ ~MoreRecords /\ hdpc' = "serve" /\ partCount' = id
             /\ UNCHANGED <<mbr, ebr, part, extSec, id, fspc, slot, handle>>

(* fileOpen of $MBR, and the loop over the table it answers with.           *)
IsNorlit(t) == t \in {"norlit", "garbage"}   \* garbage may be taken for it
IsOther(t) == t # "norlit"
OpenMbr == /\ fspc = "wait" /\ hdpc = "serve" /\ fspc' = "search"
           /\ UNCHANGED <<mbr, ebr, part, partCount, extSec, id, hdpc, slot, handle>>
PassSlot == /\ fspc = "search" /\ slot < partCount /\ IsOther(part[slot].type)
            /\ slot' = slot + 1
            /\ UNCHANGED <<mbr, ebr, part, partCount, extSec, id, hdpc, fspc, handle>>

(* fileOpen of the number that counts from 1, and fileRead through it.      *)
OpenPartition ==
  /\ fspc = "search" /\ slot < partCount /\ IsNorlit(part[slot].type)
  /\ handle' = slot + 1 /\ fspc' = "read"
  /\ UNCHANGED <<mbr, ebr, part, partCount, extSec, id, hdpc, slot>>
NoPartition == /\ fspc = "search" /\ slot = partCount /\ fspc' = "exit"
               /\ UNCHANGED <<mbr, ebr, part, partCount, extSec, id, hdpc, slot, handle>>

(* What HD_READ adds to the offset.                                         *)
Base(h) == IF h = 0 THEN 0 ELSE part[h - 1].start

PartNext == \/ BrokenMbr \/ Gpt \/ Primaries \/ ReadEbr \/ BrokenEbr \/ ChainEnds
            \/ OpenMbr \/ PassSlot \/ OpenPartition \/ NoPartition
PartSpec == PartInit /\ [][PartNext]_diskvars

(* The partitions that the disk describes, apart from readPartition's loop: *)
(* a record is on the chain when each of the records before it leads on.    *)
After(s) == IF ebr[s].valid /\ ~ebr[s].last THEN {Extended(mbr) + ebr[s].next} ELSE {}
Chain ==
  {s \in DOMAIN ebr : \A S \in SUBSET DOMAIN ebr :
     {Extended(mbr)} \ {0} \subseteq S /\ (\A r \in S : After(r) \subseteq S) => s \in S}
Described ==
  {mbr.entry[i] : i \in 1 .. 4} \cup
  {[type |-> ebr[s].type, start |-> s + ebr[s].start] : s \in {r \in Chain : ebr[r].valid}}
Sound == mbr.valid /\ mbr.entry[1].type # "gpt" /\ \A s \in Chain : ebr[s].valid

(* From a sound disk the file system reads the partition that it looks for, *)
(* and it gives up only when the disk has none that fits into the table.    *)
(* The record a logical partition counts from, the number in its name and   *)
(* the slot of the table are each off by something from the other.  A       *)
(* broken record leaves a slot of garbage behind, and a broken MBR the      *)
(* whole table.  A chain that comes back to one of its records ends with    *)
(* the table.                                                               *)
ReadsNorlit ==
  /\ id <= MAX_PARTITIONS
  /\ Sound =>
    /\ fspc = "read" => [type |-> "norlit", start |-> Base(handle)] \in Described
    /\ fspc = "exit" /\ partCount < MAX_PARTITIONS => \A d \in Described : d.type # "norlit"
=============================================================================
