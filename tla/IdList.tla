------------------------------- MODULE IdList -------------------------------
(***************************************************************************)
(* The two lists of the kernel that give out numbers (proc.c over list.h):  *)
(* processTable, whose head is the structure of Init and whose numbers are  *)
(* the pids from 1, and the threads of a process, whose head is             *)
(* Process.thread and whose numbers are the threadIDs from 0.               *)
(*                                                                         *)
(* newProcess and createThread walk the list for the first number that is   *)
(* missing and link the new structure where the walk stopped; disposals     *)
(* unlink; getProcessById walks for a number.  All of it happens under      *)
(* scheduleLock, one operation after the other; a walk is one action per    *)
(* node it passes.                                                          *)
(***************************************************************************)
EXTENDS Integers, FiniteSets

CONSTANTS Node,    \* the structures that can be linked
          HEAD,    \* the head of the list; also the NULL of getProcessById
          FIRST    \* the first number: 1 for pids, 0 for threadIDs

ASSUME HeadAssumption  == HEAD \notin Node
ASSUME FirstAssumption == FIRST \in {0, 1}

VARIABLES
  next, prev,   \* LinkedList.next and .prev of each node and of the head
  id,           \* pid or threadID
  live,         \* the structures that are linked
  pc,           \* "idle", or the walk that is under way
  node,         \* the structure to link
  entry, num,   \* where the walk is, and the number it has reached
  found         \* what getProcessById returned last
lvars == <<next, prev, id, live, pc, node, entry, num, found>>

Link == Node \cup {HEAD}
Ids  == {id[n] : n \in live}

LInit ==
  /\ next = [n \in Link |-> n] /\ prev = [n \in Link |-> n]    \* init_list
  /\ id = [n \in Node |-> 0]
  /\ live = {}
  /\ pc = "idle" /\ node = HEAD /\ entry = HEAD /\ num = FIRST /\ found = HEAD

Walk(kind, i) ==
  /\ pc = "idle"
  /\ pc' = kind /\ entry' = next[HEAD] /\ num' = i

(* The walk is over, and its local variables with it.                       *)
Done == pc' = "idle" /\ node' = HEAD /\ entry' = HEAD /\ num' = FIRST

AtNum == entry # HEAD /\ id[entry] = num

(* Slip: the search starts one too high.                                    *)
StartInsertHigh(n) ==
  /\ n \in Node \ live
  /\ Walk("insert", FIRST + 1)
  /\ node' = n
  /\ UNCHANGED <<next, prev, id, live, found>>

(* newProcess and createThread.                                             *)
StartInsert(n) ==
  /\ n \in Node \ live
  /\ Walk("insert", FIRST)
  /\ node' = n
  /\ UNCHANGED <<next, prev, id, live, found>>

PassTaken ==
  /\ pc = "insert" /\ AtNum
  /\ entry' = next[entry] /\ num' = num + 1
  /\ UNCHANGED <<next, prev, id, live, pc, node, found>>

(* list_add_tail(new, entry): list_insert between entry->prev and entry.    *)
InsertBefore(n, e) ==
  LET p == prev[e]
  IN  /\ next' = [next EXCEPT ![p] = n, ![n] = e]
      /\ prev' = [prev EXCEPT ![n] = p, ![e] = n]

(* Slip: one more count at the end of the list.                             *)
LinkHigh ==
  /\ pc = "insert" /\ ~AtNum
  /\ id' = [id EXCEPT ![node] = IF entry = HEAD THEN num + 1 ELSE num]
  /\ InsertBefore(node, entry)
  /\ live' = live \cup {node}
  /\ Done
  /\ UNCHANGED found

LinkNew ==
  /\ pc = "insert" /\ ~AtNum
  /\ id' = [id EXCEPT ![node] = num]
  /\ InsertBefore(node, entry)
  /\ live' = live \cup {node}
  /\ Done
  /\ UNCHANGED found

(* list_hide: the node that leaves keeps its own pointers.                  *)
Hide(n) ==
  /\ pc = "idle" /\ n \in live
  /\ next' = [next EXCEPT ![prev[n]] = next[n]]
  /\ prev' = [prev EXCEPT ![next[n]] = prev[n]]
  /\ live' = live \ {n}
  /\ UNCHANGED <<id, pc, node, entry, num, found>>

(* getProcessById.                                                          *)
StartFind(i) == Walk("find", i) /\ UNCHANGED <<next, prev, id, live, node, found>>

PassOther ==
  /\ pc = "find" /\ entry # HEAD /\ ~AtNum
  /\ entry' = next[entry]
  /\ UNCHANGED <<next, prev, id, live, pc, node, num, found>>

(* Slip: the last structure looked at is returned.                          *)
ReturnLast ==
  /\ pc = "find" /\ (entry = HEAD \/ AtNum)
  /\ found' = IF entry = HEAD THEN prev[HEAD] ELSE entry
  /\ Done
  /\ UNCHANGED <<next, prev, id, live>>

Return ==
  /\ pc = "find" /\ (entry = HEAD \/ AtNum)
  /\ found' = entry
  /\ Done
  /\ UNCHANGED <<next, prev, id, live>>

LNext ==
  \/ \E n \in Node : StartInsert(n) \/ Hide(n)
  \/ PassTaken \/ LinkNew \/ PassOther \/ Return
  \/ \E i \in FIRST .. FIRST + Cardinality(Node) : StartFind(i)

LSpec == LInit /\ [][LNext]_lvars

LTypeOK ==
  /\ next \in [Link -> Link] /\ prev \in [Link -> Link]
  /\ id \in [Node -> Nat]
  /\ live \subseteq Node
  /\ pc \in {"idle", "insert", "find"}
  /\ node \in Link /\ entry \in Link /\ found \in Link
  /\ num \in Nat

(* No two live structures have the same number.                             *)
Unique == \A n, m \in live : id[n] = id[m] => n = m

(* The two directions of the list agree and stay among live nodes, however  *)
(* insertions in the middle and removals follow one another.                *)
Linked ==
  \A n \in live \cup {HEAD} :
    /\ next[n] \in live \cup {HEAD} /\ prev[n] \in live \cup {HEAD}
    /\ prev[next[n]] = n /\ next[prev[n]] = n

(* Neighbours are in ascending order and no number lies between them: the   *)
(* first of two equal candidates in schedule is the one with the lower pid, *)
(* and the first thread of the list the one with the lowest threadID.       *)
Ascending ==
  \A n \in live \cup {HEAD} :
    /\ n # HEAD => id[n] >= FIRST
    /\ n # HEAD /\ next[n] # HEAD => id[n] < id[next[n]]
    /\ \A k \in live : \/ n # HEAD /\ id[k] <= id[n]
                       \/ next[n] # HEAD /\ id[next[n]] <= id[k]

(* The number given out is the smallest one no live structure has: the one  *)
(* a process or thread that just ended has left free is used again.         *)
SmallestFree ==
  [][pc = "insert" /\ pc' = "idle" =>
       /\ id'[node] \notin Ids
       /\ FIRST .. id'[node] - 1 \subseteq Ids]_lvars

(* getProcessById returns the structure with the number it is asked for,    *)
(* and NULL only when there is none.                                        *)
FindsIt ==
  [][pc = "find" /\ pc' = "idle" =>
       IF num \in Ids THEN found' \in live /\ id[found'] = num ELSE found' = HEAD]_lvars

(* What a walk knows about the nodes it has passed.                         *)
WalkKnows ==
  /\ pc # "idle" => entry \in live \cup {HEAD}
  /\ pc = "insert" =>
       /\ node \in Node \ live /\ num >= FIRST
       /\ FIRST .. num - 1 \subseteq Ids
       /\ IF prev[entry] = HEAD THEN num = FIRST ELSE id[prev[entry]] = num - 1
  /\ pc = "find" =>
       \A k \in live : id[k] = num => entry # HEAD /\ id[entry] <= num

LInv == LTypeOK /\ Unique /\ Linked /\ Ascending /\ WalkKnows
=============================================================================
