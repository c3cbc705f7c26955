--------------------------------- MODULE Pages ---------------------------------
(***************************************************************************)
(* Who holds a physical page: kernel/process/page.c, and what the calls of  *)
(* kernel/process/proc.c do with pages.  A page is free, or it is a page    *)
(* directory, a page table, mapped by an entry, or in a queued message; SEND *)
(* and RECEIVE move it from one process to another.                         *)
(*                                                                         *)
(* A kernel entry is one action, as in module Proc.  A call that answers    *)
(* with an error before it touches a page is left out.  Which message       *)
(* RECEIVE takes is MsgRing's matter, and which page memory_alloc gives     *)
(* Buddy's.  A call of openPhysicalMemory for many pages is many calls.  The *)
(* structures of processes and threads, and Init's own pages, are left out. *)
(*                                                                         *)
(* Of the programs this is assumed, and true of all in the repository:      *)
(* allocMemory is called for one page at a time, no call names an address   *)
(* of a stack, and none one at which another thread of the process waits.   *)
(***************************************************************************)
EXTENDS Integers, FiniteSets, Order

CONSTANTS
  Page, Device, NONE,  \* memory, device memory, and no page
  Process, Thread,
  Dir,                 \* page tables below the stacks that programs use
  BOTTOM, TOP,         \* va2pde(STACK_BOTTOM), va2pde(STACK_TOP)
  LAST,                \* last entry of a page table, 1023
  MAX_MESSAGE_COUNT

ASSUME PagesAssumption ==
  /\ NONE \notin Page \cup Device /\ Page \cap Device = {}
  /\ Thread \subseteq Nat /\ Thread # {} /\ IsFiniteSet(Thread)
  /\ BOTTOM \in Nat /\ TOP \in Nat /\ BOTTOM % 2 = 0 /\ TOP % 2 = 0 /\ BOTTOM < TOP
  /\ Dir \subseteq 0 .. BOTTOM - 1
  /\ LAST \in Nat \ {0} /\ MAX_MESSAGE_COUNT \in Nat \ {0}

(* Where a page is held: <<process, kind, table, entry>>.                   *)
Index == 0 .. LAST
Dirs  == 0 .. TOP - 1
Directory(p)   == <<p, "directory", 0, 0>>
Table(p, d)    == <<p, "table", d, 0>>
Entry(p, d, i) == <<p, "entry", d, i>>
Message(p, k)  == <<p, "message", 0, k>>
Place == {Directory(p) : p \in Process}
           \cup {Table(p, d) : p \in Process, d \in Dirs}
           \cup {Entry(p, d, i) : p \in Process, d \in Dirs, i \in Index}
           \cup {Message(p, k) : p \in Process, k \in 1 .. MAX_MESSAGE_COUNT}
Address == Dir \X Index

VARIABLES
  mem,    \* what each place holds, the free pages, and whether memory ran out
  stack,  \* [Process -> [Thread -> page table above its stack, 0 for none]]
  wait    \* [Process -> [Thread -> where it waits in RECEIVE]]

pvars == <<mem, stack, wait>>
Mem == [at : [Place -> Page \cup Device \cup {NONE}], free : SUBSET Page, halted : BOOLEAN]

PInit ==
  /\ mem = [at |-> [x \in Place |-> NONE], free |-> Page, halted |-> FALSE]
  /\ stack = [p \in Process |-> [t \in Thread |-> 0]]
  /\ wait = [p \in Process |-> [t \in Thread |-> NONE]]

(***************************************************************************)
(* What is done with pages, one after another in a call.                    *)
(***************************************************************************)
(* memory_alloc, for place x; it halts the system when there is no page.     *)
Fresh(m) == CHOOSE g \in m.free : TRUE
Take(m, x) ==
  IF m.free = {} THEN [m EXCEPT !.halted = TRUE]
  ELSE [m EXCEPT !.at = [@ EXCEPT ![x] = Fresh(m)], !.free = @ \ {Fresh(m)}]

(* memory_alloc, for no place at all.                                       *)
Waste(m) == IF m.free = {} THEN [m EXCEPT !.halted = TRUE]
            ELSE [m EXCEPT !.free = @ \ {Fresh(m)}]

Forget(m, X) == [m EXCEPT !.at = [x \in Place |-> IF x \in X THEN NONE ELSE @[x]]]

(* recyclePhysicalPage and FREE_PAGE, of all that X holds.                  *)
Recycle(m, X) == [Forget(m, X) EXCEPT !.free = @ \cup ({m.at[x] : x \in X} \ {NONE})]

Move(m, x, y) == [m EXCEPT !.at = [@ EXCEPT ![y] = m.at[x], ![x] = NONE]]

(* The second half of open_physical_page, for device memory.                *)
Map(m, x, g) == [m EXCEPT !.at = [@ EXCEPT ![x] = g]]

(* The first half of open_physical_page: the table.                         *)
Tabled(m, p, d) == IF m.at[Table(p, d)] = NONE THEN Take(m, Table(p, d)) ELSE m

(* Both tables of a stack, by the table above it, and what they map.        *)
(* Slip: recycleThreadStack leaves the lower table.                         *)
StackHigh(top) == {((top - 1) \div 2) * 2 + 1}
StackDirs(top) == LET high == ((top - 1) \div 2) * 2 + 1 IN {high - 1, high}
Under(p, D)    == {Table(p, d) : d \in D} \cup {Entry(p, d, i) : d \in D, i \in Index}
Stack(p, t)    == IF stack[p][t] = 0 THEN {} ELSE Under(p, StackDirs(stack[p][t]))

(* A call ends; one for which there is not enough memory never does.        *)
Ends(m) == ~m.halted /\ mem' = m

Live(p)    == mem.at[Directory(p)] # NONE
Threads(p) == {t \in Thread : stack[p][t] # 0}
Runs(p, t) == t \in Threads(p) /\ wait[p][t] = NONE
Waiting(p) == {t \in Thread : wait[p][t] # NONE}
Queued(p)  == {k \in 1 .. MAX_MESSAGE_COUNT : mem.at[Message(p, k)] # NONE}
At(p, a)   == Entry(p, a[1], a[2])

(* The assumption on programs.                                              *)
Own(p, a) == \A u \in Thread : wait[p][u] # a

(***************************************************************************)
(* Processes and threads.                                                   *)
(***************************************************************************)
(* allocThreadStack: the highest pair of tables that is free gets its upper *)
(* table and the topmost page.                                              *)
Free(m, p) == {d \in BOTTOM + 1 .. TOP - 1 : d % 2 = 1 /\ m.at[Table(p, d)] = NONE}
Highest(m, p) == CHOOSE d \in Free(m, p) : \A e \in Free(m, p) : e <= d
WithStack(m, p, d) == Take(Take(m, Table(p, d)), Entry(p, d, LAST))

(* createProcess, by another process or at boot.                            *)
CreateProcess(p) ==
  /\ ~Live(p)
  /\ LET m == Take(mem, Directory(p)) IN
     /\ Ends(WithStack(m, p, Highest(m, p)))
     /\ stack' = [stack EXCEPT ![p][Least(Thread)] = Highest(m, p) + 1]
  /\ UNCHANGED wait

CreateThread(p, t) ==
  /\ Runs(p, t) /\ Free(mem, p) # {} /\ Thread # Threads(p)
  /\ Ends(WithStack(mem, p, Highest(mem, p)))
  /\ stack' = [stack EXCEPT ![p][Least(Thread \ Threads(p))] = Highest(mem, p) + 1]
  /\ UNCHANGED wait

(* disposeProcess: the stacks of its threads, recycleProcessPDE, which      *)
(* spares device memory, and the queued messages.                           *)
Owns(p)    == {Directory(p)} \cup Under(p, Dirs)
Mapped(p)  == {x \in Owns(p) : mem.at[x] \notin Device}
Letters(p) == {Message(p, k) : k \in 1 .. MAX_MESSAGE_COUNT}

(* Slip: the messages are not drained.                                      *)
DisposeUndrained(p) ==
  /\ Ends(Forget(Recycle(mem, Mapped(p)), Owns(p)))
  /\ stack' = [stack EXCEPT ![p] = [t \in Thread |-> 0]]
  /\ wait' = [wait EXCEPT ![p] = [t \in Thread |-> NONE]]

Dispose(p) ==
  /\ Ends(Forget(Recycle(mem, Mapped(p) \cup Letters(p)), Owns(p)))
  /\ stack' = [stack EXCEPT ![p] = [t \in Thread |-> 0]]
  /\ wait' = [wait EXCEPT ![p] = [t \in Thread |-> NONE]]

(* The end of a process: EXIT, a fault outside its stack, or the overflow   *)
(* of it.                                                                   *)
Exit(p, t) == Runs(p, t) /\ Dispose(p)

(* DISPOSE_THREAD of one of the caller's threads, waiting or not.           *)
DisposeThread(p, t, u) ==
  /\ Runs(p, t) /\ u \in Threads(p)
  /\ IF Threads(p) = {u} THEN Dispose(p)
     ELSE /\ Ends(Recycle(mem, Stack(p, u)))
          /\ stack' = [stack EXCEPT ![p][u] = 0]
          /\ wait' = [wait EXCEPT ![p][u] = NONE]

(* pageFaultHandler, in the stack of the thread but not in its lowest page. *)
Expand(p, t, d, i) ==
  /\ Runs(p, t) /\ d \in stack[p][t] - 2 .. stack[p][t] - 1
  /\ ~(d = stack[p][t] - 2 /\ i = 0)
  /\ mem.at[Entry(p, d, i)] = NONE
  /\ Ends(Take(Tabled(mem, p, d), Entry(p, d, i)))
  /\ UNCHANGED <<stack, wait>>

(***************************************************************************)
(* Memory calls.                                                            *)
(***************************************************************************)
(* ALLOC_MEMORY of one page; the page goes back if the entry is taken.      *)
AllocMemory(p, t, a) ==
  /\ Runs(p, t) /\ Own(p, a) /\ mem.at[At(p, a)] = NONE
  /\ Ends(Take(Tabled(mem, p, a[1]), At(p, a)))
  /\ UNCHANGED <<stack, wait>>

OpenPhysicalMemory(p, t, a, g) ==
  /\ Runs(p, t) /\ Own(p, a) /\ mem.at[At(p, a)] = NONE
  /\ Ends(Map(Tabled(mem, p, a[1]), At(p, a), g))
  /\ UNCHANGED <<stack, wait>>

(***************************************************************************)
(* Messages.                                                                *)
(***************************************************************************)
Sends(p, t, a) == Runs(p, t) /\ mem.at[At(p, a)] \in Page

(* SEND to a process with a thread in RECEIVE: its first such thread gets   *)
(* the page, and the sender a fresh one.  If the address at which it waits  *)
(* has been mapped meanwhile, the page is lost.                             *)
SendDeliver(p, t, a, q) ==
  /\ Sends(p, t, a) /\ Waiting(q) # {}
  /\ LET u == Least(Waiting(q))
         b == wait[q][u]
         m == Tabled(mem, q, b[1])
         n == IF m.at[At(q, b)] = NONE THEN Move(m, At(p, a), At(q, b))
              ELSE Forget(m, {At(p, a)})
     IN  /\ Ends(Take(n, At(p, a)))
         /\ wait' = [wait EXCEPT ![q][u] = NONE]
  /\ UNCHANGED stack

(* Slip: the sender keeps its page.                                         *)
SendQueueKeep(p, t, a, q) ==
  /\ Sends(p, t, a) /\ Live(q) /\ Waiting(q) = {}
  /\ \E k \in (1 .. MAX_MESSAGE_COUNT) \ Queued(q) :
       Ends(Map(mem, Message(q, k), mem.at[At(p, a)]))
  /\ UNCHANGED <<stack, wait>>

(* SEND to another: the page is queued if there is room.                    *)
SendQueue(p, t, a, q) ==
  /\ Sends(p, t, a) /\ Live(q) /\ Waiting(q) = {}
  /\ \E k \in (1 .. MAX_MESSAGE_COUNT) \ Queued(q) :
       Ends(Take(Move(mem, At(p, a), Message(q, k)), At(p, a)))
  /\ UNCHANGED <<stack, wait>>

(* RECEIVE gives the page at its address back first.  Slip: it does not.    *)
RecycleNone(m, x)  == m
RecycleFirst(m, x) == Recycle(m, {x})

ReceiveMessage(p, t, a) ==
  /\ Runs(p, t) /\ Own(p, a) /\ mem.at[At(p, a)] \notin Device
  /\ LET m == RecycleFirst(mem, At(p, a)) IN
     \E k \in Queued(p) : Ends(Move(Tabled(m, p, a[1]), Message(p, k), At(p, a)))
  /\ UNCHANGED <<stack, wait>>

ReceiveSleep(p, t, a) ==
  /\ Runs(p, t) /\ Own(p, a) /\ mem.at[At(p, a)] \notin Device
  /\ Queued(p) = {}
  /\ Ends(RecycleFirst(mem, At(p, a)))
  /\ wait' = [wait EXCEPT ![p][t] = a]
  /\ UNCHANGED stack

(* sendInterrupt, from a handler, with a page of its own.                   *)
InterruptDeliver(q) ==
  /\ Waiting(q) # {}
  /\ LET u == Least(Waiting(q))
         b == wait[q][u]
         m == Tabled(mem, q, b[1])
     IN  /\ Ends(IF m.at[At(q, b)] = NONE THEN Take(m, At(q, b)) ELSE Waste(m))
         /\ wait' = [wait EXCEPT ![q][u] = NONE]
  /\ UNCHANGED stack

InterruptQueue(q) ==
  /\ Live(q) /\ Waiting(q) = {}
  /\ \E k \in (1 .. MAX_MESSAGE_COUNT) \ Queued(q) : Ends(Take(mem, Message(q, k)))
  /\ UNCHANGED <<stack, wait>>

Calls(p, t) ==
  \/ CreateThread(p, t) \/ Exit(p, t) \/ \E u \in Thread : DisposeThread(p, t, u)
  \/ \E d \in Dirs, i \in Index : Expand(p, t, d, i)
  \/ \E a \in Address : \/ AllocMemory(p, t, a)
                        \/ \E g \in Device : OpenPhysicalMemory(p, t, a, g)
                        \/ ReceiveMessage(p, t, a) \/ ReceiveSleep(p, t, a)
                        \/ \E q \in Process : SendDeliver(p, t, a, q) \/ SendQueue(p, t, a, q)

PNext == \/ \E p \in Process : CreateProcess(p) \/ InterruptDeliver(p) \/ InterruptQueue(p)
         \/ \E p \in Process, t \in Thread : Calls(p, t)
PSpec == PInit /\ [][PNext]_pvars

(***************************************************************************)
(* Properties.                                                              *)
(***************************************************************************)
PTypeOK ==
  /\ mem \in Mem
  /\ stack \in [Process -> [Thread -> 0 .. TOP]]
  /\ wait \in [Process -> [Thread -> Address \cup {NONE}]]

(* A page is held in one place only, and a free page in none: no process    *)
(* sees a page that another one, a message or the kernel uses.  And device   *)
(* memory, which nobody owns, is only ever mapped.                          *)
OneHolder(m) ==
  /\ \A x, y \in Place : m.at[x] = m.at[y] /\ m.at[x] \in Page => x = y
  /\ \A x \in Place : m.at[x] \notin m.free
  /\ \A x \in Place : m.at[x] \in Device => x[2] = "entry"

(* No page is lost: it is free or held somewhere.                           *)
NoneLost(m) == \A g \in Page : g \in m.free \/ \E x \in Place : m.at[x] = g

PagesOwned == OneHolder(mem)
PagesKept  == NoneLost(mem)

(* What is held hangs together: an entry needs its table, and a table, a    *)
(* message or a thread a process.  So a process that has gone holds         *)
(* nothing, and nothing is mapped where the processor would not find it.    *)
Reachable ==
  /\ \A p \in Process, d \in Dirs, i \in Index :
       mem.at[Entry(p, d, i)] # NONE => mem.at[Table(p, d)] # NONE
  /\ \A p \in Process : ~Live(p) =>
       /\ \A d \in Dirs : mem.at[Table(p, d)] = NONE
       /\ Queued(p) = {} /\ Threads(p) = {}

(* The tables of the stack area belong to threads, two of them to each, and *)
(* map no device memory.                                                    *)
StacksApart ==
  \A p \in Process :
    /\ \A t, u \in Threads(p) : stack[p][t] = stack[p][u] => t = u
    /\ \A t \in Threads(p) : /\ stack[p][t] > BOTTOM /\ stack[p][t] % 2 = 0
                             /\ mem.at[Table(p, stack[p][t] - 1)] # NONE
    /\ \A d \in BOTTOM .. TOP - 1 : mem.at[Table(p, d)] # NONE =>
         /\ \E t \in Threads(p) : d \in stack[p][t] - 2 .. stack[p][t] - 1
         /\ \A i \in Index : mem.at[Entry(p, d, i)] \notin Device

(* While a thread waits in RECEIVE, nothing is mapped at its address: the   *)
(* page of the message that wakes it is not lost.                           *)
WaitsVacant ==
  \A p \in Process : \A t \in Waiting(p) :
    /\ t \in Threads(p) /\ mem.at[At(p, wait[p][t])] = NONE
    /\ \A u \in Waiting(p) : wait[p][u] = wait[p][t] => u = t

PInv == PTypeOK /\ PagesOwned /\ PagesKept /\ Reachable /\ StacksApart /\ WaitsVacant
=============================================================================
