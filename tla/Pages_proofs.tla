----------------------------- MODULE Pages_proofs -----------------------------
(* Proofs about Pages: every page has one holder, for any number of pages,  *)
(* processes, threads and page tables.                                      *)
EXTENDS Pages, Order_proofs, TLAPS

Good(m) == m \in Mem /\ OneHolder(m) /\ NoneLost(m)

(* Each place is one of four kinds, and its name says which.                *)
LEMMA Names ==
  /\ \A p, q : Directory(p) = Directory(q) <=> p = q
  /\ \A p, q, d, e : Table(p, d) = Table(q, e) <=> p = q /\ d = e
  /\ \A p, q, d, e, i, j : Entry(p, d, i) = Entry(q, e, j) <=> p = q /\ d = e /\ i = j
  /\ \A p, q, k, l : Message(p, k) = Message(q, l) <=> p = q /\ k = l
  /\ \A p, q, d : Directory(p) # Table(q, d)
  /\ \A p, q, d, i : Directory(p) # Entry(q, d, i)
  /\ \A p, q, k : Directory(p) # Message(q, k)
  /\ \A p, q, d, e, i : Table(p, d) # Entry(q, e, i)
  /\ \A p, q, d, k : Table(p, d) # Message(q, k)
  /\ \A p, q, d, i, k : Entry(p, d, i) # Message(q, k)
  BY DEF Directory, Table, Entry, Message

LEMMA Kinds ==
  ASSUME NEW p \in Process
  PROVE  /\ Directory(p) \in Place
         /\ \A d \in Dirs : Table(p, d) \in Place
         /\ \A d \in Dirs, i \in Index : Entry(p, d, i) \in Place
         /\ \A k \in 1 .. MAX_MESSAGE_COUNT : Message(p, k) \in Place
  BY DEF Place

(* A free page is given to an empty place, when there is one.               *)
LEMMA TakeGood ==
  ASSUME NEW m, Good(m), NEW x \in Place, m.at[x] = NONE, ~Take(m, x).halted
  PROVE  /\ Good(Take(m, x)) /\ ~m.halted
         /\ \E g \in Page : Take(m, x).at = [m.at EXCEPT ![x] = g]
<1> DEFINE g == Fresh(m)
           n == Take(m, x)
<1>1. CASE m.free = {}
  BY <1>1 DEF Take, Good, Mem
<1>2. CASE m.free # {}
  <2>1. g \in m.free /\ g \in Page
    BY <1>2 DEF Fresh, Good, Mem
  <2>2. n = [m EXCEPT !.at = [m.at EXCEPT ![x] = g], !.free = m.free \ {g}]
    BY <1>2 DEF Take
  <2> HIDE DEF g, n
  <2>3. n \in Mem /\ n.at = [m.at EXCEPT ![x] = g] /\ n.free = m.free \ {g}
        /\ n.halted = m.halted
    <3>1. m \in Mem /\ [m.at EXCEPT ![x] = g] \in [Place -> Page \cup Device \cup {NONE}]
          /\ m.free \ {g} \in SUBSET Page
      BY <2>1 DEF Good, Mem
    <3> QED BY <2>2, <3>1 DEF Mem
  <2>4. OneHolder(n)
    BY <2>1, <2>3, PagesAssumption DEF Good, Mem, OneHolder
  <2>5. NoneLost(n)
    BY <2>1, <2>3, PagesAssumption DEF Good, Mem, NoneLost
  <2> QED BY <2>1, <2>3, <2>4, <2>5 DEF Good, n
<1> QED BY <1>1, <1>2

LEMMA TakeEnds ==
  ASSUME NEW m, NEW x, ~Take(m, x).halted
  PROVE  ~m.halted
  BY DEF Take

LEMMA MoveGood ==
  ASSUME NEW m, Good(m), NEW x \in Place, NEW y \in Place, x # y, m.at[y] = NONE,
         m.at[x] \notin Device
  PROVE  /\ Good(Move(m, x, y)) /\ Move(m, x, y).halted = m.halted
         /\ Move(m, x, y).at = [m.at EXCEPT ![y] = m.at[x], ![x] = NONE]
<1> DEFINE n == Move(m, x, y)
<1>1. n \in Mem /\ n.at = [m.at EXCEPT ![y] = m.at[x], ![x] = NONE]
      /\ n.free = m.free /\ n.halted = m.halted
  BY DEF Move, Good, Mem
<1> HIDE DEF n
<1>2. OneHolder(n)
  BY <1>1, PagesAssumption DEF Good, Mem, OneHolder
<1>3. NoneLost(n)
  BY <1>1, PagesAssumption DEF Good, Mem, NoneLost
<1> QED BY <1>1, <1>2, <1>3 DEF Good, n

LEMMA MapGood ==
  ASSUME NEW m, Good(m), NEW x \in Place, m.at[x] = NONE, NEW g \in Device,
         x[2] = "entry"
  PROVE  /\ Good(Map(m, x, g)) /\ Map(m, x, g).halted = m.halted
         /\ Map(m, x, g).at = [m.at EXCEPT ![x] = g]
<1> DEFINE n == Map(m, x, g)
<1>1. n \in Mem /\ n.at = [m.at EXCEPT ![x] = g]
      /\ n.free = m.free /\ n.halted = m.halted
  BY DEF Map, Good, Mem
<1> HIDE DEF n
<1>2. OneHolder(n)
  BY <1>1, PagesAssumption DEF Good, Mem, OneHolder
<1>3. NoneLost(n)
  BY <1>1, PagesAssumption DEF Good, Mem, NoneLost
<1> QED BY <1>1, <1>2, <1>3 DEF Good, n

(* Forgetting places loses nothing if they hold no memory.                  *)
LEMMA ForgetGood ==
  ASSUME NEW m, Good(m), NEW X \in SUBSET Place, \A x \in X : m.at[x] \notin Page
  PROVE  /\ Good(Forget(m, X)) /\ Forget(m, X).halted = m.halted
         /\ Forget(m, X).at = [x \in Place |-> IF x \in X THEN NONE ELSE m.at[x]]
<1> DEFINE n == Forget(m, X)
<1>1. n \in Mem /\ n.at = [x \in Place |-> IF x \in X THEN NONE ELSE m.at[x]]
      /\ n.free = m.free /\ n.halted = m.halted
  BY DEF Forget, Good, Mem
<1> HIDE DEF n
<1>2. OneHolder(n)
  BY <1>1, PagesAssumption DEF Good, Mem, OneHolder
<1>3. NoneLost(n)
  BY <1>1, PagesAssumption DEF Good, Mem, NoneLost
<1> QED BY <1>1, <1>2, <1>3 DEF Good, n

LEMMA RecycleGood ==
  ASSUME NEW m, Good(m), NEW X \in SUBSET Place, \A x \in X : m.at[x] \notin Device
  PROVE  /\ Good(Recycle(m, X)) /\ Recycle(m, X).halted = m.halted
         /\ Recycle(m, X).at = [x \in Place |-> IF x \in X THEN NONE ELSE m.at[x]]
<1> DEFINE n == Recycle(m, X)
           freed == {m.at[x] : x \in X} \ {NONE}
<1>1. freed \subseteq Page
  BY DEF Good, Mem
<1>2. n \in Mem /\ n.at = [x \in Place |-> IF x \in X THEN NONE ELSE m.at[x]]
      /\ n.free = m.free \cup freed /\ n.halted = m.halted
  BY <1>1 DEF Recycle, Forget, Good, Mem
<1> HIDE DEF n
<1>3. OneHolder(n)
  <2>1. \A x, y \in Place : n.at[x] = n.at[y] /\ n.at[x] \in Page => x = y
    BY <1>2, PagesAssumption DEF Good, Mem, OneHolder
  <2>2. ASSUME NEW x \in Place, n.at[x] \in n.free PROVE FALSE
    <3>1. n.at[x] \in Page /\ x \notin X /\ n.at[x] = m.at[x]
      BY <2>2, <1>2, PagesAssumption DEF Good, Mem
    <3>2. PICK y \in X : m.at[y] = m.at[x]
      BY <2>2, <3>1, <1>2 DEF Good, OneHolder
    <3> QED BY <3>1, <3>2 DEF Good, OneHolder
  <2>3. \A x \in Place : n.at[x] \in Device => x[2] = "entry"
    BY <1>2, PagesAssumption DEF Good, OneHolder
  <2> QED BY <2>1, <2>2, <2>3 DEF OneHolder
<1>4. NoneLost(n)
  <2> SUFFICES ASSUME NEW g \in Page, g \notin n.free PROVE \E x \in Place : n.at[x] = g
    BY DEF NoneLost
  <2>1. PICK x \in Place : m.at[x] = g
    BY <1>2 DEF Good, NoneLost
  <2>2. x \notin X
    BY <1>2, <2>1, PagesAssumption
  <2> QED BY <2>1, <2>2, <1>2
<1> QED BY <1>2, <1>3, <1>4 DEF Good, n

LEMMA TabledGood ==
  ASSUME NEW m, Good(m), NEW p \in Process, NEW d \in Dirs, ~Tabled(m, p, d).halted
  PROVE  /\ Good(Tabled(m, p, d)) /\ ~m.halted
         /\ Tabled(m, p, d).at[Table(p, d)] # NONE
         /\ m.at[Table(p, d)] # NONE => Tabled(m, p, d) = m
         /\ \A x \in Place : x # Table(p, d) => Tabled(m, p, d).at[x] = m.at[x]
<1>1. Table(p, d) \in Place
  BY Kinds
<1>2. CASE m.at[Table(p, d)] = NONE
  <2>1. Tabled(m, p, d) = Take(m, Table(p, d))
    BY <1>2 DEF Tabled
  <2>2. ~Take(m, Table(p, d)).halted
    BY <2>1
  <2>3. Good(Take(m, Table(p, d))) /\ ~m.halted
    BY <1>1, <1>2, <2>2, TakeGood
  <2>4. PICK g \in Page : Take(m, Table(p, d)).at = [m.at EXCEPT ![Table(p, d)] = g]
    BY <1>1, <1>2, <2>2, TakeGood
  <2>5. m.at \in [Place -> Page \cup Device \cup {NONE}]
    BY DEF Good, Mem
  <2> QED BY <1>1, <1>2, <2>1, <2>3, <2>4, <2>5, PagesAssumption
<1>3. CASE m.at[Table(p, d)] # NONE
  BY <1>3 DEF Tabled
<1> QED BY <1>2, <1>3

(***************************************************************************)
(* What hangs together, on any step that leaves the stacks alone.           *)
(***************************************************************************)
Structure == Reachable /\ StacksApart /\ WaitsVacant

LEMMA Addresses ==
  ASSUME NEW a \in Address, NEW p \in Process
  PROVE  /\ a[1] \in Dirs /\ a[1] < BOTTOM /\ a[2] \in Index
         /\ At(p, a) \in Place /\ At(p, a) = Entry(p, a[1], a[2])
         /\ \A b \in Address, q \in Process : At(p, a) = At(q, b) => p = q /\ a = b
<1>1. a[1] \in Dirs /\ a[1] < BOTTOM /\ a[2] \in Index
  <2>1. a[1] \in Dir /\ a[2] \in Index
    BY DEF Address
  <2>2. BOTTOM \in Nat /\ TOP \in Nat /\ BOTTOM < TOP /\ Dir \subseteq 0 .. BOTTOM - 1
    BY PagesAssumption
  <2>3. \A d \in Dir : d \in Dirs /\ d < BOTTOM
    BY <2>2 DEF Dirs
  <2> QED BY <2>1, <2>3
<1>2. At(p, a) \in Place /\ At(p, a) = Entry(p, a[1], a[2])
  BY <1>1, Kinds DEF At
<1>3. ASSUME NEW b \in Address, NEW q \in Process, At(p, a) = At(q, b) PROVE p = q /\ a = b
  BY <1>3, Names DEF At, Address
<1> QED BY <1>1, <1>2, <1>3

LEMMA StructureKept ==
  ASSUME PTypeOK, PTypeOK', Structure, stack' = stack,
         \A p \in Process : mem'.at[Directory(p)] = mem.at[Directory(p)],
         \A p \in Process, d \in Dirs :
           \/ mem'.at[Table(p, d)] = mem.at[Table(p, d)]
           \/ /\ mem.at[Table(p, d)] = NONE /\ mem'.at[Table(p, d)] # NONE /\ Live(p)
              /\ \/ d < BOTTOM
                 \/ \E t \in Threads(p) : d \in stack[p][t] - 2 .. stack[p][t] - 1,
         \A p \in Process, d \in Dirs, i \in Index :
           \/ mem'.at[Entry(p, d, i)] = mem.at[Entry(p, d, i)]
           \/ mem'.at[Entry(p, d, i)] = NONE
           \/ /\ mem'.at[Table(p, d)] # NONE
              /\ d < BOTTOM \/ mem'.at[Entry(p, d, i)] \in Page,
         \A p \in Process, k \in 1 .. MAX_MESSAGE_COUNT :
           mem'.at[Message(p, k)] # NONE => Live(p),
         WaitsVacant'
  PROVE  Structure'
<1> USE DEF Structure
<1>1. \A p \in Process : Threads(p)' = Threads(p) /\ (Live(p)' <=> Live(p))
  BY DEF Threads, Live
<1>2. Reachable'
  <2>1. ASSUME NEW p \in Process, NEW d \in Dirs, NEW i \in Index,
               mem'.at[Entry(p, d, i)] # NONE
        PROVE  mem'.at[Table(p, d)] # NONE
    BY <2>1 DEF Reachable
  <2>2. ASSUME NEW p \in Process, ~Live(p)'
        PROVE  /\ \A d \in Dirs : mem'.at[Table(p, d)] = NONE
               /\ Queued(p)' = {} /\ Threads(p)' = {}
    BY <2>2, <1>1 DEF Reachable, Queued
  <2> QED BY <2>1, <2>2 DEF Reachable
<1>3. StacksApart'
  <2> SUFFICES ASSUME NEW p \in Process
               PROVE  /\ \A t, u \in Threads(p) : stack[p][t] = stack[p][u] => t = u
                      /\ \A t \in Threads(p) : /\ stack[p][t] > BOTTOM /\ stack[p][t] % 2 = 0
                                               /\ mem'.at[Table(p, stack[p][t] - 1)] # NONE
                      /\ \A d \in BOTTOM .. TOP - 1 : mem'.at[Table(p, d)] # NONE =>
                           /\ \E t \in Threads(p) : d \in stack[p][t] - 2 .. stack[p][t] - 1
                           /\ \A i \in Index : mem'.at[Entry(p, d, i)] \notin Device
    BY <1>1 DEF StacksApart
  <2>1. \A t, u \in Threads(p) : stack[p][t] = stack[p][u] => t = u
    BY DEF StacksApart
  <2>2. ASSUME NEW t \in Threads(p)
        PROVE  /\ stack[p][t] > BOTTOM /\ stack[p][t] % 2 = 0
               /\ mem'.at[Table(p, stack[p][t] - 1)] # NONE
    <3>1. stack[p][t] > BOTTOM /\ stack[p][t] % 2 = 0
          /\ mem.at[Table(p, stack[p][t] - 1)] # NONE
      BY DEF StacksApart
    <3>2. stack[p][t] - 1 \in Dirs
      BY <3>1, PagesAssumption DEF PTypeOK, Threads, Dirs
    <3> QED BY <3>1, <3>2
  <2>3. ASSUME NEW d \in BOTTOM .. TOP - 1, mem'.at[Table(p, d)] # NONE
        PROVE  /\ \E t \in Threads(p) : d \in stack[p][t] - 2 .. stack[p][t] - 1
               /\ \A i \in Index : mem'.at[Entry(p, d, i)] \notin Device
    <3>1. d \in Dirs /\ ~(d < BOTTOM)
      BY PagesAssumption DEF Dirs
    <3>2. \E t \in Threads(p) : d \in stack[p][t] - 2 .. stack[p][t] - 1
      BY <2>3, <3>1 DEF StacksApart
    <3>3. ASSUME NEW i \in Index PROVE mem'.at[Entry(p, d, i)] \notin Device
      <4>1. mem.at[Entry(p, d, i)] \notin Device
        BY <3>1, PagesAssumption DEF StacksApart, Reachable
      <4> QED BY <3>1, <4>1, PagesAssumption
    <3> QED BY <3>2, <3>3
  <2> QED BY <2>1, <2>2, <2>3
<1> QED BY <1>2, <1>3

(***************************************************************************)
(* One lemma for each group of actions.                                     *)
(***************************************************************************)
LEMMA Parts == PInv <=> PTypeOK /\ Good(mem) /\ Structure
  BY DEF PInv, PTypeOK, PagesOwned, PagesKept, Good, Structure

LEMMA PInitInv == PInit => PInv
<1> SUFFICES ASSUME PInit PROVE PInv
  OBVIOUS
<1>1. \A x \in Place : mem.at[x] = NONE
  BY DEF PInit
<1>2. PTypeOK
  BY PagesAssumption DEF PInit, PTypeOK, Mem
<1>3. PagesOwned /\ PagesKept
  BY <1>1, PagesAssumption DEF PInit, PagesOwned, PagesKept, OneHolder, NoneLost
<1>4. \A p \in Process : Threads(p) = {} /\ Waiting(p) = {} /\ Queued(p) = {}
  BY <1>1, Kinds DEF PInit, Threads, Waiting, Queued
<1>5. \A d \in BOTTOM .. TOP - 1 : d \in Dirs
  BY PagesAssumption DEF Dirs
<1>6. Reachable /\ StacksApart /\ WaitsVacant
  BY <1>1, <1>4, <1>5, Kinds DEF Reachable, StacksApart, WaitsVacant
<1> QED BY <1>2, <1>3, <1>6 DEF PInv

LEMMA Runners ==
  ASSUME PInv, NEW p \in Process, NEW t \in Thread, Runs(p, t)
  PROVE  Live(p) /\ mem.at[Directory(p)] # NONE /\ t \in Threads(p) /\ t \notin Waiting(p)
  BY DEF PInv, Reachable, Runs, Waiting, Live

(* A step that leaves the stacks alone changes a place as one of these.     *)
Fits(x) ==
  \/ mem'.at[x] = mem.at[x]
  \/ \E p \in Process, d \in Dirs :
       /\ x = Table(p, d) /\ mem.at[x] = NONE /\ mem'.at[x] # NONE /\ Live(p)
       /\ d < BOTTOM \/ \E t \in Threads(p) : d \in stack[p][t] - 2 .. stack[p][t] - 1
  \/ \E p \in Process, d \in Dirs, i \in Index :
       /\ x = Entry(p, d, i)
       /\ \/ mem'.at[x] = NONE
          \/ /\ mem'.at[Table(p, d)] # NONE
             /\ d < BOTTOM \/ mem'.at[x] \in Page
  \/ \E p \in Process, k \in 1 .. MAX_MESSAGE_COUNT :
       x = Message(p, k) /\ (Live(p) \/ mem'.at[x] = NONE)

LEMMA FittingInv ==
  ASSUME PInv, Good(mem'), stack' = stack,
         wait' \in [Process -> [Thread -> Address \cup {NONE}]],
         \A x \in Place : Fits(x), WaitsVacant'
  PROVE  PInv'
<1>1. PTypeOK'
  BY DEF Good, PInv, PTypeOK
<1>3. \A p \in Process : mem'.at[Directory(p)] = mem.at[Directory(p)]
  BY Kinds, Names DEF Fits
<1>4. ASSUME NEW p \in Process, NEW d \in Dirs
      PROVE  \/ mem'.at[Table(p, d)] = mem.at[Table(p, d)]
             \/ /\ mem.at[Table(p, d)] = NONE /\ mem'.at[Table(p, d)] # NONE /\ Live(p)
                /\ \/ d < BOTTOM
                   \/ \E t \in Threads(p) : d \in stack[p][t] - 2 .. stack[p][t] - 1
  BY Kinds, Names DEF Fits
<1>5. ASSUME NEW p \in Process, NEW d \in Dirs, NEW i \in Index
      PROVE  \/ mem'.at[Entry(p, d, i)] = mem.at[Entry(p, d, i)]
             \/ mem'.at[Entry(p, d, i)] = NONE
             \/ /\ mem'.at[Table(p, d)] # NONE
                /\ d < BOTTOM \/ mem'.at[Entry(p, d, i)] \in Page
  BY Kinds, Names DEF Fits
<1>6. ASSUME NEW p \in Process, NEW k \in 1 .. MAX_MESSAGE_COUNT, mem'.at[Message(p, k)] # NONE
      PROVE  Live(p)
  <2>1. CASE mem'.at[Message(p, k)] = mem.at[Message(p, k)]
    BY <2>1, <1>6 DEF PInv, Reachable, Queued
  <2>2. CASE mem'.at[Message(p, k)] # mem.at[Message(p, k)]
    BY <2>2, <1>6, Kinds, Names DEF Fits
  <2> QED BY <2>1, <2>2
<1>7. Structure'
  BY <1>1, <1>3, <1>4, <1>5, <1>6, StructureKept, Parts DEF PInv
<1> QED BY <1>1, <1>7 DEF PInv, Good, PagesOwned, PagesKept, Structure

(* Who still waits has waited before, and for nothing that was mapped.      *)
StillVacant(q, u) == wait'[q][u] = wait[q][u] /\ mem'.at[At(q, wait[q][u])] = NONE

LEMMA StillVacantWaits ==
  ASSUME PInv, stack' = stack, \A q \in Process : \A u \in Waiting(q)' : StillVacant(q, u)
  PROVE  WaitsVacant'
<1> SUFFICES ASSUME NEW q \in Process, NEW t \in Waiting(q)'
             PROVE  /\ t \in Threads(q)' /\ mem'.at[At(q, wait'[q][t])] = NONE
                    /\ \A u \in Waiting(q)' : wait'[q][u] = wait'[q][t] => u = t
  BY DEF WaitsVacant, At
<1>1. \A u \in Waiting(q)' : u \in Waiting(q) /\ wait'[q][u] = wait[q][u]
  BY DEF Waiting, StillVacant
<1>2. mem'.at[At(q, wait'[q][t])] = NONE
  BY DEF StillVacant
<1>3. Threads(q)' = Threads(q)
  BY DEF Threads
<1> QED BY <1>1, <1>2, <1>3 DEF PInv, WaitsVacant

LEMMA StepInv ==
  ASSUME PInv, Good(mem'), stack' = stack,
         wait' \in [Process -> [Thread -> Address \cup {NONE}]],
         \A x \in Place : Fits(x),
         \A q \in Process : \A u \in Waiting(q)' : StillVacant(q, u)
  PROVE  PInv'
  BY StillVacantWaits, FittingInv

(* The state of waiting threads.                                            *)
LEMMA Sleepers ==
  ASSUME PInv, NEW q \in Process, NEW u \in Waiting(q)
  PROVE  /\ u \in Thread /\ wait[q][u] \in Address
         /\ At(q, wait[q][u]) \in Place /\ mem.at[At(q, wait[q][u])] = NONE
         /\ u \in Threads(q) /\ Live(q)
  BY Addresses DEF PInv, PTypeOK, Waiting, WaitsVacant, Reachable

(* The table of an address is made if need be: a step on the way.           *)
LEMMA TabledAddress ==
  ASSUME PInv, NEW p \in Process, NEW a \in Address, NEW m, Good(m),
         ~Tabled(m, p, a[1]).halted
  PROVE  LET n == Tabled(m, p, a[1]) IN
         /\ Good(n) /\ ~m.halted /\ n.at[Table(p, a[1])] # NONE
         /\ m.at[Table(p, a[1])] # NONE => n = m
         /\ \A x \in Place : x # Table(p, a[1]) => n.at[x] = m.at[x]
  BY Addresses, TabledGood

LEMMA AllocMemoryInv ==
  ASSUME PInv, NEW p \in Process, NEW t \in Thread, NEW a \in Address, AllocMemory(p, t, a)
  PROVE  PInv'
<1> DEFINE m == Tabled(mem, p, a[1])
           e == At(p, a)
           f == Table(p, a[1])
<1>1. a[1] \in Dirs /\ a[1] < BOTTOM /\ a[2] \in Index /\ e = Entry(p, a[1], a[2])
      /\ e \in Place /\ f \in Place /\ e # f
  BY Addresses, Kinds, Names
<1>2. mem' = Take(m, e) /\ ~Take(m, e).halted /\ UNCHANGED <<stack, wait>>
      /\ mem.at[e] = NONE /\ Runs(p, t) /\ Own(p, a)
  BY DEF AllocMemory, Ends
<1>3. ~m.halted
  BY <1>2 DEF Take
<1>4. /\ Good(m) /\ m.at[f] # NONE /\ (mem.at[f] # NONE => m = mem)
      /\ \A x \in Place : x # f => m.at[x] = mem.at[x]
  BY <1>3, TabledAddress, Parts
<1> HIDE DEF m
<1>5. Good(mem') /\ \E g \in Page : mem'.at = [m.at EXCEPT ![e] = g]
  <2>1. Good(m) /\ e \in Place /\ m.at[e] = NONE
    BY <1>1, <1>2, <1>4
  <2> HIDE DEF e, f
  <2> QED BY <1>2, <2>1, TakeGood
<1>6. mem'.at[e] \in Page /\ \A x \in Place : x # e => mem'.at[x] = m.at[x]
  BY <1>1, <1>5, <1>4 DEF Good, Mem
<1>7. ASSUME NEW x \in Place PROVE Fits(x)
  <2>1. CASE x = e
    BY <2>1, <1>1, <1>4, <1>6 DEF Fits
  <2>2. CASE x = f /\ m # mem
    BY <2>2, <1>1, <1>2, <1>4, <1>6, Runners DEF Fits
  <2>3. CASE x # e /\ (x # f \/ m = mem)
    BY <2>3, <1>4, <1>6 DEF Fits
  <2> QED BY <2>1, <2>2, <2>3
<1>8. ASSUME NEW q \in Process, NEW u \in Waiting(q)' PROVE StillVacant(q, u)
  <2>1. u \in Waiting(q)
    BY <1>2 DEF Waiting
  <2>2. At(q, wait[q][u]) # e
    BY <1>2, <2>1, Sleepers, Addresses DEF Own
  <2>3. At(q, wait[q][u]) # f
    BY Names DEF At
  <2> QED BY <1>2, <1>4, <1>6, <2>1, <2>2, <2>3, Sleepers DEF StillVacant
<1>9. wait' \in [Process -> [Thread -> Address \cup {NONE}]]
  BY <1>2 DEF PInv, PTypeOK
<1> HIDE DEF e, f
<1> QED BY <1>2, <1>5, <1>7, <1>8, <1>9, StepInv

LEMMA OpenPhysicalMemoryInv ==
  ASSUME PInv, NEW p \in Process, NEW t \in Thread, NEW a \in Address, NEW g \in Device,
         OpenPhysicalMemory(p, t, a, g)
  PROVE  PInv'
<1> DEFINE m == Tabled(mem, p, a[1])
           e == At(p, a)
           f == Table(p, a[1])
<1>1. a[1] \in Dirs /\ a[1] < BOTTOM /\ a[2] \in Index /\ e = Entry(p, a[1], a[2])
      /\ e \in Place /\ f \in Place /\ e # f
  BY Addresses, Kinds, Names
<1>2. mem' = Map(m, e, g) /\ ~Map(m, e, g).halted /\ UNCHANGED <<stack, wait>>
      /\ mem.at[e] = NONE /\ Runs(p, t) /\ Own(p, a)
  BY DEF OpenPhysicalMemory, Ends
<1>3. ~m.halted
  BY <1>2 DEF Map
<1>4. /\ Good(m) /\ m.at[f] # NONE /\ (mem.at[f] # NONE => m = mem)
      /\ \A x \in Place : x # f => m.at[x] = mem.at[x]
  BY <1>3, TabledAddress, Parts
<1> HIDE DEF m
<1>5. Good(mem') /\ mem'.at = [m.at EXCEPT ![e] = g]
  BY <1>1, <1>2, <1>4, MapGood DEF Entry
<1>6. \A x \in Place : x # e => mem'.at[x] = m.at[x]
  BY <1>1, <1>5, <1>4 DEF Good, Mem
<1>7. ASSUME NEW x \in Place PROVE Fits(x)
  <2>1. CASE x = e
    BY <2>1, <1>1, <1>4, <1>6 DEF Fits
  <2>2. CASE x = f /\ m # mem
    BY <2>2, <1>1, <1>2, <1>4, <1>6, Runners DEF Fits
  <2>3. CASE x # e /\ (x # f \/ m = mem)
    BY <2>3, <1>4, <1>6 DEF Fits
  <2> QED BY <2>1, <2>2, <2>3
<1>8. ASSUME NEW q \in Process, NEW u \in Waiting(q)' PROVE StillVacant(q, u)
  <2>1. u \in Waiting(q)
    BY <1>2 DEF Waiting
  <2>2. At(q, wait[q][u]) # e
    BY <1>2, <2>1, Sleepers, Addresses DEF Own
  <2>3. At(q, wait[q][u]) # f
    BY Names DEF At
  <2> QED BY <1>2, <1>4, <1>6, <2>1, <2>2, <2>3, Sleepers DEF StillVacant
<1>9. wait' \in [Process -> [Thread -> Address \cup {NONE}]]
  BY <1>2 DEF PInv, PTypeOK
<1> HIDE DEF e, f
<1> QED BY <1>2, <1>5, <1>7, <1>8, <1>9, StepInv

(* An expanded stack lies above all addresses.                              *)
LEMMA ExpandInv ==
  ASSUME PInv, NEW p \in Process, NEW t \in Thread, NEW d \in Dirs, NEW i \in Index,
         Expand(p, t, d, i)
  PROVE  PInv'
<1> DEFINE m == Tabled(mem, p, d)
           e == Entry(p, d, i)
           f == Table(p, d)
<1>1. e \in Place /\ f \in Place /\ e # f
  BY Kinds, Names
<1>2. mem' = Take(m, e) /\ ~Take(m, e).halted /\ UNCHANGED <<stack, wait>>
      /\ mem.at[e] = NONE /\ Runs(p, t) /\ d \in stack[p][t] - 2 .. stack[p][t] - 1
  BY DEF Expand, Ends
<1>3. ~m.halted
  BY <1>2 DEF Take
<1>4. /\ Good(m) /\ m.at[f] # NONE /\ (mem.at[f] # NONE => m = mem)
      /\ \A x \in Place : x # f => m.at[x] = mem.at[x]
  BY <1>3, TabledGood, Parts
<1> HIDE DEF m
<1>5. Good(mem') /\ \E g \in Page : mem'.at = [m.at EXCEPT ![e] = g]
  <2>1. Good(m) /\ e \in Place /\ m.at[e] = NONE
    BY <1>1, <1>2, <1>4
  <2> HIDE DEF e, f
  <2> QED BY <1>2, <2>1, TakeGood
<1>6. mem'.at[e] \in Page /\ \A x \in Place : x # e => mem'.at[x] = m.at[x]
  BY <1>1, <1>5, <1>4 DEF Good, Mem
<1>7. ASSUME NEW x \in Place PROVE Fits(x)
  <2>1. CASE x = e
    BY <2>1, <1>1, <1>4, <1>6 DEF Fits
  <2>2. CASE x = f /\ m # mem
    BY <2>2, <1>1, <1>2, <1>4, <1>6, Runners DEF Fits
  <2>3. CASE x # e /\ (x # f \/ m = mem)
    BY <2>3, <1>4, <1>6 DEF Fits
  <2> QED BY <2>1, <2>2, <2>3
<1>8. ASSUME NEW q \in Process, NEW u \in Waiting(q)' PROVE StillVacant(q, u)
  <2>1. u \in Waiting(q)
    BY <1>2 DEF Waiting
  <2>2. stack[p][t] > BOTTOM /\ stack[p][t] % 2 = 0 /\ stack[p][t] \in 0 .. TOP
    BY <1>2, Runners DEF PInv, PTypeOK, StacksApart
  <2>3. d >= BOTTOM
    BY <1>2, <2>2, PagesAssumption
  <2>4. At(q, wait[q][u]) # e
    <3>1. wait[q][u] \in Address
      BY <2>1, Sleepers
    <3>2. wait[q][u][1] < BOTTOM /\ wait[q][u][1] \in Int
      BY <3>1, Addresses, PagesAssumption DEF Dirs
    <3>3. wait[q][u][1] # d
      BY <2>3, <3>2, PagesAssumption DEF Dirs
    <3> QED BY <3>3, Names DEF At
  <2>5. At(q, wait[q][u]) # f
    BY Names DEF At
  <2> QED BY <1>2, <1>4, <1>6, <2>1, <2>4, <2>5, Sleepers DEF StillVacant
<1>9. wait' \in [Process -> [Thread -> Address \cup {NONE}]]
  BY <1>2 DEF PInv, PTypeOK
<1> HIDE DEF e, f
<1> QED BY <1>2, <1>5, <1>7, <1>8, <1>9, StepInv

LEMMA InterruptQueueInv ==
  ASSUME PInv, NEW q \in Process, InterruptQueue(q)
  PROVE  PInv'
<1>1. PICK k \in (1 .. MAX_MESSAGE_COUNT) \ Queued(q) :
        mem' = Take(mem, Message(q, k)) /\ ~Take(mem, Message(q, k)).halted
  BY DEF InterruptQueue, Ends
<1> DEFINE e == Message(q, k)
<1>2. e \in Place /\ mem.at[e] = NONE /\ UNCHANGED <<stack, wait>> /\ Live(q)
  BY Kinds DEF InterruptQueue, Queued
<1>3. Good(mem') /\ \E g \in Page : mem'.at = [mem.at EXCEPT ![e] = g]
  BY <1>1, <1>2, TakeGood, Parts
<1>4. \A x \in Place : x # e => mem'.at[x] = mem.at[x]
  BY <1>2, <1>3
<1>5. ASSUME NEW x \in Place PROVE Fits(x)
  BY <1>2, <1>4 DEF Fits
<1>6. ASSUME NEW r \in Process, NEW u \in Waiting(r)' PROVE StillVacant(r, u)
  <2>1. u \in Waiting(r)
    BY <1>2 DEF Waiting
  <2>2. At(r, wait[r][u]) # e
    BY Names DEF At
  <2> QED BY <1>2, <1>4, <2>1, <2>2, Sleepers DEF StillVacant
<1>7. wait' \in [Process -> [Thread -> Address \cup {NONE}]]
  BY <1>2 DEF PInv, PTypeOK
<1> HIDE DEF e
<1> QED BY <1>2, <1>3, <1>5, <1>6, <1>7, StepInv

(* The page changes places with a fresh one: the sender's address keeps a   *)
(* page, and its table.                                                     *)
LEMMA SendQueueInv ==
  ASSUME PInv, NEW p \in Process, NEW t \in Thread, NEW a \in Address, NEW q \in Process,
         SendQueue(p, t, a, q)
  PROVE  PInv'
<1> DEFINE e == At(p, a)
<1>1. PICK k \in (1 .. MAX_MESSAGE_COUNT) \ Queued(q) :
        /\ mem' = Take(Move(mem, e, Message(q, k)), e)
        /\ ~Take(Move(mem, e, Message(q, k)), e).halted
  BY DEF SendQueue, Ends
<1> DEFINE f == Message(q, k)
           m == Move(mem, e, f)
<1>2. a[1] \in Dirs /\ a[1] < BOTTOM /\ a[2] \in Index /\ e = Entry(p, a[1], a[2])
      /\ e \in Place /\ f \in Place /\ e # f /\ mem.at[f] = NONE
  BY Addresses, Kinds, Names DEF Queued
<1>3. UNCHANGED <<stack, wait>> /\ Live(q) /\ mem.at[e] \in Page
  BY DEF SendQueue, Sends
<1>4. mem.at \in [Place -> Page \cup Device \cup {NONE}]
  BY DEF PInv, PTypeOK, Mem
<1>5. Good(m) /\ m.at = [mem.at EXCEPT ![f] = mem.at[e], ![e] = NONE]
  BY <1>2, <1>3, MoveGood, Parts, PagesAssumption
<1>6. m.at[e] = NONE
  BY <1>2, <1>4, <1>5
<1> HIDE DEF m
<1>7. Good(mem') /\ \E g \in Page : mem'.at = [m.at EXCEPT ![e] = g]
  BY <1>1, <1>2, <1>5, <1>6, TakeGood DEF m
<1>8. mem'.at[e] \in Page /\ \A x \in Place : x # e /\ x # f => mem'.at[x] = mem.at[x]
  BY <1>2, <1>4, <1>5, <1>7 DEF Good, Mem
<1>9. mem'.at[Table(p, a[1])] # NONE
  <2>1. mem.at[Table(p, a[1])] # NONE
    BY <1>2, <1>3, PagesAssumption DEF PInv, Reachable
  <2>2. Table(p, a[1]) \in Place /\ Table(p, a[1]) # e /\ Table(p, a[1]) # f
    BY <1>2, Kinds, Names
  <2> QED BY <1>8, <2>1, <2>2
<1>10. ASSUME NEW x \in Place PROVE Fits(x)
  <2>1. CASE x = e
    BY <2>1, <1>2, <1>9 DEF Fits
  <2>2. CASE x = f
    BY <2>2, <1>2, <1>3 DEF Fits
  <2>3. CASE x # e /\ x # f
    BY <2>3, <1>8 DEF Fits
  <2> QED BY <2>1, <2>2, <2>3
<1>11. ASSUME NEW r \in Process, NEW u \in Waiting(r)' PROVE StillVacant(r, u)
  <2>1. u \in Waiting(r)
    BY <1>3 DEF Waiting
  <2>2. At(r, wait[r][u]) # e
    BY <1>3, <2>1, Sleepers, PagesAssumption
  <2>3. At(r, wait[r][u]) # f
    BY Names DEF At
  <2> QED BY <1>3, <1>8, <2>1, <2>2, <2>3, Sleepers DEF StillVacant
<1>12. wait' \in [Process -> [Thread -> Address \cup {NONE}]]
  BY <1>3 DEF PInv, PTypeOK
<1> HIDE DEF e, f
<1> QED BY <1>3, <1>7, <1>10, <1>11, <1>12, StepInv

(* RECEIVE: first the page at its address goes back.                        *)
LEMMA RecycledAddress ==
  ASSUME PInv, NEW p \in Process, NEW a \in Address, mem.at[At(p, a)] \notin Device
  PROVE  LET m == RecycleFirst(mem, At(p, a)) IN
         /\ Good(m) /\ m.halted = mem.halted /\ m.at[At(p, a)] = NONE
         /\ \A x \in Place : x # At(p, a) => m.at[x] = mem.at[x]
<1> DEFINE e == At(p, a)
           m == RecycleFirst(mem, e)
<1>1. e \in Place /\ {e} \in SUBSET Place /\ \A x \in {e} : mem.at[x] \notin Device
  BY Addresses
<1>2. m = Recycle(mem, {e})
  BY DEF RecycleFirst
<1> HIDE DEF e, m
<1>3. Good(m) /\ m.halted = mem.halted
      /\ m.at = [x \in Place |-> IF x \in {e} THEN NONE ELSE mem.at[x]]
  BY <1>1, <1>2, RecycleGood, Parts
<1>4. m.at[e] = NONE /\ \A x \in Place : x # e => m.at[x] = mem.at[x]
  BY <1>1, <1>3
<1> QED BY <1>3, <1>4 DEF m, e

LEMMA ReceiveMessageInv ==
  ASSUME PInv, NEW p \in Process, NEW t \in Thread, NEW a \in Address, ReceiveMessage(p, t, a)
  PROVE  PInv'
<1> DEFINE e == At(p, a)
           f == Table(p, a[1])
           m == RecycleFirst(mem, e)
           n == Tabled(m, p, a[1])
<1>1. PICK k \in Queued(p) : mem' = Move(n, Message(p, k), e) /\ ~Move(n, Message(p, k), e).halted
  BY DEF ReceiveMessage, Ends
<1> DEFINE l == Message(p, k)
<1>2. a[1] \in Dirs /\ a[1] < BOTTOM /\ a[2] \in Index /\ e = Entry(p, a[1], a[2])
      /\ e \in Place /\ f \in Place /\ l \in Place /\ e # f /\ l # e /\ l # f
      /\ mem.at[l] # NONE /\ k \in 1 .. MAX_MESSAGE_COUNT
  BY Addresses, Kinds, Names DEF Queued
<1>3. UNCHANGED <<stack, wait>> /\ Runs(p, t) /\ Own(p, a) /\ mem.at[e] \notin Device
  BY DEF ReceiveMessage
<1>4. ~n.halted
  BY <1>1 DEF Move
<1>5. Good(m) /\ m.at[e] = NONE /\ \A x \in Place : x # e => m.at[x] = mem.at[x]
  BY <1>3, RecycledAddress
<1> HIDE DEF m
<1>6. /\ Good(n) /\ n.at[f] # NONE /\ (m.at[f] # NONE => n = m)
      /\ \A x \in Place : x # f => n.at[x] = m.at[x]
  BY <1>4, <1>5, TabledAddress
<1> HIDE DEF n
<1>7. Good(mem') /\ mem'.at = [n.at EXCEPT ![e] = n.at[l], ![l] = NONE]
  <2>1. n.at[l] \notin Device
    BY <1>2, <1>6 DEF Good, OneHolder, Message
  <2>2. n.at[e] = NONE
    BY <1>2, <1>5, <1>6
  <2> QED BY <1>1, <1>2, <1>6, <2>1, <2>2, MoveGood
<1>8. mem'.at[l] = NONE /\ \A x \in Place : x # e /\ x # l => mem'.at[x] = n.at[x]
  BY <1>2, <1>6, <1>7 DEF Good, Mem
<1>9. ASSUME NEW x \in Place PROVE Fits(x)
  <2>1. CASE x = e
    BY <2>1, <1>2, <1>6, <1>8 DEF Fits
  <2>2. CASE x = l
    BY <2>2, <1>2, <1>8 DEF Fits
  <2>3. CASE x = f /\ m.at[f] = NONE
    <3>1. mem.at[f] = NONE /\ mem'.at[f] # NONE
      BY <2>3, <1>2, <1>5, <1>6, <1>8
    <3> QED BY <2>3, <3>1, <1>2, <1>3, Runners DEF Fits
  <2>4. CASE x # e /\ x # l /\ (x # f \/ n = m)
    BY <2>4, <1>5, <1>6, <1>8 DEF Fits
  <2> QED BY <2>1, <2>2, <2>3, <2>4, <1>6
<1>10. ASSUME NEW q \in Process, NEW u \in Waiting(q)' PROVE StillVacant(q, u)
  <2>1. u \in Waiting(q)
    BY <1>3 DEF Waiting
  <2>2. At(q, wait[q][u]) # e
    BY <1>3, <2>1, Sleepers, Addresses DEF Own
  <2>3. At(q, wait[q][u]) # f /\ At(q, wait[q][u]) # l
    BY Names DEF At
  <2> QED BY <1>3, <1>5, <1>6, <1>8, <2>1, <2>2, <2>3, Sleepers DEF StillVacant
<1>11. wait' \in [Process -> [Thread -> Address \cup {NONE}]]
  BY <1>3 DEF PInv, PTypeOK
<1> HIDE DEF e, f, l
<1> QED BY <1>3, <1>7, <1>9, <1>10, <1>11, StepInv

LEMMA ReceiveSleepInv ==
  ASSUME PInv, NEW p \in Process, NEW t \in Thread, NEW a \in Address, ReceiveSleep(p, t, a)
  PROVE  PInv'
<1> DEFINE e == At(p, a)
<1>1. a[1] \in Dirs /\ a[2] \in Index /\ e = Entry(p, a[1], a[2]) /\ e \in Place
  BY Addresses
<1>2. /\ mem' = RecycleFirst(mem, e) /\ stack' = stack /\ wait' = [wait EXCEPT ![p][t] = a]
      /\ mem.at[e] \notin Device /\ Runs(p, t) /\ Own(p, a)
  BY DEF ReceiveSleep, Ends
<1>3. Good(mem') /\ mem'.at[e] = NONE /\ \A x \in Place : x # e => mem'.at[x] = mem.at[x]
  BY <1>2, RecycledAddress
<1>4. \A x \in Place : Fits(x)
  BY <1>1, <1>3 DEF Fits
<1>5. wait \in [Process -> [Thread -> Address \cup {NONE}]]
  BY DEF PInv, PTypeOK
<1>6. wait'[p][t] = a /\ \A q \in Process, u \in Thread : q # p \/ u # t => wait'[q][u] = wait[q][u]
  BY <1>2, <1>5
<1>7. a # NONE
  <2>1. \A q \in Process : \A u \in Waiting(q) : wait[q][u] # NONE
    BY DEF Waiting
  <2> QED BY <1>2, <2>1 DEF Runs, Own
<1>8. WaitsVacant'
  <2> SUFFICES ASSUME NEW q \in Process, NEW u \in Waiting(q)'
               PROVE  /\ u \in Threads(q)' /\ mem'.at[At(q, wait'[q][u])] = NONE
                      /\ \A v \in Waiting(q)' : wait'[q][v] = wait'[q][u] => v = u
    BY DEF WaitsVacant, At
  <2>1. CASE q = p /\ u = t
    <3>1. u \in Threads(q)'
      BY <1>2, <2>1 DEF Runs, Threads
    <3>2. \A v \in Waiting(q)' : wait'[q][v] = a => v = t
      BY <1>2, <1>6, <2>1 DEF Waiting, Own
    <3> QED BY <1>3, <1>6, <2>1, <3>1, <3>2
  <2>2. CASE q # p \/ u # t
    <3>1. u \in Waiting(q) /\ wait'[q][u] = wait[q][u]
      BY <1>6, <2>2 DEF Waiting
    <3>2. u \in Threads(q)' /\ mem.at[At(q, wait[q][u])] = NONE
      BY <1>2, <3>1 DEF PInv, WaitsVacant, Threads
    <3>3. mem'.at[At(q, wait[q][u])] = NONE
      BY <1>3, <3>1, <3>2, Sleepers
    <3>4. ASSUME NEW v \in Waiting(q)', wait'[q][v] = wait[q][u] PROVE v = u
      <4>1. CASE q = p /\ v = t
        BY <1>2, <1>6, <3>1, <3>4, <4>1 DEF Own, Waiting
      <4>2. CASE q # p \/ v # t
        <5>1. v \in Waiting(q) /\ wait'[q][v] = wait[q][v]
          BY <1>6, <4>2 DEF Waiting
        <5> QED BY <3>1, <3>4, <5>1 DEF PInv, WaitsVacant
      <4> QED BY <4>1, <4>2
    <3> QED BY <3>1, <3>2, <3>3, <3>4
  <2> QED BY <2>1, <2>2
<1>9. wait' \in [Process -> [Thread -> Address \cup {NONE}]]
  BY <1>2, <1>5
<1> QED BY <1>2, <1>3, <1>4, <1>8, <1>9, FittingInv

(* The thread a message wakes, and where it lands.                          *)
LEMMA FirstWaiting ==
  ASSUME PInv, NEW q \in Process, Waiting(q) # {}
  PROVE  Least(Waiting(q)) \in Waiting(q)
<1>1. Waiting(q) \subseteq Thread
  BY DEF Waiting
<1>2. IsFiniteSet(Thread) /\ Thread \subseteq Int
  BY PagesAssumption
<1>3. IsFiniteSet(Waiting(q))
  BY ONLY <1>1, <1>2, FS_Subset
<1> HIDE DEF Waiting
<1> QED BY <1>1, <1>2, <1>3, LeastIsLeast

LEMMA Woken ==
  ASSUME PInv, NEW q \in Process, NEW u \in Waiting(q), wait' = [wait EXCEPT ![q][u] = NONE]
  PROVE  /\ wait' \in [Process -> [Thread -> Address \cup {NONE}]]
         /\ \A r \in Process : \A v \in Waiting(r)' :
              v \in Waiting(r) /\ wait'[r][v] = wait[r][v] /\ <<r, v>> # <<q, u>>
<1>1. wait \in [Process -> [Thread -> Address \cup {NONE}]] /\ u \in Thread
  BY DEF PInv, PTypeOK, Waiting
<1>2. wait' \in [Process -> [Thread -> Address \cup {NONE}]]
  BY <1>1
<1>3. wait'[q][u] = NONE
        /\ \A r \in Process, v \in Thread : <<r, v>> # <<q, u>> => wait'[r][v] = wait[r][v]
  BY <1>1
<1>4. ASSUME NEW r \in Process, NEW v \in Waiting(r)'
      PROVE  v \in Waiting(r) /\ wait'[r][v] = wait[r][v] /\ <<r, v>> # <<q, u>>
  BY <1>3 DEF Waiting
<1> QED BY <1>2, <1>4

LEMMA InterruptDeliverInv ==
  ASSUME PInv, NEW q \in Process, InterruptDeliver(q)
  PROVE  PInv'
<1> DEFINE u == Least(Waiting(q))
           b == wait[q][u]
           m == Tabled(mem, q, b[1])
           e == At(q, b)
           f == Table(q, b[1])
<1>1. u \in Waiting(q) /\ b \in Address /\ mem.at[e] = NONE /\ Live(q)
  BY FirstWaiting, Sleepers DEF InterruptDeliver
<1>2. b[1] \in Dirs /\ b[1] < BOTTOM /\ b[2] \in Index /\ e = Entry(q, b[1], b[2])
      /\ e \in Place /\ f \in Place /\ e # f
  BY <1>1, Addresses, Kinds, Names
<1>3. /\ mem' = IF m.at[e] = NONE THEN Take(m, e) ELSE Waste(m)
      /\ ~mem'.halted
      /\ stack' = stack /\ wait' = [wait EXCEPT ![q][u] = NONE]
  BY DEF InterruptDeliver, Ends
<1>4. ~m.halted
  BY <1>3 DEF Take, Waste
<1>5. /\ Good(m) /\ m.at[f] # NONE /\ (mem.at[f] # NONE => m = mem)
      /\ \A x \in Place : x # f => m.at[x] = mem.at[x]
  BY <1>1, <1>4, TabledAddress, Parts
<1>6. m.at[e] = NONE /\ mem' = Take(m, e)
  BY <1>1, <1>2, <1>3, <1>5
<1>7. wait' \in [Process -> [Thread -> Address \cup {NONE}]]
  BY <1>1, <1>3, Woken
<1>8. \A r \in Process : \A v \in Waiting(r)' :
        v \in Waiting(r) /\ wait'[r][v] = wait[r][v] /\ <<r, v>> # <<q, u>>
  BY <1>1, <1>3, Woken
<1> HIDE DEF m
<1>9. Good(mem') /\ \E g \in Page : mem'.at = [m.at EXCEPT ![e] = g]
  <2>1. Good(m) /\ e \in Place /\ m.at[e] = NONE
    BY <1>2, <1>5, <1>6
  <2> HIDE DEF e, f, b, u
  <2>2. ~Take(m, e).halted
    BY <1>3, <1>6
  <2>3. Good(Take(m, e)) /\ \E g \in Page : Take(m, e).at = [m.at EXCEPT ![e] = g]
    BY <2>1, <2>2, TakeGood
  <2> QED BY <1>6, <2>3
<1>10. mem'.at[e] \in Page /\ \A x \in Place : x # e => mem'.at[x] = m.at[x]
  BY <1>2, <1>5, <1>9 DEF Good, Mem
<1>11. ASSUME NEW x \in Place PROVE Fits(x)
  <2>1. CASE x = e
    BY <2>1, <1>2, <1>5, <1>10 DEF Fits
  <2>2. CASE x = f /\ m # mem
    BY <2>2, <1>1, <1>2, <1>5, <1>10 DEF Fits
  <2>3. CASE x # e /\ (x # f \/ m = mem)
    BY <2>3, <1>5, <1>10 DEF Fits
  <2> QED BY <2>1, <2>2, <2>3
<1>12. ASSUME NEW r \in Process, NEW v \in Waiting(r)' PROVE StillVacant(r, v)
  <2>1. v \in Waiting(r) /\ wait'[r][v] = wait[r][v] /\ <<r, v>> # <<q, u>>
    BY <1>8
  <2>2. At(r, wait[r][v]) # e
    <3>1. SUFFICES ASSUME At(r, wait[r][v]) = e PROVE FALSE
      OBVIOUS
    <3>2. r = q /\ wait[r][v] = b
      BY <1>1, <2>1, <3>1, Sleepers, Addresses
    <3> QED BY <1>1, <2>1, <3>2 DEF PInv, WaitsVacant
  <2>3. At(r, wait[r][v]) # f
    BY Names DEF At
  <2> QED BY <1>5, <1>10, <2>1, <2>2, <2>3, Sleepers DEF StillVacant
<1> HIDE DEF e, f, b, u
<1> QED BY <1>3, <1>7, <1>9, <1>11, <1>12, StepInv

LEMMA SendDeliverInv ==
  ASSUME PInv, NEW p \in Process, NEW t \in Thread, NEW a \in Address, NEW q \in Process,
         SendDeliver(p, t, a, q)
  PROVE  PInv'
<1> DEFINE u == Least(Waiting(q))
           b == wait[q][u]
           m == Tabled(mem, q, b[1])
           g == At(p, a)
           e == At(q, b)
           f == Table(q, b[1])
           n == Move(m, g, e)
<1>1. u \in Waiting(q) /\ b \in Address /\ mem.at[e] = NONE /\ Live(q)
  BY FirstWaiting, Sleepers DEF SendDeliver
<1>2. /\ b[1] \in Dirs /\ b[1] < BOTTOM /\ b[2] \in Index /\ e = Entry(q, b[1], b[2])
      /\ e \in Place /\ f \in Place /\ e # f
      /\ a[1] \in Dirs /\ a[1] < BOTTOM /\ a[2] \in Index /\ g = Entry(p, a[1], a[2])
      /\ g \in Place /\ g # f
  BY <1>1, Addresses, Kinds, Names
<1>3. /\ mem' = Take(IF m.at[e] = NONE THEN Move(m, g, e) ELSE Forget(m, {g}), g)
      /\ ~mem'.halted /\ mem.at[g] \in Page /\ g # e
      /\ stack' = stack /\ wait' = [wait EXCEPT ![q][u] = NONE]
  BY <1>1, PagesAssumption DEF SendDeliver, Sends, Ends
<1>4. ~m.halted
  <2>1. ~(IF m.at[e] = NONE THEN Move(m, g, e) ELSE Forget(m, {g})).halted
    <3> HIDE DEF e, f, g, m, n, b, u
    <3> QED BY <1>3, TakeEnds
  <2>2. CASE m.at[e] = NONE
    BY <2>1, <2>2 DEF Move
  <2>3. CASE m.at[e] # NONE
    BY <2>1, <2>3 DEF Forget
  <2> QED BY <2>2, <2>3
<1>5. /\ Good(m) /\ m.at[f] # NONE /\ (mem.at[f] # NONE => m = mem)
      /\ \A x \in Place : x # f => m.at[x] = mem.at[x]
  BY <1>1, <1>4, TabledAddress, Parts
<1>6. m.at[e] = NONE /\ mem' = Take(n, g) /\ m.at[g] \in Page
  BY <1>1, <1>2, <1>3, <1>5
<1>7. wait' \in [Process -> [Thread -> Address \cup {NONE}]]
  BY <1>1, <1>3, Woken
<1>8. \A r \in Process : \A v \in Waiting(r)' :
        v \in Waiting(r) /\ wait'[r][v] = wait[r][v] /\ <<r, v>> # <<q, u>>
  BY <1>1, <1>3, Woken
<1> HIDE DEF m
<1>9. Good(n) /\ n.at = [m.at EXCEPT ![e] = m.at[g], ![g] = NONE]
  <2> HIDE DEF e, f, g, b, u
  <2>1. Good(m) /\ g \in Place /\ e \in Place /\ g # e /\ m.at[e] = NONE
        /\ m.at[g] \notin Device
    BY <1>2, <1>3, <1>5, <1>6, PagesAssumption
  <2> QED BY <2>1, MoveGood
<1>10. n.at[g] = NONE /\ \A x \in Place : x # e /\ x # g => n.at[x] = m.at[x]
  BY <1>2, <1>5, <1>9 DEF Good, Mem
<1> HIDE DEF n
<1>11. Good(mem') /\ \E h \in Page : mem'.at = [n.at EXCEPT ![g] = h]
  <2> HIDE DEF e, f, g, b, u
  <2>1. Good(n) /\ g \in Place /\ n.at[g] = NONE /\ ~Take(n, g).halted
    BY <1>2, <1>3, <1>6, <1>9, <1>10
  <2>2. Good(Take(n, g)) /\ \E h \in Page : Take(n, g).at = [n.at EXCEPT ![g] = h]
    BY <2>1, TakeGood
  <2> QED BY <1>6, <2>2
<1>12. /\ mem'.at[g] \in Page
       /\ \A x \in Place : x # e /\ x # g => mem'.at[x] = m.at[x]
  BY <1>2, <1>9, <1>10, <1>11 DEF Good, Mem
<1>13. mem'.at[Table(p, a[1])] # NONE
  <2>1. mem.at[Table(p, a[1])] # NONE
    <3>1. mem.at[Entry(p, a[1], a[2])] # NONE
      BY <1>2, <1>3, PagesAssumption
    <3> HIDE DEF e, f, g, b, u
    <3> QED BY <3>1, <1>2 DEF PInv, Reachable
  <2>2. Table(p, a[1]) \in Place /\ Table(p, a[1]) # e /\ Table(p, a[1]) # g
    BY <1>2, Kinds, Names
  <2> QED BY <1>5, <1>12, <2>1, <2>2
<1>14. ASSUME NEW x \in Place PROVE Fits(x)
  <2>1. CASE x = e
    BY <2>1, <1>2, <1>5, <1>12 DEF Fits
  <2>2. CASE x = g
    BY <2>2, <1>2, <1>13 DEF Fits
  <2>3. CASE x = f /\ m # mem
    BY <2>3, <1>1, <1>2, <1>5, <1>12 DEF Fits
  <2>4. CASE x # e /\ x # g /\ (x # f \/ m = mem)
    BY <2>4, <1>5, <1>12 DEF Fits
  <2> QED BY <2>1, <2>2, <2>3, <2>4
<1>15. ASSUME NEW r \in Process, NEW v \in Waiting(r)' PROVE StillVacant(r, v)
  <2>1. v \in Waiting(r) /\ wait'[r][v] = wait[r][v] /\ <<r, v>> # <<q, u>>
    BY <1>8
  <2>2. At(r, wait[r][v]) # e
    <3>1. SUFFICES ASSUME At(r, wait[r][v]) = e PROVE FALSE
      OBVIOUS
    <3>2. r = q /\ wait[r][v] = b
      BY <1>1, <2>1, <3>1, Sleepers, Addresses
    <3> QED BY <1>1, <2>1, <3>2 DEF PInv, WaitsVacant
  <2>3. At(r, wait[r][v]) # f
    BY Names DEF At
  <2>4. At(r, wait[r][v]) # g
    BY <1>3, <2>1, Sleepers, PagesAssumption
  <2> QED BY <1>5, <1>12, <2>1, <2>2, <2>3, <2>4, Sleepers DEF StillVacant
<1> HIDE DEF e, f, g, b, u
<1> QED BY <1>3, <1>7, <1>11, <1>14, <1>15, StepInv

(***************************************************************************)
(* Threads and processes come and go.                                       *)
(***************************************************************************)
(* allocThreadStack finds the highest of the tables that are free.          *)
LEMMA HighestFree ==
  ASSUME NEW m, NEW p, Free(m, p) # {}
  PROVE  Highest(m, p) \in Free(m, p)
<1> DEFINE S == Free(m, p)
           f == [d \in S |-> d]
<1>1. IsFiniteSet(BOTTOM + 1 .. TOP - 1) /\ S \subseteq BOTTOM + 1 .. TOP - 1 /\ S \subseteq Int
  BY FS_Interval, PagesAssumption DEF Free
<1>2. IsFiniteSet(S)
  BY ONLY <1>1, FS_Subset
<1>3. \A d \in S : f[d] \in Int
  BY <1>1
<1> HIDE DEF S
<1>4. PICK d \in S : \A e \in S : f[e] <= f[d]
  <2> HIDE DEF f
  <2> QED BY <1>2, <1>3, GreatestExists DEF S
<1>5. \E c \in S : \A e \in S : e <= c
  BY <1>4
<1> QED BY <1>5 DEF S, Highest

(* A thread u of p gets a stack, on a memory in which p has a directory.    *)
LEMMA WithStackInv ==
  ASSUME PInv, NEW p \in Process, NEW m, NEW d, NEW u \in Thread \ Threads(p),
         Good(m), m.at[Directory(p)] # NONE,
         \A x \in Place : x # Directory(p) => m.at[x] = mem.at[x],
         d \in Free(m, p),
         mem' = WithStack(m, p, d), ~mem'.halted,
         stack' = [stack EXCEPT ![p][u] = d + 1], wait' = wait
  PROVE  PInv'
<1> DEFINE f == Table(p, d)
           e == Entry(p, d, LAST)
           n == Take(m, f)
<1>1. d \in BOTTOM + 1 .. TOP - 1 /\ d % 2 = 1 /\ m.at[f] = NONE
  BY DEF Free
<1>2. /\ d \in Dirs /\ LAST \in Index /\ d + 1 \in 0 .. TOP /\ d + 1 > BOTTOM
      /\ d + 1 # 0 /\ (d + 1) % 2 = 0
  BY <1>1, PagesAssumption DEF Dirs, Index
<1>3. f \in Place /\ e \in Place /\ f # e /\ f # Directory(p) /\ e # Directory(p)
  BY <1>2, Kinds, Names
<1>4. mem.at[f] = NONE /\ \A i \in Index : mem.at[Entry(p, d, i)] = NONE
  BY <1>1, <1>2, <1>3 DEF PInv, Reachable
<1>5. m.at[e] = NONE
  BY <1>2, <1>3, <1>4
<1>6. mem' = Take(n, e) /\ ~Take(n, e).halted
  BY DEF WithStack
<1>7. ~n.halted
  BY <1>6 DEF Take
<1>8. Good(n) /\ \E g \in Page : n.at = [m.at EXCEPT ![f] = g]
  BY <1>1, <1>3, <1>7, TakeGood
<1>9. n.at[f] \in Page /\ \A x \in Place : x # f => n.at[x] = m.at[x]
  BY <1>3, <1>8 DEF Good, Mem
<1> HIDE DEF n
<1>10. Good(mem') /\ \E g \in Page : mem'.at = [n.at EXCEPT ![e] = g]
  <2>1. n.at[e] = NONE
    BY <1>3, <1>5, <1>9
  <2> HIDE DEF e
  <2>2. Good(Take(n, e)) /\ \E g \in Page : Take(n, e).at = [n.at EXCEPT ![e] = g]
    BY <2>1, <1>3, <1>6, <1>8, TakeGood
  <2> QED BY <2>2, <1>6
<1>11. /\ mem'.at[f] \in Page /\ mem'.at[e] \in Page
       /\ \A x \in Place : x # f /\ x # e => mem'.at[x] = m.at[x]
  BY <1>3, <1>8, <1>9, <1>10 DEF Good, Mem
<1>12. mem'.at[Directory(p)] # NONE
       /\ \A x \in Place : x # Directory(p) /\ x # f /\ x # e => mem'.at[x] = mem.at[x]
  BY <1>3, <1>11, Kinds
<1>13. stack \in [Process -> [Thread -> 0 .. TOP]]
  BY DEF PInv, PTypeOK
<1>14. /\ stack'[p][u] = d + 1
       /\ \A q \in Process, t \in Thread : <<q, t>> # <<p, u>> => stack'[q][t] = stack[q][t]
       /\ stack' \in [Process -> [Thread -> 0 .. TOP]]
  BY <1>2, <1>13
<1>15. PTypeOK'
  BY <1>10, <1>14 DEF Good, PInv, PTypeOK
<1>16. /\ Threads(p)' = Threads(p) \cup {u}
       /\ \A q \in Process : q # p => Threads(q)' = Threads(q)
  BY <1>2, <1>14 DEF Threads
<1>17. Live(p)' /\ \A q \in Process : q # p => (Live(q)' <=> Live(q))
  <2>1. \A q \in Process : q # p => /\ Directory(q) \in Place /\ Directory(q) # Directory(p)
                                   /\ Directory(q) # f /\ Directory(q) # e
    BY Kinds, Names
  <2> QED BY <2>1, <1>12 DEF Live
<1> HIDE DEF f, e
<1>18. Reachable'
  <2>1. ASSUME NEW q \in Process, NEW c \in Dirs, NEW i \in Index, mem'.at[Entry(q, c, i)] # NONE
        PROVE  mem'.at[Table(q, c)] # NONE
    <3>1. CASE Table(q, c) = f
      BY <3>1, <1>11, PagesAssumption
    <3>2. CASE Table(q, c) # f
      <4>1. Entry(q, c, i) # e
        BY <3>2, Names DEF e, f
      <4>2. mem'.at[Entry(q, c, i)] = mem.at[Entry(q, c, i)]
        BY <4>1, <1>12, Kinds, Names DEF f
      <4>3. mem'.at[Table(q, c)] = mem.at[Table(q, c)]
        BY <3>2, <1>12, Kinds, Names DEF e
      <4> QED BY <2>1, <4>2, <4>3 DEF PInv, Reachable
    <3> QED BY <3>1, <3>2
  <2>2. ASSUME NEW q \in Process, ~Live(q)'
        PROVE  /\ \A c \in Dirs : mem'.at[Table(q, c)] = NONE
               /\ Queued(q)' = {} /\ Threads(q)' = {}
    <3>1. q # p /\ ~Live(q)
      BY <2>2, <1>17
    <3>2. \A c \in Dirs : mem'.at[Table(q, c)] = mem.at[Table(q, c)]
      BY <3>1, <1>12, Kinds, Names DEF e, f
    <3>3. \A k \in 1 .. MAX_MESSAGE_COUNT : mem'.at[Message(q, k)] = mem.at[Message(q, k)]
      BY <1>12, Kinds, Names DEF e, f
    <3> QED BY <3>1, <3>2, <3>3, <1>16 DEF PInv, Reachable, Queued
  <2> QED BY <2>1, <2>2 DEF Reachable
<1>19. \A t \in Threads(p) : stack[p][t] # d + 1
  <2> SUFFICES ASSUME NEW t \in Threads(p), stack[p][t] = d + 1 PROVE FALSE
    OBVIOUS
  <2>1. mem.at[Table(p, stack[p][t] - 1)] # NONE
    BY DEF PInv, StacksApart
  <2>2. stack[p][t] - 1 = d
    BY <1>1, PagesAssumption
  <2> QED BY <2>1, <2>2, <1>4 DEF f
<1>20. StacksApart'
  <2>1. ASSUME NEW q \in Process, NEW t \in Threads(q)', NEW v \in Threads(q)',
               stack'[q][t] = stack'[q][v]
        PROVE  t = v
    <3>1. CASE q # p
      BY <2>1, <3>1, <1>14, <1>16 DEF PInv, StacksApart, Threads
    <3>2. CASE q = p /\ t # u /\ v # u
      <4>1. t \in Threads(p) /\ v \in Threads(p) /\ t \in Thread /\ v \in Thread
        BY <3>2, <1>16 DEF Threads
      <4>2. stack[p][t] = stack[p][v]
        BY <2>1, <3>2, <4>1, <1>14
      <4> QED BY <4>1, <4>2 DEF PInv, StacksApart
    <3>3. CASE q = p /\ (t = u \/ v = u)
      <4>1. \A w \in Threads(p) : w # u /\ w \in Thread /\ stack'[p][w] = stack[p][w]
        BY <1>14 DEF Threads
      <4>2. \A w \in Threads(p) : stack'[p][w] # stack'[p][u]
        BY <4>1, <1>14, <1>19
      <4> QED BY <2>1, <3>3, <4>2, <1>16
    <3> QED BY <3>1, <3>2, <3>3
  <2>2. ASSUME NEW q \in Process, NEW t \in Threads(q)'
        PROVE  /\ stack'[q][t] > BOTTOM /\ stack'[q][t] % 2 = 0
               /\ mem'.at[Table(q, stack'[q][t] - 1)] # NONE
    <3>1. CASE q = p /\ t = u
      <4>1. stack'[q][t] - 1 = d
        BY <3>1, <1>1, <1>14, PagesAssumption
      <4> QED BY <3>1, <4>1, <1>2, <1>11, <1>14, PagesAssumption DEF f
    <3>2. CASE q # p \/ t # u
      <4>1. t \in Threads(q) /\ t \in Thread /\ stack'[q][t] = stack[q][t]
        BY <3>2, <1>14, <1>16 DEF Threads
      <4>2. /\ stack[q][t] > BOTTOM /\ stack[q][t] % 2 = 0
            /\ mem.at[Table(q, stack[q][t] - 1)] # NONE
        BY <4>1 DEF PInv, StacksApart
      <4>3. stack[q][t] - 1 \in Dirs
        BY <4>1, <4>2, <1>13, PagesAssumption DEF Dirs
      <4>4. mem'.at[Table(q, stack[q][t] - 1)] # NONE
        BY <4>2, <4>3, <1>11, <1>12, Kinds, Names, PagesAssumption DEF e
      <4> QED BY <4>1, <4>2, <4>4
    <3> QED BY <3>1, <3>2
  <2>3. ASSUME NEW q \in Process, NEW c \in BOTTOM .. TOP - 1, mem'.at[Table(q, c)] # NONE
        PROVE  /\ \E t \in Threads(q)' : c \in stack'[q][t] - 2 .. stack'[q][t] - 1
               /\ \A i \in Index : mem'.at[Entry(q, c, i)] \notin Device
    <3>1. c \in Dirs
      BY PagesAssumption DEF Dirs
    <3>2. CASE q = p /\ c = d
      <4>1. u \in Threads(q)' /\ c \in stack'[q][u] - 2 .. stack'[q][u] - 1
        BY <3>2, <1>1, <1>14, <1>16, PagesAssumption
      <4>2. ASSUME NEW i \in Index PROVE mem'.at[Entry(q, c, i)] \notin Device
        <5>1. CASE i = LAST
          BY <5>1, <3>2, <1>11, PagesAssumption DEF e
        <5>2. CASE i # LAST
          <6>1. mem'.at[Entry(p, d, i)] = mem.at[Entry(p, d, i)]
            BY <5>2, <3>1, <3>2, <1>12, Kinds, Names DEF e, f
          <6> QED BY <6>1, <3>2, <1>4, PagesAssumption
        <5> QED BY <5>1, <5>2
      <4> QED BY <4>1, <4>2
    <3>3. CASE q # p \/ c # d
      <4>1. Table(q, c) # f /\ \A i \in Index : Entry(q, c, i) # e
        BY <3>3, Names DEF e, f
      <4>2. mem'.at[Table(q, c)] = mem.at[Table(q, c)]
            /\ \A i \in Index : mem'.at[Entry(q, c, i)] = mem.at[Entry(q, c, i)]
        BY <4>1, <3>1, <1>12, Kinds, Names DEF e, f
      <4>3. PICK t \in Threads(q) : c \in stack[q][t] - 2 .. stack[q][t] - 1
        BY <2>3, <4>2 DEF PInv, StacksApart
      <4>4. t \in Threads(q)' /\ stack'[q][t] = stack[q][t]
        BY <1>14, <1>16 DEF Threads
      <4> QED BY <2>3, <4>2, <4>3, <4>4 DEF PInv, StacksApart
    <3> QED BY <3>2, <3>3
  <2> QED BY <2>1, <2>2, <2>3 DEF StacksApart
<1>21. WaitsVacant'
  <2> SUFFICES ASSUME NEW q \in Process, NEW t \in Waiting(q)
               PROVE  /\ t \in Threads(q)' /\ mem'.at[At(q, wait[q][t])] = NONE
                      /\ \A v \in Waiting(q) : wait[q][v] = wait[q][t] => v = t
    BY DEF WaitsVacant, At, Waiting
  <2>1. t \in Threads(q)'
    BY <1>16, Sleepers
  <2>2. At(q, wait[q][t]) # e
    <3>1. wait[q][t] \in Address
      BY Sleepers
    <3>2. wait[q][t][1] < BOTTOM /\ wait[q][t][1] \in Int
      BY <3>1, Addresses, PagesAssumption DEF Dirs
    <3>3. wait[q][t][1] # d
      BY <3>2, <1>1, PagesAssumption
    <3> QED BY <3>3, Names DEF At, e
  <2>3. At(q, wait[q][t]) # f /\ At(q, wait[q][t]) # Directory(p)
    BY Names DEF At, f
  <2>4. mem'.at[At(q, wait[q][t])] = NONE
    BY <2>2, <2>3, <1>12, Sleepers
  <2> QED BY <2>1, <2>4 DEF PInv, WaitsVacant
<1> QED BY <1>10, <1>15, <1>18, <1>20, <1>21 DEF PInv, Good, PagesOwned, PagesKept

LEMMA CreateProcessInv ==
  ASSUME PInv, NEW p \in Process, CreateProcess(p)
  PROVE  PInv'
<1> DEFINE m == Take(mem, Directory(p))
           d == Highest(m, p)
           u == Least(Thread)
<1>1. /\ mem' = WithStack(m, p, d) /\ ~mem'.halted /\ mem.at[Directory(p)] = NONE
      /\ stack' = [stack EXCEPT ![p][u] = d + 1] /\ wait' = wait
  BY DEF CreateProcess, Ends, Live
<1>2. ~m.halted
  <2> HIDE DEF m, d
  <2>1. ~Take(Take(m, Table(p, d)), Entry(p, d, LAST)).halted
    BY <1>1 DEF WithStack
  <2> QED BY <2>1, TakeEnds
<1>3. Directory(p) \in Place
  BY Kinds
<1>4. Good(m) /\ \E g \in Page : m.at = [mem.at EXCEPT ![Directory(p)] = g]
  BY <1>1, <1>2, <1>3, TakeGood, Parts
<1> HIDE DEF m
<1>5. mem.at \in [Place -> Page \cup Device \cup {NONE}]
  BY DEF PInv, PTypeOK, Mem
<1>6. m.at[Directory(p)] # NONE /\ \A x \in Place : x # Directory(p) => m.at[x] = mem.at[x]
  BY <1>3, <1>4, <1>5, PagesAssumption
<1>7. TOP - 1 \in Free(m, p)
  <2>1. TOP - 1 \in BOTTOM + 1 .. TOP - 1 /\ (TOP - 1) % 2 = 1 /\ TOP - 1 \in Dirs
    BY PagesAssumption DEF Dirs
  <2>2. mem.at[Table(p, TOP - 1)] = NONE
    BY <1>1, <2>1 DEF PInv, Reachable, Live
  <2>3. m.at[Table(p, TOP - 1)] = NONE
    BY <1>6, <2>1, <2>2, Kinds, Names
  <2> QED BY <2>1, <2>3 DEF Free
<1>8. d \in Free(m, p)
  BY <1>7, HighestFree
<1>9. u \in Thread \ Threads(p)
  <2>1. IsFiniteSet(Thread) /\ Thread # {} /\ Thread \subseteq Int
    BY PagesAssumption
  <2>2. u \in Thread
    BY ONLY <2>1, LeastIsLeast
  <2>3. Threads(p) = {}
    BY <1>1 DEF PInv, Reachable, Live
  <2> QED BY <2>2, <2>3
<1> HIDE DEF d, u
<1> QED BY <1>1, <1>4, <1>6, <1>8, <1>9, WithStackInv

LEMMA CreateThreadInv ==
  ASSUME PInv, NEW p \in Process, NEW t \in Thread, CreateThread(p, t)
  PROVE  PInv'
<1> DEFINE d == Highest(mem, p)
           u == Least(Thread \ Threads(p))
<1>1. /\ mem' = WithStack(mem, p, d) /\ ~mem'.halted
      /\ stack' = [stack EXCEPT ![p][u] = d + 1] /\ wait' = wait
      /\ Runs(p, t) /\ Free(mem, p) # {} /\ Thread # Threads(p)
  BY DEF CreateThread, Ends
<1>2. d \in Free(mem, p)
  BY <1>1, HighestFree
<1>3. u \in Thread \ Threads(p)
  <2> DEFINE S == Thread \ Threads(p)
  <2>1. IsFiniteSet(Thread) /\ S \subseteq Thread /\ S # {} /\ S \subseteq Int
    BY <1>1, PagesAssumption DEF Threads
  <2> HIDE DEF S
  <2>2. IsFiniteSet(S)
    BY ONLY <2>1, FS_Subset
  <2>3. Least(S) \in S
    BY ONLY <2>1, <2>2, LeastIsLeast
  <2> QED BY <2>3 DEF S
<1>4. Good(mem) /\ mem.at[Directory(p)] # NONE
  BY <1>1, Runners, Parts
<1> HIDE DEF d, u
<1> QED BY <1>1, <1>2, <1>3, <1>4, WithStackInv

(* Every place is in the name of one process.                               *)
LEMMA Names1 ==
  ASSUME NEW p \in Process
  PROVE  /\ Owns(p) \subseteq Place /\ Letters(p) \subseteq Place
         /\ \A x \in Place : x \in Owns(p) \cup Letters(p) <=> x[1] = p
<1>1. Owns(p) \subseteq Place /\ Letters(p) \subseteq Place
  BY Kinds DEF Owns, Letters, Under
<1>2. ASSUME NEW x \in Owns(p) \cup Letters(p) PROVE x[1] = p
  BY DEF Owns, Letters, Under, Directory, Table, Entry, Message
<1>3. ASSUME NEW x \in Place, x[1] = p PROVE x \in Owns(p) \cup Letters(p)
  BY <1>3 DEF Place, Owns, Letters, Under, Directory, Table, Entry, Message
<1> QED BY <1>1, <1>2, <1>3

(* Disposal leaves a process nothing, and other processes what they had.    *)
LEMMA DisposeInv ==
  ASSUME PInv, NEW p \in Process, Dispose(p)
  PROVE  PInv'
<1> DEFINE X == Mapped(p) \cup Letters(p)
           m == Recycle(mem, X)
<1>1. /\ mem' = Forget(m, Owns(p))
      /\ stack' = [stack EXCEPT ![p] = [t \in Thread |-> 0]]
      /\ wait' = [wait EXCEPT ![p] = [t \in Thread |-> NONE]]
  BY DEF Dispose, Ends
<1>2. X \in SUBSET Place /\ \A x \in X : mem.at[x] \notin Device
  <2>1. X \in SUBSET Place
    BY Names1 DEF Mapped
  <2>2. \A x \in Letters(p) : x[2] # "entry"
    BY DEF Letters, Message
  <2> QED BY <2>1, <2>2 DEF Mapped, PInv, PagesOwned, OneHolder
<1> HIDE DEF X, m
<1>3. Good(m) /\ m.at = [x \in Place |-> IF x \in X THEN NONE ELSE mem.at[x]]
  BY <1>2, RecycleGood, Parts DEF m
<1>4. \A x \in Owns(p) : m.at[x] \notin Page
  BY <1>3, Names1, PagesAssumption DEF X, Mapped
<1>5. Good(mem') /\ mem'.at = [x \in Place |-> IF x \in Owns(p) THEN NONE ELSE m.at[x]]
  <2>1. Owns(p) \in SUBSET Place
    BY Names1
  <2> HIDE DEF X
  <2> QED BY <1>1, <1>3, <1>4, <2>1, ForgetGood
<1>6. \A x \in Place : mem'.at[x] = IF x[1] = p THEN NONE ELSE mem.at[x]
  BY <1>3, <1>5, Names1 DEF X, Mapped
<1>7. /\ \A d \in Dirs : mem'.at[Table(p, d)] = NONE
      /\ \A d \in Dirs, i \in Index : mem'.at[Entry(p, d, i)] = NONE
      /\ \A k \in 1 .. MAX_MESSAGE_COUNT : mem'.at[Message(p, k)] = NONE
  BY <1>6, Kinds DEF Table, Entry, Message
<1>8. ASSUME NEW q \in Process, q # p
      PROVE  /\ mem'.at[Directory(q)] = mem.at[Directory(q)]
             /\ \A d \in Dirs : mem'.at[Table(q, d)] = mem.at[Table(q, d)]
             /\ \A d \in Dirs, i \in Index : mem'.at[Entry(q, d, i)] = mem.at[Entry(q, d, i)]
             /\ \A k \in 1 .. MAX_MESSAGE_COUNT : mem'.at[Message(q, k)] = mem.at[Message(q, k)]
  BY <1>6, <1>8, Kinds DEF Directory, Table, Entry, Message
<1>9. /\ stack' \in [Process -> [Thread -> 0 .. TOP]]
      /\ wait' \in [Process -> [Thread -> Address \cup {NONE}]]
      /\ \A t \in Thread : stack'[p][t] = 0 /\ wait'[p][t] = NONE
      /\ \A q \in Process : q # p => stack'[q] = stack[q] /\ wait'[q] = wait[q]
  BY <1>1, PagesAssumption DEF PInv, PTypeOK
<1>10. PTypeOK'
  BY <1>5, <1>9 DEF Good, PTypeOK
<1>11. /\ Threads(p)' = {} /\ Waiting(p)' = {} /\ Queued(p)' = {}
       /\ \A q \in Process : q # p => /\ Threads(q)' = Threads(q) /\ Waiting(q)' = Waiting(q)
                                      /\ Queued(q)' = Queued(q) /\ (Live(q)' <=> Live(q))
  BY <1>7, <1>8, <1>9 DEF Threads, Waiting, Queued, Live
<1>12. Reachable'
  <2>1. ASSUME NEW q \in Process, NEW d \in Dirs, NEW i \in Index, mem'.at[Entry(q, d, i)] # NONE
        PROVE  mem'.at[Table(q, d)] # NONE
    BY <2>1, <1>7, <1>8 DEF PInv, Reachable
  <2>2. ASSUME NEW q \in Process, ~Live(q)'
        PROVE  /\ \A d \in Dirs : mem'.at[Table(q, d)] = NONE
               /\ Queued(q)' = {} /\ Threads(q)' = {}
    BY <2>2, <1>7, <1>8, <1>11 DEF PInv, Reachable
  <2> QED BY <2>1, <2>2 DEF Reachable
<1>13. StacksApart'
  <2> SUFFICES ASSUME NEW q \in Process
               PROVE  /\ \A t, u \in Threads(q)' : stack'[q][t] = stack'[q][u] => t = u
                      /\ \A t \in Threads(q)' :
                           /\ stack'[q][t] > BOTTOM /\ stack'[q][t] % 2 = 0
                           /\ mem'.at[Table(q, stack'[q][t] - 1)] # NONE
                      /\ \A d \in BOTTOM .. TOP - 1 : mem'.at[Table(q, d)] # NONE =>
                           /\ \E t \in Threads(q)' : d \in stack'[q][t] - 2 .. stack'[q][t] - 1
                           /\ \A i \in Index : mem'.at[Entry(q, d, i)] \notin Device
    BY DEF StacksApart
  <2>1. \A d \in BOTTOM .. TOP - 1 : d \in Dirs
    BY PagesAssumption DEF Dirs
  <2>2. CASE q = p
    BY <2>1, <2>2, <1>7, <1>11
  <2>3. CASE q # p
    <3>1. \A t \in Threads(q) : stack[q][t] > BOTTOM => stack[q][t] - 1 \in Dirs
      BY PagesAssumption DEF Threads, Dirs, PInv, PTypeOK
    <3>2. stack'[q] = stack[q] /\ Threads(q)' = Threads(q)
      BY <2>3, <1>9, <1>11
    <3>3. \A t, u \in Threads(q) : stack[q][t] = stack[q][u] => t = u
      BY DEF PInv, StacksApart
    <3>4. ASSUME NEW t \in Threads(q)
          PROVE  /\ stack[q][t] > BOTTOM /\ stack[q][t] % 2 = 0
                 /\ mem'.at[Table(q, stack[q][t] - 1)] # NONE
      BY <2>3, <3>1, <1>8 DEF PInv, StacksApart
    <3>5. ASSUME NEW d \in BOTTOM .. TOP - 1, mem'.at[Table(q, d)] # NONE
          PROVE  /\ \E t \in Threads(q) : d \in stack[q][t] - 2 .. stack[q][t] - 1
                 /\ \A i \in Index : mem'.at[Entry(q, d, i)] \notin Device
      BY <2>1, <2>3, <3>5, <1>8 DEF PInv, StacksApart
    <3> QED BY <3>2, <3>3, <3>4, <3>5
  <2> QED BY <2>2, <2>3
<1>14. WaitsVacant'
  <2> SUFFICES ASSUME NEW q \in Process, NEW t \in Waiting(q)'
               PROVE  /\ t \in Threads(q)' /\ mem'.at[At(q, wait'[q][t])] = NONE
                      /\ \A v \in Waiting(q)' : wait'[q][v] = wait'[q][t] => v = t
    BY DEF WaitsVacant, At
  <2>1. q # p /\ t \in Waiting(q) /\ wait'[q] = wait[q]
    BY <1>9, <1>11
  <2>2. mem'.at[At(q, wait[q][t])] = NONE
    <3>1. At(q, wait[q][t]) \in Place /\ mem.at[At(q, wait[q][t])] = NONE
      BY <2>1, Sleepers
    <3> QED BY <3>1, <1>6
  <2> QED BY <2>1, <2>2, <1>11 DEF PInv, WaitsVacant
<1> QED BY <1>5, <1>10, <1>12, <1>13, <1>14 DEF PInv, Good, PagesOwned, PagesKept

LEMMA DisposeThreadInv ==
  ASSUME PInv, NEW p \in Process, NEW t \in Thread, NEW u \in Thread, DisposeThread(p, t, u)
  PROVE  PInv'
<1>1. CASE Threads(p) = {u}
  BY <1>1, DisposeInv DEF DisposeThread
<1>2. CASE Threads(p) # {u}
  <2> DEFINE s == stack[p][u]
             X == Stack(p, u)
  <2>1. /\ Runs(p, t) /\ u \in Threads(p) /\ mem' = Recycle(mem, X)
        /\ stack' = [stack EXCEPT ![p][u] = 0] /\ wait' = [wait EXCEPT ![p][u] = NONE]
    BY <1>2 DEF DisposeThread, Ends
  <2>2. s \in 0 .. TOP /\ s > BOTTOM /\ s % 2 = 0 /\ s # 0
    BY <2>1, PagesAssumption DEF PInv, PTypeOK, StacksApart, Threads
  <2>3. s - 2 \in BOTTOM .. TOP - 1 /\ s - 1 \in BOTTOM .. TOP - 1
    BY <2>2, PagesAssumption
  <2>4. s - 2 \in Dirs /\ s - 1 \in Dirs
    BY <2>3, PagesAssumption DEF Dirs
  <2>5. StackDirs(s) = {s - 2, s - 1}
    <3>1. ((s - 1) \div 2) * 2 + 1 = s - 1
      BY <2>2
    <3>2. s - 1 - 1 = s - 2
      BY <2>2
    <3> QED BY <3>1, <3>2 DEF StackDirs
  <2>6. X = Under(p, {s - 2, s - 1})
    BY <2>2, <2>5 DEF Stack
  <2>7. /\ \A d : Table(p, d) \in X <=> d \in {s - 2, s - 1}
        /\ \A d, i : Entry(p, d, i) \in X <=> d \in {s - 2, s - 1} /\ i \in Index
        /\ \A q, d : q # p => Table(q, d) \notin X
        /\ \A q, d, i : q # p => Entry(q, d, i) \notin X
        /\ \A q : Directory(q) \notin X
        /\ \A q, k : Message(q, k) \notin X
    BY <2>6 DEF Under, Directory, Table, Entry, Message
  <2>8. X \in SUBSET Place
    BY <2>4, <2>6, Kinds DEF Under
  <2>9. ASSUME NEW x \in X, mem.at[x] \in Device PROVE FALSE
    <3>1. x[2] = "entry"
      BY <2>8, <2>9 DEF PInv, PagesOwned, OneHolder
    <3>2. PICK d \in {s - 2, s - 1}, i \in Index : x = Entry(p, d, i)
      BY <3>1, <2>6 DEF Under, Table
    <3>3. d \in Dirs /\ d \in BOTTOM .. TOP - 1
      BY <2>3, <2>4
    <3>4. mem.at[Table(p, d)] # NONE
      BY <2>9, <3>2, <3>3, PagesAssumption DEF PInv, Reachable
    <3> QED BY <2>9, <3>2, <3>3, <3>4 DEF PInv, StacksApart
  <2> HIDE DEF X
  <2>10. Good(mem') /\ mem'.at = [x \in Place |-> IF x \in X THEN NONE ELSE mem.at[x]]
    BY <2>1, <2>8, <2>9, RecycleGood, Parts
  <2>11. /\ \A x \in Place : x \notin X => mem'.at[x] = mem.at[x]
         /\ \A x \in Place : x \in X => mem'.at[x] = NONE
    BY <2>10
  <2>12. /\ stack' \in [Process -> [Thread -> 0 .. TOP]]
         /\ wait' \in [Process -> [Thread -> Address \cup {NONE}]]
         /\ stack'[p][u] = 0 /\ wait'[p][u] = NONE
         /\ \A q \in Process, v \in Thread : <<q, v>> # <<p, u>> =>
              stack'[q][v] = stack[q][v] /\ wait'[q][v] = wait[q][v]
    BY <2>1, PagesAssumption DEF PInv, PTypeOK
  <2>13. PTypeOK'
    BY <2>10, <2>12 DEF Good, PTypeOK
  <2>14. \A q \in Process, v \in Thread :
           /\ v \in Threads(q)' <=> v \in Threads(q) /\ <<q, v>> # <<p, u>>
           /\ v \in Waiting(q)' => v \in Waiting(q) /\ <<q, v>> # <<p, u>>
    BY <2>12 DEF Threads, Waiting
  <2>15. \A q \in Process : (Live(q)' <=> Live(q)) /\ Queued(q)' = Queued(q)
    BY <2>7, <2>11, Kinds DEF Live, Queued
  <2> HIDE DEF s
  <2>16. Reachable'
    <3>1. ASSUME NEW q \in Process, NEW d \in Dirs, NEW i \in Index, mem'.at[Entry(q, d, i)] # NONE
          PROVE  mem'.at[Table(q, d)] # NONE
      <4>1. Entry(q, d, i) \notin X /\ mem.at[Entry(q, d, i)] # NONE
        BY <3>1, <2>11, Kinds
      <4>2. Table(q, d) \notin X
        BY <4>1, <2>7
      <4>3. mem.at[Table(q, d)] # NONE
        BY <4>1 DEF PInv, Reachable
      <4> QED BY <4>2, <4>3, <2>11, Kinds
    <3>2. ASSUME NEW q \in Process, ~Live(q)'
          PROVE  /\ \A d \in Dirs : mem'.at[Table(q, d)] = NONE
                 /\ Queued(q)' = {} /\ Threads(q)' = {}
      <4>1. /\ \A d \in Dirs : mem.at[Table(q, d)] = NONE
            /\ Queued(q) = {} /\ Threads(q) = {}
        BY <3>2, <2>15 DEF PInv, Reachable
      <4>2. \A d \in Dirs : mem'.at[Table(q, d)] = NONE
        BY <4>1, <2>11, Kinds
      <4>3. Threads(q)' = {}
        BY <4>1, <2>14 DEF Threads
      <4> QED BY <4>1, <4>2, <4>3, <2>15
    <3> QED BY <3>1, <3>2 DEF Reachable
  <2>17. StacksApart'
    <3>0. ASSUME NEW q \in Process, NEW v \in Threads(q)'
          PROVE  /\ v \in Thread /\ v \in Threads(q) /\ <<q, v>> # <<p, u>>
                 /\ stack'[q][v] = stack[q][v]
      <4>1. v \in Thread
        BY DEF Threads
      <4> QED BY <4>1, <2>12, <2>14
    <3>1. ASSUME NEW q \in Process, NEW v \in Threads(q)', NEW w \in Threads(q)',
                 stack'[q][v] = stack'[q][w]
          PROVE  v = w
      <4>1. stack[q][v] = stack[q][w] /\ v \in Threads(q) /\ w \in Threads(q)
        BY <3>0, <3>1
      <4> QED BY <4>1 DEF PInv, StacksApart
    <3>2. ASSUME NEW q \in Process, NEW v \in Threads(q)'
          PROVE  /\ stack'[q][v] > BOTTOM /\ stack'[q][v] % 2 = 0
                 /\ mem'.at[Table(q, stack'[q][v] - 1)] # NONE
      <4> DEFINE r == stack[q][v]
      <4>1. /\ r > BOTTOM /\ r % 2 = 0 /\ mem.at[Table(q, r - 1)] # NONE
            /\ r \in 0 .. TOP
        BY <3>0 DEF PInv, PTypeOK, StacksApart
      <4>2. r - 1 \in Dirs
        BY <4>1, PagesAssumption DEF Dirs
      <4>3. q = p => r # s
        BY <3>0, <2>1 DEF PInv, StacksApart, s
      <4> HIDE DEF r
      <4>4. q = p => r - 1 \notin {s - 2, s - 1}
        BY <4>1, <4>3, <2>2
      <4>5. Table(q, r - 1) \notin X
        BY <4>4, <2>7
      <4> QED BY <4>1, <4>2, <4>5, <3>0, <2>11, Kinds DEF r
    <3>3. ASSUME NEW q \in Process, NEW d \in BOTTOM .. TOP - 1, mem'.at[Table(q, d)] # NONE
          PROVE  /\ \E v \in Threads(q)' : d \in stack'[q][v] - 2 .. stack'[q][v] - 1
                 /\ \A i \in Index : mem'.at[Entry(q, d, i)] \notin Device
      <4>1. d \in Dirs
        BY PagesAssumption DEF Dirs
      <4>2. Table(q, d) \notin X /\ mem.at[Table(q, d)] # NONE
        BY <3>3, <4>1, <2>11, Kinds
      <4>3. PICK v \in Threads(q) : d \in stack[q][v] - 2 .. stack[q][v] - 1
        BY <4>2 DEF PInv, StacksApart
      <4>4. v \in Thread /\ stack[q][v] \in 0 .. TOP
        BY DEF Threads, PInv, PTypeOK
      <4>5. <<q, v>> # <<p, u>>
        <5>1. SUFFICES ASSUME q = p, v = u PROVE FALSE
          OBVIOUS
        <5>2. d = s - 2 \/ d = s - 1
          BY <4>3, <4>4, <5>1, <2>2 DEF s
        <5> QED BY <5>1, <5>2, <4>2, <2>7
      <4>6. v \in Threads(q)' /\ stack'[q][v] = stack[q][v]
        BY <4>4, <4>5, <2>12, <2>14
      <4>7. \A i \in Index : mem.at[Entry(q, d, i)] \notin Device
        BY <4>2 DEF PInv, StacksApart
      <4>8. \A i \in Index : mem'.at[Entry(q, d, i)] \notin Device
        BY <4>1, <4>7, <2>11, Kinds, PagesAssumption
      <4> QED BY <4>3, <4>6, <4>8
    <3> QED BY <3>1, <3>2, <3>3 DEF StacksApart
  <2>18. WaitsVacant'
    <3> SUFFICES ASSUME NEW q \in Process, NEW v \in Waiting(q)'
                 PROVE  /\ v \in Threads(q)' /\ mem'.at[At(q, wait'[q][v])] = NONE
                        /\ \A w \in Waiting(q)' : wait'[q][w] = wait'[q][v] => w = v
      BY DEF WaitsVacant, At
    <3>1. \A w \in Waiting(q)' : /\ w \in Thread /\ w \in Waiting(q) /\ <<q, w>> # <<p, u>>
                                 /\ wait'[q][w] = wait[q][w]
      <4>1. \A w \in Waiting(q)' : w \in Thread
        BY DEF Waiting
      <4> QED BY <4>1, <2>12, <2>14
    <3>2. v \in Threads(q)'
      BY <3>1, <2>14, Sleepers
    <3>3. mem'.at[At(q, wait[q][v])] = NONE
      BY <3>1, <2>11, Sleepers
    <3> QED BY <3>1, <3>2, <3>3 DEF PInv, WaitsVacant
  <2> QED BY <2>10, <2>13, <2>16, <2>17, <2>18 DEF PInv, Good, PagesOwned, PagesKept
<1> QED BY <1>1, <1>2

(***************************************************************************)
(* The theorems.                                                            *)
(***************************************************************************)
LEMMA PNextInv == PInv /\ [PNext]_pvars => PInv'
<1> SUFFICES ASSUME PInv, [PNext]_pvars PROVE PInv'
  OBVIOUS
<1>1. ASSUME NEW p \in Process, CreateProcess(p) \/ InterruptDeliver(p) \/ InterruptQueue(p)
      PROVE  PInv'
  BY <1>1, CreateProcessInv, InterruptDeliverInv, InterruptQueueInv
<1>2. ASSUME NEW p \in Process, NEW t \in Thread, Calls(p, t)
      PROVE  PInv'
  <2>1. CASE CreateThread(p, t)
    BY <2>1, CreateThreadInv
  <2>2. CASE Exit(p, t)
    BY <2>2, DisposeInv DEF Exit
  <2>3. ASSUME NEW u \in Thread, DisposeThread(p, t, u) PROVE PInv'
    BY <2>3, DisposeThreadInv
  <2>4. ASSUME NEW d \in Dirs, NEW i \in Index, Expand(p, t, d, i) PROVE PInv'
    BY <2>4, ExpandInv
  <2>5. ASSUME NEW a \in Address, AllocMemory(p, t, a) PROVE PInv'
    BY <2>5, AllocMemoryInv
  <2>6. ASSUME NEW a \in Address, NEW g \in Device, OpenPhysicalMemory(p, t, a, g) PROVE PInv'
    BY <2>6, OpenPhysicalMemoryInv
  <2>7. ASSUME NEW a \in Address, ReceiveMessage(p, t, a) \/ ReceiveSleep(p, t, a) PROVE PInv'
    BY <2>7, ReceiveMessageInv, ReceiveSleepInv
  <2>8. ASSUME NEW a \in Address, NEW q \in Process,
               SendDeliver(p, t, a, q) \/ SendQueue(p, t, a, q)
        PROVE  PInv'
    BY <2>8, SendDeliverInv, SendQueueInv
  <2> QED BY <1>2, <2>1, <2>2, <2>3, <2>4, <2>5, <2>6, <2>7, <2>8 DEF Calls
<1>3. CASE UNCHANGED pvars
  BY <1>3 DEF pvars, PInv, PTypeOK, PagesOwned, PagesKept, Reachable, StacksApart, WaitsVacant,
              OneHolder, NoneLost, Live, Threads, Waiting, Queued, At
<1> QED BY <1>1, <1>2, <1>3 DEF PNext

(* Whatever calls processes make and interrupts come, all of the invariants *)
(* hold.                                                                    *)
THEOREM PagesInvariant == PSpec => []PInv
  BY PInitInv, PNextInv, PTL DEF PSpec

(* The state has its type.                                                  *)
THEOREM PagesTypes == PSpec => []PTypeOK
<1>1. PInv => PTypeOK
  BY DEF PInv
<1> QED BY <1>1, PagesInvariant, PTL

(* No page ever has two holders, or is both free and held (page.c and the   *)
(* message calls of proc.c).                                                *)
THEOREM PagesNeverShared == PSpec => []PagesOwned
<1>1. PInv => PagesOwned
  BY DEF PInv
<1> QED BY <1>1, PagesInvariant, PTL

(* No call loses a page.                                                    *)
THEOREM PagesNeverLost == PSpec => []PagesKept
<1>1. PInv => PagesKept
  BY DEF PInv
<1> QED BY <1>1, PagesInvariant, PTL

(* A process that has gone holds nothing, and nothing is mapped through a   *)
(* missing table.                                                           *)
THEOREM PagesReachable == PSpec => []Reachable
<1>1. PInv => Reachable
  BY DEF PInv
<1> QED BY <1>1, PagesInvariant, PTL

(* Stacks of a process are disjoint, and map memory only.                   *)
THEOREM StacksStayApart == PSpec => []StacksApart
<1>1. PInv => StacksApart
  BY DEF PInv
<1> QED BY <1>1, PagesInvariant, PTL

(* The page of a message that wakes a thread finds its address vacant.      *)
THEOREM WaitsStayVacant == PSpec => []WaitsVacant
<1>1. PInv => WaitsVacant
  BY DEF PInv
<1> QED BY <1>1, PagesInvariant, PTL
=============================================================================
