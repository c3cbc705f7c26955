--------------------------- MODULE Terminal_proofs ---------------------------
(***************************************************************************)
(* The drivers between the user and the system, for every size of their     *)
(* buffers and of the screen.  The keyboard and the mouse read each byte    *)
(* once and in order, and what the mouse driver takes for a packet is one.  *)
(* The cursor of the console stays on the screen, and the text is shown     *)
(* once and in order unless its timing meets the driver's.                  *)
(***************************************************************************)
EXTENDS MCTerminal, SequenceTheorems, FiniteSetTheorems, TLAPS

(***************************************************************************)
(* Notifications in a queue.                                                *)
(***************************************************************************)
Source == {IRQ, OWN, WINMAN}
NoticesIn(q) == {i \in DOMAIN q : q[i] = IRQ}

LEMMA NoticesAre ==
  /\ Notices = Cardinality(NoticesIn(queue))
  /\ Notices' = Cardinality(NoticesIn(queue'))
BY DEF Notices, NoticesIn

LEMMA NoticesFinite ==
  ASSUME NEW q \in Seq(Source)
  PROVE  /\ IsFiniteSet(NoticesIn(q)) /\ Cardinality(NoticesIn(q)) \in Nat
         /\ DOMAIN q = 1 .. Len(q) /\ Len(q) \in Nat
<1>1. DOMAIN q = 1 .. Len(q) /\ Len(q) \in Nat
  OBVIOUS
<1>2. IsFiniteSet(1 .. Len(q))
  BY <1>1, FS_Interval
<1>3. NoticesIn(q) \in SUBSET (1 .. Len(q))
  BY <1>1 DEF NoticesIn
<1>4. IsFiniteSet(NoticesIn(q))
  BY ONLY <1>2, <1>3, FS_Subset
<1>. QED
  BY <1>1, <1>4, FS_CardinalityType

LEMMA NoticesNone ==
  ASSUME NEW q \in Seq(Source)
  PROVE  /\ Cardinality(NoticesIn(<<>>)) = 0
         /\ ~Contains(q, IRQ) => Cardinality(NoticesIn(q)) = 0
<1>1. NoticesIn(<<>>) = {}
  BY DEF NoticesIn
<1>2. ~Contains(q, IRQ) => NoticesIn(q) = {}
  BY NoticesFinite DEF NoticesIn, Contains
<1>. QED
  BY <1>1, <1>2, FS_EmptySet

LEMMA NoticesAppend ==
  ASSUME NEW q \in Seq(Source), NEW s \in Source
  PROVE  Cardinality(NoticesIn(Append(q, s)))
           = Cardinality(NoticesIn(q)) + (IF s = IRQ THEN 1 ELSE 0)
<1> DEFINE n == Len(q) + 1
           a == Append(q, s)
<1>1. /\ a \in Seq(Source) /\ Len(a) = n /\ a[n] = s /\ \A i \in 1 .. Len(q) : a[i] = q[i]
      /\ DOMAIN a = 1 .. n /\ DOMAIN q = 1 .. Len(q) /\ Len(q) \in Nat
  BY AppendProperties, NoticesFinite
<1>2. NoticesIn(a) = NoticesIn(q) \cup (IF s = IRQ THEN {n} ELSE {})
  <2> HIDE DEF a
  <2>. QED
    BY <1>1 DEF NoticesIn
<1>3. n \notin NoticesIn(q)
  BY <1>1 DEF NoticesIn
<1>4. IsFiniteSet(NoticesIn(q)) /\ Cardinality(NoticesIn(q)) \in Nat
  BY NoticesFinite
<1>5. Cardinality(NoticesIn(q) \cup {n}) = Cardinality(NoticesIn(q)) + 1
  BY <1>3, <1>4, FS_AddElement
<1> HIDE DEF n, a
<1>6. CASE s = IRQ
  BY <1>2, <1>5, <1>6 DEF a
<1>7. CASE s # IRQ
  <2>1. NoticesIn(a) = NoticesIn(q)
    BY <1>2, <1>7
  <2>. QED
    BY <1>4, <1>7, <2>1 DEF a
<1>. QED
  BY <1>6, <1>7

LEMMA NoticesTail ==
  ASSUME NEW q \in Seq(Source), q # <<>>
  PROVE  /\ Tail(q) \in Seq(Source) /\ Len(Tail(q)) = Len(q) - 1
         /\ Cardinality(NoticesIn(q))
              = Cardinality(NoticesIn(Tail(q))) + (IF Head(q) = IRQ THEN 1 ELSE 0)
<1> DEFINE t == Tail(q)
           S == NoticesIn(t)
           T == NoticesIn(q) \ {1}
           f == [i \in S |-> i + 1]
<1>1. /\ t \in Seq(Source) /\ Len(t) = Len(q) - 1 /\ \A i \in 1 .. Len(t) : t[i] = q[i + 1]
      /\ Head(q) = q[1]
  BY HeadTailProperties
<1>2. /\ DOMAIN t = 1 .. Len(t) /\ DOMAIN q = 1 .. Len(q) /\ Len(q) \in Nat /\ Len(t) \in Nat
      /\ 1 \in DOMAIN q
  <2>1. DOMAIN t = 1 .. Len(t) /\ Len(t) \in Nat
    BY <1>1, NoticesFinite
  <2>2. DOMAIN q = 1 .. Len(q) /\ Len(q) \in Nat
    BY NoticesFinite
  <2>. QED
    BY <1>1, <2>1, <2>2
<1> HIDE DEF t
<1>3. \A i : i \in S <=> i \in 1 .. Len(t) /\ q[i + 1] = IRQ
  BY <1>1, <1>2 DEF NoticesIn
<1>4. \A j : j \in T <=> j \in 2 .. Len(q) /\ q[j] = IRQ
  BY <1>1, <1>2 DEF NoticesIn
<1>5. f \in Bijection(S, T)
  <2> HIDE DEF S, T
  <2>1. f \in [S -> T]
    BY <1>1, <1>2, <1>3, <1>4
  <2>2. \A i, j \in S : f[i] = f[j] => i = j
    BY <1>3
  <2>3. \A j \in T : \E i \in S : f[i] = j
    <3>1. ASSUME NEW j \in T PROVE j - 1 \in S /\ f[j - 1] = j
      <4>1. j \in 2 .. Len(q) /\ q[j] = IRQ
        BY <1>4
      <4>2. j - 1 \in 1 .. Len(t) /\ (j - 1) + 1 = j
        BY <1>1, <1>2, <4>1
      <4>. QED
        BY <1>3, <4>1, <4>2
    <3>. QED
      BY <3>1
  <2>. QED
    BY <2>1, <2>2, <2>3 DEF Bijection, Injection, Surjection, IsInjective
<1>6. IsFiniteSet(S) /\ Cardinality(S) \in Nat
  BY <1>1, NoticesFinite
<1>7. IsFiniteSet(T) /\ Cardinality(T) = Cardinality(S)
  <2> HIDE DEF S, T, f
  <2>1. ExistsBijection(S, T)
    BY <1>5 DEF ExistsBijection
  <2>. QED
    BY <1>6, <2>1, FS_Bijection
<1>8. NoticesIn(q) = T \cup (IF Head(q) = IRQ THEN {1} ELSE {})
  BY <1>1, <1>2 DEF NoticesIn
<1>9. Cardinality(T \cup {1}) = Cardinality(T) + 1
  <2>1. 1 \notin T
    OBVIOUS
  <2>. QED
    BY <1>7, <2>1, FS_AddElement
<1> HIDE DEF S, T
<1>10. CASE Head(q) = IRQ
  BY <1>1, <1>7, <1>8, <1>9, <1>10 DEF t, S
<1>11. CASE Head(q) # IRQ
  <2>1. NoticesIn(q) = T
    BY <1>8, <1>11
  <2>. QED
    BY <1>1, <1>6, <1>7, <1>11, <2>1 DEF t, S
<1>. QED
  BY <1>10, <1>11

(***************************************************************************)
(* The buffer.  Each access keeps its types, and count and pointers in step *)
(* with the notifications (Counted); w and t are whether the driver has     *)
(* taken a notification, and the byte as well.                              *)
(***************************************************************************)
BInv == BTypeOK /\ (~parted => count <= BUFFER_SIZE)

LEMMA SizeType ==
  /\ BUFFER_SIZE \in Nat /\ BUFFER_SIZE >= 1
  /\ MAX_MESSAGE_COUNT \in Nat /\ WORD \in Nat /\ WORD > BUFFER_SIZE
BY BufferAssumption

LEMMA Rest ==
  ASSUME NEW n \in Nat, n >= 1, NEW v \in Nat, v < 2 * n
  PROVE  v % n = IF v < n THEN v ELSE v - n
OBVIOUS

LEMMA RestOfSum ==
  ASSUME NEW n \in Nat, n >= 1, NEW a \in Nat, NEW b \in Nat, a + b < 2 * n
  PROVE  (a + b) % n = IF a + b < n THEN a + b ELSE a + b - n
OBVIOUS

LEMMA AdvanceIs ==
  ASSUME NEW i \in Index
  PROVE  Advance(i) \in Index /\ Advance(i) = (i + 1) % BUFFER_SIZE
<1>1. i \in Nat /\ i + 1 <= BUFFER_SIZE /\ i + 1 \in Nat /\ i + 1 < 2 * BUFFER_SIZE
  BY SizeType DEF Index
<1>2. (i + 1) % BUFFER_SIZE = IF i + 1 < BUFFER_SIZE THEN i + 1 ELSE (i + 1) - BUFFER_SIZE
  <2> DEFINE v == i + 1
  <2> HIDE DEF v
  <2>1. v % BUFFER_SIZE = IF v < BUFFER_SIZE THEN v ELSE v - BUFFER_SIZE
    BY <1>1, SizeType, Rest DEF v
  <2>. QED
    BY <2>1 DEF v
<1>. QED
  BY <1>1, <1>2, SizeType DEF Advance, Index

(* The slots that hold what has yet to be read.                             *)
LEMMA SlotIs ==
  ASSUME NEW p \in Index, NEW n \in 0 .. BUFFER_SIZE
  PROVE  /\ (p + n) % BUFFER_SIZE \in Index
         /\ (p + n) % BUFFER_SIZE = IF p + n < BUFFER_SIZE THEN p + n ELSE p + n - BUFFER_SIZE
         /\ n >= 1 => (p + n) % BUFFER_SIZE = (Advance(p) + (n - 1)) % BUFFER_SIZE
         /\ Advance((p + n) % BUFFER_SIZE) = (p + n + 1) % BUFFER_SIZE
<1> DEFINE m == BUFFER_SIZE
<1>1. m \in Nat /\ m >= 1 /\ p \in Nat /\ p < m /\ n \in Nat /\ n <= m
  BY SizeType DEF Index
<1>2. (p + n) % m = IF p + n < m THEN p + n ELSE p + n - m
  <2>1. p + n < 2 * m
    BY <1>1
  <2>. QED
    BY <1>1, <2>1, RestOfSum
<1>3. (p + n) % m \in Index
  BY <1>1, <1>2 DEF Index
<1>4. ASSUME n >= 1 PROVE (p + n) % m = (Advance(p) + (n - 1)) % m
  <2>1. CASE p + 1 = m
    <3>1. Advance(p) = 0 /\ n - 1 \in Nat /\ n - 1 < m /\ n - 1 < 2 * m
      BY <1>1, <1>4, <2>1 DEF Advance
    <3>2. (0 + (n - 1)) % m = n - 1
      BY <1>1, <3>1, Rest
    <3>. QED
      BY <1>1, <1>2, <2>1, <3>1, <3>2
  <2>2. CASE p + 1 # m
    <3>1. Advance(p) = p + 1 /\ (p + 1) + (n - 1) = p + n
      BY <1>1, <2>2 DEF Advance
    <3>. QED
      BY <3>1
  <2>. QED
    BY <2>1, <2>2
<1>5. Advance((p + n) % m) = (p + n + 1) % m
  <2>1. CASE p + n + 1 < 2 * m
    <3>1. (p + n + 1) % m = IF p + n + 1 < m THEN p + n + 1 ELSE p + n + 1 - m
      <4>1. p + n \in Nat /\ (p + n) + 1 < 2 * m
        BY <1>1, <2>1
      <4>2. ((p + n) + 1) % m = IF (p + n) + 1 < m THEN (p + n) + 1 ELSE (p + n) + 1 - m
        BY <1>1, <4>1, RestOfSum
      <4>. QED
        BY <4>2
    <3>. QED
      BY <1>1, <1>2, <3>1 DEF Advance
  <2>2. CASE p + n + 1 = 2 * m
    <3>1. (p + n + 1) % m = 0
      BY <1>1, <2>2
    <3>. QED
      BY <1>1, <1>2, <2>2, <3>1 DEF Advance
  <2>. QED
    BY <1>1, <2>1, <2>2
<1>. QED
  BY <1>2, <1>3, <1>4, <1>5

LEMMA QueueIs ==
  ASSUME BTypeOK
  PROVE  /\ queue \in Seq(Source) /\ Len(queue) \in Nat
         /\ Notices = Cardinality(NoticesIn(queue)) /\ Notices \in Nat
BY NoticesAre, NoticesFinite DEF BTypeOK, Source

LEMMA EnqueueKeeps ==
  ASSUME BTypeOK, NEW s \in Source, Enqueue(s)
  PROVE  /\ queue' \in Seq(Source) /\ Len(queue') <= MAX_MESSAGE_COUNT
         /\ Notices' = Notices + (IF HasRoom /\ s = IRQ THEN 1 ELSE 0)
<1>1. /\ queue \in Seq(Source) /\ Len(queue) \in Nat /\ Len(queue) <= MAX_MESSAGE_COUNT
      /\ Notices = Cardinality(NoticesIn(queue)) /\ Notices \in Nat
  BY QueueIs DEF BTypeOK
<1>2. CASE HasRoom
  <2>1. queue' = Append(queue, s)
    BY <1>2 DEF Enqueue
  <2>2. queue' \in Seq(Source) /\ Len(queue') = Len(queue) + 1
    BY <1>1, <2>1, AppendProperties
  <2>3. Notices' = Cardinality(NoticesIn(queue)) + (IF s = IRQ THEN 1 ELSE 0)
    BY <1>1, <2>1, NoticesAre, NoticesAppend
  <2>. QED
    BY <1>1, <1>2, <2>2, <2>3, SizeType DEF HasRoom
<1>3. CASE ~HasRoom
  BY <1>1, <1>3, NoticesAre DEF Enqueue
<1>. QED
  BY <1>2, <1>3

LEMMA IrqKeeps ==
  ASSUME BInv, NEW b \in Byte, Irq(b)
  PROVE  BInv'
<1>1. Enqueue(IRQ) /\ UNCHANGED <<p_tail, got>> /\ parted' = (parted \/ (count < BUFFER_SIZE) # HasRoom)
  BY DEF Irq
<1>2. queue' \in Seq(Source) /\ Len(queue') <= MAX_MESSAGE_COUNT
  BY <1>1, EnqueueKeeps DEF BInv, Source
<1>3. BTypeOK /\ p_head \in Index /\ count \in Nat /\ parted \in BOOLEAN
  BY SizeType DEF BInv, BTypeOK
<1>4. parted' \in BOOLEAN
  BY <1>1, <1>3
<1>5. CASE count < BUFFER_SIZE
  <2>1. buf' = [buf EXCEPT ![p_head] = b] /\ p_head' = Advance(p_head) /\ count' = count + 1
    BY <1>5 DEF Irq
  <2>2. p_head' \in Index /\ count' \in 0 .. WORD - 1 /\ count' <= BUFFER_SIZE
    BY <1>3, <1>5, <2>1, AdvanceIs, SizeType
  <2>. QED
    BY <1>1, <1>2, <1>3, <1>4, <2>1, <2>2 DEF BInv, BTypeOK, Source
<1>6. CASE ~(count < BUFFER_SIZE)
  BY <1>1, <1>2, <1>3, <1>4, <1>6 DEF BInv, BTypeOK, Irq, Source
<1>. QED
  BY <1>5, <1>6

LEMMA IrqCounted ==
  ASSUME BInv, NEW b \in Byte, Irq(b), NEW w \in BOOLEAN, NEW t \in BOOLEAN, Counted(w, t)
  PROVE  Counted(w, t)'
<1> SUFFICES ASSUME ~parted'
             PROVE  /\ count' = Notices' + (IF w \/ t THEN 1 ELSE 0)
                    /\ p_head' = (p_tail' + count' - (IF t THEN 1 ELSE 0)) % BUFFER_SIZE
  BY DEF Counted
<1>1. /\ ~parted /\ (count < BUFFER_SIZE <=> HasRoom) /\ p_tail' = p_tail
  BY DEF Irq, HasRoom
<1>2. Notices' = Notices + (IF HasRoom THEN 1 ELSE 0) /\ Notices \in Nat
  BY EnqueueKeeps, QueueIs DEF Irq, BInv, Source
<1>3. /\ count = Notices + (IF w \/ t THEN 1 ELSE 0)
      /\ p_head = (p_tail + count - (IF t THEN 1 ELSE 0)) % BUFFER_SIZE
      /\ count \in Nat /\ count <= BUFFER_SIZE /\ p_tail \in Index /\ p_tail \in Nat
  BY <1>1 DEF Counted, BInv, BTypeOK, Index
<1>4. CASE HasRoom
  <2> DEFINE n == count - (IF t THEN 1 ELSE 0)
  <2>1. count' = count + 1 /\ p_head' = Advance(p_head)
    BY <1>1, <1>4 DEF Irq
  <2>2. n \in 0 .. BUFFER_SIZE
    BY <1>2, <1>3, SizeType
  <2>3. p_head = (p_tail + n) % BUFFER_SIZE /\ p_tail + n + 1 = p_tail' + count' - (IF t THEN 1 ELSE 0)
    <3>1. /\ p_tail + count - (IF t THEN 1 ELSE 0) = p_tail + n
          /\ p_tail + n + 1 = p_tail' + count' - (IF t THEN 1 ELSE 0)
      BY <1>1, <1>3, <2>1
    <3>. QED
      BY <1>3, <3>1
  <2>4. p_head' = (p_tail + n + 1) % BUFFER_SIZE
    BY <1>3, <2>1, <2>2, <2>3, SlotIs
  <2>. QED
    BY <1>2, <1>3, <1>4, <2>1, <2>3, <2>4
<1>5. CASE ~HasRoom
  BY <1>1, <1>2, <1>3, <1>5 DEF Irq
<1>. QED
  BY <1>4, <1>5

(* A message that is not the handler's comes or goes.                       *)
LEMMA ClearSendKeeps ==
  ASSUME BInv, ClearSend \/ Echo
  PROVE  BInv' /\ \A w, t \in BOOLEAN : Counted(w, t) => Counted(w, t)'
<1>1. PICK s \in {OWN, WINMAN} :
        Enqueue(s) /\ UNCHANGED <<buf, p_head, p_tail, count, got, parted>>
  BY DEF ClearSend, Echo
<1>2. /\ queue' \in Seq(Source) /\ Len(queue') <= MAX_MESSAGE_COUNT
      /\ Notices' = Notices + (IF HasRoom /\ s = IRQ THEN 1 ELSE 0) /\ Notices \in Nat
  BY <1>1, EnqueueKeeps, QueueIs DEF BInv, Source
<1>3. Notices' = Notices
  BY <1>2 DEF IRQ, OWN, WINMAN
<1>4. BInv'
  BY <1>1, <1>2 DEF BInv, BTypeOK, Source
<1>. QED
  BY <1>1, <1>3, <1>4 DEF Counted

LEMMA ReceiveKeeps ==
  ASSUME BInv, NEW s, Receive(s)
  PROVE  /\ BInv' /\ s \in Source
         /\ s # IRQ => \A w, t \in BOOLEAN : Counted(w, t) => Counted(w, t)'
         /\ s = IRQ => (Counted(FALSE, FALSE) => Counted(TRUE, FALSE)')
<1>1. /\ queue # <<>> /\ Head(queue) = s /\ queue' = Tail(queue)
      /\ UNCHANGED <<buf, p_head, p_tail, count, got, parted>>
  BY DEF Receive
<1>2. queue \in Seq(Source) /\ Len(queue) \in Nat /\ Len(queue) <= MAX_MESSAGE_COUNT
  BY QueueIs DEF BInv, BTypeOK
<1>3. /\ queue' \in Seq(Source) /\ Len(queue') = Len(queue) - 1
      /\ Cardinality(NoticesIn(queue)) = Cardinality(NoticesIn(queue')) + (IF s = IRQ THEN 1 ELSE 0)
  BY <1>1, <1>2, NoticesTail
<1>4. s \in Source
  BY <1>1, <1>2, HeadTailProperties
<1>5. /\ Notices = Notices' + (IF s = IRQ THEN 1 ELSE 0) /\ Notices' \in Nat
  BY <1>3, NoticesAre, NoticesFinite
<1>6. BInv'
  BY <1>1, <1>2, <1>3, SizeType DEF BInv, BTypeOK, Source
<1>7. s # IRQ => Notices' = Notices
  <2>1. \A n \in Nat : n + 0 = n
    OBVIOUS
  <2>. QED
    BY <1>5, <2>1
<1>8. ASSUME s = IRQ, Counted(FALSE, FALSE) PROVE Counted(TRUE, FALSE)'
  BY <1>1, <1>5, <1>8 DEF Counted
<1>9. ASSUME s # IRQ, NEW w \in BOOLEAN, NEW t \in BOOLEAN, Counted(w, t) PROVE Counted(w, t)'
  BY <1>1, <1>7, <1>9 DEF Counted
<1>. QED
  BY <1>4, <1>6, <1>8, <1>9

LEMMA ZeroKeeps ==
  ASSUME BInv, Zero
  PROVE  BInv' /\ Counted(FALSE, FALSE)'
<1>1. /\ p_tail' = p_head /\ count' = 0 /\ parted' = Contains(queue, IRQ)
      /\ UNCHANGED <<buf, p_head, queue, got>>
  BY DEF Zero
<1>2. Notices' = Notices /\ (~parted' => Notices = 0)
  BY <1>1, QueueIs, NoticesAre, NoticesNone DEF BInv
<1>3. p_head \in Index /\ p_head \in Nat /\ p_head < BUFFER_SIZE /\ p_head < 2 * BUFFER_SIZE
  BY SizeType DEF BInv, BTypeOK, Index
<1>4. p_head % BUFFER_SIZE = p_head
  BY <1>3, SizeType, Rest
<1>5. BInv'
  <2>1. parted' \in BOOLEAN
    BY <1>1 DEF Contains
  <2>. QED
    BY <1>1, <2>1, SizeType DEF BInv, BTypeOK
<1>6. p_head' = (p_tail' + count' - 0) % BUFFER_SIZE
  BY <1>1, <1>3, <1>4
<1>. QED
  BY <1>1, <1>2, <1>5, <1>6 DEF Counted

LEMMA TakeKeeps ==
  ASSUME BInv, Take
  PROVE  BInv' /\ (Counted(TRUE, FALSE) => Counted(FALSE, TRUE)')
<1>1. got' = buf[p_tail] /\ p_tail' = Advance(p_tail) /\ UNCHANGED <<buf, p_head, count, queue, parted>>
  BY DEF Take
<1>2. p_tail \in Index /\ p_tail \in Nat
  BY DEF BInv, BTypeOK, Index
<1>3. BInv'
  BY <1>1, <1>2, AdvanceIs DEF BInv, BTypeOK
<1>4. ASSUME Counted(TRUE, FALSE), ~parted
      PROVE  count' = Notices' + 1 /\ p_head' = (p_tail' + count' - 1) % BUFFER_SIZE
  <2>1. /\ count = Notices + 1 /\ p_head = (p_tail + count - 0) % BUFFER_SIZE
        /\ count <= BUFFER_SIZE /\ Notices \in Nat
    BY <1>4, QueueIs DEF Counted, BInv
  <2>2. count \in 0 .. BUFFER_SIZE /\ count >= 1
    BY <2>1, SizeType
  <2>3. (p_tail + count) % BUFFER_SIZE = (Advance(p_tail) + (count - 1)) % BUFFER_SIZE
    BY <1>2, <2>2, SlotIs
  <2>4. p_tail' \in Nat /\ p_tail' + count' - 1 = Advance(p_tail) + (count - 1)
    BY <1>1, <1>2, <2>2, AdvanceIs DEF Index
  <2>5. p_tail + count - 0 = p_tail + count
    BY <1>2, <2>2
  <2>. QED
    BY <1>1, <2>1, <2>3, <2>4, <2>5, NoticesAre
<1>. QED
  BY <1>1, <1>3, <1>4 DEF Counted

LEMMA UncountKeeps ==
  ASSUME BInv, Uncount, Counted(FALSE, TRUE)
  PROVE  BInv' /\ Counted(FALSE, FALSE)'
<1>1. /\ count' = (count + WORD - 1) % WORD /\ got' = Blank
      /\ UNCHANGED <<buf, p_head, p_tail, queue, parted>>
  BY DEF Uncount
<1>2. count \in Nat /\ count < WORD /\ WORD \in Nat
  BY SizeType DEF BInv, BTypeOK
<1>3. count' \in 0 .. WORD - 1 /\ (count >= 1 => count' = count - 1)
  <2> DEFINE v == count + WORD - 1
  <2>1. v \in Nat /\ v < 2 * WORD /\ WORD >= 1
    BY <1>2
  <2> HIDE DEF v
  <2>2. v % WORD = IF v < WORD THEN v ELSE v - WORD
    BY <1>2, <2>1, Rest
  <2>3. count' = IF v < WORD THEN v ELSE v - WORD
    BY <1>1, <2>2 DEF v
  <2>. QED
    BY <1>2, <2>1, <2>3 DEF v
<1>4. Blank \in Byte
  <2>1. \E b \in Byte : TRUE
    BY ScanCodeAssumption DEF ScanCode
  <2>. QED
    BY <2>1 DEF Blank
<1>5. BTypeOK'
  BY <1>1, <1>3, <1>4 DEF BInv, BTypeOK
<1>6. Notices' = Notices /\ Notices \in Nat
  BY <1>1, NoticesAre, QueueIs DEF BInv
<1>7. ASSUME ~parted
      PROVE  /\ count' = Notices' /\ count' <= BUFFER_SIZE
             /\ p_head' = (p_tail' + count' - 0) % BUFFER_SIZE
  <2>1. /\ count = Notices + 1 /\ p_head = (p_tail + count - 1) % BUFFER_SIZE
        /\ count <= BUFFER_SIZE /\ p_tail \in Nat
    BY <1>7 DEF Counted, BInv, BTypeOK, Index
  <2>2. count' = count - 1
    BY <1>3, <1>6, <2>1
  <2>3. p_tail' + count' - 0 = p_tail + count - 1
    BY <1>1, <1>2, <2>1, <2>2
  <2>. QED
    BY <1>1, <1>2, <1>6, <2>1, <2>2, <2>3, SizeType
<1>. QED
  BY <1>1, <1>5, <1>7 DEF BInv, Counted

LEMMA StartBuffer == BInit => BInv /\ Counted(FALSE, FALSE)
<1> SUFFICES ASSUME BInit PROVE BInv /\ Counted(FALSE, FALSE)
  OBVIOUS
<1>1. /\ buf \in [Index -> {Blank}] /\ p_head = 0 /\ p_tail = 0 /\ count = 0
      /\ queue = <<>> /\ got = Blank /\ parted = FALSE
  BY DEF BInit
<1>2. Blank \in Byte
  <2>1. \E b \in Byte : TRUE
    BY ScanCodeAssumption DEF ScanCode
  <2>. QED
    BY <2>1 DEF Blank
<1>3. 0 \in Index /\ 0 \in 0 .. WORD - 1 /\ 0 <= BUFFER_SIZE
  BY SizeType DEF Index
<1>4. queue \in Seq({IRQ, OWN, WINMAN}) /\ Len(queue) <= MAX_MESSAGE_COUNT /\ Notices = 0
  <2>1. <<>> \in Seq(Source) /\ Len(<<>>) = 0
    OBVIOUS
  <2>2. Cardinality(NoticesIn(<<>>)) = 0
    BY <2>1, NoticesNone
  <2>3. Notices = 0
    BY <1>1, <2>2, NoticesAre
  <2>. QED
    BY <1>1, <2>1, <2>3, SizeType DEF Source
<1>5. BInv
  BY <1>1, <1>2, <1>3, <1>4 DEF BInv, BTypeOK
<1>6. 0 % BUFFER_SIZE = 0
  BY SizeType, Rest
<1>. QED
  BY <1>1, <1>4, <1>5, <1>6 DEF Counted

(***************************************************************************)
(* The keyboard.                                                            *)
(***************************************************************************)
KInv == BInv /\ KTypeOK /\ (~Clearing => Counted(pc = "take", pc = "count"))

LEMMA AfterType ==
  ASSUME want \in {"ack", "ack2", "key", "E0", "E1", "E1 third"}, NEW b
  PROVE  After(b)[1] \in {"clear", "command", "read"}
         /\ After(b)[2] \in {"ack", "ack2", "key", "E0", "E1", "E1 third"}
BY DEF After

LEMMA StartKeyboard == KInit => KInv
<1> SUFFICES ASSUME KInit PROVE KInv
  OBVIOUS
<1>1. BInv /\ Counted(FALSE, FALSE) /\ pc = "clear" /\ want = "ack" /\ owes = FALSE
  BY StartBuffer DEF KInit
<1>2. (pc = "take") = FALSE /\ (pc = "count") = FALSE
  BY <1>1
<1>. QED
  BY <1>1, <1>2 DEF KInv, KTypeOK, BInv

LEMMA KeyboardKeeps == KInv /\ [KNext]_kvars => KInv'
<1> SUFFICES ASSUME KInv, [KNext]_kvars PROVE KInv'
  OBVIOUS
<1>1. BInv /\ KTypeOK /\ (~Clearing => Counted(pc = "take", pc = "count"))
  BY DEF KInv
<1>2. ASSUME NEW b \in Byte, Irq(b), UNCHANGED <<pc, want>>, owes' \in BOOLEAN
      PROVE  KInv'
  <2>1. BInv'
    BY <1>1, <1>2, IrqKeeps
  <2>2. ~Clearing => Counted(pc = "take", pc = "count")'
    BY <1>1, <1>2, IrqCounted
  <2>. QED
    BY <1>1, <1>2, <2>1, <2>2 DEF KInv, KTypeOK, BInv, Clearing, Counted
<1>3. CASE irq1_handler
  BY <1>1, <1>2, <1>3, ScanCodeAssumption DEF irq1_handler, ScanCode, KTypeOK
<1>4. ASSUME ClearSend \/ Echo, UNCHANGED <<want, owes>>, pc' = pc \/ (pc = "clear" /\ pc' = "drain")
      PROVE  KInv'
  <2>1. BInv' /\ \A w, t \in BOOLEAN : Counted(w, t) => Counted(w, t)'
    BY <1>1, <1>4, ClearSendKeeps
  <2>. QED
    BY <1>1, <1>4, <2>1 DEF KInv, KTypeOK, BInv, Clearing, Counted
<1>5. CASE WindowManager \/ SendOwn
  <2>1. CASE WindowManager
    <3>1. ClearSend \/ Echo
      BY <2>1 DEF WindowManager
    <3>2. UNCHANGED <<want, owes>> /\ (pc' = pc \/ (pc = "clear" /\ pc' = "drain"))
      BY <2>1 DEF WindowManager
    <3>. QED
      BY <1>4, <3>1, <3>2
  <2>2. CASE SendOwn
    <3>1. ClearSend /\ UNCHANGED <<want, owes>> /\ pc = "clear" /\ pc' = "drain"
      BY <2>2 DEF SendOwn
    <3>. QED
      BY <1>4, <3>1
  <2>. QED
    BY <1>5, <2>1, <2>2
<1>6. ASSUME pc = "drain", NEW s, Receive(s), pc' \in {"drain", "zero"}, UNCHANGED <<want, owes>>
      PROVE  KInv'
  <2>1. BInv'
    BY <1>1, <1>6, ReceiveKeeps
  <2>. QED
    BY <1>1, <1>6, <2>1 DEF KInv, KTypeOK, BInv, Clearing
<1>7. CASE DrainOther \/ DrainOwn
  BY <1>6, <1>7 DEF DrainOther, DrainOwn
<1>8. CASE Empty
  <2>1. BInv' /\ Counted(FALSE, FALSE)' /\ pc' = "command" /\ UNCHANGED <<want, owes>>
    BY <1>1, <1>8, ZeroKeeps DEF Empty
  <2>. QED
    BY <1>1, <2>1 DEF KInv, KTypeOK, BInv, Counted
<1>9. CASE Command
  <2>1. /\ pc = "command" /\ owes' = TRUE /\ pc' = "read" /\ UNCHANGED <<bvars, want>>
        /\ UNCHANGED <<buf, p_head, p_tail, count, queue, got, parted>>
    BY <1>9 DEF Command, bvars
  <2>2. Counted(FALSE, FALSE)
    BY <1>1, <2>1 DEF Clearing, Counted
  <2>3. Notices' = Notices
    BY <2>1 DEF Notices
  <2>4. Counted(FALSE, FALSE)'
    BY <2>1, <2>2, <2>3 DEF Counted
  <2>5. BInv'
    BY <1>1, <2>1 DEF BInv, BTypeOK
  <2>. QED
    BY <1>1, <2>1, <2>4, <2>5 DEF KInv, KTypeOK, BInv, Counted
<1>10. CASE SkipOther
  <2>1. pc = "read" /\ Receive(WINMAN) /\ UNCHANGED <<pc, want, owes>> /\ WINMAN # IRQ
    BY <1>10 DEF SkipOther, WINMAN, IRQ
  <2>2. BInv' /\ \A w, t \in BOOLEAN : Counted(w, t) => Counted(w, t)'
    BY <1>1, <2>1, ReceiveKeeps
  <2>. QED
    BY <1>1, <2>1, <2>2 DEF KInv, KTypeOK, BInv, Clearing, Counted
<1>11. CASE Notified
  <2>1. pc = "read" /\ Receive(IRQ) /\ pc' = "take" /\ UNCHANGED <<want, owes>>
    BY <1>11 DEF Notified
  <2>2. Counted(FALSE, FALSE)
    BY <1>1, <2>1 DEF Clearing, Counted
  <2>3. BInv' /\ Counted(TRUE, FALSE)'
    BY <1>1, <2>1, <2>2, ReceiveKeeps
  <2>. QED
    BY <1>1, <2>1, <2>3 DEF KInv, KTypeOK, BInv, Counted
<1>12. CASE TakeByte
  <2>1. pc = "take" /\ Take /\ pc' = "count" /\ UNCHANGED <<want, owes>>
    BY <1>12 DEF TakeByte
  <2>2. Counted(TRUE, FALSE)
    BY <1>1, <2>1 DEF Clearing, Counted
  <2>3. BInv' /\ Counted(FALSE, TRUE)'
    BY <1>1, <2>1, <2>2, TakeKeeps
  <2>. QED
    BY <1>1, <2>1, <2>3 DEF KInv, KTypeOK, BInv, Counted
<1>13. CASE CountDown
  <2>1. pc = "count" /\ Uncount /\ pc' = After(got)[1] /\ want' = After(got)[2] /\ owes' = owes
    BY <1>13 DEF CountDown
  <2>2. Counted(FALSE, TRUE)
    BY <1>1, <2>1 DEF Clearing, Counted
  <2>3. BInv' /\ Counted(FALSE, FALSE)'
    BY <1>1, <2>1, <2>2, UncountKeeps
  <2>4. pc' \in {"clear", "command", "read"}
        /\ want' \in {"ack", "ack2", "key", "E0", "E1", "E1 third"}
    BY <1>1, <2>1, AfterType DEF KTypeOK
  <2>. QED
    BY <1>1, <2>1, <2>3, <2>4 DEF KInv, KTypeOK, BInv, Counted
<1>14. CASE UNCHANGED kvars
  <2>1. UNCHANGED <<buf, p_head, p_tail, count, queue, got, parted, pc, want, owes>>
    BY <1>14 DEF kvars, bvars
  <2>2. Notices' = Notices
    BY <2>1 DEF Notices
  <2>. QED
    BY <1>1, <2>1, <2>2 DEF KInv, KTypeOK, BInv, BTypeOK, Clearing, Counted
<1>. QED
  BY <1>3, <1>5, <1>7, <1>8, <1>9, <1>10, <1>11, <1>12, <1>13, <1>14 DEF KNext, Driver
(* The keyboard reads each byte once and in order, until one parts from its *)
(* notification: count and the two pointers, which irq1_handler,            *)
(* keyboard_read and keyboard_clear move at different times, are those of   *)
(* what is queued and stored.                                               *)
THEOREM KeyboardReadsOnce == KSpec => []Agree
<1>1. KInv => Agree
  BY DEF KInv, Agree
<1>. QED
  BY <1>1, StartKeyboard, KeyboardKeeps, PTL DEF KSpec
(***************************************************************************)
(* The mouse.                                                               *)
(***************************************************************************)
(* How many bytes are in the buffer and not yet taken, the i-th of them,    *)
(* and the place of a byte in its packet.                                   *)
Left == count - (IF mpc = "count" THEN 1 ELSE 0)
Unread(i) == buf[(p_tail + (i - 1)) % BUFFER_SIZE]
Place(b) == CASE b \in {Whole[1], Broken[1]} -> 1
              [] b \in {Whole[2], Broken[2]} -> 2
              [] b \in {Whole[3], Broken[3]} -> 3
              [] b \in {Whole[4], Broken[4]} -> 4
              [] OTHER -> 0
NOTHING == 9   \* no byte of which something is known

(* The place of the byte read last, if a message has begun with it, of the  *)
(* byte the driver has, and of the i-th one behind it.                      *)
Read == IF row \in 1 .. 3 THEN row ELSE NOTHING
Taken == IF mpc = "count" THEN Place(got) ELSE Read
At(i) == IF i = 0 THEN Taken ELSE Place(Unread(i))

(* From the i-th unread byte on, all bytes are of packets of len bytes: the *)
(* mouse has told that it has a wheel, and the driver knows or will know.   *)
Sure == fb /\ ~mistaken
Firm(i) == \/ Sure
           \/ mpc = "count" /\ got = "three"
           \/ \E m \in 1 .. i : Unread(m) = "three"

(* What may come behind the byte of place k if no byte is lost between,     *)
(* where packets have l bytes.                                              *)
Link(l, k, b, firm) ==
  \/ k = NOTHING
  \/ b \notin ToSet(Whole)
  \/ b = Whole[1] /\ k \in (IF firm THEN {0, l} ELSE {0, 3, 4})
  \/ k \in 1 .. 3 /\ b = Whole[k + 1]

(* The identity has been asked for.                                         *)
Asked == setup = Len(Script) /\ mpc \notin {"clear", "drain", "zero", "command"}

Phases ==
  /\ mwant \in {"ack", "ack2", "identity"} => row = 0
  /\ mwant = "first" /\ mpc # "post" => row = 0
  /\ mwant = "x" => row \in {1, EXCUSED}
  /\ mwant = "y" => row \in {2, EXCUSED}
  /\ mwant = "scroll" => fb /\ row \in {3, EXCUSED}
  /\ row # ODD
  /\ mwant = "ack2" => setup < Len(Script)
  /\ mpc \in {"clear", "drain", "zero"} => mwant = "ack"
  /\ mpc = "command" => mwant \in {"ack", "ack2"}
  /\ mpc = "post" => mwant = "first"
  /\ mwant \notin {"ack", "ack2"} => Asked
  /\ ~Asked => ~fb /\ ~mistaken /\ "three" \notin ToSet(answers)
  /\ answers # <<>> => part = 1
  /\ part <= len

Chained ==
  /\ mpc = "count" => Link(len, Read, got, Sure)
  /\ \A i \in 0 .. Left - 1 : Link(len, At(i), Unread(i + 1), Firm(i))
  /\ ~lost /\ answers = <<>> /\ part # 0 => Link(len, At(Left), Whole[part], Firm(Left))
  /\ ~Asked => ~Firm(Left)

Away == mpc \in {"drain", "zero"}
MInv ==
  /\ BInv /\ MTypeOK /\ Phases
  /\ ~Away => Counted(mpc = "take", mpc = "count")
  /\ ~Away /\ ~parted => Chained

LEMMA ScriptIs ==
  /\ Len(Script) \in Nat /\ Len(Script) >= 1
  /\ \A s \in 1 .. Len(Script) : Script[s] = "identity" <=> s = Len(Script)
<1> DEFINE W == {"start", "rate", "identity"}
           a == <<"start">> \o [i \in 1 .. RATES |-> "rate"]
<1>1. RATES \in Nat
  BY MouseAssumption
<1>2. /\ <<"start">> \in Seq(W) /\ <<"identity">> \in Seq(W)
      /\ [i \in 1 .. RATES |-> "rate"] \in Seq(W) /\ Len([i \in 1 .. RATES |-> "rate"]) = RATES
  <2>1. <<"start">> \in Seq(W) /\ <<"identity">> \in Seq(W)
    OBVIOUS
  <2>2. [i \in 1 .. RATES |-> "rate"] \in [1 .. RATES -> W]
    OBVIOUS
  <2>. QED
    BY <1>1, <2>1, <2>2, SeqDef, LenProperties
<1>3. /\ a \in Seq(W) /\ Len(a) = RATES + 1
      /\ \A s \in 1 .. RATES + 1 : a[s] = IF s <= 1 THEN "start" ELSE "rate"
  BY <1>1, <1>2, ConcatProperties
<1> HIDE DEF a
<1>4. /\ Script = a \o <<"identity">> /\ Len(Script) = RATES + 2
      /\ \A s \in 1 .. RATES + 2 : Script[s] = IF s <= RATES + 1 THEN a[s] ELSE "identity"
  <2>1. Script = a \o <<"identity">>
    BY DEF Script, a
  <2>. QED
    BY <1>1, <1>2, <1>3, <2>1, ConcatProperties
<1>. QED
  BY <1>1, <1>3, <1>4

LEMMA Bytes ==
  /\ Whole[1] = "p1" /\ Whole[2] = "p2" /\ Whole[3] = "p3" /\ Whole[4] = "p4"
  /\ Broken[1] = "q1" /\ Broken[2] = "q2" /\ Broken[3] = "q3" /\ Broken[4] = "q4"
  /\ ToSet(Whole) = {"p1", "p2", "p3", "p4"} /\ ToSet(Broken) = {"q1", "q2", "q3", "q4"}
BY DEF Whole, Broken, ToSet

LEMMA PlaceIs ==
  /\ \A j \in 1 .. 4 : Place(Whole[j]) = j /\ Place(Broken[j]) = j
  /\ \A b \in Answer : Place(b) = 0
  /\ \A b : First(b) => Place(b) = 1
<1>1. \A b : /\ b \in {"p1", "q1"} => Place(b) = 1
             /\ b \in {"p2", "q2"} => Place(b) = 2
             /\ b \in {"p3", "q3"} => Place(b) = 3
             /\ b \in {"p4", "q4"} => Place(b) = 4
             /\ b \in Answer => Place(b) = 0
  BY Bytes DEF Place, Answer
<1>. QED
  BY <1>1, Bytes DEF First

LEMMA LinkWeaker ==
  ASSUME NEW l, NEW k, NEW b, NEW f \in BOOLEAN, Link(l, k, b, f),
         NEW m, NEW j \in {NOTHING, k}, NEW g \in BOOLEAN, g => f, l = m \/ ~f, l \in {3, 4}
  PROVE  Link(m, j, b, g)
BY DEF Link

LEMMA FirmGrows ==
  ASSUME NEW n \in Nat, NEW i \in 0 .. n, Firm(i)
  PROVE  Firm(n)
BY DEF Firm

LEMMA FirmIs ==
  ASSUME NEW i \in Nat
  PROVE  /\ Firm(i) <=> Firm(0) \/ \E m \in 1 .. i : Unread(m) = "three"
         /\ Firm(i)' <=> Firm(0)' \/ \E m \in 1 .. i : Unread(m)' = "three"
         /\ Firm(i) \in BOOLEAN /\ Firm(i)' \in BOOLEAN
BY DEF Firm

(* Between the clears, count and the pointers tell what is unread.          *)
LEMMA LeftIs ==
  ASSUME BInv, ~parted, Counted(mpc = "take", mpc = "count")
  PROVE  /\ Left \in 0 .. BUFFER_SIZE /\ Left \in Nat /\ Left <= count
         /\ p_head = (p_tail + Left) % BUFFER_SIZE
         /\ mpc = "take" => Left >= 1
<1>1. /\ count = Notices + (IF mpc = "take" \/ mpc = "count" THEN 1 ELSE 0)
      /\ p_head = (p_tail + count - (IF mpc = "count" THEN 1 ELSE 0)) % BUFFER_SIZE
      /\ count <= BUFFER_SIZE /\ p_tail \in Nat /\ Notices \in Nat /\ count \in Nat
  BY QueueIs DEF Counted, BInv, BTypeOK, Index
<1>2. Left \in 0 .. BUFFER_SIZE /\ Left <= count
  BY <1>1, SizeType DEF Left
<1>3. p_tail + count - (IF mpc = "count" THEN 1 ELSE 0) = p_tail + Left
  BY <1>1 DEF Left
<1>. QED
  BY <1>1, <1>2, <1>3, SizeType DEF Left

(* The handler's byte goes behind the others.                               *)
LEMMA PushIs ==
  ASSUME BInv, ~parted, Counted(mpc = "take", mpc = "count"), count < BUFFER_SIZE, mpc' = mpc,
         NEW b \in Byte, Irq(b)
  PROVE  /\ Left' = Left + 1
         /\ Unread(Left)' = b
         /\ \A i \in 1 .. Left : Unread(i)' = Unread(i)
<1>1. Left \in Nat /\ p_head = (p_tail + Left) % BUFFER_SIZE /\ Left < BUFFER_SIZE
      /\ p_tail \in Index /\ count \in Nat
  BY LeftIs, SizeType DEF BInv, BTypeOK
<1>2. /\ buf \in [Index -> Byte] /\ p_head \in Index
      /\ buf' = [buf EXCEPT ![p_head] = b] /\ count' = count + 1 /\ p_tail' = p_tail
  BY DEF Irq, BInv, BTypeOK
<1>3. Left' = Left + 1
  BY <1>1, <1>2 DEF Left
<1>4. Unread(Left)' = b
  <2>1. Left' - 1 = Left
    BY <1>1, <1>3
  <2>2. (p_tail' + (Left' - 1)) % BUFFER_SIZE = p_head
    BY <1>1, <1>2, <2>1
  <2>. QED
    BY <1>2, <2>2 DEF Unread
<1>5. ASSUME NEW i \in 1 .. Left PROVE Unread(i)' = Unread(i)
  <2>1. i - 1 \in 0 .. BUFFER_SIZE /\ Left \in 0 .. BUFFER_SIZE
    BY <1>1, SizeType
  <2>2. /\ (p_tail + (i - 1)) % BUFFER_SIZE \in Index
        /\ (p_tail + (i - 1)) % BUFFER_SIZE
             = IF p_tail + (i - 1) < BUFFER_SIZE THEN p_tail + (i - 1) ELSE p_tail + (i - 1) - BUFFER_SIZE
        /\ p_head = IF p_tail + Left < BUFFER_SIZE THEN p_tail + Left ELSE p_tail + Left - BUFFER_SIZE
    BY <1>1, <2>1, SlotIs
  <2>3. (p_tail + (i - 1)) % BUFFER_SIZE # p_head
    BY <1>1, <2>2, SizeType DEF Index
  <2>. QED
    BY <1>2, <2>2, <2>3 DEF Unread
<1>. QED
  BY <1>3, <1>4, <1>5

(* The driver takes the first.                                              *)
LEMMA TakeIs ==
  ASSUME BInv, ~parted, Counted(mpc = "take", mpc = "count"), mpc = "take", mpc' = "count", Take
  PROVE  /\ Left \in Nat /\ Left >= 1 /\ Left' = Left - 1
         /\ got' = Unread(1)
         /\ \A i \in 1 .. Left' : Unread(i)' = Unread(i + 1)
<1>1. Left \in Nat /\ Left >= 1 /\ Left <= BUFFER_SIZE /\ p_tail \in Index /\ count \in Nat
  BY LeftIs, SizeType DEF BInv, BTypeOK
<1>2. got' = buf[p_tail] /\ p_tail' = Advance(p_tail) /\ buf' = buf /\ count' = count
  BY DEF Take
<1>3. Left' = Left - 1
  BY <1>1, <1>2 DEF Left
<1>4. got' = Unread(1)
  <2>1. (p_tail + (1 - 1)) % BUFFER_SIZE = p_tail
    <3>1. p_tail \in Nat /\ p_tail < BUFFER_SIZE /\ p_tail < 2 * BUFFER_SIZE /\ p_tail + (1 - 1) = p_tail
      BY <1>1, SizeType DEF Index
    <3>. QED
      BY <3>1, SizeType, Rest
  <2>. QED
    BY <1>2, <2>1 DEF Unread
<1>5. ASSUME NEW i \in 1 .. Left' PROVE Unread(i)' = Unread(i + 1)
  <2>1. i \in 0 .. BUFFER_SIZE /\ i >= 1 /\ (i + 1) - 1 = i
    BY <1>1, <1>3, SizeType
  <2>2. (p_tail + i) % BUFFER_SIZE = (Advance(p_tail) + (i - 1)) % BUFFER_SIZE
    BY <1>1, <2>1, SlotIs
  <2>. QED
    BY <1>2, <2>1, <2>2 DEF Unread
<1>. QED
  BY <1>1, <1>3, <1>4, <1>5

(* A step that leaves the unread bytes where they are, and of the byte      *)
(* before them tells no more than was known.                                *)
LEMMA Restated ==
  ASSUME MTypeOK, MTypeOK', Chained, Left \in Nat,
         buf' = buf, p_tail' = p_tail, Left' = Left,
         mpc' = "count" => Link(len', Read', got', Sure'),
         Taken' \in {NOTHING, Taken}, Firm(0)' => Firm(0),
         lost' \/ UNCHANGED <<lost, answers, part>>,
         len' = len \/ ~Firm(Left), ~Asked' => ~Asked
  PROVE  Chained'
<1>1. \A i : Unread(i)' = Unread(i)
  BY DEF Unread
<1>2. len \in {3, 4} /\ len' \in {3, 4} /\ lost \in BOOLEAN /\ lost' \in BOOLEAN
  BY DEF MTypeOK
<1>3. ASSUME NEW i \in 0 .. Left
      PROVE  /\ At(i)' \in {NOTHING, At(i)}
             /\ Firm(i)' => Firm(i)
             /\ Firm(i) \in BOOLEAN /\ Firm(i)' \in BOOLEAN
             /\ len' = len \/ ~Firm(i)
  <2>1. At(i)' \in {NOTHING, At(i)}
    BY <1>1 DEF At
  <2>2. (Firm(i)' => Firm(i)) /\ Firm(i) \in BOOLEAN /\ Firm(i)' \in BOOLEAN
    BY <1>1, FirmIs
  <2>. QED
    BY <2>1, <2>2, FirmGrows
<1>4. ASSUME NEW i \in 0 .. Left, NEW b, Link(len, At(i), b, Firm(i))
      PROVE  Link(len', At(i)', b, Firm(i)')
  BY <1>2, <1>3, <1>4, LinkWeaker
<1>5. ASSUME NEW i \in 0 .. Left' - 1
      PROVE  Link(len', At(i)', Unread(i + 1)', Firm(i)')
  <2>1. i \in 0 .. Left - 1 /\ i \in 0 .. Left
    OBVIOUS
  <2>2. Link(len, At(i), Unread(i + 1), Firm(i))
    BY <2>1 DEF Chained
  <2>. QED
    BY <1>1, <1>4, <2>1, <2>2
<1>6. ASSUME ~lost', answers' = <<>>, part' # 0
      PROVE  Link(len', At(Left)', Whole[part'], Firm(Left)')
  <2>1. Link(len, At(Left), Whole[part'], Firm(Left))
    BY <1>6 DEF Chained
  <2>2. \A n : n = Left => At(n)' = At(Left)' /\ Firm(n)' = Firm(Left)' /\ At(n) = At(Left) /\ Firm(n) = Firm(Left)
    OBVIOUS
  <2>3. PICK n : n = Left
    OBVIOUS
  <2>4. n \in 0 .. Left
    BY <2>3
  <2>. QED
    BY <1>4, <2>1, <2>2, <2>3, <2>4
<1>7. ~Asked' => ~Firm(Left)'
  <2>1. PICK n : n = Left
    OBVIOUS
  <2>2. n \in 0 .. Left /\ n = Left'
    BY <2>1
  <2>3. Firm(n)' => Firm(n)
    BY <1>3, <2>2
  <2>. QED
    BY <2>1, <2>2, <2>3 DEF Chained
<1>. QED
  BY <1>5, <1>6, <1>7 DEF Chained

(* What the mouse sends follows what it sent last.                          *)
LEMMA SendIs ==
  ASSUME MInv, irq12_handler
  PROVE  \E b \in Byte :
           /\ Irq(b) /\ lost' = (count >= BUFFER_SIZE) /\ UNCHANGED <<driver, len>>
           /\ answers' \in Seq(Answer) /\ part' \in 0 .. 4 /\ part' <= len
           /\ ToSet(answers') \subseteq ToSet(answers)
           /\ answers' # <<>> => part' = 1
           /\ b = "three" => "three" \in ToSet(answers)
           /\ b \in ToSet(Whole) => answers = <<>> /\ ~lost /\ part # 0 /\ b = Whole[part]
           /\ \A f \in BOOLEAN : part' # 0 => Link(len, Place(b), Whole[part'], f)
<1>1. /\ answers \in Seq(Answer) /\ part \in 0 .. 4 /\ len \in {3, 4} /\ part <= len
      /\ answers # <<>> => part = 1
  BY DEF MInv, MTypeOK, Phases
<1>2. lost' = (count >= BUFFER_SIZE) /\ UNCHANGED <<driver, len>>
  BY DEF irq12_handler
<1>3. CASE answers # <<>> /\ Irq(Head(answers)) /\ answers' = Tail(answers) /\ UNCHANGED part
  <2>1. /\ Head(answers) \in Answer /\ answers' \in Seq(Answer) /\ Len(answers') = Len(answers) - 1
        /\ \A i \in 1 .. Len(answers') : answers'[i] = answers[i + 1]
        /\ Head(answers) = answers[1] /\ Len(answers) \in Nat /\ Len(answers) >= 1
    BY <1>1, <1>3, HeadTailProperties, LenProperties, EmptySeq
  <2>2. /\ ToSet(answers) = {answers[i] : i \in 1 .. Len(answers)}
        /\ ToSet(answers') = {answers'[i] : i \in 1 .. Len(answers')}
    BY <1>1, <2>1, LenProperties DEF ToSet
  <2>3. ToSet(answers') \subseteq ToSet(answers) /\ Head(answers) \in ToSet(answers)
    BY <2>1, <2>2
  <2>4. Head(answers) \notin ToSet(Whole) /\ Place(Head(answers)) = 0 /\ Head(answers) \in Byte
    BY <2>1, Bytes, PlaceIs, MouseAssumption DEF Answer, MouseByte
  <2>5. part' = 1
    BY <1>1, <1>3
  <2>6. \A f \in BOOLEAN : Link(len, 0, Whole[1], f)
    BY DEF Link
  <2>. QED
    BY <1>1, <1>2, <1>3, <2>1, <2>3, <2>4, <2>5, <2>6
<1>4. CASE /\ answers = <<>> /\ part # 0 /\ Irq(IF lost THEN Broken[part] ELSE Whole[part])
           /\ part' = (part % len) + 1 /\ UNCHANGED answers
  <2> DEFINE b == IF lost THEN Broken[part] ELSE Whole[part]
  <2>1. part \in 1 .. 4 /\ part \in 1 .. len
    BY <1>1, <1>4
  <2>2. /\ b \in ToSet(Whole) \cup ToSet(Broken) /\ Place(b) = part
        /\ b \in ToSet(Whole) => ~lost /\ b = Whole[part]
        /\ b # "three" /\ b \in Byte
    <3>1. b \in {Whole[part], Broken[part]}
      OBVIOUS
    <3>2. Place(b) = part
      BY <2>1, PlaceIs
    <3>3. /\ Whole[part] \in {"p1", "p2", "p3", "p4"}
          /\ Broken[part] \in {"q1", "q2", "q3", "q4"}
      BY <2>1, Bytes
    <3>. QED
      BY <3>2, <3>3, Bytes, MouseAssumption DEF MouseByte
  <2>3. \A f \in BOOLEAN : Link(len, part, Whole[part'], f)
    <3>1. CASE part = len
      <4>1. part' = 1
        BY <1>1, <1>4, <3>1
      <4>. QED
        BY <1>1, <3>1, <4>1 DEF Link
    <3>2. CASE part # len
      <4>1. part' = part + 1 /\ part \in 1 .. 3
        BY <1>1, <1>4, <2>1, <3>2
      <4>. QED
        BY <4>1 DEF Link
    <3>. QED
      BY <3>1, <3>2
  <2>4. part' \in 0 .. 4 /\ part' <= len
    BY <1>1, <1>4, <2>1
  <2> HIDE DEF b
  <2>5. Irq(b)
    BY <1>4 DEF b
  <2>. QED
    BY <1>1, <1>2, <1>4, <2>2, <2>3, <2>4, <2>5
<1>. QED
  BY <1>3, <1>4 DEF irq12_handler

LEMMA HandlerKeeps ==
  ASSUME MInv, irq12_handler
  PROVE  MInv'
<1>1. BInv /\ MTypeOK /\ Phases /\ BTypeOK
  BY DEF MInv, BInv
<1>2. PICK b \in Byte :
           /\ Irq(b) /\ lost' = (count >= BUFFER_SIZE) /\ UNCHANGED <<driver, len>>
           /\ answers' \in Seq(Answer) /\ part' \in 0 .. 4 /\ part' <= len
           /\ ToSet(answers') \subseteq ToSet(answers)
           /\ answers' # <<>> => part' = 1
           /\ b = "three" => "three" \in ToSet(answers)
           /\ b \in ToSet(Whole) => answers = <<>> /\ ~lost /\ part # 0 /\ b = Whole[part]
           /\ \A f \in BOOLEAN : part' # 0 => Link(len, Place(b), Whole[part'], f)
  BY SendIs
<1>3. UNCHANGED <<mpc, mwant, setup, fb, mistaken, row, len, p_tail, got>>
  BY <1>2 DEF driver, Irq
<1>4. BInv'
  BY <1>1, <1>2, IrqKeeps
<1>5. MTypeOK'
  BY <1>1, <1>2, <1>3, <1>4 DEF MTypeOK, BInv
<1>6. Phases'
  BY <1>1, <1>2, <1>3 DEF Phases, Asked
<1>7. ASSUME ~Away PROVE Counted(mpc = "take", mpc = "count")'
  <2>1. Counted(mpc = "take", mpc = "count")
    BY <1>7 DEF MInv
  <2>2. \A w, t \in BOOLEAN : Counted(w, t) => Counted(w, t)'
    BY <1>1, <1>2, IrqCounted
  <2>. QED
    BY <1>3, <2>1, <2>2 DEF Counted
<1>8. ASSUME ~Away, ~parted' PROVE Chained'
  <2>1. ~parted /\ Chained /\ Counted(mpc = "take", mpc = "count")
    BY <1>2, <1>8 DEF MInv, Irq
  <2>2. Left \in Nat
    BY <1>1, <2>1, LeftIs
  <2>3. Read' = Read /\ Taken' = Taken /\ Firm(0)' = Firm(0) /\ Sure' = Sure /\ (Asked' <=> Asked)
    BY <1>3 DEF Read, Taken, Firm, Sure, Asked
  <2>4. mpc' = "count" => Link(len', Read', got', Sure')
    BY <1>3, <2>1, <2>3 DEF Chained
  <2>5. CASE ~(count < BUFFER_SIZE)
    <3>1. buf' = buf /\ count' = count /\ lost'
      <4>1. count \in Nat /\ count >= BUFFER_SIZE
        BY <1>1, <2>5, SizeType DEF BTypeOK
      <4>2. lost' = (count >= BUFFER_SIZE)
        BY <1>2
      <4>3. lost'
        BY <4>1, <4>2
      <4>. QED
        BY <1>2, <2>5, <4>3 DEF Irq
    <3>2. Left' = Left
      BY <1>3, <3>1 DEF Left
    <3>. QED
      BY <1>1, <1>3, <1>5, <2>1, <2>2, <2>3, <2>4, <3>1, <3>2, Restated
  <2>6. CASE count < BUFFER_SIZE
    <3>1. /\ Left' = Left + 1 /\ Unread(Left)' = b
          /\ \A i \in 1 .. Left : Unread(i)' = Unread(i)
      BY <1>1, <1>2, <1>3, <2>1, <2>6, PushIs
    <3>2. ASSUME NEW i \in 0 .. Left
          PROVE  At(i)' = At(i) /\ (Firm(i)' <=> Firm(i)) /\ Firm(i) \in BOOLEAN /\ Firm(i)' \in BOOLEAN
      <4>1. At(i)' = At(i)
        BY <2>2, <2>3, <3>1 DEF At
      <4>2. /\ Firm(i) <=> Firm(0) \/ \E m \in 1 .. i : Unread(m) = "three"
            /\ Firm(i)' <=> Firm(0)' \/ \E m \in 1 .. i : Unread(m)' = "three"
            /\ Firm(i) \in BOOLEAN /\ Firm(i)' \in BOOLEAN
        BY FirmIs
      <4>3. \A m \in 1 .. i : Unread(m)' = Unread(m)
        BY <2>2, <3>1
      <4>. QED
        BY <2>3, <4>1, <4>2, <4>3
    <3>3. PICK n : n = Left
      OBVIOUS
    <3>4. n \in Nat /\ n \in 0 .. n /\ Left' = n + 1 /\ Unread(n + 1)' = b
      BY <2>2, <3>1, <3>3 DEF Unread
    <3>5. ASSUME NEW i \in 0 .. Left' - 1
          PROVE  Link(len', At(i)', Unread(i + 1)', Firm(i)')
      <4>1. CASE i < n
        <5>1. i \in 0 .. Left - 1 /\ i \in 0 .. Left /\ i + 1 \in 1 .. Left
          BY <2>2, <3>3, <4>1
        <5>2. Link(len, At(i), Unread(i + 1), Firm(i))
          BY <2>1, <5>1 DEF Chained
        <5>3. Unread(i + 1)' = Unread(i + 1)
          BY <3>1, <5>1
        <5>. QED
          BY <1>3, <3>2, <5>1, <5>2, <5>3
      <4>2. CASE i = n
        <5>1. b \in ToSet(Whole) => Link(len, At(n), b, Firm(n))
          BY <1>2, <2>1, <3>3 DEF Chained
        <5>2. Link(len, At(n), b, Firm(n))
          BY <5>1 DEF Link
        <5>. QED
          BY <1>3, <3>2, <3>3, <3>4, <4>2, <5>2
      <4>. QED
        BY <3>4, <4>1, <4>2
    <3>6. ASSUME part' # 0
          PROVE  Link(len', At(Left)', Whole[part'], Firm(Left)')
      <4>1. At(n + 1)' = Place(b)
        BY <3>4 DEF At
      <4>2. Firm(n + 1)' \in BOOLEAN
        BY <3>4, FirmIs
      <4>3. Link(len, Place(b), Whole[part'], Firm(n + 1)')
        BY <1>2, <3>6, <4>2
      <4>. QED
        BY <1>3, <3>4, <4>1, <4>3
    <3>7. ASSUME ~Asked PROVE ~Firm(Left)'
      <4>1. ~Firm(n) /\ b # "three"
        BY <1>1, <1>2, <2>1, <3>3, <3>7 DEF Chained, Phases
      <4>2. Firm(n + 1)' <=> Firm(0)' \/ \E m \in 1 .. n + 1 : Unread(m)' = "three"
        BY <3>4, FirmIs
      <4>3. Firm(n) <=> Firm(0) \/ \E m \in 1 .. n : Unread(m) = "three"
        BY <3>4, FirmIs
      <4>4. \A m \in 1 .. n + 1 : m \in 1 .. n \/ m = n + 1
        BY <3>4
      <4>5. ~Firm(n + 1)'
        BY <2>3, <3>1, <3>3, <3>4, <4>1, <4>2, <4>3, <4>4
      <4>. QED
        BY <3>4, <4>5
    <3>. QED
      BY <2>3, <2>4, <3>5, <3>6, <3>7 DEF Chained
  <2>. QED
    BY <2>5, <2>6
<1>9. Away' = Away
  BY <1>3 DEF Away
<1>. QED
  BY <1>4, <1>5, <1>6, <1>7, <1>8, <1>9 DEF MInv

LEMMA StartMouse == BInit /\ MIdle => MInv
<1> SUFFICES ASSUME BInit, MIdle PROVE MInv
  OBVIOUS
<1>1. BInv /\ Counted(FALSE, FALSE) /\ count = 0 /\ parted = FALSE
  BY StartBuffer DEF BInit
<1>2. /\ mpc = "clear" /\ mwant = "ack" /\ setup = 1 /\ fb = FALSE /\ mistaken = FALSE /\ row = 0
      /\ answers = <<>> /\ part = 0 /\ len = 3 /\ lost = FALSE
  BY DEF MIdle
<1>3. answers \in Seq(Answer) /\ ToSet(answers) = {}
  BY <1>2 DEF ToSet
<1>4. MTypeOK
  <2>1. BTypeOK
    BY <1>1 DEF BInv
  <2>2. 1 \in 1 .. Len(Script)
    BY ScriptIs
  <2>3. setup \in 1 .. Len(Script) /\ row \in 0 .. ODD /\ part \in 0 .. 4 /\ len \in {3, 4}
    BY <1>2, <2>2 DEF ODD
  <2>4. fb \in BOOLEAN /\ mistaken \in BOOLEAN /\ lost \in BOOLEAN
    BY <1>2
  <2>5. /\ mpc \in {"clear", "drain", "zero", "command", "read", "take", "count", "post"}
        /\ mwant \in {"ack", "ack2", "identity", "first", "x", "y", "scroll"}
    BY <1>2
  <2>. QED
    BY <1>3, <2>1, <2>3, <2>4, <2>5 DEF MTypeOK
<1>5. Phases
  BY <1>2, <1>3 DEF Phases, ODD, EXCUSED
<1>6. (mpc = "take") = FALSE /\ (mpc = "count") = FALSE
  BY <1>2
<1>7. Left = 0
  BY <1>1, <1>2 DEF Left
<1>8. ~Firm(0)
  BY <1>2 DEF Firm, Sure
<1>9. Chained
  BY <1>2, <1>7, <1>8 DEF Chained
<1>. QED
  BY <1>1, <1>4, <1>5, <1>6, <1>9 DEF MInv

(* mouse_clear.                                                             *)
LEMMA ClearKeeps ==
  ASSUME MInv, MSendOwn \/ MDrainOther \/ MDrainOwn \/ MEmpty
  PROVE  MInv'
<1>1. BInv /\ MTypeOK /\ Phases
  BY DEF MInv
<1>2. ASSUME BInv', UNCHANGED <<mwant, setup, fb, mistaken, row, device>>, Away',
             mpc \in {"clear", "drain", "zero"}
      PROVE  MInv'
  <2>1. MTypeOK'
    BY <1>1, <1>2 DEF MTypeOK, BInv, device, Away
  <2>2. Phases'
    BY <1>1, <1>2 DEF Phases, Asked, device, Away
  <2>. QED
    BY <1>2, <2>1, <2>2 DEF MInv
<1>3. CASE MSendOwn
  <2>1. BInv'
    BY <1>1, <1>3, ClearSendKeeps DEF MSendOwn
  <2>. QED
    BY <1>2, <1>3, <2>1 DEF MSendOwn, Away
<1>4. CASE MDrainOther \/ MDrainOwn
  <2>1. PICK s : Receive(s)
    BY <1>4 DEF MDrainOther, MDrainOwn
  <2>2. BInv'
    BY <1>1, <2>1, ReceiveKeeps
  <2>3. /\ mpc = "drain" /\ mpc' \in {"drain", "zero"}
        /\ UNCHANGED <<mwant, setup, fb, mistaken, row, device>>
    BY <1>4 DEF MDrainOther, MDrainOwn, driver
  <2>. QED
    BY <1>2, <2>2, <2>3 DEF Away
<1>5. CASE MEmpty
  <2>1. /\ mpc = "zero" /\ Zero /\ mpc' = "command" /\ lost' = TRUE
        /\ UNCHANGED <<mwant, setup, fb, mistaken, row, answers, part, len>>
    BY <1>5 DEF MEmpty
  <2>2. BInv' /\ Counted(FALSE, FALSE)' /\ count' = 0
    BY <1>1, <2>1, ZeroKeeps DEF Zero
  <2>3. MTypeOK'
    BY <1>1, <2>1, <2>2 DEF MTypeOK, BInv
  <2>4. Phases' /\ ~Asked /\ ~Asked' /\ ~fb'
    BY <1>1, <2>1 DEF Phases, Asked
  <2>5. Left' = 0
    BY <2>1, <2>2 DEF Left
  <2>6. ~Firm(0)'
    BY <2>1, <2>4 DEF Firm, Sure
  <2>7. Chained'
    BY <2>1, <2>5, <2>6 DEF Chained
  <2>. QED
    BY <2>1, <2>2, <2>3, <2>4, <2>7 DEF MInv, Counted
<1>. QED
  BY <1>3, <1>4, <1>5

(* A command or its argument, the notification for a byte, and the end of a *)
(* message.                                                                 *)
LEMMA CommandKeeps ==
  ASSUME MInv, MCommand \/ MArgument \/ MNotified \/ Post
  PROVE  MInv'
<1>1. BInv /\ MTypeOK /\ Phases
  BY DEF MInv
<1>2. /\ mpc \in {"command", "read", "post"} /\ mpc' \in {"read", "take"}
      /\ UNCHANGED <<mwant, setup, fb, mistaken, buf, p_head, p_tail, count, got, parted>>
      /\ row' \in {row, 0}
  BY DEF MCommand, MArgument, MNotified, Post, bvars, Receive
<1>3. /\ BInv'
      /\ Counted(mpc = "take", mpc = "count") => Counted(mpc = "take", mpc = "count")'
  <2>1. CASE MNotified
    <3>1. mpc = "read" /\ mpc' = "take" /\ Receive(IRQ)
      BY <2>1 DEF MNotified
    <3>2. BInv' /\ (Counted(FALSE, FALSE) => Counted(TRUE, FALSE)')
      BY <1>1, <3>1, ReceiveKeeps
    <3>. QED
      BY <3>1, <3>2 DEF Counted
  <2>2. CASE MCommand \/ MArgument \/ Post
    <3>1. UNCHANGED queue /\ mpc' = "read"
      BY <2>2 DEF MCommand, MArgument, Post, bvars
    <3>2. Notices' = Notices
      BY <3>1 DEF Notices
    <3>3. BInv'
      BY <1>1, <1>2, <3>1 DEF BInv, BTypeOK
    <3>. QED
      BY <1>2, <3>1, <3>2, <3>3 DEF Counted
  <2>. QED
    BY <2>1, <2>2
<1>4. /\ answers' \in Seq(Answer) /\ part' \in 0 .. 4 /\ part' <= len' /\ len' \in {3, 4} /\ lost' \in BOOLEAN
      /\ answers' # <<>> => part' = 1
      /\ lost' \/ UNCHANGED <<lost, answers, part>>
      /\ len' = len \/ ~Asked
      /\ ~Asked' => ~Asked /\ "three" \notin ToSet(answers')
  <2>1. CASE MCommand
    <3>1. /\ mpc = "command" /\ mpc' = "read" /\ part' = 1 /\ lost' = TRUE /\ setup' = setup
          /\ answers' \in {<<"ACK">>, <<"other">>} \cup
               (IF Script[setup] = "identity" THEN {<<"ACK", "three">>, <<"ACK", "other">>} ELSE {})
          /\ len' \in IF Script[setup] = "identity" THEN {3, 4} ELSE {len}
      BY <2>1 DEF MCommand
    <3>2. answers' \in Seq(Answer)
      <4>1. /\ <<"ACK">> \in Seq(Answer) /\ <<"other">> \in Seq(Answer)
            /\ <<"ACK", "three">> \in Seq(Answer) /\ <<"ACK", "other">> \in Seq(Answer)
        BY DEF Answer
      <4>. QED
        BY <3>1, <4>1
    <3>3. ~Asked' => answers' \in {<<"ACK">>, <<"other">>}
      BY <1>1, <3>1, ScriptIs DEF MTypeOK, Asked
    <3>4. ToSet(<<"ACK">>) = {"ACK"} /\ ToSet(<<"other">>) = {"other"}
      BY DEF ToSet
    <3>5. ~Asked
      BY <3>1 DEF Asked
    <3>. QED
      BY <1>1, <3>1, <3>2, <3>3, <3>4, <3>5 DEF MTypeOK
  <2>2. CASE MArgument \/ MNotified \/ Post
    <3>1. UNCHANGED device /\ (mpc = "command" => mwant = "ack2")
      BY <2>2 DEF MArgument, MNotified, Post
    <3>2. UNCHANGED <<answers, part, len, lost>>
      BY <3>1 DEF device
    <3>3. Asked' <=> Asked
      BY <1>1, <1>2, <3>1 DEF Asked, Phases
    <3>. QED
      BY <1>1, <3>2, <3>3 DEF MTypeOK, Phases
  <2>. QED
    BY <2>1, <2>2
<1>5. MTypeOK'
  BY <1>1, <1>2, <1>3, <1>4 DEF MTypeOK, BInv, ODD, EXCUSED
<1>6. Phases'
  <2>1. row' = IF mpc = "post" THEN 0 ELSE row
    BY DEF MCommand, MArgument, MNotified, Post
  <2>2. Asked => Asked'
    BY <1>2 DEF Asked
  <2>3. ~Asked' => ~fb' /\ ~mistaken'
    BY <1>1, <1>2, <1>4 DEF Phases
  <2>. QED
    BY <1>1, <1>2, <1>4, <2>1, <2>2, <2>3 DEF Phases, ODD, EXCUSED
<1>7. ASSUME ~parted PROVE Chained'
  <2>1. Chained /\ Counted(mpc = "take", mpc = "count") /\ Left \in Nat /\ Left' = Left
    BY <1>1, <1>2, <1>7, LeftIs DEF MInv, Away, Left
  <2>2. Taken' \in {NOTHING, Taken}
    BY <1>2 DEF Taken, Read
  <2>3. Firm(0)' => Firm(0)
    BY <1>2 DEF Firm, Sure
  <2>4. len' = len \/ ~Firm(Left)
    BY <1>4, <2>1 DEF Chained
  <2>. QED
    BY <1>1, <1>2, <1>4, <1>5, <2>1, <2>2, <2>3, <2>4, Restated
<1>. QED
  BY <1>2, <1>3, <1>5, <1>6, <1>7 DEF MInv, Away

(* mouse_read takes a byte, ...                                             *)
LEMMA MouseTakes ==
  ASSUME MInv, MTake
  PROVE  MInv'
<1>1. BInv /\ MTypeOK /\ Phases
  BY DEF MInv
<1>2. mpc = "take" /\ Take /\ mpc' = "count" /\ UNCHANGED <<mwant, setup, fb, mistaken, row, device>>
  BY DEF MTake
<1>3. Counted(TRUE, FALSE)
  BY <1>2 DEF MInv, Away, Counted
<1>4. BInv' /\ Counted(FALSE, TRUE)'
  BY <1>1, <1>2, <1>3, TakeKeeps
<1>5. MTypeOK' /\ Phases' /\ (Asked' <=> Asked)
  BY <1>1, <1>2, <1>4 DEF MTypeOK, BInv, Phases, Asked, device
<1>6. ASSUME ~parted' PROVE Chained'
  <2>1. ~parted /\ Chained /\ Counted(mpc = "take", mpc = "count")
    BY <1>2, <1>6 DEF MInv, Away, Take
  <2>2. /\ Left \in Nat /\ Left >= 1 /\ Left' = Left - 1
        /\ got' = Unread(1)
        /\ \A i \in 1 .. Left' : Unread(i)' = Unread(i + 1)
    BY <1>1, <1>2, <2>1, TakeIs
  <2>3. UNCHANGED <<answers, part, len, lost>>
    BY <1>2 DEF device
  <2>4. Link(len', Read', got', Sure')
    <3>1. Link(len, At(0), Unread(0 + 1), Firm(0))
      BY <2>1, <2>2 DEF Chained
    <3>2. At(0) = Read /\ 0 + 1 = 1
      BY <1>2 DEF At, Taken
    <3>4. Firm(0) = Sure
      <4>1. Firm(0) <=> Sure
        BY <1>2 DEF Firm, Sure
      <4>2. Firm(0) \in BOOLEAN /\ Sure \in BOOLEAN
        BY FirmIs DEF Sure
      <4>. QED
        BY <4>1, <4>2
    <3>3. Read' = Read /\ Sure' = Sure
      BY <1>2 DEF Read, Sure
    <3>. QED
      BY <2>2, <2>3, <3>1, <3>2, <3>3, <3>4
  <2>5. ASSUME NEW i \in 0 .. Left'
        PROVE  At(i)' = At(i + 1) /\ Firm(i)' = Firm(i + 1)
    <3>1. At(i)' = At(i + 1)
      BY <1>2, <2>2 DEF At, Taken
    <3>2. /\ Firm(i)' <=> Firm(0)' \/ \E m \in 1 .. i : Unread(m)' = "three"
          /\ Firm(i + 1) <=> Firm(0) \/ \E m \in 1 .. i + 1 : Unread(m) = "three"
          /\ Firm(i)' \in BOOLEAN /\ Firm(i + 1) \in BOOLEAN
      <4>1. i \in Nat /\ i + 1 \in Nat
        BY <2>2
      <4>. QED
        BY <4>1, FirmIs
    <3>3. /\ Firm(0)' <=> Sure \/ Unread(1) = "three"
          /\ Firm(0) <=> Sure
      BY <1>2, <2>2 DEF Firm, Sure
    <3>4. ASSUME NEW m \in 1 .. i, Unread(m)' = "three" PROVE Firm(i + 1)
      BY <2>2, <3>2, <3>4
    <3>5. ASSUME NEW m \in 1 .. i + 1, Unread(m) = "three" PROVE Firm(i)'
      <4>1. CASE m = 1
        BY <3>2, <3>3, <3>5, <4>1
      <4>2. CASE m # 1
        <5>1. m - 1 \in 1 .. i /\ m - 1 \in 1 .. Left' /\ (m - 1) + 1 = m
          BY <2>2, <4>2
        <5>2. Unread(m - 1)' = "three"
          BY <2>2, <3>5, <5>1
        <5>. QED
          BY <3>2, <5>1, <5>2
      <4>. QED
        BY <4>1, <4>2
    <3>6. 1 \in 1 .. i + 1
      BY <2>2
    <3>. QED
      BY <3>1, <3>2, <3>3, <3>4, <3>5, <3>6
  <2>6. ASSUME NEW i \in 0 .. Left' - 1
        PROVE  Link(len', At(i)', Unread(i + 1)', Firm(i)')
    <3>1. i + 1 \in 0 .. Left - 1 /\ i + 1 \in 1 .. Left' /\ i \in 0 .. Left'
      BY <2>2
    <3>2. Link(len, At(i + 1), Unread((i + 1) + 1), Firm(i + 1))
      BY <2>1, <3>1 DEF Chained
    <3>3. Unread(i + 1)' = Unread((i + 1) + 1)
      BY <2>2, <3>1
    <3>. QED
      BY <2>3, <2>5, <3>1, <3>2, <3>3
  <2>7. PICK n : n = Left - 1
    OBVIOUS
  <2>8. n \in 0 .. Left' /\ n = Left' /\ n + 1 = Left
    BY <2>2, <2>7
  <2>9. At(n)' = At(n + 1) /\ Firm(n)' = Firm(n + 1)
    BY <2>5, <2>8
  <2>10. ASSUME ~lost', answers' = <<>>, part' # 0
         PROVE  Link(len', At(Left)', Whole[part'], Firm(Left)')
    BY <2>1, <2>3, <2>8, <2>9, <2>10 DEF Chained
  <2>11. ~Asked' => ~Firm(Left)'
    BY <1>5, <2>1, <2>8, <2>9 DEF Chained
  <2>. QED
    BY <2>4, <2>6, <2>10, <2>11 DEF Chained
<1>. QED
  BY <1>2, <1>4, <1>5, <1>6 DEF MInv, Away, Counted

(* ... and the driver does with it what it is for.                          *)
LEMMA MouseReads ==
  ASSUME MInv, MCountDown
  PROVE  MInv'
<1>1. BInv /\ MTypeOK /\ Phases
  BY DEF MInv
<1>2. /\ mpc = "count" /\ Uncount /\ UNCHANGED <<answers, part, len, lost>>
      /\ \/ Acknowledged \/ AcknowledgedTwice \/ Identified \/ SkipByte \/ FirstByte \/ NextByte
  BY DEF MCountDown, device
<1>3. Counted(FALSE, TRUE)
  BY <1>2 DEF MInv, Away, Counted
<1>4. BInv' /\ Counted(FALSE, FALSE)' /\ UNCHANGED <<buf, p_tail, parted>>
  BY <1>1, <1>2, <1>3, UncountKeeps DEF Uncount
<1>5. ~parted => Chained /\ Link(len, Read, got, Sure)
  BY <1>2 DEF MInv, Away, Chained
<1>6. ASSUME mpc' \in {"clear", "command", "read", "post"}, MTypeOK', Phases',
             row' \in 1 .. 3 => row' = Place(got),
             Sure' => Sure \/ got = "three", ~Asked' => ~Asked
      PROVE  MInv'
  <2>1. ASSUME ~parted PROVE Chained'
    <3>1. Chained /\ Counted(mpc = "take", mpc = "count")
      BY <1>2, <2>1 DEF MInv, Away
    <3>2. Left \in Nat
      BY <1>1, <2>1, <3>1, LeftIs
    <3>3. Left' = Left
      <4>1. count = Notices + 1 /\ count' = Notices' /\ Notices' = Notices /\ Notices \in Nat
        BY <1>1, <1>2, <1>3, <1>4, <2>1, NoticesAre, QueueIs DEF Counted, Uncount, BInv
      <4>. QED
        BY <1>2, <1>6, <4>1 DEF Left
    <3>4. Taken' \in {NOTHING, Taken}
      BY <1>2, <1>6 DEF Taken, Read
    <3>5. Firm(0)' => Firm(0)
      BY <1>2, <1>6 DEF Firm
    <3>. QED
      BY <1>1, <1>2, <1>4, <1>6, <3>1, <3>2, <3>3, <3>4, <3>5, Restated
  <2>. QED
    BY <1>4, <1>6, <2>1 DEF MInv, Away, Counted
<1>7. /\ BTypeOK' /\ setup \in 1 .. Len(Script) /\ fb \in BOOLEAN /\ mistaken \in BOOLEAN
      /\ len \in {3, 4} /\ row \in 0 .. ODD /\ answers \in Seq(Answer) /\ part \in 0 .. 4
      /\ lost \in BOOLEAN /\ part <= len /\ (answers # <<>> => part = 1)
  BY <1>1, <1>4 DEF BInv, MTypeOK, Phases
<1>8. ASSUME mwant \in {"ack", "ack2"}, setup < Len(Script), NextCommand
      PROVE  MInv'
  <2>1. /\ setup' = setup + 1 /\ mpc' = "clear" /\ mwant' = "ack" /\ UNCHANGED <<fb, mistaken, row>>
    BY <1>8 DEF NextCommand
  <2>2. setup' \in 1 .. Len(Script)
    BY <1>7, <1>8, <2>1, ScriptIs
  <2>3. MTypeOK'
    BY <1>2, <1>7, <2>1, <2>2 DEF MTypeOK
  <2>4. ~Asked /\ ~Asked'
    BY <1>7, <1>8, <2>1, ScriptIs DEF Asked
  <2>5. row = 0
    BY <1>1, <1>2, <1>8, <2>4 DEF Phases
  <2>6. Phases'
    BY <1>1, <1>2, <2>1, <2>4, <2>5 DEF Phases, ODD
  <2>. QED
    BY <1>6, <2>1, <2>3, <2>4, <2>5, <2>6 DEF Sure
<1>9. CASE Acknowledged
  <2>1. mwant = "ack" /\ row = 0
    BY <1>1, <1>9 DEF Acknowledged, Phases
  <2>2. CASE setup = Len(Script)
    <3>1. Script[setup] = "identity"
      BY <1>7, <2>2, ScriptIs
    <3>2. mpc' = "read" /\ mwant' = "identity" /\ UNCHANGED <<setup, fb, mistaken, row>>
      BY <1>9, <3>1 DEF Acknowledged
    <3>3. MTypeOK'
      BY <1>2, <1>7, <3>2 DEF MTypeOK
    <3>4. Asked'
      BY <2>2, <3>2 DEF Asked
    <3>5. Phases'
      BY <1>1, <1>2, <2>1, <3>2, <3>4 DEF Phases, ODD
    <3>. QED
      BY <1>6, <2>1, <3>2, <3>3, <3>4, <3>5 DEF Sure
  <2>3. CASE setup # Len(Script)
    <3>1. Script[setup] # "identity" /\ setup < Len(Script)
      BY <1>7, <2>3, ScriptIs
    <3>2. \/ NextCommand
          \/ mpc' = "command" /\ mwant' = "ack2" /\ UNCHANGED <<setup, fb, mistaken, row>>
      BY <1>9, <3>1 DEF Acknowledged
    <3>3. CASE mpc' = "command" /\ mwant' = "ack2" /\ UNCHANGED <<setup, fb, mistaken, row>>
      <4>1. MTypeOK'
        BY <1>2, <1>7, <3>3 DEF MTypeOK
      <4>2. ~Asked /\ ~Asked'
        BY <1>7, <3>1, <3>3 DEF Asked
      <4>3. Phases'
        BY <1>1, <1>2, <2>1, <3>1, <3>3, <4>2 DEF Phases, ODD
      <4>. QED
        BY <1>6, <2>1, <3>3, <4>1, <4>2, <4>3 DEF Sure
    <3>. QED
      BY <1>8, <2>1, <3>1, <3>2, <3>3
  <2>. QED
    BY <2>2, <2>3
<1>10. CASE AcknowledgedTwice
  <2>1. mwant = "ack2" /\ setup < Len(Script) /\ NextCommand
    BY <1>1, <1>10 DEF AcknowledgedTwice, Phases
  <2>. QED
    BY <1>8, <2>1
<1>11. ASSUME mwant \notin {"ack", "ack2"}, mpc' \in {"read", "post"}, setup' = setup
       PROVE  Asked /\ Asked'
  BY <1>1, <1>11 DEF Phases, Asked
<1>12. CASE Identified
  <2>1. /\ mwant = "identity" /\ mpc' = "read" /\ mwant' = "first" /\ UNCHANGED <<setup, row>>
        /\ fb' \in BOOLEAN /\ mistaken' = Later(got)
        /\ got # "three" => (fb' => Later(got))
    BY <1>12 DEF Identified
  <2>2. row = 0 /\ Asked /\ Asked'
    BY <1>1, <1>11, <2>1 DEF Phases
  <2>3. mistaken' \in BOOLEAN
    BY <2>1 DEF Later
  <2>4. MTypeOK'
    BY <1>2, <1>7, <2>1, <2>3 DEF MTypeOK
  <2>5. Phases'
    BY <1>1, <1>2, <2>1, <2>2 DEF Phases, ODD
  <2>6. Sure' => got = "three"
    BY <2>1 DEF Sure
  <2>. QED
    BY <1>6, <2>1, <2>2, <2>4, <2>5, <2>6
<1>13. CASE SkipByte
  <2>1. mwant = "first" /\ mpc' = "read" /\ UNCHANGED <<mwant, setup, fb, mistaken, row>>
    BY <1>13 DEF SkipByte
  <2>2. row = 0 /\ Asked /\ Asked'
    BY <1>1, <1>2, <1>11, <2>1 DEF Phases
  <2>3. MTypeOK'
    BY <1>2, <1>7, <2>1 DEF MTypeOK
  <2>4. Phases'
    BY <1>1, <1>2, <2>1, <2>2 DEF Phases, ODD
  <2>. QED
    BY <1>6, <2>1, <2>2, <2>3, <2>4 DEF Sure
<1>14. CASE FirstByte
  <2>1. /\ mwant = "first" /\ mpc' = "read" /\ mwant' = "x" /\ UNCHANGED <<setup, fb, mistaken>>
        /\ row' = IF First(got) THEN 1 ELSE EXCUSED
    BY <1>14 DEF FirstByte
  <2>2. Asked /\ Asked'
    BY <1>11, <2>1
  <2>3. row' \in {1, EXCUSED} /\ (row' \in 1 .. 3 => row' = Place(got))
    BY <2>1, PlaceIs DEF EXCUSED
  <2>4. MTypeOK'
    BY <1>2, <1>7, <2>1, <2>3 DEF MTypeOK, EXCUSED, ODD
  <2>5. Phases'
    BY <1>1, <1>2, <2>1, <2>2, <2>3 DEF Phases, ODD, EXCUSED
  <2>. QED
    BY <1>6, <2>1, <2>2, <2>3, <2>4, <2>5 DEF Sure
<1>15. CASE NextByte
  <2>1. /\ mwant \in {"x", "y", "scroll"} /\ UNCHANGED <<setup, fb, mistaken>>
        /\ row' = (IF Excused THEN EXCUSED ELSE IF got = Whole[row + 1] THEN row + 1 ELSE ODD)
        /\ \/ mwant = "x" /\ mwant' = "y" /\ mpc' = "read"
           \/ mwant = "y" /\ fb /\ mwant' = "scroll" /\ mpc' = "read"
           \/ (mwant = "scroll" \/ (mwant = "y" /\ ~fb)) /\ mwant' = "first" /\ mpc' = "post"
    BY <1>15 DEF NextByte
  <2>2. Asked /\ Asked'
    BY <1>11, <2>1
  <2>3. /\ mwant = "x" => row \in {1, EXCUSED}
        /\ mwant = "y" => row \in {2, EXCUSED}
        /\ mwant = "scroll" => fb /\ row \in {3, EXCUSED}
    BY <1>1 DEF Phases
  <2>4. \/ row' = EXCUSED
        \/ row \in 1 .. 3 /\ got = Whole[row + 1] /\ row' = row + 1
    <3>1. CASE Excused
      BY <2>1, <3>1
    <3>2. CASE ~Excused
      <4>1. ~parted /\ row \notin {EXCUSED, ODD} /\ got \in ToSet(Whole) /\ (fb => ~mistaken /\ len # 3)
        BY <3>2 DEF Excused
      <4>2. row \in 1 .. 3 /\ (row = 3 => fb)
        BY <2>1, <2>3, <4>1
      <4>3. Read = row /\ (fb => Sure) /\ Sure \in BOOLEAN
        BY <4>1, <4>2 DEF Read, Sure
      <4>4. \/ got = Whole[1] /\ row \in (IF Sure THEN {0, len} ELSE {0, 3, 4})
            \/ got = Whole[row + 1]
        BY <1>5, <4>1, <4>2, <4>3 DEF Link, NOTHING
      <4>5. got = Whole[row + 1]
        BY <1>7, <4>1, <4>2, <4>3, <4>4
      <4>. QED
        BY <2>1, <3>2, <4>2, <4>5
    <3>. QED
      BY <3>1, <3>2
  <2>5. row' \in 0 .. ODD /\ row' # ODD /\ (row' \in 1 .. 3 => row' = Place(got))
    BY <2>4, PlaceIs DEF EXCUSED, ODD
  <2>6. MTypeOK'
    BY <1>2, <1>7, <2>1, <2>5 DEF MTypeOK
  <2>7. Phases'
    BY <1>1, <1>2, <2>1, <2>2, <2>3, <2>4, <2>5 DEF Phases, ODD, EXCUSED
  <2>. QED
    BY <1>6, <2>1, <2>2, <2>5, <2>6, <2>7 DEF Sure
<1>. QED
  BY <1>2, <1>9, <1>10, <1>12, <1>13, <1>14, <1>15

LEMMA MouseKeeps == MInv /\ [MNext]_mvars => MInv'
<1> SUFFICES ASSUME MInv, [MNext]_mvars PROVE MInv'
  OBVIOUS
<1>1. CASE MNext
  BY <1>1, HandlerKeeps, ClearKeeps, CommandKeeps, MouseTakes, MouseReads DEF MNext, MouseDriver
<1>2. CASE UNCHANGED mvars
  <2>1. UNCHANGED <<buf, p_head, p_tail, count, queue, got, parted>>
        /\ UNCHANGED <<mpc, mwant, setup, fb, mistaken, row>>
        /\ UNCHANGED <<answers, part, len, lost>>
    BY <1>2 DEF mvars, bvars, driver, device
  <2>2. Notices' = Notices
    BY <2>1 DEF Notices
  <2>3. BInv' = BInv /\ MTypeOK' = MTypeOK /\ Phases' = Phases /\ Away' = Away
    BY <2>1 DEF BInv, BTypeOK, MTypeOK, Phases, Asked, Away
  <2>4. Chained' = Chained
    BY <2>1 DEF Chained, Left, Read, Taken, At, Unread, Firm, Sure, Asked
  <2>. QED
    BY <2>1, <2>2, <2>3, <2>4 DEF MInv, Counted
<1>. QED
  BY <1>1, <1>2

(* The mouse reads each byte once and in order, as the keyboard does:       *)
(* mouse_clear, mouse_read and irq12_handler (mouse.c 106-144) move count   *)
(* and the two pointers at different times.                                 *)
THEOREM MouseReadsOnce == MSpec => []MAgree
<1>1. MInit => MInv
  <2>1. MInit => BInit /\ MIdle
    BY DEF MInit, MIdle
  <2>. QED
    BY <2>1, StartMouse
<1>2. MInv => MAgree
  BY DEF MInv, MAgree, Away
<1>. QED
  BY <1>1, <1>2, MouseKeeps, PTL DEF MSpec

(* What mouse_bottom sends to the window manager as one movement (mouse.c   *)
(* 72-87) is the bytes of one packet in their order, wherever the driver    *)
(* begins in the stream, whatever the handler drops for want of room and    *)
(* whatever mouse_clear throws away, with the excuses PacketsWhole names.   *)
THEOREM MovementIsWhole == MSpec => []PacketsWhole
<1>1. MInit => MInv
  <2>1. MInit => BInit /\ MIdle
    BY DEF MInit, MIdle
  <2>. QED
    BY <2>1, StartMouse
<1>2. MInv => PacketsWhole
  BY DEF MInv, Phases, PacketsWhole
<1>. QED
  BY <1>1, <1>2, MouseKeeps, PTL DEF MSpec

(***************************************************************************)
(* The two together, as the run examines them.                              *)
(***************************************************************************)
TInv ==
  /\ examined = "keyboard" => KInv
  /\ examined = "mouse" => MInv

LEMMA TerminalKeeps == TInv /\ [TNext]_tvars => TInv'
<1> SUFFICES ASSUME TInv, [TNext]_tvars PROVE TInv'
  OBVIOUS
<1>1. CASE KNext /\ KeyboardStep /\ UNCHANGED examined
  BY <1>1, KeyboardKeeps DEF TInv, KeyboardStep
<1>2. CASE MNext /\ MouseStep /\ UNCHANGED examined
  BY <1>2, MouseKeeps DEF TInv, MouseStep
<1>3. CASE CNext /\ ConsoleStep /\ UNCHANGED examined
  BY <1>3 DEF TInv, ConsoleStep
<1>4. CASE UNCHANGED tvars
  <2>1. UNCHANGED <<kvars, driver, device, examined>>
    BY <1>4 DEF tvars
  <2>2. UNCHANGED mvars
    BY <2>1 DEF mvars, kvars
  <2>. QED
    BY <2>1, <2>2, KeyboardKeeps, MouseKeeps DEF TInv
<1>. QED
  BY <1>1, <1>2, <1>3, <1>4 DEF TNext

(* Each byte of the keyboard, and of the mouse, is read once and in order,  *)
(* in the specification the run checks.                                     *)
THEOREM DriversReadOnce == TSpec => []BytesReadOnce
<1>1. TInit => TInv
  <2>1. TInit => KInit /\ BInit /\ MIdle
    BY DEF TInit, KInit
  <2>. QED
    BY <2>1, StartKeyboard, StartMouse DEF TInv
<1>2. TInv => BytesReadOnce
  BY DEF TInv, KInv, MInv, Agree, MAgree, Away, BytesReadOnce
<1>. QED
  BY <1>1, <1>2, TerminalKeeps, PTL DEF TSpec

(***************************************************************************)
(* The console.                                                             *)
(***************************************************************************)
(* The rows are 16 apart.  Without that the step back from below the last   *)
(* row could end above the first.                                           *)
ScreenType == x \in Int /\ y \in Int /\ y % 16 = 12
Inv == ScreenType /\ CursorOnScreen

(* A tab goes to the next stop, at most 64 to the right, and stops are      *)
(* multiples of 64 from the left edge, hence of the 8 of a glyph.           *)
LEMMA TabStops ==
  ASSUME NEW c \in Int, c >= 4, c % 8 = 4
  PROVE  Tab(c) \in Int /\ Tab(c) > c /\ Tab(c) <= c + 64 /\ Tab(c) % 8 = 4
<1> DEFINE d == (c - 4) % 64
           q == (c - 4) \div 64
<1>1. c - 4 = 64 * q + d /\ d \in 0 .. 63 /\ q \in Int
  OBVIOUS
<1>2. Tab(c) = 4 + 64 * q + 64
  BY <1>1 DEF Tab
<1>3. (4 + 64 * q + 64) % 8 = 4
  <2>1. \A k \in Int : (8 * k + 4) % 8 = 4
    OBVIOUS
  <2>2. 4 + 64 * q + 64 = 8 * (8 * q + 8) + 4 /\ 8 * q + 8 \in Int
    BY <1>1
  <2>. QED
    BY <2>1, <2>2
<1>. QED
  BY <1>1, <1>2, <1>3 DEF Tab

(* Before it wraps, the cursor is at most one column outside.               *)
LEMMA OneColumn ==
  ASSUME Inv, NEW c \in Char
  PROVE  /\ Across(c) \in Int /\ Across(c) % 8 = 4
         /\ -4 <= Across(c) /\ Across(c) <= xRes - 4
         /\ Down(c) \in Int /\ 12 <= Down(c) /\ Down(c) <= yRes
         /\ Down(c) % 16 = 12
         /\ Down(c) # y => 4 <= Across(c) /\ Across(c) < xRes - 4
<1>1. /\ x \in Int /\ y \in Int /\ x % 8 = 4 /\ 4 <= x /\ x <= xRes - 12
      /\ 28 <= y /\ y <= yRes - 16 /\ xRes \in Nat /\ yRes \in Nat
  BY ScreenAssumption DEF Inv, ScreenType, CursorOnScreen
<1>2. Tab(x) \in Int /\ Tab(x) > x /\ Tab(x) % 8 = 4
  BY <1>1, TabStops
<1>3. /\ (x - 8) % 8 = 4 /\ (x + 8) % 8 = 4 /\ 4 % 8 = 4
      /\ y % 16 = 12 /\ (y - 16) % 16 = 12 /\ (y + 16) % 16 = 12 /\ 28 % 16 = 12
  BY <1>1 DEF Inv, ScreenType
<1>4. CASE c = "t"
  BY <1>1, <1>2, <1>3, <1>4 DEF Across, Down
<1>5. CASE c # "t"
  BY <1>1, <1>3, <1>5 DEF Across, Down, Char
<1>. QED
  BY <1>4, <1>5

(* One step out to the side wraps to the far column and the next or the     *)
(* last line; one step out up or down is taken back.                        *)
LEMMA WrapsInside ==
  ASSUME Inv, NEW c \in Char, Cursor(c)
  PROVE  Inv'
<1> DEFINE a == Across(c)
           b == Down(c)
<1>1. /\ a \in Int /\ a % 8 = 4 /\ -4 <= a /\ a <= xRes - 4
      /\ b \in Int /\ 12 <= b /\ b <= yRes
      /\ b % 16 = 12
      /\ b # y => 4 <= a /\ a < xRes - 4
  BY OneColumn
<1>2. x' = WrapX(a) /\ y' = KeepY(WrapY(a, b))
  BY DEF Cursor
<1>3. /\ xRes \in Nat /\ xRes >= 16 /\ xRes % 8 = 0 /\ yRes \in Nat /\ yRes >= 44
      /\ y \in Int /\ 28 <= y /\ y <= yRes - 16
  BY ScreenAssumption DEF Inv, ScreenType, CursorOnScreen
<1> HIDE DEF a, b
<1>4. x' \in Int /\ 4 <= x' /\ x' + 8 <= xRes - 4 /\ x' % 8 = 4
  BY <1>1, <1>2, <1>3 DEF WrapX
<1>5. WrapY(a, b) \in Int /\ 12 <= WrapY(a, b) /\ WrapY(a, b) <= yRes
      /\ WrapY(a, b) % 16 = 12
  BY <1>1, <1>3 DEF WrapY
<1>6. y' \in Int /\ 28 <= y' /\ y' + 16 <= yRes /\ y' % 16 = 12
  BY <1>2, <1>3, <1>5 DEF KeepY
<1>. QED
  BY <1>4, <1>6 DEF Inv, ScreenType, CursorOnScreen

(* Only the scan moves the cursor.                                          *)
LEMMA StepKeeps ==
  ASSUME Inv, [CNext]_cvars
  PROVE  Inv'
<1>1. CASE Scan
  BY <1>1, WrapsInside DEF Scan, ScanOver
<1>2. CASE UNCHANGED <<x, y>>
  BY <1>2 DEF Inv, ScreenType, CursorOnScreen
<1>3. CASE \E w \in Writer : Putc(w)
  BY <1>2, <1>3 DEF Putc, Load, StoreChar, MovePointer, LoadEnd, StoreEnd, dvars
<1>. QED
  BY <1>1, <1>2, <1>3 DEF CNext, VideoDriver, Spin, Begin, ScanEnd, Reset, cvars, dvars

(* video.c never draws outside the screen or over the title bar.            *)
THEOREM CursorKept == CSpec => []CursorOnScreen
<1>1. CInit => Inv
  BY ScreenAssumption DEF CInit, Inv, ScreenType, CursorOnScreen
<1>2. Inv /\ [CNext]_cvars => Inv'
  BY StepKeeps
<1>3. Inv => CursorOnScreen
  BY DEF Inv
<1>. QED
  BY <1>1, <1>2, <1>3, PTL DEF CSpec

(***************************************************************************)
(* The text.  As long as nothing has met (~cut), one writer at most is      *)
(* inside putc, and Base is how many characters were shown before the ones  *)
(* that the buffer now holds: character i of the buffer is number Base + i. *)
(***************************************************************************)
Base == Len(shown) - From
Held(n) == \A i \in 0 .. n - 1 : mem[i] = Base + i + 1
Quiet == \A w \in Writer : wpc[w] = "out"
Alone == \A v, w \in Writer : wpc[v] # "out" /\ wpc[w] # "out" => v = w
InOrder == shown \in Seq(Nat) /\ shown = [i \in 1 .. Len(shown) |-> i]

TextType ==
  /\ puts \in Nat /\ puts <= EARLY + PUTS
  /\ mem \in [Cell -> Int] /\ pointer \in Nat /\ tmp \in Nat
  /\ wpc \in [Writer -> {"out", "loaded", "stored", "moved", "put", "ending"}]
  /\ reg \in [Writer -> Nat] /\ char \in [Writer -> Nat]
  /\ vpc \in {"wait", "scan", "reset"}

(* The driver reads what it has not passed yet.                             *)
DriverAt == vpc # "wait" => tmp <= Len(shown) /\ tmp <= pointer /\ pointer > 0

(* What a writer has done of its three stores.                              *)
Before(w) == /\ reg[w] = pointer /\ char[w] = puts /\ Base + pointer = puts - 1
             /\ Held(pointer)
Tallied == Base + pointer = puts
WriterAt(w) ==
  /\ reg[w] <= pointer
  /\ wpc[w] \in {"loaded", "stored"} => Before(w)
  /\ wpc[w] = "stored" => mem[pointer] = puts
  /\ wpc[w] = "moved" => Tallied /\ pointer = reg[w] + 1 /\ char[w] = puts /\ Held(reg[w])
  /\ wpc[w] \in {"put", "ending"} => Tallied /\ Held(pointer)
  /\ wpc[w] = "ending" => reg[w] = pointer
AtRest == Tallied /\ Held(pointer) /\ (pointer # 0 => mem[pointer] = END)

TextInv ==
  /\ TextType /\ InOrder /\ DriverAt /\ Alone
  /\ Quiet => AtRest
  /\ \A w \in Writer : wpc[w] # "out" => WriterAt(w)
CutInv == cut \in BOOLEAN /\ (~cut => TextInv)

LEMMA InsideQuiet == Inside = {} <=> Quiet
  BY DEF Inside, Quiet

(* The one more character shown is the next one.                            *)
LEMMA NextShown ==
  ASSUME NEW s \in Seq(Nat), s = [i \in 1 .. Len(s) |-> i], NEW c, c = Len(s) + 1
  PROVE  /\ Append(s, c) \in Seq(Nat) /\ Len(Append(s, c)) = Len(s) + 1
         /\ Append(s, c) = [i \in 1 .. Len(Append(s, c)) |-> i]
<1>1. Len(s) \in Nat /\ c \in Nat
  OBVIOUS
<1>2. Append(s, c) \in Seq(Nat) /\ Len(Append(s, c)) = Len(s) + 1
  BY <1>1
<1>3. \A i \in 1 .. Len(s) + 1 : Append(s, c)[i] = i
  <2> SUFFICES ASSUME NEW i \in 1 .. Len(s) + 1 PROVE Append(s, c)[i] = i
    OBVIOUS
  <2>1. CASE i = Len(s) + 1
    BY <1>1, <2>1
  <2>2. CASE i # Len(s) + 1
    <3>1. i \in 1 .. Len(s) /\ s[i] = i
      BY <1>1, <2>2
    <3>. QED
      BY <1>1, <3>1
  <2>. QED
    BY <2>1, <2>2
<1>4. Append(s, c) = [i \in 1 .. Len(s) + 1 |-> Append(s, c)[i]]
  BY <1>2
<1>. QED
  BY <1>2, <1>3, <1>4

LEMMA TextStarts == CInit => CutInv
<1> SUFFICES ASSUME CInit PROVE CutInv
  OBVIOUS
<1>1. Len(shown) = 0 /\ From = 0 /\ Base = 0
  BY DEF CInit, Base, From
<1>2. TextType
  BY TextAssumption DEF CInit, TextType, Cell, END, GARBAGE
<1>3. InOrder
  BY <1>1 DEF CInit, InOrder
<1>4. AtRest
  BY <1>1, TextAssumption DEF CInit, AtRest, Tallied, Held, Cell, END
<1>. QED
  BY <1>2, <1>3, <1>4 DEF CInit, CutInv, TextInv, DriverAt, Alone

(* What a step of a writer leaves alone.                                    *)
LEMMA WriterFrame ==
  ASSUME TextInv, UNCHANGED dvars
  PROVE  Base' = Base /\ InOrder' /\ Base \in Nat
<1>1. Len(shown) \in Nat /\ tmp \in Nat
  BY DEF TextInv, InOrder, TextType
<1>. QED
  BY <1>1 DEF TextInv, InOrder, DriverAt, TextType, Base, From, dvars

(* putc begins with nobody inside.                                          *)
LEMMA LoadKeeps ==
  ASSUME TextInv, NEW w \in Writer, Load(w), Inside = {}
  PROVE  TextInv'
<1>1. Base' = Base /\ InOrder' /\ Base \in Nat /\ mem' = mem /\ pointer' = pointer
  BY WriterFrame DEF Load
<1>2. Quiet /\ AtRest
  BY InsideQuiet DEF TextInv
<1>3. TextType'
  BY TextAssumption DEF TextInv, TextType, Load, dvars
<1>4. \A v \in Writer : wpc'[v] = IF v = w THEN "loaded" ELSE "out"
  BY <1>2 DEF TextInv, TextType, Load, Quiet
<1>5. Alone' /\ ~Quiet'
  BY <1>4 DEF Alone, Quiet
<1>6. DriverAt'
  BY DEF TextInv, DriverAt, Load, dvars
<1>7. reg'[w] = pointer /\ char'[w] = puts + 1 /\ puts' = puts + 1
  BY DEF TextInv, TextType, Load
<1>8. WriterAt(w)'
  BY <1>1, <1>2, <1>4, <1>7 DEF WriterAt, Before, Held, AtRest, Tallied, TextInv, TextType
<1>. QED
  BY <1>1, <1>3, <1>4, <1>5, <1>6, <1>8 DEF TextInv

(* The writer inside is the only one, and the others stay outside.          *)
LEMMA OthersOut ==
  ASSUME TextInv, NEW w \in Writer, wpc[w] # "out",
         NEW p \in {"out", "loaded", "stored", "moved", "put", "ending"},
         wpc' = [wpc EXCEPT ![w] = p]
  PROVE  /\ \A v \in Writer : wpc'[v] = IF v = w THEN p ELSE "out"
         /\ Alone' /\ (Quiet' <=> p = "out")
         /\ WriterAt(w)
<1>1. \A v \in Writer : wpc'[v] = IF v = w THEN p ELSE "out"
  BY DEF TextInv, TextType, Alone
<1>. QED
  BY <1>1 DEF TextInv, Alone, Quiet

LEMMA StoreCharKeeps ==
  ASSUME TextInv, NEW w \in Writer, StoreChar(w)
  PROVE  TextInv'
<1> DEFINE p == IF wpc[w] = "moved" THEN "put" ELSE "stored"
<1>1. /\ Base' = Base /\ InOrder' /\ Base \in Nat
      /\ pointer' = pointer /\ reg' = reg /\ char' = char /\ puts' = puts
  BY WriterFrame DEF StoreChar
<1>2. /\ \A v \in Writer : wpc'[v] = IF v = w THEN p ELSE "out"
      /\ Alone' /\ ~Quiet' /\ WriterAt(w)
  <2>1. /\ wpc[w] # "out" /\ wpc' = [wpc EXCEPT ![w] = p]
        /\ p \in {"out", "loaded", "stored", "moved", "put", "ending"}
    BY DEF StoreChar
  <2> HIDE DEF p
  <2>2. p # "out"
    BY DEF p
  <2>. QED
    BY <2>1, <2>2, OthersOut
<1>3. /\ pointer \in Nat /\ puts \in Nat /\ puts <= EARLY + PUTS
      /\ reg[w] \in Nat /\ char[w] \in Nat /\ wpc[w] \in {"loaded", "moved"}
      /\ mem \in [Cell -> Int]
  BY DEF TextInv, TextType, StoreChar
<1>4. char[w] = puts /\ reg[w] < puts /\ Held(reg[w]) /\ puts = Base + reg[w] + 1
  BY <1>1, <1>2, <1>3 DEF WriterAt, Before, Tallied
<1>5. reg[w] \in Cell
  BY <1>3, <1>4, TextAssumption DEF Cell
<1>6. \A i \in Cell : mem'[i] = IF i = reg[w] THEN puts ELSE mem[i]
  BY <1>3, <1>4 DEF StoreChar
<1>7. TextType'
  <2>1. mem' \in [Cell -> Int]
    <3>1. mem' = [i \in Cell |-> mem'[i]]
      BY <1>3 DEF StoreChar
    <3>. QED
      BY <1>3, <1>6, <3>1
  <2>2. wpc' \in [Writer -> {"out", "loaded", "stored", "moved", "put", "ending"}]
    BY DEF TextInv, TextType, StoreChar
  <2>3. UNCHANGED <<puts, pointer, tmp, reg, char, vpc>>
    BY DEF StoreChar, dvars
  <2>. QED
    BY <2>1, <2>2, <2>3 DEF TextInv, TextType
<1>8. DriverAt'
  BY DEF TextInv, DriverAt, StoreChar, dvars
<1>9. \A i \in 0 .. reg[w] - 1 : mem'[i] = Base + i + 1
  <2> SUFFICES ASSUME NEW i \in 0 .. reg[w] - 1 PROVE mem'[i] = Base + i + 1
    OBVIOUS
  <2>1. i \in Cell /\ i # reg[w]
    BY <1>3, <1>5, TextAssumption DEF Cell
  <2>. QED
    BY <1>4, <1>6, <2>1 DEF Held
<1>10. mem'[reg[w]] = Base + reg[w] + 1
  BY <1>4, <1>5, <1>6
<1>11. WriterAt(w)'
  <2>1. CASE wpc[w] = "loaded"
    <3>1. wpc'[w] = "stored" /\ Before(w)
      BY <1>2, <2>1 DEF WriterAt
    <3>. QED
      BY <1>1, <1>3, <1>4, <1>9, <1>10, <3>1 DEF WriterAt, Before, Held
  <2>2. CASE wpc[w] = "moved"
    <3>1. wpc'[w] = "put" /\ Tallied /\ pointer = reg[w] + 1
      BY <1>2, <2>2 DEF WriterAt
    <3>2. \A i \in 0 .. pointer - 1 : mem'[i] = Base + i + 1
      BY <1>3, <1>9, <1>10, <3>1
    <3>. QED
      BY <1>1, <1>3, <3>1, <3>2 DEF WriterAt, Tallied, Held
  <2>. QED
    BY <1>3, <2>1, <2>2
<1>. QED
  BY <1>1, <1>2, <1>7, <1>8, <1>11 DEF TextInv

LEMMA MovePointerKeeps ==
  ASSUME TextInv, NEW w \in Writer, MovePointer(w)
  PROVE  TextInv'
<1> DEFINE p == IF wpc[w] = "stored" THEN "put" ELSE "moved"
<1>1. /\ Base' = Base /\ InOrder' /\ Base \in Nat
      /\ mem' = mem /\ reg' = reg /\ char' = char /\ puts' = puts
      /\ pointer' = reg[w] + 1
  BY WriterFrame DEF MovePointer
<1>2. /\ \A v \in Writer : wpc'[v] = IF v = w THEN p ELSE "out"
      /\ Alone' /\ ~Quiet' /\ WriterAt(w)
  <2>1. /\ wpc[w] # "out" /\ wpc' = [wpc EXCEPT ![w] = p]
        /\ p \in {"out", "loaded", "stored", "moved", "put", "ending"}
    BY DEF MovePointer
  <2> HIDE DEF p
  <2>2. p # "out"
    BY DEF p
  <2>. QED
    BY <2>1, <2>2, OthersOut
<1>3. /\ pointer \in Nat /\ puts \in Nat /\ reg[w] \in Nat
      /\ wpc[w] \in {"loaded", "stored"} /\ Before(w)
  BY <1>2 DEF TextInv, TextType, MovePointer, WriterAt
<1>4. TextType'
  <2>1. wpc' \in [Writer -> {"out", "loaded", "stored", "moved", "put", "ending"}]
    BY DEF TextInv, TextType, MovePointer
  <2>2. pointer' \in Nat
    BY <1>1, <1>3
  <2>3. UNCHANGED <<puts, mem, tmp, reg, char, vpc>>
    BY DEF MovePointer, dvars
  <2>. QED
    BY <2>1, <2>2, <2>3 DEF TextInv, TextType
<1>5. DriverAt'
  BY <1>1, <1>3 DEF TextInv, TextType, DriverAt, MovePointer, dvars, Before
<1>6. WriterAt(w)'
  <2>1. CASE wpc[w] = "loaded"
    <3>1. wpc'[w] = "moved"
      BY <1>2, <2>1
    <3>. QED
      BY <1>1, <1>3, <3>1 DEF WriterAt, Before, Tallied, Held
  <2>2. CASE wpc[w] = "stored"
    <3>1. wpc'[w] = "put" /\ mem[pointer] = puts
      BY <1>2, <2>2 DEF WriterAt
    <3>2. \A i \in 0 .. pointer : mem[i] = Base + i + 1
      BY <1>1, <1>3, <3>1 DEF Before, Held
    <3>. QED
      BY <1>1, <1>3, <3>1, <3>2 DEF WriterAt, Before, Tallied, Held
  <2>. QED
    BY <1>3, <2>1, <2>2
<1>. QED
  BY <1>1, <1>2, <1>4, <1>5, <1>6 DEF TextInv

LEMMA LoadEndKeeps ==
  ASSUME TextInv, NEW w \in Writer, LoadEnd(w)
  PROVE  TextInv'
<1>1. /\ Base' = Base /\ InOrder'
      /\ mem' = mem /\ pointer' = pointer /\ char' = char /\ puts' = puts
  BY WriterFrame DEF LoadEnd
<1>2. /\ \A v \in Writer : wpc'[v] = IF v = w THEN "ending" ELSE "out"
      /\ Alone' /\ ~Quiet' /\ WriterAt(w)
  BY OthersOut DEF LoadEnd
<1>3. TextType' /\ DriverAt'
  BY DEF TextInv, TextType, DriverAt, LoadEnd, dvars
<1>4. reg'[w] = pointer /\ pointer \in Nat /\ wpc[w] = "put"
  BY DEF TextInv, TextType, LoadEnd
<1>5. WriterAt(w)'
  BY <1>1, <1>2, <1>4 DEF WriterAt, Tallied, Held
<1>. QED
  BY <1>1, <1>2, <1>3, <1>5 DEF TextInv

LEMMA StoreEndKeeps ==
  ASSUME TextInv, NEW w \in Writer, StoreEnd(w)
  PROVE  TextInv'
<1>1. /\ Base' = Base /\ InOrder' /\ Base \in Nat
      /\ pointer' = pointer /\ puts' = puts
  BY WriterFrame DEF StoreEnd
<1>2. /\ \A v \in Writer : wpc'[v] = "out"
      /\ Alone' /\ WriterAt(w)
  BY OthersOut DEF StoreEnd
<1>3. /\ pointer \in Nat /\ puts \in Nat /\ puts <= EARLY + PUTS
      /\ mem \in [Cell -> Int] /\ wpc[w] = "ending"
  BY DEF TextInv, TextType, StoreEnd
<1>4. reg[w] = pointer /\ Tallied /\ Held(pointer)
  BY <1>2, <1>3 DEF WriterAt
<1>5. pointer \in Cell
  BY <1>1, <1>3, <1>4, TextAssumption DEF Cell, Tallied
<1>6. mem' = [mem EXCEPT ![pointer] = END]
  BY <1>4 DEF StoreEnd
<1>7. TextType'
  <2>1. mem' \in [Cell -> Int]
    <3>1. mem' = [i \in Cell |-> mem'[i]]
      BY <1>3, <1>6
    <3>2. \A i \in Cell : mem'[i] \in Int
      BY <1>3, <1>6 DEF END
    <3>. QED
      BY <3>1, <3>2
  <2>2. wpc' \in [Writer -> {"out", "loaded", "stored", "moved", "put", "ending"}]
    BY DEF TextInv, TextType, StoreEnd
  <2>3. reg' \in [Writer -> Nat] /\ char' \in [Writer -> Nat]
    BY DEF TextInv, TextType, StoreEnd
  <2>4. UNCHANGED <<puts, pointer, tmp, vpc>>
    BY DEF StoreEnd, dvars
  <2>. QED
    BY <2>1, <2>2, <2>3, <2>4 DEF TextInv, TextType
<1>8. DriverAt'
  BY DEF TextInv, DriverAt, StoreEnd, dvars
<1>9. \A i \in 0 .. pointer - 1 : mem'[i] = mem[i]
  BY <1>3, <1>6
<1>10. AtRest'
  BY <1>1, <1>3, <1>4, <1>5, <1>6, <1>9 DEF AtRest, Tallied, Held
<1>. QED
  BY <1>1, <1>2, <1>7, <1>8, <1>10 DEF TextInv

(* The driver finds text.                                                   *)
LEMMA BeginKeeps ==
  ASSUME TextInv, Begin
  PROVE  TextInv'
<1>1. Len(shown) \in Nat /\ pointer \in Nat
  BY DEF TextInv, TextType, InOrder
<1>2. Base' = Base
  BY DEF Begin, Base, From
<1>3. TextType' /\ InOrder' /\ Alone' /\ (Quiet' <=> Quiet)
  BY DEF TextInv, TextType, InOrder, Alone, Quiet, Begin, wvars
<1>4. DriverAt'
  BY <1>1 DEF Begin, DriverAt
<1>5. AtRest' <=> AtRest
  BY <1>2 DEF AtRest, Tallied, Held, Begin, wvars
<1>6. \A w \in Writer : wpc'[w] = wpc[w] /\ (WriterAt(w)' <=> WriterAt(w))
  BY <1>2 DEF WriterAt, Before, Tallied, Held, Begin, wvars
<1>. QED
  BY <1>3, <1>4, <1>5, <1>6 DEF TextInv

(* What the scan reads before it meets the end or a writer is the character *)
(* that follows those already shown.                                        *)
LEMMA ReadsNext ==
  ASSUME TextInv, vpc = "scan", mem[tmp] # END,
         \A w \in Writer : wpc[w] # "out" => reg[w] > tmp
  PROVE  tmp < pointer /\ mem[tmp] = Len(shown) + 1
<1>1. /\ tmp \in Nat /\ pointer \in Nat /\ Len(shown) \in Nat
      /\ tmp <= pointer /\ pointer > 0 /\ Base = Len(shown) - tmp
  BY DEF TextInv, TextType, InOrder, DriverAt, Base, From
<1>2. CASE Quiet
  <2>1. Held(pointer) /\ mem[pointer] = END
    BY <1>1, <1>2 DEF TextInv, AtRest
  <2>. QED
    BY <1>1, <2>1 DEF Held
<1>3. CASE ~Quiet
  <2>1. PICK w \in Writer : wpc[w] # "out"
    BY <1>3 DEF Quiet
  <2>2. /\ reg[w] \in Nat /\ reg[w] > tmp /\ reg[w] <= pointer
        /\ wpc[w] \in {"loaded", "stored", "moved", "put", "ending"}
    BY <2>1 DEF TextInv, TextType, WriterAt
  <2>3. Held(reg[w]) \/ Held(pointer)
    BY <2>1, <2>2 DEF TextInv, WriterAt, Before
  <2>. QED
    BY <1>1, <2>2, <2>3 DEF Held
<1>. QED
  BY <1>2, <1>3

LEMMA ScanKeeps ==
  ASSUME TextInv, ~cut, Scan, ~cut'
  PROVE  TextInv'
<1>1. /\ vpc = "scan" /\ tmp' = tmp + 1 /\ mem[tmp] # END
      /\ shown' = Append(shown, mem[tmp])
      /\ UNCHANGED <<wvars, mem, pointer, vpc>>
  BY DEF Scan, ScanOver
<1>2. /\ tmp \in Nat /\ pointer \in Nat /\ Len(shown) \in Nat
      /\ tmp <= Len(shown) /\ reg \in [Writer -> Nat]
      /\ shown \in Seq(Nat) /\ shown = [i \in 1 .. Len(shown) |-> i]
  BY <1>1 DEF TextInv, TextType, InOrder, DriverAt
<1>3. \A w \in Writer : wpc[w] # "out" => reg[w] > tmp
  <2>1. ~ \E w \in Inside : reg[w] <= tmp
    BY DEF Scan, ScanOver
  <2>. QED
    BY <1>2, <2>1 DEF Inside
<1>4. tmp < pointer /\ mem[tmp] = Len(shown) + 1
  BY <1>1, <1>3, ReadsNext
<1>5. InOrder' /\ Len(shown') = Len(shown) + 1
  BY <1>1, <1>2, <1>4, NextShown DEF InOrder
<1>6. Base' = Base
  BY <1>1, <1>2, <1>5 DEF Base, From
<1>7. TextType' /\ Alone' /\ (Quiet' <=> Quiet)
  BY <1>1, <1>2 DEF TextInv, TextType, Alone, Quiet, wvars
<1>8. DriverAt'
  BY <1>1, <1>2, <1>4, <1>5 DEF DriverAt
<1>9. AtRest' <=> AtRest
  BY <1>1, <1>6 DEF AtRest, Tallied, Held, wvars
<1>10. \A w \in Writer : wpc'[w] = wpc[w] /\ (WriterAt(w)' <=> WriterAt(w))
  BY <1>1, <1>6 DEF WriterAt, Before, Tallied, Held, wvars
<1>. QED
  BY <1>5, <1>7, <1>8, <1>9, <1>10 DEF TextInv

LEMMA ScanEndKeeps ==
  ASSUME TextInv, ScanEnd
  PROVE  TextInv'
<1>1. Base' = Base
  BY DEF ScanEnd, Base, From
<1>2. TextType' /\ InOrder' /\ DriverAt' /\ Alone' /\ (Quiet' <=> Quiet)
  BY DEF TextInv, TextType, InOrder, DriverAt, Alone, Quiet, ScanEnd, wvars
<1>3. AtRest' <=> AtRest
  BY <1>1 DEF AtRest, Tallied, Held, ScanEnd, wvars
<1>4. \A w \in Writer : wpc'[w] = wpc[w] /\ (WriterAt(w)' <=> WriterAt(w))
  BY <1>1 DEF WriterAt, Before, Tallied, Held, ScanEnd, wvars
<1>. QED
  BY <1>2, <1>3, <1>4 DEF TextInv

(* The pointer is set back when all of the buffer has been shown.           *)
LEMMA ResetKeeps ==
  ASSUME TextInv, ~cut, Reset, ~cut'
  PROVE  TextInv'
<1>1. /\ vpc = "reset" /\ vpc' = "wait" /\ pointer' = 0 /\ pointer = tmp
      /\ Inside = {} /\ UNCHANGED <<wvars, mem, tmp, x, y, shown>>
  BY DEF Reset
<1>2. Quiet /\ AtRest /\ Len(shown) \in Nat /\ tmp \in Nat
  BY <1>1, InsideQuiet DEF TextInv, TextType, InOrder
<1>3. Len(shown) = puts
  BY <1>1, <1>2 DEF AtRest, Tallied, Base, From
<1>4. AtRest'
  BY <1>1, <1>2, <1>3 DEF AtRest, Tallied, Held, Base, From, wvars
<1>5. TextType' /\ InOrder' /\ DriverAt' /\ Alone' /\ Quiet'
  BY <1>1, <1>2 DEF TextInv, TextType, InOrder, DriverAt, Alone, Quiet, wvars
<1>. QED
  BY <1>4, <1>5 DEF TextInv, Quiet

(* A putc or a step of the driver that meets nothing keeps the text.        *)
LEMMA CutStepKeeps ==
  ASSUME CutInv, [CNext]_cvars
  PROVE  CutInv'
<1>1. cut' \in BOOLEAN /\ (cut => cut')
  <2>1. CASE \E w \in Writer : Putc(w)
    <3>1. cut' = cut \/ cut' = (cut \/ Inside # {})
      BY <2>1 DEF Putc, Load, StoreChar, MovePointer, LoadEnd, StoreEnd
    <3>. QED
      BY <3>1 DEF CutInv
  <2>2. CASE VideoDriver
    <3>1. \/ cut' = cut
          \/ cut' = (cut \/ \E w \in Inside : reg[w] <= tmp)
          \/ cut' = (cut \/ Inside # {} \/ pointer # tmp)
      BY <2>2 DEF VideoDriver, Spin, Begin, Scan, ScanOver, ScanEnd, Reset, cvars
    <3>. QED
      BY <3>1 DEF CutInv
  <2>3. CASE UNCHANGED cvars
    BY <2>3 DEF CutInv, cvars
  <2>. QED
    BY <2>1, <2>2, <2>3 DEF CNext
<1> SUFFICES ASSUME ~cut' PROVE TextInv'
  BY <1>1 DEF CutInv
<1>2. ~cut /\ TextInv
  BY <1>1 DEF CutInv
<1>3. CASE \E w \in Writer : Putc(w)
  <2>1. PICK w \in Writer : Putc(w)
    BY <1>3
  <2>2. CASE Load(w)
    <3>1. Inside = {}
      BY <2>2 DEF Load
    <3>. QED
      BY <1>2, <2>2, <3>1, LoadKeeps
  <2>3. CASE StoreChar(w)
    BY <1>2, <2>3, StoreCharKeeps
  <2>4. CASE MovePointer(w)
    BY <1>2, <2>4, MovePointerKeeps
  <2>5. CASE LoadEnd(w)
    BY <1>2, <2>5, LoadEndKeeps
  <2>6. CASE StoreEnd(w)
    BY <1>2, <2>6, StoreEndKeeps
  <2>. QED
    BY <2>1, <2>2, <2>3, <2>4, <2>5, <2>6 DEF Putc
<1>4. CASE UNCHANGED cvars
  BY <1>2, <1>4 DEF TextInv, TextType, InOrder, DriverAt, Alone, Quiet, AtRest, WriterAt,
    Before, Tallied, Held, Base, From, cvars, wvars, dvars
<1>5. CASE VideoDriver
  <2>1. CASE Spin
    BY <1>4, <2>1 DEF Spin
  <2>2. CASE Begin
    BY <1>2, <2>2, BeginKeeps
  <2>3. CASE Scan
    BY <1>2, <2>3, ScanKeeps
  <2>4. CASE ScanEnd
    BY <1>2, <2>4, ScanEndKeeps
  <2>5. CASE Reset
    BY <1>2, <2>5, ResetKeeps
  <2>. QED
    BY <1>5, <2>1, <2>2, <2>3, <2>4, <2>5 DEF VideoDriver
<1>. QED
  BY <1>3, <1>4, <1>5 DEF CNext

(* The characters of the buffer are the ones that follow those shown.       *)
LEMMA TextInvShows ==
  ASSUME TextInv
  PROVE  /\ Quiet => shown \o Ahead = Numbers /\ (pointer # 0 => mem[pointer] = END)
         /\ shown = SubSeq(Numbers, 1, Len(shown))
<1> DEFINE n == Len(shown)
<1>1. /\ n \in Nat /\ pointer \in Nat /\ tmp \in Nat /\ puts \in Nat
      /\ shown \in Seq(Nat) /\ shown = [i \in 1 .. n |-> i]
  BY DEF TextInv, TextType, InOrder
<1>2. From \in Nat /\ From <= pointer /\ Base = n - From
  BY <1>1 DEF TextInv, DriverAt, From, Base
<1>3. n <= puts
  <2>1. CASE Quiet
    BY <1>1, <1>2, <2>1 DEF TextInv, AtRest, Tallied
  <2>2. CASE ~Quiet
    <3>1. PICK w \in Writer : wpc[w] # "out"
      BY <2>2 DEF Quiet
    <3>2. wpc[w] \in {"loaded", "stored", "moved", "put", "ending"} /\ WriterAt(w)
      BY <3>1 DEF TextInv, TextType
    <3>3. Base + pointer = puts \/ Base + pointer = puts - 1
      BY <3>2 DEF WriterAt, Before, Tallied
    <3>. QED
      BY <1>1, <1>2, <3>3
  <2>. QED
    BY <2>1, <2>2
<1>4. Numbers \in Seq(Nat) /\ Len(Numbers) = puts /\ \A i \in 1 .. puts : Numbers[i] = i
  BY <1>1 DEF Numbers
<1>5. shown = SubSeq(Numbers, 1, n)
  BY <1>1, <1>3, <1>4
<1>6. ASSUME Quiet
      PROVE  shown \o Ahead = Numbers /\ (pointer # 0 => mem[pointer] = END)
  <2>1. Tallied /\ Held(pointer) /\ (pointer # 0 => mem[pointer] = END)
    BY <1>6 DEF TextInv, AtRest
  <2>2. pointer - From = puts - n
    BY <1>1, <1>2, <2>1 DEF Tallied
  <2>3. \A i \in 1 .. puts - n : mem[From + i - 1] = n + i
    BY <1>1, <1>2, <2>1, <2>2 DEF Held
  <2>4. Ahead = [i \in 1 .. puts - n |-> n + i]
    BY <2>2, <2>3 DEF Ahead
  <2>5. Ahead \in Seq(Nat) /\ Len(Ahead) = puts - n
        /\ \A i \in 1 .. puts - n : Ahead[i] = n + i
    BY <1>1, <1>3, <2>4
  <2> HIDE DEF n
  <2>6. /\ shown \o Ahead \in Seq(Nat) /\ Len(shown \o Ahead) = puts
        /\ \A i \in 1 .. puts : (shown \o Ahead)[i] = i
    <3>1. \A i \in 1 .. n : shown[i] = i
      BY <1>1
    <3>. QED
      BY <1>1, <1>3, <2>5, <3>1 DEF n
  <2>7. ASSUME NEW s \in Seq(Nat), Len(s) = puts, \A i \in 1 .. puts : s[i] = i
        PROVE  s = Numbers
    BY <2>7 DEF Numbers
  <2>8. shown \o Ahead = Numbers
    BY <2>6, <2>7
  <2>. QED
    BY <2>1, <2>8
<1>. QED
  BY <1>5, <1>6

(* Whatever is put while the driver of video.c waits, or behind it while it *)
(* scans, is shown once and in order.                                       *)
THEOREM TextShownOnce == CSpec => []TextOnce
<1>1. CInit => CutInv
  BY TextStarts
<1>2. CutInv /\ [CNext]_cvars => CutInv'
  BY CutStepKeeps
<1>3. CutInv => TextOnce
  BY TextInvShows, InsideQuiet DEF CutInv, TextOnce
<1>. QED
  BY <1>1, <1>2, <1>3, PTL DEF CSpec
==============================================================================
