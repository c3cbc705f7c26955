---------------------------- MODULE Servers_proofs ----------------------------
(* Proofs about Servers.                                                    *)
(*                                                                         *)
(* What is in a queue is a matter of who sent it: each peer has at most one *)
(* message there, and which one is known from the two (Letter).  So a       *)
(* request is followed through the queues by the names of the senders.      *)
EXTENDS Servers, SequenceTheorems, FiniteSetTheorems, TLAPS

(* The message of x in the queue of p: a request of x, the reply to one of  *)
(* p, or the interrupt.                                                     *)
Subject(p, x) == IF x = IRQ THEN <<IRQ, 0>>
                 ELSE IF x \in Callers /\ Calls(x) = p THEN Current(x) ELSE Current(p)
Letter(p, x) == [from |-> x, about |-> Subject(p, x)]

Contents(q) == {q[i] : i \in DOMAIN q}
Sources(q) == {q[i].from : i \in DOMAIN q}
OneOfEach(q) == \A i, j \in DOMAIN q : q[i].from = q[j].from => i = j

Waits(p)    == pc[p] \in {"wait", "put back"}
Asked(p)    == \/ p \in Sources(queue[Calls(p)])
               \/ pc[Calls(p)] = "put back" /\ aside[Calls(p)].from = p
Answered(p) == Calls(p) \in Sources(queue[p])
Served(p)   == pc[Calls(p)] # "main" /\ serving[Calls(p)].from = p

(* Where each process can be.                                               *)
Labels(p) == IF p \in Client THEN {"idle", "send", "wait"}
              ELSE {"wait", "put back", "main", "reply"} \cup (IF p = FS THEN {"send"} ELSE {})

Known(p, m) == m.from \in Peers(p) /\ m = Letter(p, m.from)
Mail(p) ==
  /\ OneOfEach(queue[p])
  /\ \A m \in Contents(queue[p]) : Known(p, m)
  /\ pc[p] = "put back" => /\ Known(p, aside[p]) /\ aside[p].from # Awaited(p)
                           /\ aside[p].from \notin Sources(queue[p])
Work(s) ==
  /\ pc[s] # "main" /\ serving[s] # Nothing =>
       serving[s].from \in Callers /\ Calls(serving[s].from) = s /\ serving[s] = Letter(s, serving[s].from)
  /\ pc[s] = "reply" => serving[s] # Nothing
  /\ pc[s] \in {"send", "wait", "put back"} => left[s] > 0

(* A caller's request is in one place when it waits, and else in none.      *)
Once(p) ==
  /\ Waits(p) <=> Asked(p) \/ Answered(p) \/ Served(p)
  /\ ~(Asked(p) /\ Answered(p)) /\ ~(Asked(p) /\ Served(p)) /\ ~(Answered(p) /\ Served(p))

Disk == IF Waits(HD) THEN busy <=> IRQ \notin Sources(queue[HD])
                     ELSE ~busy /\ IRQ \notin Sources(queue[HD])

SInv ==
  /\ STypeOK
  /\ \A p \in Node : pc[p] \in Labels(p)
  /\ \A p \in Node : Mail(p)
  /\ \A s \in {HD, FS} : Work(s)
  /\ \A p \in Callers : Once(p)
  /\ Disk

(***************************************************************************)
(* Queues.                                                                  *)
(***************************************************************************)
(* Who is whose peer.                                                       *)
LEMMA Peerage ==
  /\ FS \in Callers /\ Client \subseteq Callers /\ Callers \subseteq Node
  /\ HD \in Node /\ HD \notin Callers /\ FS \notin Client
  /\ IRQ \notin Node /\ Node = Callers \cup {HD} /\ Calls(FS) = HD
  /\ \A p \in Callers : /\ Calls(p) \in {HD, FS} /\ Calls(p) \in Node /\ Calls(p) # p
                        /\ Awaited(p) = Calls(p) /\ Calls(p) \in Peers(p)
                        /\ p \in Peers(Calls(p)) /\ Awaited(Calls(p)) # p
  /\ Awaited(HD) = IRQ
  /\ \A p \in Callers : \A x \in Peers(p) : x = Calls(p) \/ (x \in Client /\ Calls(x) = p)
  /\ \A p, x \in Callers : Calls(x) = p => Calls(p) # x /\ p = FS /\ x \in Client
  /\ Peers(HD) = {x \in Callers : Calls(x) = HD} \cup {IRQ}
  /\ \A p \in Node : Peers(p) \subseteq Node \cup {IRQ}
<1>1. /\ FS \in Callers /\ Client \subseteq Callers /\ Callers \subseteq Node
      /\ HD \in Node /\ HD \notin Callers
      /\ IRQ \notin Node /\ Node = Callers \cup {HD} /\ Calls(FS) = HD
      /\ \A p \in Callers : p # FS => p \in Client /\ Calls(p) = Server[p] /\ Server[p] \in {HD, FS}
      /\ FS \notin Client /\ HD # FS /\ IRQ \notin {HD, FS}
  BY ServersAssumption DEF Callers, Node, Calls
<1>. HIDE DEF IRQ
<1>2. Awaited(HD) = IRQ /\ \A p \in Callers : Awaited(p) = Calls(p)
  BY <1>1 DEF Awaited
<1>3. \A p \in Callers : Calls(p) \in {HD, FS} /\ Calls(p) \in Node /\ Calls(p) # p /\ Awaited(Calls(p)) # p
  BY <1>1, <1>2
<1>. QED  BY <1>1, <1>2, <1>3 DEF Peers

(* Each node has finitely many peers.                                       *)
LEMMA PeersFinite == \A p \in Node : IsFiniteSet(Peers(p))
<1> SUFFICES ASSUME NEW p \in Node PROVE IsFiniteSet(Peers(p))
  OBVIOUS
<1>1. IsFiniteSet(Callers)
  BY ServersAssumption, FS_AddElement DEF Callers
<1>2. IsFiniteSet({q \in Callers : Calls(q) = p})
  BY <1>1, FS_Subset
<1>. QED
  BY <1>2, FS_AddElement DEF Peers

(* The first message is taken away: its sender has none left.               *)
LEMMA Dropped ==
  ASSUME NEW q \in Seq(Message), q # <<>>, OneOfEach(q)
  PROVE  /\ Tail(q) \in Seq(Message) /\ Head(q) \in Message /\ OneOfEach(Tail(q))
         /\ Head(q) \in Contents(q) /\ Head(q).from \in Sources(q)
         /\ Contents(Tail(q)) \subseteq Contents(q)
         /\ Sources(Tail(q)) = Sources(q) \ {Head(q).from}
<1>1. /\ Len(q) \in Nat /\ Len(q) > 0 /\ DOMAIN q = 1 .. Len(q) /\ Head(q) = q[1]
      /\ Len(Tail(q)) = Len(q) - 1 /\ DOMAIN Tail(q) = 1 .. Len(q) - 1 /\ Tail(q) \in Seq(Message)
      /\ \A i \in 1 .. Len(q) - 1 : Tail(q)[i] = q[i + 1]
      /\ \A i \in 1 .. Len(q) : q[i] \in Message
  BY EmptySeq, HeadTailProperties, ElementOfSeq, LenProperties
<1>2. OneOfEach(Tail(q))
  BY <1>1 DEF OneOfEach
<1>3. Head(q) \in Contents(q) /\ Head(q).from \in Sources(q) /\ Head(q) \in Message
  BY <1>1 DEF Contents, Sources
<1>4. Contents(Tail(q)) \subseteq Contents(q)
  BY <1>1 DEF Contents
<1>5. Sources(Tail(q)) \subseteq Sources(q) \ {Head(q).from}
  BY <1>1 DEF Sources, OneOfEach
<1>6. ASSUME NEW x \in Sources(q), x # Head(q).from PROVE x \in Sources(Tail(q))
  <2>1. PICK i \in 1 .. Len(q) : x = q[i].from
    BY <1>1 DEF Sources
  <2>2. i - 1 \in 1 .. Len(q) - 1 /\ Tail(q)[i - 1] = q[i]
    BY <2>1, <1>6, <1>1
  <2>. QED  BY <2>1, <2>2, <1>1 DEF Sources
<1>. QED  BY <1>1, <1>2, <1>3, <1>4, <1>5, <1>6

(* A message comes from one who has none there.                             *)
LEMMA Added ==
  ASSUME NEW q \in Seq(Message), NEW m \in Message, OneOfEach(q), m.from \notin Sources(q)
  PROVE  /\ Append(q, m) \in Seq(Message) /\ OneOfEach(Append(q, m))
         /\ Contents(Append(q, m)) = Contents(q) \cup {m}
         /\ Sources(Append(q, m)) = Sources(q) \cup {m.from}
<1>1. /\ Len(q) \in Nat /\ DOMAIN q = 1 .. Len(q) /\ Append(q, m) \in Seq(Message)
      /\ DOMAIN Append(q, m) = 1 .. Len(q) + 1
      /\ \A i \in 1 .. Len(q) : Append(q, m)[i] = q[i]
      /\ Append(q, m)[Len(q) + 1] = m
  BY AppendProperties, LenProperties
<1>2. \A i \in DOMAIN q : q[i].from \in Sources(q)
  BY DEF Sources
<1>3. OneOfEach(Append(q, m))
  BY <1>1, <1>2 DEF OneOfEach
<1>4. Contents(Append(q, m)) = Contents(q) \cup {m}
  BY <1>1 DEF Contents
<1>5. Sources(Append(q, m)) = Sources(q) \cup {m.from}
  BY <1>1 DEF Sources
<1>. QED  BY <1>1, <1>3, <1>4, <1>5

(* A queue is as long as it has senders.                                    *)
LEMMA LengthIsSources ==
  ASSUME NEW q \in Seq(Message), OneOfEach(q)
  PROVE  IsFiniteSet(Sources(q)) /\ Cardinality(Sources(q)) = Len(q)
<1> DEFINE f == [i \in 1 .. Len(q) |-> q[i].from]
<1>1. Len(q) \in Nat /\ DOMAIN q = 1 .. Len(q)
  BY LenProperties
<1>2. f \in Bijection(1 .. Len(q), Sources(q))
  BY <1>1 DEF OneOfEach, Sources, Bijection, Injection, Surjection, IsInjective
<1>3. ExistsBijection(1 .. Len(q), Sources(q))
  BY ONLY <1>2 DEF ExistsBijection
<1>. QED  BY <1>1, <1>3, FS_CountingElements, FS_NatBijection

(* There is room for whoever has no message in the queue.                   *)
LEMMA Fits ==
  ASSUME NEW p \in Node, queue[p] \in Seq(Message), Mail(p),
         NEW x \in Peers(p), x \notin Sources(queue[p])
  PROVE  Room(p)
<1>1. Sources(queue[p]) \subseteq Peers(p)
  BY DEF Mail, Known, Contents, Sources
<1>2. /\ IsFiniteSet(Sources(queue[p])) /\ IsFiniteSet(Peers(p))
      /\ Cardinality(Sources(queue[p])) = Len(queue[p])
  BY LengthIsSources, PeersFinite DEF Mail
<1>3. Cardinality(Sources(queue[p])) < Cardinality(Peers(p))
  <2>1. /\ Cardinality(Sources(queue[p])) <= Cardinality(Peers(p))
        /\ Cardinality(Sources(queue[p])) = Cardinality(Peers(p)) => Sources(queue[p]) = Peers(p)
    BY ONLY <1>1, <1>2, FS_Subset
  <2>2. Cardinality(Sources(queue[p])) \in Nat /\ Cardinality(Peers(p)) \in Nat
    BY <1>2, FS_CardinalityType
  <2>. QED  BY <2>1, <2>2
<1>. QED  BY <1>2, <1>3, FS_CardinalityType, QueuesSuffice DEF Room

(***************************************************************************)
(* Each action.                                                             *)
(***************************************************************************)
(* As long as no number changes, a message is what it was.                  *)
LEMMA SameLetters ==
  ASSUME number' = number
  PROVE  /\ \A q, m : Known(q, m)' <=> Known(q, m)
         /\ \A q, x : Letter(q, x)' = Letter(q, x)
BY DEF Known, Letter, Subject, Current

LEMMA LetterType ==
  ASSUME STypeOK, NEW p \in Node, NEW x \in Peers(p)
  PROVE  Letter(p, x) \in Message /\ Letter(p, x).from = x /\ Known(p, Letter(p, x))
BY Peerage DEF STypeOK, Letter, Subject, Current, Message, Request, Known

(* The invariant starts.                                                    *)
LEMMA SInitHolds == SInit => SInv
<1> SUFFICES ASSUME SInit PROVE SInv
  OBVIOUS
<1>1. STypeOK
  <2>1. Nothing \in Message
    BY DEF Nothing, Message, Request
  <2>2. left \in [{HD, FS} -> Nat]
    BY ServersAssumption DEF SInit
  <2>. QED  BY <2>1, <2>2 DEF SInit, STypeOK
<1>2. \A p \in Node : pc[p] \in Labels(p)
  BY ServersAssumption DEF SInit, Labels, Node
<1>3. \A p \in Node : queue[p] = << >> /\ Sources(queue[p]) = {} /\ Contents(queue[p]) = {} /\ Mail(p)
  BY ServersAssumption DEF SInit, Mail, OneOfEach, Sources, Contents
<1>4. \A s \in {HD, FS} : Work(s)
  <2>1. \A s \in {HD, FS} : serving[s] = Nothing /\ pc[s] # "reply" /\ left[s] > 0
    BY ServersAssumption, Peerage DEF SInit
  <2>. QED  BY <2>1 DEF Work
<1>5. ASSUME NEW p \in Callers PROVE Once(p)
  <2>1. ~Waits(p)
    BY ServersAssumption, Peerage DEF SInit, Waits
  <2>2. ~Asked(p) /\ ~Answered(p)
    BY <1>3, Peerage DEF SInit, Asked, Answered
  <2>3. ~Served(p)
    BY Peerage DEF SInit, Served, Nothing
  <2>. QED  BY <2>1, <2>2, <2>3 DEF Once
<1>6. Disk
  BY <1>3, Peerage DEF SInit, Disk, Waits
<1>. QED  BY <1>1, <1>2, <1>3, <1>4, <1>5, <1>6 DEF SInv

(* A caller's request joins the queue of its server.                        *)
LEMMA SendKeeps ==
  ASSUME SInv, NEW p \in Node, Send(p)
  PROVE  SInv'
<1> DEFINE s == Calls(p)
           m == [from |-> p, about |-> Current(p)]
<1>1. /\ p \in Callers /\ s \in Node /\ s # p /\ pc[p] = "send"
      /\ queue \in [Node -> Seq(Message)] /\ pc' = [pc EXCEPT ![p] = "wait"]
      /\ number' = number /\ aside' = aside /\ serving' = serving /\ left' = left /\ busy' = busy
  BY Peerage DEF Send, Goto, SInv, STypeOK
<1>2. ~Asked(p) /\ ~Answered(p) /\ ~Served(p)
  BY <1>1 DEF SInv, Once, Waits
<1>3. m \in Message /\ m.from = p /\ Known(s, m) /\ p # Awaited(s)
  <2>1. m = Letter(s, p)
    BY <1>1, Peerage DEF Letter, Subject
  <2>. QED  BY <2>1, <1>1, Peerage, LetterType DEF SInv
<1>4. queue' = [queue EXCEPT ![s] = Append(@, m)]
  BY DEF Send, Deliver
<1>5. p \notin Sources(queue[s]) /\ OneOfEach(queue[s])
  BY <1>1, <1>2 DEF Asked, SInv, Mail
<1>6. /\ queue' \in [Node -> Seq(Message)]
      /\ OneOfEach(queue'[s]) /\ Contents(queue'[s]) = Contents(queue[s]) \cup {m}
      /\ Sources(queue'[s]) = Sources(queue[s]) \cup {p}
      /\ \A q \in Node \ {s} : queue'[q] = queue[q]
  BY <1>1, <1>3, <1>4, <1>5, Added
<1>7. STypeOK'
  BY <1>1, <1>6 DEF SInv, STypeOK
<1>8. \A q \in Node : pc'[q] \in Labels(q)
  BY <1>1, Peerage DEF SInv, STypeOK, Labels, Callers
<1>9. \A q \in Node : Mail(q)'
  <2>1. ASSUME NEW q \in Node \ {p, s} PROVE Mail(q)'
    BY <1>1, <1>6, SameLetters DEF SInv, STypeOK, Mail
  <2>2. Mail(s)'
    BY <1>1, <1>2, <1>3, <1>6, SameLetters DEF SInv, STypeOK, Mail, Asked
  <2>3. Mail(p)'
    BY <1>1, <1>6, SameLetters DEF SInv, STypeOK, Mail
  <2>. QED  BY <2>1, <2>2, <2>3
<1>10. ASSUME NEW q \in {HD, FS} PROVE Work(q)'
  <2>1. Work(q) /\ q \in Node /\ \A x : Letter(q, x)' = Letter(q, x)
    <3>1. Work(q)
      BY DEF SInv
    <3>2. q \in Node
      BY Peerage
    <3>3. \A x : Letter(q, x)' = Letter(q, x)
      BY <1>1, SameLetters
    <3>. QED  BY <3>1, <3>2, <3>3
  <2>2. pc'[q] # pc[q] => pc[q] = "send" /\ pc'[q] = "wait"
    BY <1>1, <2>1 DEF SInv, STypeOK
  <2>. QED  BY <1>1, <2>1, <2>2 DEF Work
<1>11. ASSUME NEW q \in Callers PROVE Once(q)'
  <2>1. CASE q = p
    BY <2>1, <1>1, <1>2, <1>6, Peerage DEF SInv, STypeOK, Once, Waits, Asked, Answered, Served
  <2>2. CASE q # p
    <3>1. Once(q) /\ q \in Node /\ Calls(q) \in Node
      BY Peerage DEF SInv
    <3>2. Waits(q)' <=> Waits(q)
      BY <2>2, <1>1, <3>1 DEF SInv, STypeOK, Waits
    <3>3. Asked(q)' <=> Asked(q)
      BY <2>2, <1>1, <1>6, <3>1, Peerage DEF SInv, STypeOK, Asked
    <3>4. Answered(q)' <=> Answered(q)
      BY <2>2, <1>1, <1>6, <3>1, Peerage DEF Answered
    <3>5. Served(q)' <=> Served(q)
      BY <2>2, <1>1, <3>1, Peerage DEF SInv, STypeOK, Served
    <3>. QED  BY <3>1, <3>2, <3>3, <3>4, <3>5 DEF Once
  <2>. QED  BY <2>1, <2>2
<1>12. Disk'
  BY <1>1, <1>6, Peerage DEF SInv, STypeOK, Disk, Waits
<1>. QED  BY <1>7, <1>8, <1>9, <1>10, <1>11, <1>12 DEF SInv

(* A server sets a message of another source aside, ...                     *)
LEMMA SetAsideKeeps ==
  ASSUME SInv, NEW p \in Node, SetAside(p)
  PROVE  SInv'
<1> DEFINE m == Head(queue[p])
<1>1. /\ pc[p] = "wait" /\ queue[p] # <<>> /\ m.from # Awaited(p)
      /\ queue \in [Node -> Seq(Message)] /\ queue[p] \in Seq(Message) /\ OneOfEach(queue[p])
      /\ queue' = [queue EXCEPT ![p] = Tail(@)] /\ aside' = [aside EXCEPT ![p] = m]
      /\ pc' = [pc EXCEPT ![p] = "put back"]
      /\ number' = number /\ serving' = serving /\ left' = left /\ busy' = busy
  BY DEF SetAside, Goto, SInv, STypeOK, Mail
<1>2. /\ queue' \in [Node -> Seq(Message)] /\ m \in Message /\ m \in Contents(queue[p])
      /\ OneOfEach(queue'[p]) /\ Contents(queue'[p]) \subseteq Contents(queue[p])
      /\ m.from \in Sources(queue[p]) /\ Sources(queue'[p]) = Sources(queue[p]) \ {m.from}
      /\ \A q \in Node \ {p} : queue'[q] = queue[q]
  BY <1>1, Dropped
<1>3. Known(p, m) /\ m.from \in Peers(p)
  BY <1>2 DEF SInv, Mail, Known
<1>4. p \in {HD, FS}
  BY <1>1, <1>3, Peerage DEF Callers
<1>5. STypeOK'
  BY <1>1, <1>2 DEF SInv, STypeOK
<1>6. \A q \in Node : pc'[q] \in Labels(q)
  <2>1. "put back" \in Labels(p)
    BY <1>4, ServersAssumption DEF Labels
  <2>. QED  BY <1>1, <2>1 DEF SInv, STypeOK
<1>7. ASSUME NEW q \in Node PROVE Mail(q)'
  <2>1. CASE q = p
    BY <2>1, <1>1, <1>2, <1>3, SameLetters DEF SInv, STypeOK, Mail
  <2>2. CASE q # p
    BY <2>2, <1>1, <1>2, SameLetters DEF SInv, STypeOK, Mail
  <2>. QED  BY <2>1, <2>2
<1>8. ASSUME NEW q \in {HD, FS} PROVE Work(q)'
  <2>1. Work(q) /\ q \in Node /\ \A x : Letter(q, x)' = Letter(q, x)
    <3>1. Work(q)
      BY DEF SInv
    <3>2. q \in Node
      BY Peerage
    <3>3. \A x : Letter(q, x)' = Letter(q, x)
      BY <1>1, SameLetters
    <3>. QED  BY <3>1, <3>2, <3>3
  <2>2. pc'[q] # pc[q] => pc[q] = "wait" /\ pc'[q] = "put back"
    BY <1>1, <2>1 DEF SInv, STypeOK
  <2>. QED  BY <1>1, <2>1, <2>2 DEF Work
<1>9. ASSUME NEW q \in Callers PROVE Once(q)'
  <2>1. Once(q) /\ q \in Node /\ Calls(q) \in Node /\ Calls(q) # q
    BY Peerage DEF SInv
  <2>2. Waits(q)' <=> Waits(q)
    BY <1>1, <2>1 DEF SInv, STypeOK, Waits
  <2>3. Asked(q)' <=> Asked(q)
    BY <1>1, <1>2, <2>1 DEF SInv, STypeOK, Asked
  <2>4. Answered(q)' <=> Answered(q)
    BY <1>1, <1>2, <2>1, Peerage DEF Answered
  <2>5. Served(q)' <=> Served(q)
    BY <1>1, <2>1 DEF SInv, STypeOK, Served
  <2>. QED  BY <2>1, <2>2, <2>3, <2>4, <2>5 DEF Once
<1>10. Disk'
  <2>1. (Waits(HD)' <=> Waits(HD)) /\ HD \in Node
    BY <1>1, Peerage DEF SInv, STypeOK, Waits
  <2>2. IRQ \in Sources(queue'[HD]) <=> IRQ \in Sources(queue[HD])
    BY <1>1, <1>2, <2>1, Peerage
  <2>. QED  BY <1>1, <2>1, <2>2 DEF SInv, Disk
<1>. QED  BY <1>5, <1>6, <1>7, <1>8, <1>9, <1>10 DEF SInv

(* ... and puts it back, for which there is room.                           *)
LEMMA PutBackKeeps ==
  ASSUME SInv, NEW p \in Node, PutBack(p)
  PROVE  SInv'
<1> DEFINE m == aside[p]
<1>1. /\ pc[p] = "put back" /\ m \in Message /\ Known(p, m) /\ m.from \in Peers(p)
      /\ m.from # Awaited(p) /\ m.from \notin Sources(queue[p])
      /\ queue \in [Node -> Seq(Message)] /\ queue[p] \in Seq(Message) /\ OneOfEach(queue[p])
      /\ aside' = [aside EXCEPT ![p] = Nothing]
      /\ pc' = [pc EXCEPT ![p] = "wait"]
      /\ number' = number /\ serving' = serving /\ left' = left /\ busy' = busy
  BY DEF PutBack, Goto, SInv, STypeOK, Mail, Known
<1>2. queue' = [queue EXCEPT ![p] = Append(@, m)]
  BY <1>1, Fits DEF PutBack, Deliver, SInv
<1>3. /\ queue' \in [Node -> Seq(Message)]
      /\ OneOfEach(queue'[p]) /\ Contents(queue'[p]) = Contents(queue[p]) \cup {m}
      /\ Sources(queue'[p]) = Sources(queue[p]) \cup {m.from}
      /\ \A q \in Node \ {p} : queue'[q] = queue[q]
  BY <1>1, <1>2, Added
<1>5. STypeOK'
  <2>1. Nothing \in Message
    BY DEF Nothing, Message, Request
  <2>. QED  BY <2>1, <1>1, <1>3 DEF SInv, STypeOK
<1>6. \A q \in Node : pc'[q] \in Labels(q)
  BY <1>1, Peerage, ServersAssumption DEF SInv, STypeOK, Labels
<1>7. ASSUME NEW q \in Node PROVE Mail(q)'
  <2>1. CASE q = p
    <3>1. \A l \in Contents(queue'[p]) : Known(p, l)
      BY <1>1, <1>3 DEF SInv, Mail
    <3>2. pc'[p] = "wait"
      BY <1>1 DEF SInv, STypeOK
    <3>. QED  BY <2>1, <3>1, <3>2, <1>1, <1>3, SameLetters DEF Mail
  <2>2. CASE q # p
    <3>1. pc'[q] = pc[q] /\ aside'[q] = aside[q] /\ queue'[q] = queue[q] /\ Mail(q)
      BY <2>2, <1>1, <1>3 DEF SInv, STypeOK
    <3>. QED  BY <3>1, <1>1, SameLetters DEF Mail
  <2>. QED  BY <2>1, <2>2
<1>8. ASSUME NEW q \in {HD, FS} PROVE Work(q)'
  <2>1. Work(q) /\ q \in Node /\ \A x : Letter(q, x)' = Letter(q, x)
    <3>1. Work(q)
      BY DEF SInv
    <3>2. q \in Node
      BY Peerage
    <3>3. \A x : Letter(q, x)' = Letter(q, x)
      BY <1>1, SameLetters
    <3>. QED  BY <3>1, <3>2, <3>3
  <2>2. pc'[q] # pc[q] => pc[q] = "put back" /\ pc'[q] = "wait"
    BY <1>1, <2>1 DEF SInv, STypeOK
  <2>. QED  BY <1>1, <2>1, <2>2 DEF Work
<1>9. ASSUME NEW q \in Callers PROVE Once(q)'
  <2>1. Once(q) /\ q \in Node /\ Calls(q) \in Node /\ Calls(q) # q
    BY Peerage DEF SInv
  <2>2. Waits(q)' <=> Waits(q)
    BY <1>1, <2>1 DEF SInv, STypeOK, Waits
  <2>3. Asked(q)' <=> Asked(q)
    BY <1>1, <1>3, <2>1 DEF SInv, STypeOK, Asked
  <2>4. Answered(q)' <=> Answered(q)
    <3>1. q = p => m.from # Calls(q)
      BY <1>1, Peerage
    <3>. QED  BY <1>1, <1>3, <2>1, <3>1 DEF Answered
  <2>5. Served(q)' <=> Served(q)
    BY <1>1, <2>1 DEF SInv, STypeOK, Served
  <2>. QED  BY <2>1, <2>2, <2>3, <2>4, <2>5 DEF Once
<1>10. Disk'
  BY <1>1, <1>3, Peerage DEF SInv, STypeOK, Disk, Waits
<1>. QED  BY <1>5, <1>6, <1>7, <1>8, <1>9, <1>10 DEF SInv

(* A program takes its reply.                                               *)
LEMMA ReturnKeeps ==
  ASSUME SInv, NEW p \in Client, Return(p)
  PROVE  SInv'
<1>0. p \in Callers /\ p \in Node /\ p # FS /\ p # HD /\ Awaited(p) = Calls(p)
  BY Peerage
<1>1. /\ p \in Callers /\ p \in Node /\ p # FS /\ p # HD
      /\ pc[p] = "wait" /\ queue[p] # <<>> /\ Head(queue[p]).from = Calls(p)
      /\ queue \in [Node -> Seq(Message)] /\ queue[p] \in Seq(Message) /\ OneOfEach(queue[p])
      /\ queue' = [queue EXCEPT ![p] = Tail(@)]
      /\ pc' = [pc EXCEPT ![p] = "idle"]
      /\ aside' = aside /\ number' = number /\ serving' = serving /\ left' = left /\ busy' = busy
  BY <1>0 DEF Return, Arrives, Goto, SInv, STypeOK, Mail
<1>2. /\ queue' \in [Node -> Seq(Message)]
      /\ OneOfEach(queue'[p]) /\ Contents(queue'[p]) \subseteq Contents(queue[p])
      /\ Calls(p) \in Sources(queue[p]) /\ Sources(queue'[p]) = Sources(queue[p]) \ {Calls(p)}
      /\ \A q \in Node \ {p} : queue'[q] = queue[q]
  BY <1>1, Dropped
<1>3. Answered(p) /\ ~Asked(p) /\ ~Served(p)
  BY <1>1, <1>2 DEF Answered, SInv, Once
<1>5. STypeOK'
  BY <1>1, <1>2 DEF SInv, STypeOK
<1>6. \A q \in Node : pc'[q] \in Labels(q)
  BY <1>1 DEF SInv, STypeOK, Labels
<1>7. ASSUME NEW q \in Node PROVE Mail(q)'
  <2>1. CASE q = p
    BY <2>1, <1>1, <1>2, SameLetters DEF SInv, STypeOK, Mail
  <2>2. CASE q # p
    BY <2>2, <1>1, <1>2, SameLetters DEF SInv, STypeOK, Mail
  <2>. QED  BY <2>1, <2>2
<1>8. ASSUME NEW q \in {HD, FS} PROVE Work(q)'
  <2>1. Work(q) /\ q \in Node /\ \A x : Letter(q, x)' = Letter(q, x)
    <3>1. Work(q)
      BY DEF SInv
    <3>2. q \in Node
      BY Peerage
    <3>3. \A x : Letter(q, x)' = Letter(q, x)
      BY <1>1, SameLetters
    <3>. QED  BY <3>1, <3>2, <3>3
  <2>. QED  BY <1>1, <2>1 DEF Work, SInv, STypeOK
<1>9. ASSUME NEW q \in Callers PROVE Once(q)'
  <2>1. Once(q) /\ q \in Node /\ Calls(q) \in Node /\ Calls(q) # q /\ Calls(q) # p
    BY <1>1, Peerage DEF SInv
  <2>2. Waits(q)' <=> Waits(q) /\ q # p
    BY <1>1, <2>1 DEF SInv, STypeOK, Waits
  <2>3. Asked(q)' <=> Asked(q)
    BY <1>1, <1>2, <2>1 DEF SInv, STypeOK, Asked
  <2>4. Answered(q)' <=> Answered(q) /\ q # p
    BY <1>1, <1>2, <2>1, Peerage DEF Answered
  <2>5. Served(q)' <=> Served(q)
    BY <1>1, <2>1 DEF SInv, STypeOK, Served
  <2>. QED  BY <1>3, <2>1, <2>2, <2>3, <2>4, <2>5 DEF Once
<1>10. Disk'
  BY <1>1, <1>2, Peerage DEF SInv, STypeOK, Disk, Waits
<1>. QED  BY <1>5, <1>6, <1>7, <1>8, <1>9, <1>10 DEF SInv

(* The number of a caller changes when its last request is not with the     *)
(* server: the messages there are, but for the reply to it, remain what     *)
(* they were.                                                               *)
LEMMA NewNumber ==
  ASSUME SInv, NEW p \in Callers, ~Asked(p),
         number' = [number EXCEPT ![p] = 1 - @], aside' = aside
  PROVE  /\ \A q \in Node : \A m \in Contents(queue[q]) : ~(q = p /\ m.from = Calls(p)) => Known(q, m)'
         /\ \A q \in Node : pc[q] = "put back" => Known(q, aside[q])'
<1>1. number \in [Node -> {0, 1}] /\ p \in Node
  BY Peerage DEF SInv, STypeOK
<1>2. \A x \in Node : x # p => Current(x)' = Current(x)
  BY <1>1 DEF Current
<1>3. ASSUME NEW q \in Node, NEW x \in Peers(q), ~(x = p /\ q = Calls(p)), ~(q = p /\ x = Calls(p))
      PROVE  Letter(q, x)' = Letter(q, x)
  <2>1. CASE x \in Callers /\ Calls(x) = q
    BY <2>1, <1>2, <1>3, Peerage DEF Letter, Subject
  <2>2. CASE ~(x \in Callers /\ Calls(x) = q)
    <3>1. x = IRQ \/ q # p
      BY <2>2, <1>3, Peerage
    <3>. QED  BY <2>2, <3>1, <1>2 DEF Letter, Subject
  <2>. QED  BY <2>1, <2>2
<1>4. ASSUME NEW q \in Node, NEW m \in Contents(queue[q]), ~(q = p /\ m.from = Calls(p))
      PROVE  Known(q, m)'
  <2>1. Known(q, m) /\ m.from \in Sources(queue[q])
    BY DEF SInv, Mail, Contents, Sources
  <2>2. ~(m.from = p /\ q = Calls(p)) /\ ~(q = p /\ m.from = Calls(p))
    BY <2>1, <1>4 DEF Asked
  <2>. QED  BY <2>1, <2>2, <1>3 DEF Known
<1>5. ASSUME NEW q \in Node, pc[q] = "put back" PROVE Known(q, aside[q])'
  <2>1. Known(q, aside[q]) /\ aside[q].from # Awaited(q)
    BY <1>5 DEF SInv, Mail
  <2>2. ~(aside[q].from = p /\ q = Calls(p))
    BY <1>5 DEF Asked
  <2>3. ~(q = p /\ aside[q].from = Calls(p))
    BY <2>1, Peerage
  <2>. QED  BY <2>1, <2>2, <2>3, <1>3 DEF Known
<1>. QED  BY <1>4, <1>5

(* A program calls.                                                         *)
LEMMA StartKeeps ==
  ASSUME SInv, NEW p \in Client, Start(p)
  PROVE  SInv'
<1>1. /\ p \in Callers /\ p \in Node /\ p # FS /\ p # HD /\ pc[p] = "idle"
      /\ pc' = [pc EXCEPT ![p] = "send"] /\ number' = [number EXCEPT ![p] = 1 - @]
      /\ number \in [Node -> {0, 1}] /\ pc \in [Node -> {"idle", "send", "wait", "put back", "main", "reply"}]
      /\ queue' = queue /\ aside' = aside /\ serving' = serving /\ left' = left /\ busy' = busy
  BY Peerage, ServersAssumption, ZenonT(60) DEF Start, Goto, SInv, STypeOK, Callers
<1>2. ~Asked(p) /\ ~Answered(p) /\ ~Served(p)
  BY <1>1 DEF SInv, Once, Waits
<1>5. STypeOK'
  <2>1. 1 - number[p] \in {0, 1}
    <3>1. number[p] = 0 \/ number[p] = 1
      BY <1>1
    <3>. QED  BY <3>1
  <2>2. number' \in [Node -> {0, 1}]
    BY <1>1, <2>1
  <2>3. pc' \in [Node -> {"idle", "send", "wait", "put back", "main", "reply"}]
    BY <1>1
  <2>. QED  BY <1>1, <2>2, <2>3 DEF SInv, STypeOK
<1>6. \A q \in Node : pc'[q] \in Labels(q)
  BY <1>1 DEF SInv, Labels
<1>7. ASSUME NEW q \in Node PROVE Mail(q)'
  <2>1. \A m \in Contents(queue[q]) : m.from \in Sources(queue[q])
    BY DEF Contents, Sources
  <2>2. \A m \in Contents(queue[q]) : Known(q, m)'
    BY <1>1, <1>2, <2>1, NewNumber DEF Answered
  <2>. QED  BY <1>1, <1>2, <2>2, NewNumber DEF SInv, Mail
<1>8. ASSUME NEW q \in {HD, FS} PROVE Work(q)'
  <2>0. q \in Node /\ q # p
    BY <1>1, Peerage
  <2>1. Work(q) /\ q \in Node /\ q # p /\ pc'[q] = pc[q]
    BY <2>0, <1>1 DEF SInv
  <2>2. ASSUME pc[q] # "main", serving[q] # Nothing
        PROVE  Letter(q, serving[q].from)' = Letter(q, serving[q].from)
    <3>1. serving[q].from \in Callers /\ Calls(serving[q].from) = q /\ serving[q].from # p
      BY <2>1, <2>2, <1>2 DEF Work, Served
    <3>. QED  BY <3>1, <1>1, Peerage DEF Letter, Subject, Current
  <2>. QED  BY <1>1, <2>1, <2>2 DEF Work
<1>9. ASSUME NEW q \in Callers PROVE Once(q)'
  <2>1. Once(q) /\ q \in Node /\ Calls(q) \in Node /\ Calls(q) # p
    BY <1>1, Peerage DEF SInv
  <2>2. Waits(q)' <=> Waits(q)
    BY <1>1, <2>1 DEF Waits
  <2>3. Asked(q)' <=> Asked(q)
    BY <1>1, <2>1 DEF Asked
  <2>4. Answered(q)' <=> Answered(q)
    BY <1>1 DEF Answered
  <2>5. Served(q)' <=> Served(q)
    BY <1>1, <2>1 DEF Served
  <2>. QED  BY <2>1, <2>2, <2>3, <2>4, <2>5 DEF Once
<1>10. Disk'
  BY <1>1, Peerage DEF SInv, Disk, Waits
<1>. QED  BY <1>5, <1>6, <1>7, <1>8, <1>9, <1>10 DEF SInv

(* The file system takes a request, and makes its own.                      *)
LEMMA FsTakeKeeps ==
  ASSUME SInv, FsTake
  PROVE  SInv'
<1>. PICK m : m = Head(queue[FS])
  OBVIOUS
<1> DEFINE x == m.from
<1>0. FS \in Callers /\ FS \in Node /\ HD \in Node /\ Calls(FS) = HD /\ HD # FS
  BY Peerage
<1>1. /\ pc[FS] = "main" /\ queue[FS] # <<>>
      /\ queue \in [Node -> Seq(Message)] /\ queue[FS] \in Seq(Message) /\ OneOfEach(queue[FS])
      /\ number \in [Node -> {0, 1}] /\ pc \in [Node -> {"idle", "send", "wait", "put back", "main", "reply"}]
      /\ left \in [{HD, FS} -> Nat] /\ serving \in [{HD, FS} -> Message]
      /\ queue' = [queue EXCEPT ![FS] = Tail(@)] /\ serving' = [serving EXCEPT ![FS] = m]
      /\ pc' = [pc EXCEPT ![FS] = "send"] /\ number' = [number EXCEPT ![FS] = 1 - @]
      /\ aside' = aside /\ busy' = busy
  BY <1>0 DEF FsTake, Take, Goto, SInv, STypeOK, Mail
<1>2. ~Waits(FS) /\ ~Asked(FS) /\ ~Answered(FS) /\ ~Served(FS)
  BY <1>0, <1>1 DEF SInv, Once, Waits
<1>3. /\ queue' \in [Node -> Seq(Message)] /\ m \in Message /\ m \in Contents(queue[FS])
      /\ OneOfEach(queue'[FS]) /\ Contents(queue'[FS]) \subseteq Contents(queue[FS])
      /\ x \in Sources(queue[FS]) /\ Sources(queue'[FS]) = Sources(queue[FS]) \ {x}
      /\ \A q \in Node \ {FS} : queue'[q] = queue[q]
  BY <1>0, <1>1, Dropped
<1>4. /\ x \in Client /\ Calls(x) = FS /\ x # FS
  <2>1. Known(FS, m) /\ x \in Peers(FS)
    BY <1>0, <1>3 DEF SInv, Mail, Known
  <2>2. x # HD
    BY <1>0, <1>2, <1>3 DEF Answered
  <2>. QED  BY <1>0, <2>1, <2>2, Peerage
<1>5. left' \in [{HD, FS} -> Nat] /\ left'[FS] > 0 /\ left'[HD] = left[HD]
  <2>1. PICK n \in 1 .. REQUESTS : left' = [left EXCEPT ![FS] = n]
    BY DEF FsTake
  <2>2. n \in Nat /\ n > 0
    BY ServersAssumption
  <2>. QED  BY <2>1, <2>2, <1>0, <1>1
<1>6. STypeOK'
  <2>1. 1 - number[FS] \in {0, 1}
    <3>1. number[FS] = 0 \/ number[FS] = 1
      BY <1>0, <1>1
    <3>. QED  BY <3>1
  <2>2. number' \in [Node -> {0, 1}]
    BY <1>1, <2>1
  <2>3. pc' \in [Node -> {"idle", "send", "wait", "put back", "main", "reply"}]
    BY <1>1
  <2>4. serving' \in [{HD, FS} -> Message]
    BY <1>1, <1>3
  <2>. QED  BY <1>1, <1>3, <1>5, <2>2, <2>3, <2>4 DEF SInv, STypeOK
<1>7. \A q \in Node : pc'[q] \in Labels(q)
  <2>1. "send" \in Labels(FS)
    BY DEF Labels
  <2>. QED  BY <2>1, <1>1 DEF SInv
<1>8. \A q \in Node : \A l \in Contents(queue[q]) : Known(q, l)'
  <2>1. \A l \in Contents(queue[FS]) : l.from # HD
    BY <1>0, <1>2 DEF Answered, Contents, Sources
  <2>. QED  BY <1>0, <1>1, <1>2, <2>1, NewNumber
<1>9. ASSUME NEW q \in Node PROVE Mail(q)'
  <2>1. pc[q] = "put back" => Known(q, aside[q])'
    BY <1>0, <1>1, <1>2, NewNumber
  <2>2. CASE q = FS
    BY <2>2, <1>0, <1>1, <1>3, <1>8 DEF SInv, Mail
  <2>3. CASE q # FS
    BY <2>1, <2>3, <1>1, <1>3, <1>8 DEF SInv, Mail
  <2>. QED  BY <2>2, <2>3
<1>10. Work(FS)'
  <2>1. serving'[FS] = m /\ m = Letter(FS, x)'
    BY <1>0, <1>1, <1>3, <1>8 DEF Known
  <2>2. pc'[FS] = "send"
    BY <1>0, <1>1
  <2>. QED  BY <1>4, <1>5, <2>1, <2>2, Peerage DEF Work
<1>11. Work(HD)'
  <2>1. Work(HD) /\ pc'[HD] = pc[HD] /\ serving'[HD] = serving[HD]
    BY <1>0, <1>1 DEF SInv
  <2>2. ASSUME pc[HD] # "main", serving[HD] # Nothing
        PROVE  Letter(HD, serving[HD].from)' = Letter(HD, serving[HD].from)
    <3>1. serving[HD].from \in Callers /\ Calls(serving[HD].from) = HD /\ serving[HD].from # FS
      BY <1>0, <1>2, <2>1, <2>2 DEF Work, Served
    <3>. QED  BY <3>1, <1>1, Peerage DEF Letter, Subject, Current
  <2>. QED  BY <1>5, <2>1, <2>2 DEF Work
<1>12. ASSUME NEW q \in Callers PROVE Once(q)'
  <2>1. Once(q) /\ q \in Node /\ Calls(q) \in {HD, FS} /\ Calls(q) \in Node /\ Calls(q) # q
    BY Peerage DEF SInv
  <2>2. Waits(q)' <=> Waits(q)
    BY <1>0, <1>1, <2>1 DEF Waits
  <2>3. Asked(q)' <=> Asked(q) /\ q # x
    BY <1>0, <1>1, <1>3, <1>4, <2>1 DEF Asked
  <2>4. Answered(q)' <=> Answered(q)
    <3>1. q = FS => Calls(q) # x
      BY <1>0, <1>4, Peerage
    <3>. QED  BY <1>0, <1>1, <1>3, <2>1, <3>1 DEF Answered
  <2>5. Served(q)' <=> Served(q) \/ q = x
    BY <1>0, <1>1, <1>4, <2>1 DEF Served
  <2>6. Asked(x)
    BY <1>3, <1>4 DEF Asked
  <2>. QED  BY <2>1, <2>2, <2>3, <2>4, <2>5, <2>6 DEF Once
<1>13. Disk'
  BY <1>0, <1>1, <1>3 DEF SInv, Disk, Waits
<1>. QED  BY <1>6, <1>7, <1>9, <1>10, <1>11, <1>12, <1>13 DEF SInv

(* The answer of the disk comes; it was for the last of the requests that   *)
(* the file system made.                                                    *)
LEMMA FsArrivesKeeps ==
  ASSUME SInv, FsArrives
  PROVE  SInv'
<1>0. /\ FS \in Callers /\ FS \in Node /\ HD \in Node /\ Calls(FS) = HD /\ HD # FS /\ Awaited(FS) = HD
      /\ IRQ \notin Callers
  BY Peerage
<1>1. /\ pc[FS] = "wait" /\ queue[FS] # <<>> /\ Head(queue[FS]).from = HD
      /\ queue \in [Node -> Seq(Message)] /\ queue[FS] \in Seq(Message) /\ OneOfEach(queue[FS])
      /\ number \in [Node -> {0, 1}] /\ pc \in [Node -> {"idle", "send", "wait", "put back", "main", "reply"}]
      /\ left \in [{HD, FS} -> Nat] /\ serving \in [{HD, FS} -> Message]
      /\ queue' = [queue EXCEPT ![FS] = Tail(@)] /\ left' = [left EXCEPT ![FS] = @ - 1]
      /\ aside' = aside /\ serving' = serving /\ busy' = busy
  BY <1>0 DEF FsArrives, Arrives, SInv, STypeOK, Mail
<1>2. /\ queue' \in [Node -> Seq(Message)]
      /\ OneOfEach(queue'[FS]) /\ Contents(queue'[FS]) \subseteq Contents(queue[FS])
      /\ HD \in Sources(queue[FS]) /\ Sources(queue'[FS]) = Sources(queue[FS]) \ {HD}
      /\ \A q \in Node \ {FS} : queue'[q] = queue[q]
  BY <1>0, <1>1, Dropped
<1>3. Answered(FS) /\ ~Asked(FS) /\ ~Served(FS)
  BY <1>0, <1>2 DEF Answered, SInv, Once
<1>4. \/ /\ left[FS] = 1 /\ number' = number
         /\ pc' = [pc EXCEPT ![FS] = IF serving[FS] = Nothing THEN "main" ELSE "reply"]
      \/ /\ left[FS] # 1 /\ number' = [number EXCEPT ![FS] = 1 - @]
         /\ pc' = [pc EXCEPT ![FS] = "send"]
  BY DEF FsArrives, Finished, Goto
<1>5. /\ left' \in [{HD, FS} -> Nat] /\ left'[HD] = left[HD]
      /\ left[FS] # 1 => left'[FS] > 0
  <2>1. left[FS] \in Nat /\ left[FS] > 0
    BY <1>0, <1>1 DEF SInv, Work
  <2>2. left[FS] - 1 \in Nat /\ (left[FS] # 1 => left[FS] - 1 > 0)
    BY <2>1
  <2>. QED  BY <2>2, <1>0, <1>1
<1>6. /\ number' \in [Node -> {0, 1}] /\ \A q \in Node \ {FS} : number'[q] = number[q]
      /\ pc' \in [Node -> {"idle", "send", "wait", "put back", "main", "reply"}]
      /\ \A q \in Node \ {FS} : pc'[q] = pc[q]
      /\ pc'[FS] \in {"send", "main", "reply"} /\ (pc'[FS] = "main" => serving[FS] = Nothing)
      /\ (pc'[FS] = "reply" => serving[FS] # Nothing) /\ (pc'[FS] = "send" => left[FS] # 1)
  <2>1. 1 - number[FS] \in {0, 1}
    <3>1. number[FS] = 0 \/ number[FS] = 1
      BY <1>0, <1>1
    <3>. QED  BY <3>1
  <2>2. CASE left[FS] = 1
    BY <2>2, <1>0, <1>1, <1>4
  <2>3. CASE left[FS] # 1
    BY <2>1, <2>3, <1>0, <1>1, <1>4
  <2>. QED  BY <2>2, <2>3
<1>7. STypeOK'
  BY <1>1, <1>2, <1>5, <1>6 DEF SInv, STypeOK
<1>8. \A q \in Node : pc'[q] \in Labels(q)
  <2>1. {"send", "main", "reply"} \subseteq Labels(FS)
    BY Peerage DEF Labels
  <2>. QED  BY <2>1, <1>6 DEF SInv
<1>9. /\ \A q \in Node : \A l \in Contents(queue[q]) : ~(q = FS /\ l.from = HD) => Known(q, l)'
      /\ \A q \in Node : pc[q] = "put back" => Known(q, aside[q])'
  <2>1. CASE left[FS] = 1
    <3>1. \A q, l : Known(q, l)' <=> Known(q, l)
      BY <2>1, <1>4, SameLetters
    <3>2. \A q \in Node : /\ \A l \in Contents(queue[q]) : Known(q, l)
                          /\ pc[q] = "put back" => Known(q, aside[q])
      BY DEF SInv, Mail
    <3>3. aside' = aside
      BY <1>1
    <3>4. \A q \in Node : pc[q] = "put back" => Known(q, aside[q])'
      BY <3>1, <3>2, <3>3
    <3>. QED  BY <3>1, <3>2, <3>4
  <2>2. CASE left[FS] # 1
    BY <2>2, <1>0, <1>1, <1>3, <1>4, NewNumber
  <2>. QED  BY <2>1, <2>2
<1>10. ASSUME NEW q \in Node PROVE Mail(q)'
  <2>1. CASE q = FS
    <3>1. \A l \in Contents(queue'[FS]) : l.from # HD
      BY <1>2 DEF Contents, Sources
    <3>. QED  BY <2>1, <3>1, <1>0, <1>2, <1>6, <1>9 DEF Mail
  <2>2. CASE q # FS
    BY <2>2, <1>1, <1>2, <1>6, <1>9 DEF SInv, Mail
  <2>. QED  BY <2>1, <2>2
<1>11. \A x \in Callers \ {FS} : \A s \in {HD, FS} : Calls(x) = s => Letter(s, x)' = Letter(s, x)
  BY <1>6, Peerage DEF Letter, Subject, Current
<1>12. ASSUME NEW q \in {HD, FS} PROVE Work(q)'
  <2>1. Work(q) /\ serving'[q] = serving[q]
    BY <1>1 DEF SInv
  <2>2. CASE q = FS
    <3>1. serving[FS].from # FS \/ serving[FS] = Nothing
      BY <1>0, <1>1, <2>1, <2>2 DEF Work
    <3>. QED  BY <2>1, <2>2, <3>1, <1>1, <1>5, <1>6, <1>11 DEF Work
  <2>3. CASE q = HD
    <3>1. pc[HD] # "main" => serving[HD].from # FS
      BY <1>0, <1>3 DEF Served
    <3>. QED  BY <2>1, <2>3, <3>1, <1>0, <1>5, <1>6, <1>11, ZenonT(60) DEF Work
  <2>. QED  BY <2>2, <2>3
<1>13. ASSUME NEW q \in Callers PROVE Once(q)'
  <2>1. Once(q) /\ q \in Node /\ Calls(q) \in {HD, FS} /\ Calls(q) \in Node /\ Calls(q) # q
    BY Peerage DEF SInv
  <2>2. Waits(q)' <=> Waits(q) /\ q # FS
    BY <1>0, <1>6, <2>1 DEF Waits
  <2>3. Asked(q)' <=> Asked(q)
    <3>1. q # HD
      BY Peerage
    <3>. QED  BY <1>0, <1>1, <1>2, <1>6, <2>1, <3>1 DEF Asked
  <2>4. Answered(q)' <=> Answered(q) /\ q # FS
    BY <1>0, <1>2, <2>1 DEF Answered
  <2>5. Served(q)' <=> Served(q)
    <3>1. serving[FS] = Nothing => serving[FS].from # q
      BY <1>0 DEF Nothing
    <3>. QED  BY <1>0, <1>1, <1>6, <2>1, <3>1 DEF Served
  <2>. QED  BY <1>3, <2>1, <2>2, <2>3, <2>4, <2>5 DEF Once
<1>14. Disk'
  BY <1>0, <1>1, <1>2, <1>6 DEF SInv, Disk, Waits
<1>. QED  BY <1>7, <1>8, <1>10, <1>12, <1>13, <1>14 DEF SInv

(* The disk driver takes a request, and answers or starts the disk.         *)
LEMMA HdTakeKeeps ==
  ASSUME SInv, HdOpen \/ HdTake
  PROVE  SInv'
<1>. PICK m : m = Head(queue[HD])
  OBVIOUS
<1> DEFINE x == m.from
<1>0. HD \in Node /\ HD # FS /\ HD \notin Callers /\ Awaited(HD) = IRQ
  BY Peerage
<1>1. /\ pc[HD] = "main" /\ queue[HD] # <<>>
      /\ queue \in [Node -> Seq(Message)] /\ queue[HD] \in Seq(Message) /\ OneOfEach(queue[HD])
      /\ pc \in [Node -> {"idle", "send", "wait", "put back", "main", "reply"}]
      /\ left \in [{HD, FS} -> Nat] /\ serving \in [{HD, FS} -> Message]
      /\ queue' = [queue EXCEPT ![HD] = Tail(@)] /\ serving' = [serving EXCEPT ![HD] = m]
      /\ aside' = aside /\ number' = number
  BY <1>0 DEF HdOpen, HdTake, Take, SInv, STypeOK, Mail
<1>2. ~busy /\ IRQ \notin Sources(queue[HD])
  BY <1>0, <1>1 DEF SInv, Disk, Waits
<1>3. /\ queue' \in [Node -> Seq(Message)] /\ m \in Message /\ m \in Contents(queue[HD])
      /\ OneOfEach(queue'[HD]) /\ Contents(queue'[HD]) \subseteq Contents(queue[HD])
      /\ x \in Sources(queue[HD]) /\ Sources(queue'[HD]) = Sources(queue[HD]) \ {x}
      /\ \A q \in Node \ {HD} : queue'[q] = queue[q]
  BY <1>0, <1>1, Dropped
<1>4. Known(HD, m) /\ x \in Callers /\ Calls(x) = HD /\ m = Letter(HD, x)
  <2>1. Known(HD, m) /\ x \in Peers(HD)
    BY <1>0, <1>3 DEF SInv, Mail, Known
  <2>. QED  BY <1>2, <1>3, <2>1, Peerage DEF Known
<1>5. \/ /\ pc' = [pc EXCEPT ![HD] = "reply"] /\ left' = left /\ busy' = busy
      \/ /\ pc' = [pc EXCEPT ![HD] = "wait"] /\ busy' = TRUE
         /\ left' \in [{HD, FS} -> Nat] /\ left'[HD] > 0 /\ left'[FS] = left[FS]
  <2>1. CASE HdOpen
    BY <2>1 DEF HdOpen, Goto
  <2>2. CASE HdTake
    <3>1. PICK n \in 1 .. SECTORS : left' = [left EXCEPT ![HD] = n]
      BY <2>2 DEF HdTake
    <3>2. n \in Nat /\ n > 0
      BY ServersAssumption
    <3>. QED  BY <2>2, <3>1, <3>2, <1>0, <1>1 DEF HdTake, Goto
  <2>. QED  BY <2>1, <2>2
<1>6. /\ pc' \in [Node -> {"idle", "send", "wait", "put back", "main", "reply"}]
      /\ pc'[HD] \in {"reply", "wait"} /\ \A q \in Node \ {HD} : pc'[q] = pc[q]
      /\ left' \in [{HD, FS} -> Nat] /\ left'[FS] = left[FS] /\ busy' \in BOOLEAN
      /\ (pc'[HD] = "wait" => left'[HD] > 0 /\ busy') /\ (pc'[HD] = "reply" => ~busy')
  <2>1. busy \in BOOLEAN
    BY DEF SInv, STypeOK
  <2>2. CASE pc' = [pc EXCEPT ![HD] = "reply"] /\ left' = left /\ busy' = busy
    BY <2>1, <2>2, <1>0, <1>1, <1>2
  <2>3. CASE /\ pc' = [pc EXCEPT ![HD] = "wait"] /\ busy' = TRUE
             /\ left' \in [{HD, FS} -> Nat] /\ left'[HD] > 0 /\ left'[FS] = left[FS]
    BY <2>1, <2>3, <1>0, <1>1, <1>2
  <2>. QED  BY <2>2, <2>3, <1>5
<1>7. STypeOK'
  BY <1>1, <1>3, <1>6 DEF SInv, STypeOK
<1>8. \A q \in Node : pc'[q] \in Labels(q)
  <2>1. {"wait", "reply"} \subseteq Labels(HD)
    BY Peerage DEF Labels
  <2>. QED  BY <2>1, <1>6 DEF SInv
<1>9. ASSUME NEW q \in Node PROVE Mail(q)'
  <2>1. CASE q = HD
    BY <2>1, <1>0, <1>1, <1>3, <1>6, SameLetters DEF SInv, Mail
  <2>2. CASE q # HD
    BY <2>2, <1>1, <1>3, <1>6, SameLetters DEF SInv, Mail
  <2>. QED  BY <2>1, <2>2
<1>10. Work(HD)'
  <2>1. serving'[HD] = m /\ m = Letter(HD, x)' /\ m # Nothing
    <3>1. m.from # IRQ /\ Nothing.from = IRQ
      BY <1>2, <1>3 DEF Nothing
    <3>2. m = Letter(HD, x)'
      BY <1>1, <1>4, SameLetters
    <3>3. serving'[HD] = m
      BY <1>1
    <3>. QED  BY <3>1, <3>2, <3>3
  <2>. QED  BY <1>4, <1>6, <2>1 DEF Work
<1>11. Work(FS)'
  <2>1. Work(FS) /\ FS \in Node /\ serving'[FS] = serving[FS] /\ \A y : Letter(FS, y)' = Letter(FS, y)
    BY <1>0, <1>1, Peerage, SameLetters DEF SInv
  <2>. QED  BY <1>0, <1>6, <2>1 DEF Work
<1>12. ASSUME NEW q \in Callers PROVE Once(q)'
  <2>1. Once(q) /\ q \in Node /\ Calls(q) \in {HD, FS} /\ Calls(q) \in Node /\ q # HD
    BY Peerage DEF SInv
  <2>2. Waits(q)' <=> Waits(q)
    BY <1>6, <2>1 DEF Waits
  <2>3. Asked(q)' <=> Asked(q) /\ q # x
    BY <1>0, <1>1, <1>3, <1>4, <1>6, <2>1 DEF Asked
  <2>4. Answered(q)' <=> Answered(q)
    BY <1>3, <2>1 DEF Answered
  <2>5. Served(q)' <=> Served(q) \/ q = x
    BY <1>0, <1>1, <1>4, <1>6, <2>1 DEF Served
  <2>6. Asked(x)
    BY <1>3, <1>4 DEF Asked
  <2>. QED  BY <2>1, <2>2, <2>3, <2>4, <2>5, <2>6 DEF Once
<1>13. Disk'
  BY <1>0, <1>2, <1>3, <1>6 DEF Disk, Waits
<1>. QED  BY <1>7, <1>8, <1>9, <1>10, <1>11, <1>12, <1>13 DEF SInv

(* An interrupt comes to the driver that waits for it: the next sector is   *)
(* started, or the request is done.                                         *)
LEMMA HdArrivesKeeps ==
  ASSUME SInv, HdArrives
  PROVE  SInv'
<1>0. HD \in Node /\ HD # FS /\ HD \notin Callers /\ IRQ \notin Callers /\ Awaited(HD) = IRQ
  BY Peerage
<1>1. /\ pc[HD] = "wait" /\ queue[HD] # <<>> /\ Head(queue[HD]).from = IRQ
      /\ queue \in [Node -> Seq(Message)] /\ queue[HD] \in Seq(Message) /\ OneOfEach(queue[HD])
      /\ pc \in [Node -> {"idle", "send", "wait", "put back", "main", "reply"}]
      /\ left \in [{HD, FS} -> Nat] /\ serving \in [{HD, FS} -> Message] /\ busy \in BOOLEAN
      /\ queue' = [queue EXCEPT ![HD] = Tail(@)] /\ left' = [left EXCEPT ![HD] = @ - 1]
      /\ aside' = aside /\ serving' = serving /\ number' = number
  BY <1>0 DEF HdArrives, Arrives, SInv, STypeOK, Mail
<1>2. /\ queue' \in [Node -> Seq(Message)]
      /\ OneOfEach(queue'[HD]) /\ Contents(queue'[HD]) \subseteq Contents(queue[HD])
      /\ IRQ \in Sources(queue[HD]) /\ Sources(queue'[HD]) = Sources(queue[HD]) \ {IRQ}
      /\ \A q \in Node \ {HD} : queue'[q] = queue[q]
  BY <1>0, <1>1, Dropped
<1>3. ~busy
  BY <1>1, <1>2 DEF SInv, Disk, Waits
<1>4. \/ /\ left[HD] = 1 /\ busy' = busy
         /\ pc' = [pc EXCEPT ![HD] = IF serving[HD] = Nothing THEN "main" ELSE "reply"]
      \/ left[HD] # 1 /\ busy' = TRUE /\ pc' = pc
  BY DEF HdArrives, Finished, Goto
<1>5. /\ left' \in [{HD, FS} -> Nat] /\ left'[FS] = left[FS]
      /\ left[HD] # 1 => left'[HD] > 0
  <2>1. left[HD] \in Nat /\ left[HD] > 0
    BY <1>0, <1>1 DEF SInv, Work
  <2>2. left[HD] - 1 \in Nat /\ (left[HD] # 1 => left[HD] - 1 > 0)
    BY <2>1
  <2>. QED  BY <2>2, <1>0, <1>1
<1>6. /\ pc' \in [Node -> {"idle", "send", "wait", "put back", "main", "reply"}]
      /\ \A q \in Node \ {HD} : pc'[q] = pc[q]
      /\ pc'[HD] \in {"wait", "main", "reply"} /\ (pc'[HD] = "main" => serving[HD] = Nothing)
      /\ (pc'[HD] = "reply" => serving[HD] # Nothing) /\ (pc'[HD] = "wait" => left[HD] # 1)
      /\ busy' \in BOOLEAN /\ (busy' <=> pc'[HD] = "wait")
  <2>2. CASE /\ left[HD] = 1 /\ busy' = busy
             /\ pc' = [pc EXCEPT ![HD] = IF serving[HD] = Nothing THEN "main" ELSE "reply"]
    BY <2>2, <1>0, <1>1, <1>3
  <2>3. CASE left[HD] # 1 /\ busy' = TRUE /\ pc' = pc
    BY <2>3, <1>0, <1>1
  <2>. QED  BY <2>2, <2>3, <1>4
<1>7. STypeOK'
  BY <1>1, <1>2, <1>5, <1>6 DEF SInv, STypeOK
<1>8. \A q \in Node : pc'[q] \in Labels(q)
  <2>1. {"wait", "main", "reply"} \subseteq Labels(HD)
    BY Peerage DEF Labels
  <2>. QED  BY <2>1, <1>6 DEF SInv
<1>9. ASSUME NEW q \in Node PROVE Mail(q)'
  <2>1. CASE q = HD
    BY <2>1, <1>0, <1>1, <1>2, <1>6, SameLetters DEF SInv, Mail
  <2>2. CASE q # HD
    BY <2>2, <1>1, <1>2, <1>6, SameLetters DEF SInv, Mail
  <2>. QED  BY <2>1, <2>2
<1>10. ASSUME NEW q \in {HD, FS} PROVE Work(q)'
  <2>0. \A x : Letter(q, x)' = Letter(q, x)
    BY <1>1, SameLetters
  <2>1. Work(q) /\ serving'[q] = serving[q]
    BY <1>1 DEF SInv
  <2>2. CASE q = HD
    BY <2>0, <2>1, <2>2, <1>1, <1>5, <1>6 DEF Work
  <2>3. CASE q = FS
    <3>1. pc'[FS] = pc[FS] /\ left'[FS] = left[FS]
      BY <1>0, <1>5, <1>6, Peerage
    <3>. QED  BY <2>0, <2>1, <2>3, <3>1 DEF Work
  <2>. QED  BY <2>2, <2>3
<1>11. ASSUME NEW q \in Callers PROVE Once(q)'
  <2>1. Once(q) /\ q \in Node /\ Calls(q) \in {HD, FS} /\ Calls(q) \in Node /\ q # HD /\ q # IRQ
    BY <1>0, Peerage DEF SInv
  <2>2. Waits(q)' <=> Waits(q)
    BY <1>6, <2>1 DEF Waits
  <2>3. Asked(q)' <=> Asked(q)
    BY <1>0, <1>1, <1>2, <1>6, <2>1 DEF Asked
  <2>4. Answered(q)' <=> Answered(q)
    BY <1>2, <2>1 DEF Answered
  <2>5. Served(q)' <=> Served(q)
    <3>1. serving[HD] = Nothing => serving[HD].from # q
      BY <2>1 DEF Nothing
    <3>. QED  BY <1>0, <1>1, <1>6, <2>1, <3>1 DEF Served
  <2>. QED  BY <2>1, <2>2, <2>3, <2>4, <2>5 DEF Once
<1>12. Disk'
  BY <1>0, <1>2, <1>6 DEF Disk, Waits
<1>. QED  BY <1>7, <1>8, <1>9, <1>10, <1>11, <1>12 DEF SInv

(* A sector is done: the driver has room for the interrupt.                 *)
LEMMA InterruptKeeps ==
  ASSUME SInv, irq13_handler
  PROVE  SInv'
<1>0. HD \in Node /\ HD # FS /\ HD \notin Callers /\ IRQ \notin Callers /\ Awaited(HD) = IRQ /\ IRQ \in Peers(HD)
  BY Peerage
<1>1. /\ busy /\ busy' = FALSE
      /\ queue \in [Node -> Seq(Message)] /\ queue[HD] \in Seq(Message) /\ OneOfEach(queue[HD])
      /\ pc' = pc /\ aside' = aside /\ serving' = serving /\ number' = number /\ left' = left
  BY <1>0 DEF irq13_handler, SInv, STypeOK, Mail
<1>2. Waits(HD) /\ IRQ \notin Sources(queue[HD])
  BY <1>1 DEF SInv, Disk
<1>3. queue' = [queue EXCEPT ![HD] = Append(@, Nothing)]
  <2>1. Room(HD)
    BY <1>0, <1>1, <1>2, Fits DEF SInv
  <2>. QED  BY <2>1 DEF irq13_handler, Deliver
<1>4. Nothing \in Message /\ Nothing.from = IRQ /\ Known(HD, Nothing)
  BY <1>0 DEF Nothing, Message, Request, Known, Letter, Subject
<1>5. /\ queue' \in [Node -> Seq(Message)]
      /\ OneOfEach(queue'[HD]) /\ Contents(queue'[HD]) = Contents(queue[HD]) \cup {Nothing}
      /\ Sources(queue'[HD]) = Sources(queue[HD]) \cup {IRQ}
      /\ \A q \in Node \ {HD} : queue'[q] = queue[q]
  BY <1>0, <1>1, <1>2, <1>3, <1>4, Added
<1>7. STypeOK'
  BY <1>1, <1>5 DEF SInv, STypeOK
<1>8. \A q \in Node : pc'[q] \in Labels(q)
  BY <1>1 DEF SInv
<1>9. ASSUME NEW q \in Node PROVE Mail(q)'
  <2>1. CASE q = HD
    BY <2>1, <1>0, <1>1, <1>4, <1>5, SameLetters DEF SInv, Mail
  <2>2. CASE q # HD
    BY <2>2, <1>1, <1>5, SameLetters DEF SInv, Mail
  <2>. QED  BY <2>1, <2>2
<1>10. ASSUME NEW q \in {HD, FS} PROVE Work(q)'
  BY <1>1, SameLetters DEF SInv, Work
<1>11. ASSUME NEW q \in Callers PROVE Once(q)'
  <2>1. Once(q) /\ q \in Node /\ Calls(q) \in {HD, FS} /\ Calls(q) \in Node /\ q # HD /\ q # IRQ
    BY <1>0, Peerage DEF SInv
  <2>2. (Waits(q)' <=> Waits(q)) /\ (Served(q)' <=> Served(q))
    BY <1>1 DEF Waits, Served
  <2>3. Asked(q)' <=> Asked(q)
    BY <1>0, <1>1, <1>5, <2>1 DEF Asked
  <2>4. Answered(q)' <=> Answered(q)
    BY <1>5, <2>1 DEF Answered
  <2>. QED  BY <2>1, <2>2, <2>3, <2>4 DEF Once
<1>12. Disk'
  BY <1>1, <1>2, <1>5 DEF Disk, Waits
<1>. QED  BY <1>7, <1>8, <1>9, <1>10, <1>11, <1>12 DEF SInv

(* A server answers, and the reply finds room.                              *)
LEMMA ReplyKeeps ==
  ASSUME SInv, NEW s \in {HD, FS}, Reply(s)
  PROVE  SInv'
<1>. PICK x : x = serving[s].from
  OBVIOUS
<1>. PICK m : m = [serving[s] EXCEPT !.from = s]
  OBVIOUS
<1>0. s \in Node /\ IRQ \notin Callers /\ s # IRQ
  BY Peerage
<1>1. /\ pc[s] = "reply" /\ serving[s] # Nothing
      /\ queue \in [Node -> Seq(Message)] /\ serving \in [{HD, FS} -> Message]
      /\ pc \in [Node -> {"idle", "send", "wait", "put back", "main", "reply"}]
      /\ pc' = [pc EXCEPT ![s] = "main"]
      /\ aside' = aside /\ serving' = serving /\ number' = number /\ left' = left /\ busy' = busy
  BY <1>0 DEF Reply, Goto, SInv, STypeOK, Work
<1>2. x \in Callers /\ x \in Node /\ Calls(x) = s /\ serving[s] = Letter(s, x) /\ x # s /\ Awaited(x) = s
  <2>1. x \in Callers /\ Calls(x) = s /\ serving[s] = Letter(s, x)
    BY <1>1 DEF SInv, Work
  <2>. QED  BY <2>1, Peerage
<1>3. Served(x) /\ ~Asked(x) /\ ~Answered(x) /\ s \notin Sources(queue[x])
  BY <1>1, <1>2 DEF SInv, Once, Served, Answered
<1>4. m = Letter(x, s) /\ m \in Message /\ m.from = s /\ Known(x, m) /\ s \in Peers(x)
  <2>1. s \in Peers(x)
    BY <1>2, Peerage
  <2>2. Subject(s, x) = Current(x)
    BY <1>0, <1>2 DEF Subject
  <2>3. Subject(x, s) = Current(x)
    BY <1>0, <1>2, Peerage DEF Subject
  <2>4. m = Letter(x, s)
    BY <1>2, <2>2, <2>3 DEF Letter
  <2>. QED  BY <1>2, <2>1, <2>4, LetterType DEF SInv
<1>5. queue' = [queue EXCEPT ![x] = Append(@, m)] /\ OneOfEach(queue[x])
  <2>1. Room(x) /\ OneOfEach(queue[x])
    BY <1>1, <1>2, <1>3, <1>4, Fits DEF SInv, Mail
  <2>. QED  BY <2>1, <1>2 DEF Reply, Deliver
<1>6. /\ queue' \in [Node -> Seq(Message)]
      /\ OneOfEach(queue'[x]) /\ Contents(queue'[x]) = Contents(queue[x]) \cup {m}
      /\ Sources(queue'[x]) = Sources(queue[x]) \cup {s}
      /\ \A q \in Node \ {x} : queue'[q] = queue[q]
  <2>1. /\ queue[x] \in Seq(Message) /\ queue'[x] = Append(queue[x], m)
        /\ \A q \in Node \ {x} : queue'[q] = queue[q]
    BY <1>1, <1>2, <1>5
  <2>2. m.from \notin Sources(queue[x])
    BY <1>3, <1>4
  <2>3. /\ Append(queue[x], m) \in Seq(Message) /\ OneOfEach(Append(queue[x], m))
        /\ Contents(Append(queue[x], m)) = Contents(queue[x]) \cup {m}
        /\ Sources(Append(queue[x], m)) = Sources(queue[x]) \cup {m.from}
    BY <1>4, <1>5, <2>1, <2>2, Added
  <2>4. queue' \in [Node -> Seq(Message)]
    BY <1>1, <1>2, <1>5, <2>3
  <2>. QED  BY <1>4, <2>1, <2>3, <2>4
<1>7. STypeOK'
  BY <1>0, <1>1, <1>6 DEF SInv, STypeOK
<1>8. \A q \in Node : pc'[q] \in Labels(q)
  <2>1. "main" \in Labels(s)
    BY Peerage DEF Labels
  <2>. QED  BY <2>1, <1>1 DEF SInv
<1>9. ASSUME NEW q \in Node PROVE Mail(q)'
  <2>0. pc'[q] = "put back" => pc[q] = "put back"
    BY <1>1
  <2>1. CASE q = x
    <3>1. Mail(x)
      BY <1>2 DEF SInv
    <3>2. \A l \in Contents(queue'[x]) : Known(x, l)'
      <4>1. \A l \in Contents(queue'[x]) : Known(x, l)
        BY <3>1, <1>4, <1>6 DEF Mail
      <4>2. \A l : Known(x, l)' <=> Known(x, l)
        BY <1>1, SameLetters
      <4>. QED  BY <4>1, <4>2
    <3>3. pc'[x] = "put back" => Known(x, aside[x])' /\ aside[x].from # s /\ aside[x].from \notin Sources(queue[x])
      BY <2>0, <2>1, <3>1, <1>1, <1>2, SameLetters DEF Mail
    <3>4. pc'[x] = "put back" => aside[x].from # Awaited(x) /\ aside[x].from \notin Sources(queue'[x])
      BY <3>3, <1>2, <1>6
    <3>. QED  BY <2>1, <3>2, <3>3, <3>4, <1>1, <1>6 DEF Mail
  <2>2. CASE q # x
    BY <2>0, <2>2, <1>1, <1>6, SameLetters DEF SInv, Mail
  <2>. QED  BY <2>1, <2>2
<1>10. ASSUME NEW q \in {HD, FS} PROVE Work(q)'
  <2>1. Work(q) /\ q \in Node /\ \A y : Letter(q, y)' = Letter(q, y)
    <3>1. Work(q)
      BY DEF SInv
    <3>2. q \in Node
      BY Peerage
    <3>3. \A y : Letter(q, y)' = Letter(q, y)
      BY <1>1, SameLetters
    <3>. QED  BY <3>1, <3>2, <3>3
  <2>2. pc'[q] # pc[q] => pc'[q] = "main"
    BY <1>1, <2>1
  <2>. QED  BY <1>1, <2>1, <2>2 DEF Work
<1>11. ASSUME NEW q \in Callers PROVE Once(q)'
  <2>1. Once(q) /\ q \in Node /\ Calls(q) \in Node
    BY Peerage DEF SInv
  <2>2. Waits(q)' <=> Waits(q)
    BY <1>1, <2>1 DEF Waits
  <2>3. Asked(q)' <=> Asked(q)
    <3>1. Calls(q) = x => q # s
      BY <1>2, <2>1, Peerage
    <3>2. pc'[Calls(q)] = "put back" <=> pc[Calls(q)] = "put back"
      BY <1>1, <2>1
    <3>. QED  BY <1>1, <1>6, <2>1, <3>1, <3>2 DEF Asked
  <2>4. Answered(q)' <=> Answered(q) \/ q = x
    <3>1. CASE q = x
      BY <3>1, <1>2, <1>6 DEF Answered
    <3>2. CASE q # x
      BY <3>2, <1>6, <2>1 DEF Answered
    <3>. QED  BY <3>1, <3>2
  <2>5. Served(q)' <=> Served(q) /\ q # x
    <3>1. CASE Calls(q) = s
      BY <3>1, <1>0, <1>1, <1>2 DEF Served
    <3>2. CASE Calls(q) # s
      BY <3>2, <1>1, <1>2, <2>1 DEF Served
    <3>. QED  BY <3>1, <3>2
  <2>. QED  BY <1>3, <2>1, <2>2, <2>3, <2>4, <2>5 DEF Once
<1>12. Disk'
  <2>1. Sources(queue'[HD]) = Sources(queue[HD]) /\ (Waits(HD)' <=> Waits(HD))
    BY <1>1, <1>2, <1>6, Peerage DEF Waits
  <2>. QED  BY <2>1, <1>1 DEF SInv, Disk
<1>. QED  BY <1>7, <1>8, <1>9, <1>10, <1>11, <1>12 DEF SInv

(***************************************************************************)
(* The theorems.                                                            *)
(***************************************************************************)
(* The invariant holds: requests and replies stay apart in every order of   *)
(* the calls.                                                               *)
THEOREM ServersInvariant == SSpec => []SInv
<1>1. SInv /\ [SNext]_svars => SInv'
  <2> SUFFICES ASSUME SInv, [SNext]_svars PROVE SInv'
    OBVIOUS
  <2>1. CASE UNCHANGED svars
    <3>1. /\ queue' = queue /\ pc' = pc /\ number' = number /\ aside' = aside /\ serving' = serving
          /\ left' = left /\ busy' = busy
      BY <2>1 DEF svars
    <3>2. STypeOK' /\ \A p \in Node : pc'[p] \in Labels(p)
      BY <3>1 DEF SInv, STypeOK
    <3>3. \A p \in Node : Mail(p)'
      BY <3>1, SameLetters DEF SInv, Mail
    <3>4. \A s \in {HD, FS} : Work(s)'
      BY <3>1, SameLetters DEF SInv, Work
    <3>5. (\A p \in Callers : Once(p)') /\ Disk'
      BY <3>1 DEF SInv, Once, Waits, Asked, Answered, Served, Disk
    <3>. QED  BY <3>2, <3>3, <3>4, <3>5 DEF SInv
  <2>2. CASE irq13_handler
    BY <2>2, InterruptKeeps
  <2>3. ASSUME NEW c \in Client, Start(c) PROVE SInv'
    BY <2>3, StartKeeps
  <2>4. ASSUME NEW p \in Node, Runs(p) PROVE SInv'
    BY <2>4, SendKeeps, SetAsideKeeps, PutBackKeeps, ReturnKeeps, FsTakeKeeps, FsArrivesKeeps,
       HdTakeKeeps, HdArrivesKeeps, ReplyKeeps DEF Runs
  <2>. QED  BY <2>1, <2>2, <2>3, <2>4 DEF SNext
<1>. QED  BY <1>1, SInitHolds, PTL DEF SSpec

(* How often the message of a sender is in a queue.                         *)
LEMMA CopiesAre ==
  ASSUME NEW q \in Seq(Message), OneOfEach(q), NEW l, \A m \in Contents(q) : m.from = l.from => m = l
  PROVE  Cardinality({i \in DOMAIN q : q[i] = l}) = IF l.from \in Sources(q) THEN 1 ELSE 0
<1>1. CASE l.from \in Sources(q)
  <2>1. PICK i \in DOMAIN q : q[i].from = l.from
    BY <1>1 DEF Sources
  <2>2. q[i] = l
    BY <2>1 DEF Contents
  <2>3. {j \in DOMAIN q : q[j] = l} = {i}
    BY <2>1, <2>2 DEF OneOfEach
  <2>. QED  BY <1>1, <2>3, FS_Singleton
<1>2. CASE l.from \notin Sources(q)
  <2>1. {j \in DOMAIN q : q[j] = l} = {}
    BY <1>2 DEF Sources
  <2>. QED  BY <1>2, <2>1, FS_EmptySet
<1>. QED  BY <1>1, <1>2

(* A request is served and answered exactly once, however often the servers *)
(* put messages of others back into their queues (receive in proclib.c).    *)
THEOREM RequestsAreServedOnce == SSpec => []OnePlace
<1>1. SInv => OnePlace
  <2> SUFFICES ASSUME SInv, NEW p \in Callers
               PROVE  Places(p) = IF Waits(p) THEN 1 ELSE 0
    BY DEF OnePlace, SInv, Waits
  <2> DEFINE s == Calls(p)
             rq == [from |-> p, about |-> Current(p)]
             re == [from |-> s, about |-> Current(p)]
  <2>1. /\ p \in Node /\ s \in Node /\ s \in {HD, FS} /\ Awaited(p) = s
        /\ queue[p] \in Seq(Message) /\ queue[s] \in Seq(Message)
        /\ Mail(p) /\ Mail(s) /\ Work(s) /\ Once(p)
    <3>1. p \in Node /\ s \in Node /\ s \in {HD, FS} /\ Awaited(p) = s
      BY Peerage
    <3>. QED  BY <3>1 DEF SInv, STypeOK
  <2>2. rq = Letter(s, p) /\ re = Letter(p, s)
    BY <2>1, Peerage DEF Letter, Subject
  <2>3. Cardinality({i \in DOMAIN queue[s] : queue[s][i] = rq}) = IF p \in Sources(queue[s]) THEN 1 ELSE 0
    <3>1. \A m \in Contents(queue[s]) : m.from = rq.from => m = rq
      BY <2>1, <2>2 DEF Mail, Known
    <3>. HIDE DEF rq
    <3>2. Cardinality({i \in DOMAIN queue[s] : queue[s][i] = rq}) = IF rq.from \in Sources(queue[s]) THEN 1 ELSE 0
      BY <2>1, <3>1, CopiesAre DEF Mail
    <3>. QED  BY <3>2 DEF rq
  <2>4. Cardinality({i \in DOMAIN queue[p] : queue[p][i] = re}) = IF s \in Sources(queue[p]) THEN 1 ELSE 0
    <3>1. \A m \in Contents(queue[p]) : m.from = re.from => m = re
      BY <2>1, <2>2 DEF Mail, Known
    <3>. HIDE DEF re
    <3>2. Cardinality({i \in DOMAIN queue[p] : queue[p][i] = re}) = IF re.from \in Sources(queue[p]) THEN 1 ELSE 0
      BY <2>1, <3>1, CopiesAre DEF Mail
    <3>. QED  BY <3>2 DEF re
  <2>. rq.from = p /\ re.from = s
    OBVIOUS
  <2>5. pc[s] = "put back" => (aside[s] = rq <=> aside[s].from = p) /\ aside[s].from \notin Sources(queue[s])
    <3>. HIDE DEF s, rq
    <3>. QED  BY <2>1, <2>2 DEF Mail, Known
  <2>6. pc[s] # "main" => (serving[s] = rq <=> serving[s].from = p)
    <3>1. Nothing.from # p
      BY Peerage DEF Nothing
    <3>. HIDE DEF s, rq
    <3>. QED  BY <2>1, <2>2, <3>1 DEF Work
  <2>7. pc[p] = "put back" => aside[p] # re
    <3>. HIDE DEF s, re
    <3>. QED  BY <2>1 DEF Mail
  <2> DEFINE asked    == IF p \in Sources(queue[s]) THEN 1 ELSE 0
             answered == IF Answered(p) THEN 1 ELSE 0
             apart    == IF pc[s] = "put back" /\ aside[s].from = p THEN 1 ELSE 0
             served   == IF Served(p) THEN 1 ELSE 0
  <2>8. Places(p) = asked + answered + apart + served + 0
    BY <2>3, <2>4, <2>5, <2>6, <2>7 DEF Places, Answered, Served
  <2>9. CASE p \in Sources(queue[s])
    <3>1. Asked(p)
      BY <2>9 DEF Asked
    <3>2. asked = 1 /\ answered = 0 /\ apart = 0 /\ served = 0 /\ Waits(p)
      BY <2>1, <2>5, <2>9, <3>1 DEF Once
    <3>. HIDE DEF asked, answered, apart, served
    <3>. QED  BY <2>8, <3>2
  <2>10. CASE pc[s] = "put back" /\ aside[s].from = p
    <3>1. Asked(p)
      BY <2>10 DEF Asked
    <3>2. asked = 0 /\ answered = 0 /\ apart = 1 /\ served = 0 /\ Waits(p)
      BY <2>1, <2>5, <2>10, <3>1 DEF Once
    <3>. HIDE DEF asked, answered, apart, served
    <3>. QED  BY <2>8, <3>2
  <2>11. CASE ~(p \in Sources(queue[s])) /\ ~(pc[s] = "put back" /\ aside[s].from = p)
    <3>1. ~Asked(p) /\ asked = 0 /\ apart = 0
      BY <2>11 DEF Asked
    <3>2. CASE Answered(p)
      <4>1. answered = 1 /\ served = 0 /\ Waits(p)
        BY <2>1, <3>2 DEF Once
      <4>. HIDE DEF asked, answered, apart, served
      <4>. QED  BY <2>8, <3>1, <4>1
    <3>3. CASE Served(p)
      <4>1. answered = 0 /\ served = 1 /\ Waits(p)
        BY <2>1, <3>3 DEF Once
      <4>. HIDE DEF asked, answered, apart, served
      <4>. QED  BY <2>8, <3>1, <4>1
    <3>4. CASE ~Answered(p) /\ ~Served(p)
      <4>1. answered = 0 /\ served = 0 /\ ~Waits(p)
        BY <2>1, <3>1, <3>4 DEF Once
      <4>. HIDE DEF asked, answered, apart, served
      <4>. QED  BY <2>8, <3>1, <4>1
    <3>. QED  BY <3>2, <3>3, <3>4
  <2>. QED  BY <2>9, <2>10, <2>11
<1>. QED  BY <1>1, ServersInvariant, PTL

(* A caller never takes the reply to another request than its last, and a   *)
(* queue of as many places as there are peers never overflows: nothing that *)
(* receive puts back, no reply and no interrupt is dropped.                 *)
THEOREM RepliesFindRoom == SSpec => []RepliesFit
<1>1. SInv => RepliesFit
  <2> SUFFICES ASSUME SInv PROVE RepliesFit
    OBVIOUS
  <2>1. ASSUME NEW p \in Callers, NEW i \in DOMAIN queue[p], queue[p][i].from = Calls(p)
        PROVE  queue[p][i].about = Current(p)
    <3>1. Known(p, queue[p][i])
      <4>1. p \in Node
        BY Peerage
      <4>. QED  BY <4>1 DEF SInv, Mail, Contents
    <3>. QED  BY <2>1, <3>1, Peerage DEF Known, Letter, Subject
  <2>2. ASSUME NEW p \in Node
        PROVE  Len(queue[p]) + (IF pc[p] = "put back" THEN 1 ELSE 0) <= Cardinality(Peers(p))
    <3>1. queue[p] \in Seq(Message) /\ Mail(p)
      BY DEF SInv, STypeOK
    <3>2. IsFiniteSet(Sources(queue[p])) /\ Cardinality(Sources(queue[p])) = Len(queue[p]) /\ Len(queue[p]) \in Nat
      BY <3>1, LengthIsSources, LenProperties DEF Mail
    <3>3. IsFiniteSet(Peers(p)) /\ Sources(queue[p]) \subseteq Peers(p)
      BY <3>1, PeersFinite DEF Mail, Known, Contents, Sources
    <3>0. Cardinality(Peers(p)) \in Nat
      BY <3>3, FS_CardinalityType
    <3>4. CASE pc[p] = "put back"
      <4>1. aside[p].from \in Peers(p) /\ aside[p].from \notin Sources(queue[p])
        BY <3>1, <3>4 DEF Mail, Known
      <4> DEFINE P == Sources(queue[p]) \cup {aside[p].from}
      <4>2. IsFiniteSet(P) /\ Cardinality(P) = Cardinality(Sources(queue[p])) + 1
        BY <3>2, <4>1, FS_AddElement
      <4>3. P \subseteq Peers(p)
        BY <3>3, <4>1
      <4>. HIDE DEF P
      <4>4. Cardinality(P) <= Cardinality(Peers(p))
        BY ONLY <4>3, <3>3, FS_Subset
      <4>. QED  BY <3>0, <3>2, <3>4, <4>2, <4>4
    <3>5. CASE pc[p] # "put back"
      <4>1. Cardinality(Sources(queue[p])) <= Cardinality(Peers(p))
        BY ONLY <3>3, FS_Subset
      <4>2. Len(queue[p]) <= Cardinality(Peers(p))
        BY <3>2, <4>1
      <4>3. (IF pc[p] = "put back" THEN 1 ELSE 0) = 0
        BY <3>5
      <4>4. Len(queue[p]) + 0 = Len(queue[p])
        BY <3>2
      <4>. QED  BY <4>2, <4>3, <4>4
    <3>. QED  BY <3>4, <3>5
  <2>. QED  BY <2>1, <2>2 DEF RepliesFit
<1>. QED  BY <1>1, ServersInvariant, PTL
=============================================================================
