-------------------------------- MODULE Servers --------------------------------
(***************************************************************************)
(* Requests and replies: the calls of kernel/proclib.c between the programs *)
(* that use files, the file system (kernel/driver/filesystem/filesystem.c)  *)
(* and the hard disk (kernel/driver/harddisk/harddisk.c).                   *)
(*                                                                         *)
(* Each system call is a step, on mailboxes as module Mailbox promises      *)
(* them; a RECEIVE on an empty one waits.  A reply is the page of the       *)
(* request, with what the server wrote on it: a message is its source and   *)
(* the request it is about.                                                 *)
(***************************************************************************)
EXTENDS Integers, Sequences, FiniteSets

CONSTANTS
  Client,             \* programs; the file system is a client of the disk too
  HD, FS,
  Server,             \* [Client -> {HD, FS}]: whom each program calls
  MAX_MESSAGE_COUNT,
  REQUESTS,           \* bound: disk requests one file request leads to
  SECTORS             \* bound: sectors of one disk request

Callers == Client \cup {FS}
Node == Client \cup {HD, FS}
IRQ  == "irq"                       \* the source -1

Calls(p)   == IF p = FS THEN HD ELSE Server[p]
Awaited(p) == IF p = HD THEN IRQ ELSE Calls(p)
Peers(p)   == {q \in Callers : Calls(q) = p} \cup {Awaited(p)}

ASSUME ServersAssumption ==
  /\ IsFiniteSet(Client) /\ HD \notin Client /\ FS \notin Client /\ HD # FS /\ IRQ \notin Node
  /\ Server \in [Client -> {HD, FS}]
  /\ REQUESTS \in Nat \ {0} /\ SECTORS \in Nat \ {0}
(* 256 in the code (config.h 131), which has fewer processes.               *)
ASSUME QueuesSuffice ==
  MAX_MESSAGE_COUNT \in Nat /\ \A p \in Node : Cardinality(Peers(p)) <= MAX_MESSAGE_COUNT

(* A request is its caller and a number: of one caller, two are told apart. *)
Request == (Node \cup {IRQ}) \X {0, 1}
Message == [from : Node \cup {IRQ}, about : Request]
Nothing == [from |-> IRQ, about |-> <<IRQ, 0>>]

VARIABLES
  queue,    \* [Node -> Seq(Message)]
  pc,       \* [Node -> where it is]
  number,   \* [Node -> number of its last request]
  aside,    \* [Node -> the message receive has taken and will put back]
  serving,  \* [{HD, FS} -> the message at MSG_ADDR]
  left,     \* [{HD, FS} -> sectors, or disk requests, still to come]
  busy      \* the disk works on a sector (external)

svars == <<queue, pc, number, aside, serving, left, busy>>

(* The two servers start with calls of their own, and programs may call them *)
(* meanwhile: identifyHD and readPartition read sectors, and norlitfs_bottom *)
(* opens the disk and reads the superblock.                                 *)
SInit ==
  /\ queue = [p \in Node |-> <<>>]
  /\ pc = [p \in Node |-> IF p = HD THEN "wait" ELSE IF p = FS THEN "send" ELSE "idle"]
  /\ number = [p \in Node |-> 0]
  /\ aside = [p \in Node |-> Nothing]
  /\ serving = [s \in {HD, FS} |-> Nothing]
  /\ \E n \in 1 .. SECTORS, r \in 1 .. REQUESTS : left = [s \in {HD, FS} |-> IF s = HD THEN n ELSE r]
  /\ busy = TRUE

Current(p) == <<p, number[p]>>
Room(q)    == Len(queue[q]) < MAX_MESSAGE_COUNT
Deliver(q, m) == [queue EXCEPT ![q] = IF Room(q) THEN Append(@, m) ELSE @]
Goto(p, l) == pc' = [pc EXCEPT ![p] = l]

(* The end of a server's work: an answer, or at its start none.             *)
Finished(s) == IF serving[s] = Nothing THEN "main" ELSE "reply"

(***************************************************************************)
(* proclib.c.                                                               *)
(***************************************************************************)
(* send, which repeats SEND after NICE as long as the queue is full.        *)
Send(p) ==
  /\ p # HD /\ pc[p] = "send" /\ Room(Calls(p))
  /\ queue' = Deliver(Calls(p), [from |-> p, about |-> Current(p)])
  /\ Goto(p, "wait")
  /\ UNCHANGED <<number, aside, serving, left, busy>>

(* receive: a message of another source is sent to oneself again, under     *)
(* that source.  The answer is not looked at.                               *)
SetAside(p) ==
  /\ pc[p] = "wait" /\ queue[p] # <<>> /\ Head(queue[p]).from # Awaited(p)
  /\ aside' = [aside EXCEPT ![p] = Head(queue[p])]
  /\ queue' = [queue EXCEPT ![p] = Tail(@)]
  /\ Goto(p, "put back")
  /\ UNCHANGED <<number, serving, left, busy>>

(* Slip: the message goes back with ebx = 0, as one's own.                  *)
PutBackAsOwn(p) ==
  /\ pc[p] = "put back"
  /\ queue' = Deliver(p, [aside[p] EXCEPT !.from = p])
  /\ aside' = [aside EXCEPT ![p] = Nothing]
  /\ Goto(p, "wait")
  /\ UNCHANGED <<number, serving, left, busy>>

PutBack(p) ==
  /\ pc[p] = "put back"
  /\ queue' = Deliver(p, aside[p])
  /\ aside' = [aside EXCEPT ![p] = Nothing]
  /\ Goto(p, "wait")
  /\ UNCHANGED <<number, serving, left, busy>>

(* The message receive was called for.                                      *)
Arrives(p) ==
  /\ pc[p] = "wait" /\ queue[p] # <<>> /\ Head(queue[p]).from = Awaited(p)
  /\ queue' = [queue EXCEPT ![p] = Tail(@)]

(***************************************************************************)
(* A program: fileOpen, fileRead and fileWrite, one after another.          *)
(***************************************************************************)
Start(c) ==
  /\ pc[c] = "idle"
  /\ number' = [number EXCEPT ![c] = 1 - @]
  /\ Goto(c, "send")
  /\ UNCHANGED <<queue, aside, serving, left, busy>>

Return(c) ==
  /\ Arrives(c) /\ Goto(c, "idle")
  /\ UNCHANGED <<number, aside, serving, left, busy>>

(***************************************************************************)
(* The loops of the two servers.                                            *)
(***************************************************************************)
Take(s) == pc[s] = "main" /\ queue[s] # <<>> /\ queue' = [queue EXCEPT ![s] = Tail(@)]

(* The file system's request leads to some disk requests, ...               *)
FsTake ==
  /\ Take(FS)
  /\ serving' = [serving EXCEPT ![FS] = Head(queue[FS])]
  /\ \E n \in 1 .. REQUESTS : left' = [left EXCEPT ![FS] = n]
  /\ number' = [number EXCEPT ![FS] = 1 - @]
  /\ Goto(FS, "send")
  /\ UNCHANGED <<aside, busy>>

(* ... each of which it waits for.                                          *)
FsArrives ==
  /\ Arrives(FS)
  /\ left' = [left EXCEPT ![FS] = @ - 1]
  /\ IF left[FS] = 1
       THEN Goto(FS, Finished(FS)) /\ UNCHANGED number
       ELSE Goto(FS, "send") /\ number' = [number EXCEPT ![FS] = 1 - @]
  /\ UNCHANGED <<aside, serving, busy>>

(* HD_OPEN is answered without the disk.                                    *)
HdOpen ==
  /\ Take(HD)
  /\ serving' = [serving EXCEPT ![HD] = Head(queue[HD])]
  /\ Goto(HD, "reply")
  /\ UNCHANGED <<number, aside, left, busy>>

(* readSectors and writeSectors: an interrupt for each sector.              *)
HdTake ==
  /\ Take(HD)
  /\ serving' = [serving EXCEPT ![HD] = Head(queue[HD])]
  /\ \E n \in 1 .. SECTORS : left' = [left EXCEPT ![HD] = n]
  /\ busy' = TRUE
  /\ Goto(HD, "wait")
  /\ UNCHANGED <<number, aside>>

(* Slip: one interrupt is taken for all sectors.                            *)
HdArrivesOnce ==
  /\ Arrives(HD)
  /\ left' = [left EXCEPT ![HD] = @ - 1]
  /\ IF left[HD] = 1 THEN Goto(HD, Finished(HD)) ELSE UNCHANGED pc
  /\ UNCHANGED <<number, aside, serving, busy>>

HdArrives ==
  /\ Arrives(HD)
  /\ left' = [left EXCEPT ![HD] = @ - 1]
  /\ IF left[HD] = 1
       THEN Goto(HD, Finished(HD)) /\ UNCHANGED busy
       ELSE busy' = TRUE /\ UNCHANGED pc
  /\ UNCHANGED <<number, aside, serving>>

(* irq13_handler, when a sector is done; sendInterrupt drops it if the      *)
(* queue is full.                                                           *)
irq13_handler ==
  /\ busy /\ busy' = FALSE
  /\ queue' = Deliver(HD, Nothing)
  /\ UNCHANGED <<pc, number, aside, serving, left>>

(* Slip: the server answers and waits for the next sector of the same.      *)
ReplyTwice(s) ==
  /\ pc[s] = "reply"
  /\ queue' = Deliver(serving[s].from, [serving[s] EXCEPT !.from = s])
  /\ \E l \in {"reply", "main"} : Goto(s, l)
  /\ UNCHANGED <<number, aside, serving, left, busy>>

(* sendMessage, once: a full queue loses the reply.                         *)
Reply(s) ==
  /\ pc[s] = "reply"
  /\ queue' = Deliver(serving[s].from, [serving[s] EXCEPT !.from = s])
  /\ Goto(s, "main")
  /\ UNCHANGED <<number, aside, serving, left, busy>>

Runs(p) == \/ Send(p) \/ SetAside(p) \/ PutBack(p)
           \/ p \in Client /\ Return(p)
           \/ p = FS /\ (FsTake \/ FsArrives \/ Reply(FS))
           \/ p = HD /\ (HdOpen \/ HdTake \/ HdArrives \/ Reply(HD))
SNext == irq13_handler \/ \E c \in Client : Start(c) \/ \E p \in Node : Runs(p)

(* Each process has the CPU again and again (Proc!NoStarvation), and the    *)
(* disk completes each sector.  No program has to call.                     *)
SSpec == SInit /\ [][SNext]_svars /\ WF_svars(irq13_handler)
               /\ \A p \in Node : WF_svars(Runs(p))

STypeOK ==
  /\ queue \in [Node -> Seq(Message)]
  /\ pc \in [Node -> {"idle", "send", "wait", "put back", "main", "reply"}]
  /\ number \in [Node -> {0, 1}]
  /\ aside \in [Node -> Message] /\ serving \in [{HD, FS} -> Message]
  /\ left \in [{HD, FS} -> Nat] /\ busy \in BOOLEAN

(***************************************************************************)
(* Properties.                                                              *)
(***************************************************************************)
(* Where the request a node waits on is: in the server's queue, put aside   *)
(* by the server, being served, or answered in the node's own queue or put  *)
(* aside there.  Each place counts.                                         *)
Places(p) ==
  LET s  == Calls(p)
      rq == [from |-> p, about |-> Current(p)]
      re == [from |-> s, about |-> Current(p)]
      Copies(q, m) == Cardinality({i \in DOMAIN q : q[i] = m})
  IN  Copies(queue[s], rq) + Copies(queue[p], re)
        + (IF pc[s] = "put back" /\ aside[s] = rq THEN 1 ELSE 0)
        + (IF pc[s] # "main" /\ serving[s] = rq THEN 1 ELSE 0)
        + (IF pc[p] = "put back" /\ aside[p] = re THEN 1 ELSE 0)

(* A request is served and answered exactly once, however often messages    *)
(* are put back behind others: while its caller waits it is in one place,   *)
(* and before and after in none.                                            *)
OnePlace ==
  /\ STypeOK
  /\ \A p \in Callers :
       Places(p) = IF pc[p] \in {"wait", "put back"} THEN 1 ELSE 0

(* The reply a caller takes is the one to its own last request: there is no *)
(* other in its queue.  And what receive puts back always finds room, and   *)
(* no reply or interrupt is dropped: a queue never holds more than one      *)
(* message of each peer, so that MAX_MESSAGE_COUNT need only be their       *)
(* number.                                                                  *)
RepliesFit ==
  /\ \A p \in Callers : \A i \in DOMAIN queue[p] :
       queue[p][i].from = Calls(p) => queue[p][i].about = Current(p)
  /\ \A p \in Node :
       Len(queue[p]) + (IF pc[p] = "put back" THEN 1 ELSE 0) <= Cardinality(Peers(p))

(* Each call returns, although requests of others arrive at the servers     *)
(* while they wait and are rotated through their queues.                    *)
CallsReturn == \A c \in Client : pc[c] # "idle" ~> pc[c] = "idle"
=============================================================================
