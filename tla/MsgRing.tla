------------------------------- MODULE MsgRing ------------------------------
(***************************************************************************)
(* The ring of messages in a Process structure (proc.c, type.h): the fields *)
(* messages, msgHead, msgTail and msgCount, the statements of SEND and      *)
(* sendInterrupt that put a message in, those of RECEIVE that take one out, *)
(* and the loop of disposeProcess that recycles what is left, which wraps   *)
(* its pointer at KB_BUFFER_SIZE where the others wrap at MAX_MESSAGE_COUNT.*)
(*                                                                         *)
(* All of them run under scheduleLock.  The loop of disposeProcess is one   *)
(* action per iteration, the others one action each.  A pointer is the      *)
(* index of the slot it points to.                                          *)
(***************************************************************************)
EXTENDS Integers, Sequences

CONSTANTS Message,            \* source and page, as messages[] packs them
          MAX_MESSAGE_COUNT,
          KB_BUFFER_SIZE

ASSUME RingAssumption ==
  /\ MAX_MESSAGE_COUNT \in Nat \ {0} /\ KB_BUFFER_SIZE \in Nat \ {0}
  /\ Message # {}
(* config.h:91 and config.h:131 define both as 0x100.                       *)
ASSUME SameSizeAssumption == KB_BUFFER_SIZE = MAX_MESSAGE_COUNT

VARIABLES messages, msgHead, msgTail, msgCount,
          out,      \* the message read from the ring last
          alive     \* FALSE while disposeProcess empties the ring
rvars == <<messages, msgHead, msgTail, msgCount, out, alive>>

Slot == 0 .. MAX_MESSAGE_COUNT - 1

(* p++; if(p == messages + size) p = messages;                              *)
Advance(p, size) == IF p + 1 = size THEN 0 ELSE p + 1

(* newProcess: the structure comes from malloc, so the slots hold anything. *)
RInit ==
  /\ messages \in [Slot -> Message]
  /\ msgHead = 0 /\ msgTail = 0 /\ msgCount = 0
  /\ alive = TRUE
  /\ out \in Message

Put(m) ==
  /\ alive /\ msgCount < MAX_MESSAGE_COUNT
  /\ messages' = [messages EXCEPT ![msgHead] = m]
  /\ msgHead' = Advance(msgHead, MAX_MESSAGE_COUNT)
  /\ msgCount' = msgCount + 1
  /\ UNCHANGED <<msgTail, out, alive>>

Take ==
  /\ alive /\ msgCount # 0
  /\ out' = messages[msgTail]
  /\ msgTail' = Advance(msgTail, MAX_MESSAGE_COUNT)
  /\ msgCount' = msgCount - 1
  /\ UNCHANGED <<messages, msgHead, alive>>

Dispose == alive /\ alive' = FALSE /\ UNCHANGED <<messages, msgHead, msgTail, msgCount, out>>

(* Slip: the page of the slot at msgHead is recycled.                       *)
RecycleHead ==
  /\ ~alive /\ msgCount # 0
  /\ out' = messages[msgHead]
  /\ msgTail' = Advance(msgTail, KB_BUFFER_SIZE)
  /\ msgCount' = msgCount - 1
  /\ UNCHANGED <<messages, msgHead, alive>>

Recycle ==
  /\ ~alive /\ msgCount # 0
  /\ out' = messages[msgTail]
  /\ msgTail' = Advance(msgTail, KB_BUFFER_SIZE)
  /\ msgCount' = msgCount - 1
  /\ UNCHANGED <<messages, msgHead, alive>>

(* free(proc), and newProcess in memory that again holds anything.          *)
Renew ==
  /\ ~alive /\ msgCount = 0
  /\ messages' \in [Slot -> Message]
  /\ msgHead' = 0 /\ msgTail' = 0 /\ msgCount' = 0
  /\ alive' = TRUE
  /\ UNCHANGED out

RNext == (\E m \in Message : Put(m)) \/ Take \/ Dispose \/ Recycle \/ Renew
RSpec == RInit /\ [][RNext]_rvars

(* The indices stay in the array.                                           *)
TypeOK ==
  /\ messages \in [Slot -> Message]
  /\ msgHead \in Slot /\ msgTail \in Slot
  /\ msgCount \in 0 .. MAX_MESSAGE_COUNT
  /\ out \in Message /\ alive \in BOOLEAN

(* The slot of the i-th message from the tail.                              *)
At(i) == IF msgTail + i - 1 < MAX_MESSAGE_COUNT
           THEN msgTail + i - 1
           ELSE msgTail + i - 1 - MAX_MESSAGE_COUNT

(* The two pointers and the count never contradict each other, although     *)
(* each operation moves only one of the pointers.                           *)
CountFits == msgHead = IF msgTail + msgCount < MAX_MESSAGE_COUNT
                         THEN msgTail + msgCount
                         ELSE msgTail + msgCount - MAX_MESSAGE_COUNT

RInv == TypeOK /\ CountFits

Queue == [i \in 1 .. msgCount |-> messages[At(i)]]
F == INSTANCE Fifo WITH Capacity <- MAX_MESSAGE_COUNT, items <- Queue, open <- alive

(* The ring is a FIFO of MAX_MESSAGE_COUNT messages: none is overwritten,   *)
(* skipped or read twice, whichever of SEND, sendInterrupt, RECEIVE and     *)
(* disposeProcess moves the pointers, and each is recycled at the end.      *)
RingIsFifo == F!FSpec
=============================================================================
