------------------------------ MODULE InputBuffer ------------------------------
(***************************************************************************)
(* The byte buffer an input driver shares with its IRQ handler: kb_buf of   *)
(* kernel/driver/keyboard/keyboard.c, and ms_buf of mouse.c, whose code is  *)
(* the same.  The handler stores a byte and notifies the driver, which      *)
(* waits for one notification per byte it reads.                            *)
(*                                                                         *)
(* The handler is one step.  The driver is a process: each system call and  *)
(* each critical section of it is a step, and so is each access to the      *)
(* buffer outside one.  The mailbox is that of module Mailbox for this one  *)
(* owner; a waiting driver takes what is appended to its empty queue.       *)
(***************************************************************************)
EXTENDS Integers, FiniteSets, SequencesExt

CONSTANTS
  Byte,               \* what the device sends, as far as the driver tells it apart
  BUFFER_SIZE,        \* KB_BUFFER_SIZE or MS_BUFFER_SIZE
  MAX_MESSAGE_COUNT,  \* slots of the driver's queue
  WORD                \* number of values of a u32

ASSUME BufferAssumption == /\ BUFFER_SIZE \in Nat \ {0} /\ MAX_MESSAGE_COUNT \in Nat \ {0}
                           /\ WORD \in Nat /\ WORD > BUFFER_SIZE

IRQ == "irq"          \* the source -1
OWN == "own"          \* the driver's own pid
WINMAN == "winman"    \* PID_WINMAN

VARIABLES
  buf, p_head, p_tail, count,  \* the buffer, its two pointers as indices
  queue,                       \* the sources of the driver's queued messages
  got,                         \* the byte the driver has taken, until it acts on it
  parted                       \* a byte and its notification have parted since
                               \* the last clear (history, see Agree)

bvars == <<buf, p_head, p_tail, count, queue, got, parted>>
Index == 0 .. BUFFER_SIZE - 1
Blank == CHOOSE b \in Byte : TRUE   \* in the buffer at first, and where got is dead

BInit ==
  /\ buf \in [Index -> {Blank}]
  /\ p_head = 0 /\ p_tail = 0 /\ count = 0
  /\ queue = <<>>
  /\ got = Blank
  /\ parted = FALSE

(* A message from s, when there is room.                                    *)
HasRoom  == Len(queue) < MAX_MESSAGE_COUNT
Enqueue(s) == queue' = IF HasRoom THEN Append(queue, s) ELSE queue

Advance(i) == IF i + 1 = BUFFER_SIZE THEN 0 ELSE i + 1

(* irq1_handler with scan code b: a full buffer drops the byte and a full   *)
(* queue drops the notification, each without regard to the other.          *)
Irq(b) ==
  /\ IF count < BUFFER_SIZE
       THEN /\ buf' = [buf EXCEPT ![p_head] = b]
            /\ p_head' = Advance(p_head)
            /\ count' = count + 1
       ELSE UNCHANGED <<buf, p_head, count>>
  /\ Enqueue(IRQ)
  /\ parted' = (parted \/ (count < BUFFER_SIZE) # HasRoom)
  /\ UNCHANGED <<p_tail, got>>

(* keyboard_clear: a message to itself, whose answer is not looked at, ...  *)
ClearSend == Enqueue(OWN) /\ UNCHANGED <<buf, p_head, p_tail, count, got, parted>>

(* The window manager sends to pid 5 what it has received.                  *)
Echo == HasRoom /\ Enqueue(WINMAN) /\ UNCHANGED <<buf, p_head, p_tail, count, got, parted>>

(* ... RECEIVE of what came before it, ...                                  *)
Receive(s) ==
  /\ queue # <<>> /\ Head(queue) = s
  /\ queue' = Tail(queue)
  /\ UNCHANGED <<buf, p_head, p_tail, count, got, parted>>

(* Slip: p_tail is left where it is.                                        *)
ZeroCount ==
  /\ count' = 0
  /\ parted' = Contains(queue, IRQ)
  /\ UNCHANGED <<buf, p_head, p_tail, queue, got>>

(* ... and the critical section that empties the buffer.  A notification    *)
(* that came after the message stays behind without its byte.               *)
Zero ==
  /\ p_tail' = p_head /\ count' = 0
  /\ parted' = Contains(queue, IRQ)
  /\ UNCHANGED <<buf, p_head, queue, got>>

(* keyboard_read, after a notification: the byte, and then count--.         *)
Take ==
  /\ got' = buf[p_tail] /\ p_tail' = Advance(p_tail)
  /\ UNCHANGED <<buf, p_head, count, queue, parted>>

Uncount ==
  /\ count' = (count + WORD - 1) % WORD
  /\ got' = Blank
  /\ UNCHANGED <<buf, p_head, p_tail, queue, parted>>

BTypeOK ==
  /\ buf \in [Index -> Byte] /\ p_head \in Index /\ p_tail \in Index
  /\ count \in 0 .. WORD - 1
  /\ queue \in Seq({IRQ, OWN, WINMAN}) /\ Len(queue) <= MAX_MESSAGE_COUNT
  /\ got \in Byte /\ parted \in BOOLEAN

(* What is queued and what is stored agree, while the driver has taken a    *)
(* notification and not its byte (waited), or not yet counted it (taken).   *)
Notices == Cardinality({i \in DOMAIN queue : queue[i] = IRQ})
Counted(waited, taken) ==
  ~parted => /\ count = Notices + (IF waited \/ taken THEN 1 ELSE 0)
             /\ p_head = (p_tail + count - (IF taken THEN 1 ELSE 0)) % BUFFER_SIZE
=============================================================================
