-------------------------------- MODULE Mouse --------------------------------
(***************************************************************************)
(* kernel/driver/mouse/mouse.c: the driver process mouse_bottom and         *)
(* irq12_handler on one CPU.  The buffer is that of InputBuffer; this       *)
(* module adds the dialogue that sets the mouse up and the packets of three *)
(* or four bytes that the driver has to find in the stream.                 *)
(*                                                                         *)
(* A byte of a packet is its place in the packet and whether a byte before  *)
(* it was lost.  Its value is left open: any byte but the first may look    *)
(* like a first byte, an ACK or the identity 3.  A first byte has bit 3 set *)
(* and not both bits 6 and 7, which neither ACK (FA) nor 3 has.             *)
(***************************************************************************)
EXTENDS InputBuffer

CONSTANT RATES   \* how often SET_SAMPLE_RATE is sent, 4 in the code

VARIABLES
  mpc,      \* where the driver is
  mwant,    \* what the byte being read is for
  setup,    \* the command of the dialogue it is at
  fb,       \* the driver expects four bytes
  mistaken, \* it took movement for the identity (history)
  row,      \* bytes of the message so far, in a row of one packet (history)
  answers,  \* the mouse: what it has yet to answer (external)
  part,     \* the mouse: the next byte of its packet, 0 before it streams (external)
  len,      \* the mouse: bytes of a packet (external)
  lost      \* the last byte of the mouse was dropped (history)

driver == <<mpc, mwant, setup, fb, mistaken, row>>
device == <<answers, part, len, lost>>
mvars == <<bvars, driver, device>>

Whole  == <<"p1", "p2", "p3", "p4">>   \* the bytes of a packet in a row,
Broken == <<"q1", "q2", "q3", "q4">>   \* and behind a loss
Answer == {"ACK", "three", "other"}
MouseByte == ToSet(Whole) \cup ToSet(Broken) \cup Answer
EXCUSED == 5   \* the message cannot be whole: see PacketsWhole
ODD == 6       \* it should be, and is not
First(b) == b \in {Whole[1], Broken[1]}
Later(b) == b \notin Answer /\ ~First(b)
ASSUME MouseAssumption == MouseByte \subseteq Byte /\ RATES \in Nat

(* The commands of mouse_bottom: START_STREAMING, the sample rates with     *)
(* their arguments, and the question for the identity.                      *)
Script == <<"start">> \o [i \in 1 .. RATES |-> "rate"] \o <<"identity">>

MInit ==
  /\ BInit
  /\ mpc = "clear" /\ mwant = "ack" /\ setup = 1 /\ fb = FALSE /\ row = 0
  /\ mistaken = FALSE
  /\ answers = <<>> /\ part = 0 /\ len = 3 /\ lost = FALSE

(* The mouse answers a command, and streams packets when it is on.          *)
irq12_handler ==
  /\ \/ /\ answers # <<>> /\ Irq(Head(answers))
        /\ answers' = Tail(answers) /\ UNCHANGED part
     \/ /\ answers = <<>> /\ part # 0 /\ Irq(IF lost THEN Broken[part] ELSE Whole[part])
        /\ part' = (part % len) + 1 /\ UNCHANGED answers
  /\ lost' = (count >= BUFFER_SIZE)
  /\ UNCHANGED <<driver, len>>

(* mouse_clear.                                                             *)
MSendOwn == mpc = "clear" /\ ClearSend /\ mpc' = "drain" /\ UNCHANGED <<mwant, setup, fb, mistaken, row, device>>
MDrainOther == mpc = "drain" /\ Receive(IRQ) /\ UNCHANGED <<driver, device>>
MDrainOwn == mpc = "drain" /\ Receive(OWN) /\ mpc' = "zero" /\ UNCHANGED <<mwant, setup, fb, mistaken, row, device>>
MEmpty == /\ mpc = "zero" /\ Zero /\ mpc' = "command"
          /\ lost' = TRUE
          /\ UNCHANGED <<mwant, setup, fb, mistaken, row, answers, part, len>>

(* A command: the mouse drops the packet it is sending and answers, with    *)
(* ACK or not.  Whether it has a wheel may show in its identity.            *)
MCommand ==
  /\ mpc = "command" /\ mwant = "ack" /\ mpc' = "read"
  /\ part' = 1 /\ lost' = TRUE
  /\ answers' \in {<<"ACK">>, <<"other">>} \cup
       (IF Script[setup] = "identity" THEN {<<"ACK", "three">>, <<"ACK", "other">>} ELSE {})
  /\ len' \in IF Script[setup] = "identity" THEN {3, 4} ELSE {len}
  /\ UNCHANGED <<bvars, mwant, setup, fb, mistaken, row>>

(* The argument of a command.  mouse_sendBytes does not write MOUSE to      *)
(* CTL_PORT before it, so it goes to the keyboard: the mouse has no part    *)
(* in it, and the driver waits for the byte that comes next, whatever it is.*)
MArgument == /\ mpc = "command" /\ mwant = "ack2" /\ mpc' = "read"
             /\ UNCHANGED <<bvars, mwant, setup, fb, mistaken, row, device>>

(* mouse_read.                                                              *)
MNotified == mpc = "read" /\ Receive(IRQ) /\ mpc' = "take" /\ UNCHANGED <<mwant, setup, fb, mistaken, row, device>>
MTake == mpc = "take" /\ Take /\ mpc' = "count" /\ UNCHANGED <<mwant, setup, fb, mistaken, row, device>>

(* What the byte leads to while the mouse is set up.                        *)
NextCommand == /\ setup' = setup + 1 /\ mpc' = "clear" /\ mwant' = "ack"
               /\ UNCHANGED <<fb, mistaken, row>>
Acknowledged ==
  /\ mwant = "ack"
  /\ CASE Script[setup] = "identity" -> mpc' = "read" /\ mwant' = "identity" /\ UNCHANGED <<setup, fb, mistaken, row>>
       [] Script[setup] = "rate" ->
            \/ /\ got = "ACK" \/ Later(got)
               /\ mpc' = "command" /\ mwant' = "ack2" /\ UNCHANGED <<setup, fb, mistaken, row>>
            \/ got # "ACK" /\ NextCommand
       [] OTHER -> NextCommand
AcknowledgedTwice == mwant = "ack2" /\ NextCommand
Identified ==
  /\ mwant = "identity"
  /\ fb' \in {b \in BOOLEAN : IF got = "three" THEN b ELSE b => Later(got)}
  /\ mistaken' = Later(got)
  /\ mpc' = "read" /\ mwant' = "first" /\ UNCHANGED <<setup, row>>

(* The loop: a byte that cannot be a first one is skipped, and then the     *)
(* bytes are taken as they come.                                            *)

(* Slip: without continue, a byte that is no first one begins a message.    *)
SkipNot == mwant = "first" /\ ~First(got) /\ mwant' = "x" /\ mpc' = "read" /\ UNCHANGED <<setup, fb, mistaken, row>>
SkipByte == mwant = "first" /\ ~First(got) /\ mpc' = "read" /\ UNCHANGED <<mwant, setup, fb, mistaken, row>>
FirstByte == /\ mwant = "first" /\ (First(got) \/ Later(got))
             /\ row' = (IF First(got) THEN 1 ELSE EXCUSED) /\ mwant' = "x" /\ mpc' = "read" /\ UNCHANGED <<setup, fb, mistaken>>
Excused == \/ parted \/ row \in {EXCUSED, ODD} \/ got \notin ToSet(Whole)
           \/ fb /\ (mistaken \/ len = 3)
NextByte == /\ mwant \in {"x", "y", "scroll"}
            /\ row' = (IF Excused THEN EXCUSED ELSE IF got = Whole[row + 1] THEN row + 1 ELSE ODD)
            /\ CASE mwant = "x" -> mwant' = "y" /\ mpc' = "read"
                 [] mwant = "y" /\ fb -> mwant' = "scroll" /\ mpc' = "read"
                 [] OTHER -> mwant' = "first" /\ mpc' = "post"
            /\ UNCHANGED <<setup, fb, mistaken>>

(* count-- and then whichever of these the byte was for.                    *)
MCountDown ==
  /\ mpc = "count" /\ Uncount /\ UNCHANGED device
  /\ \/ Acknowledged \/ AcknowledgedTwice \/ Identified \/ SkipByte \/ FirstByte \/ NextByte

(* The message goes to the window manager.                                  *)
Post == /\ mpc = "post" /\ mpc' = "read" /\ row' = 0
        /\ UNCHANGED <<bvars, mwant, setup, fb, mistaken, device>>

MouseDriver == \/ MSendOwn \/ MDrainOther \/ MDrainOwn \/ MEmpty \/ MCommand \/ MArgument
               \/ MNotified \/ MTake \/ MCountDown \/ Post
MNext == irq12_handler \/ MouseDriver
MSpec == MInit /\ [][MNext]_mvars /\ WF_mvars(MouseDriver) /\ WF_mvars(irq12_handler)

MTypeOK ==
  /\ BTypeOK
  /\ mpc \in {"clear", "drain", "zero", "command", "read", "take", "count", "post"}
  /\ mwant \in {"ack", "ack2", "identity", "first", "x", "y", "scroll"}
  /\ setup \in 1 .. Len(Script) /\ fb \in BOOLEAN /\ mistaken \in BOOLEAN /\ len \in {3, 4}
  /\ row \in 0 .. ODD
  /\ answers \in Seq(Answer) /\ part \in 0 .. 4 /\ lost \in BOOLEAN

(* The movement that reaches the window manager is one the mouse made: the  *)
(* bytes of a message are those of one packet, in their order.  Excused are *)
(* only a message that begins with a later byte that looks like a first     *)
(* one, a byte that was dropped within it, a byte that has parted from its  *)
(* notification, and a driver that took movement for the identity.          *)
(* irq12_handler adds and drops bytes between any two steps of the driver,  *)
(* mouse_clear throws away parts of packets, and answers come between them. *)
PacketsWhole == MTypeOK /\ row # ODD

(* Each byte of the mouse is read once: as Keyboard!Agree.                  *)
MAgree == mpc \notin {"drain", "zero"} => Counted(mpc = "take", mpc = "count")
=============================================================================
