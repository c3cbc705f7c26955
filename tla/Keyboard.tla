------------------------------- MODULE Keyboard -------------------------------
(***************************************************************************)
(* kernel/driver/keyboard/keyboard.c: the driver process keyboard_bottom    *)
(* and irq1_handler on one CPU.  DRIVER_ENTER_CRITICAL disables interrupts  *)
(* there, so a critical section is one step.                                *)
(*                                                                         *)
(* Of a scan code only what steers the driver is kept: whether it is a lock *)
(* key (which sends a command to the keyboard), a prefix, the ACK, or any   *)
(* other key.  The event posted to the window manager and the shift state   *)
(* are left out: nothing here reads them.                                   *)
(***************************************************************************)
EXTENDS InputBuffer

VARIABLES
  pc,      \* where the driver is
  want,    \* what the byte being read is for
  owes     \* the keyboard has yet to acknowledge a command (external)

kvars == <<bvars, pc, want, owes>>

(* The bytes, by what keyboard_bottom does with them.                       *)
ScanCode == {"key", "lock", "E0", "E1", "ACK"}
ASSUME ScanCodeAssumption == ScanCode \subseteq Byte

KInit == BInit /\ pc = "clear" /\ want = "ack" /\ owes = FALSE

(* The keyboard: a key is pressed at any time, and a command is answered.   *)
irq1_handler ==
  \/ \E b \in ScanCode \ {"ACK"} : Irq(b) /\ UNCHANGED <<pc, want, owes>>
  \/ owes /\ Irq("ACK") /\ owes' = FALSE /\ UNCHANGED <<pc, want>>

(* windowsManager sends to pid 5, which is the keyboard's, after each event *)
(* it receives: the mouse posts one at any time.                            *)
WindowManager == Echo /\ UNCHANGED <<pc, want, owes>>

(* keyboard_clear.                                                          *)
SendOwn  == pc = "clear" /\ ClearSend /\ pc' = "drain" /\ UNCHANGED <<want, owes>>
DrainOther == /\ pc = "drain" /\ \E s \in {IRQ, WINMAN} : Receive(s)
              /\ UNCHANGED <<pc, want, owes>>
(* Slip: the loop goes on after the driver's own message.                   *)
DrainOn  == pc = "drain" /\ Receive(OWN) /\ UNCHANGED <<pc, want, owes>>
DrainOwn == pc = "drain" /\ Receive(OWN) /\ pc' = "zero" /\ UNCHANGED <<want, owes>>
Empty    == pc = "zero" /\ Zero /\ pc' = "command" /\ UNCHANGED <<want, owes>>

(* keyboard_sendBytes writes its command, and later the argument.           *)
Command  == /\ pc = "command" /\ owes' = TRUE /\ pc' = "read"
            /\ UNCHANGED <<bvars, want>>

(* keyboard_read.                                                           *)
SkipOther == pc = "read" /\ Receive(WINMAN) /\ UNCHANGED <<pc, want, owes>>
Notified == pc = "read" /\ Receive(IRQ) /\ pc' = "take" /\ UNCHANGED <<want, owes>>
TakeByte == pc = "take" /\ Take /\ pc' = "count" /\ UNCHANGED <<want, owes>>

(* What the byte read leads to: where the driver goes on, and what for.     *)
After(b) ==
  CASE want = "ack" /\ b = "ACK"  -> <<"command", "ack2">>
    [] want = "key" /\ b = "lock" -> <<"clear", "ack">>
    [] want = "key" /\ b = "E0"   -> <<"read", "E0">>
    [] want = "key" /\ b = "E1"   -> <<"read", "E1">>
    [] want = "E1"                -> <<"read", "E1 third">>
    [] OTHER                      -> <<"read", "key">>

CountDown ==
  /\ pc = "count" /\ Uncount
  /\ pc' = After(got)[1] /\ want' = After(got)[2]
  /\ UNCHANGED owes

Driver == \/ SendOwn \/ DrainOther \/ DrainOwn \/ Empty \/ Command
          \/ SkipOther \/ Notified \/ TakeByte \/ CountDown
KNext  == irq1_handler \/ WindowManager \/ Driver

(* The driver has the CPU again and again: Proc!NoStarvation.               *)
KSpec == KInit /\ [][KNext]_kvars /\ WF_kvars(Driver)

KTypeOK ==
  /\ BTypeOK
  /\ pc \in {"clear", "drain", "zero", "command", "read", "take", "count"}
  /\ want \in {"ack", "ack2", "key", "E0", "E1", "E1 third"}
  /\ owes \in BOOLEAN

(* Each byte is read once and in order: between two clears, as long as no   *)
(* byte lost its notification or notification its byte, count is the number *)
(* of notifications the driver has to come, and the pointers are that many  *)
(* slots apart.  Each of irq1_handler, keyboard_read and keyboard_clear     *)
(* changes a part of it, at a time of its own.                              *)
Clearing == pc \in {"drain", "zero"}
Agree == KTypeOK /\ (~Clearing => Counted(pc = "take", pc = "count"))

(* keyboard_clear ends: its message to itself comes up, however many        *)
(* notifications come before and after it.                                  *)
ClearEnds == (pc = "drain" /\ Contains(queue, OWN)) ~> pc = "zero"

(* The comment at keyboard.c 151-153, "Modify kb_buf.count should avoid     *)
(* being interrupted by the keyboard interrupt handler": whatever the       *)
(* handler does in between, the driver's count-- leaves a number of bytes.  *)
CountSurvivesHandler == count <= BUFFER_SIZE
=============================================================================
