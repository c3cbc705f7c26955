----------------------------- MODULE MCTerminal -----------------------------
(* The drivers between the user and the system: the keyboard, the mouse and *)
(* the console, each examined by itself.  They share no variable in the     *)
(* code; the first two use the same form of buffer, InputBuffer.            *)
EXTENDS Keyboard, Mouse, Console

VARIABLE examined   \* which of the three moves

KIdle == pc = "clear" /\ want = "ack" /\ owes = FALSE
MIdle == /\ mpc = "clear" /\ mwant = "ack" /\ setup = 1 /\ fb = FALSE /\ mistaken = FALSE /\ row = 0
         /\ answers = <<>> /\ part = 0 /\ len = 3 /\ lost = FALSE

TInit == /\ KInit /\ MIdle /\ CInit
         /\ examined \in {"keyboard", "mouse", "console"}

KeyboardStep == examined = "keyboard" /\ UNCHANGED <<driver, device, cvars>>
MouseStep == examined = "mouse" /\ UNCHANGED <<pc, want, owes, cvars>>
ConsoleStep == examined = "console" /\ UNCHANGED <<kvars, driver, device>>
TNext == /\ \/ KNext /\ KeyboardStep
            \/ MNext /\ MouseStep
            \/ CNext /\ ConsoleStep
         /\ UNCHANGED examined
tvars == <<kvars, driver, device, cvars, examined>>

(* The fairness of Keyboard and Console, each for the one that moves.       *)
Drive == /\ \/ Driver /\ KeyboardStep
            \/ VideoDriver /\ ConsoleStep
         /\ UNCHANGED examined
TSpec ==
  /\ TInit /\ [][TNext]_tvars
  /\ WF_tvars(Drive)
  /\ \A w \in Writer : WF_tvars(wpc[w] # "out" /\ Putc(w) /\ ConsoleStep /\ UNCHANGED examined)

(* Each byte of the keyboard, and of the mouse, is read once and in order,  *)
(* as long as it does not part from its notification: keyboard.c 127-173    *)
(* and mouse.c 94-144 move the count and the pointers at different times.   *)
BytesReadOnce == (examined = "keyboard" => Agree) /\ (examined = "mouse" => MAgree)

(* Console!TextShown, where the console is the one that moves.              *)
PutsShown == (examined = "console" /\ Waiting) ~> (~Waiting \/ cut)
=============================================================================
