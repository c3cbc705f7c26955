------------------------------- MODULE Console -------------------------------
(***************************************************************************)
(* kernel/driver/video/video.c: putc, which any process calls, and the      *)
(* console loop of the process video_driver, on one CPU where the timer may *)
(* switch processes between any two accesses to memory.                     *)
(*                                                                         *)
(* The two share a buffer and one pointer and have no lock.  putc stores a  *)
(* character, moves the pointer and stores the 0 that ends the text, in     *)
(* steps; the driver scans from the start of the buffer to the 0 and then   *)
(* sets the pointer back.  A character is its number in the order of the    *)
(* calls of putc, and which one it is, is decided when the driver reads it: *)
(* only the cursor, which is all that is kept of the pixels, depends on it. *)
(***************************************************************************)
EXTENDS Integers, Sequences, FiniteSets

CONSTANTS
  Writer,        \* the processes that print
  xRes, yRes,    \* the resolution of the mode the loader has set
  EARLY,         \* characters printed before the driver starts
  PUTS           \* bound: calls of putc after that

(* Every VESA text-compatible width is a multiple of the 8 of a glyph.      *)
ASSUME ScreenAssumption ==
  /\ xRes \in Nat /\ xRes >= 16 /\ xRes % 8 = 0
  /\ yRes \in Nat /\ yRes >= 44
ASSUME TextAssumption == EARLY \in Nat /\ PUTS \in Nat

Char == {"r", "n", "t", "b", "f", "up", "a"}   \* \r \n \t \b \f \1, and a glyph
Cell == 0 .. EARLY + PUTS                    \* as far as the text can reach
END == 0                                     \* the 0 behind the text
GARBAGE == -1                                \* what ALLOC_PAGES left there

VARIABLES
  puts,           \* how many characters have been put
  mem, pointer,   \* the buffer, and pointer as an index of it
  wpc, reg,       \* where each writer is in putc, and the pointer it has loaded
  char,           \* the number of the character each writer puts
  vpc, tmp, x, y, \* where the driver is, its scan pointer, the cursor
  shown,          \* the numbers drawn or obeyed, in order (history)
  cut             \* a putc has met the scan or another putc (history, see TextOnce)

wvars == <<wpc, reg, char, puts>>
dvars == <<vpc, tmp, x, y, shown>>
cvars == <<wvars, mem, pointer, dvars, cut>>

(* init_video: the text printed so far is copied to fresh pages.            *)
CInit ==
  /\ puts = EARLY
  /\ mem = [i \in Cell |-> IF i < EARLY THEN i + 1 ELSE IF i = EARLY THEN END ELSE GARBAGE]
  /\ pointer = EARLY
  /\ wpc = [w \in Writer |-> "out"]
  /\ reg = [w \in Writer |-> 0] /\ char = [w \in Writer |-> 0]
  /\ vpc = "wait" /\ tmp = 0 /\ x = 4 /\ y = 28
  /\ shown = <<>> /\ cut = FALSE

(* The writers that are inside putc.                                        *)
Inside == {w \in Writer : wpc[w] # "out"}

(* putc(chr), *pointer++=chr: the pointer is loaded, ...                    *)
Load(w) ==
  /\ wpc[w] = "out" /\ puts < EARLY + PUTS
  /\ puts' = puts + 1
  /\ reg' = [reg EXCEPT ![w] = pointer]
  /\ char' = [char EXCEPT ![w] = puts + 1]
  /\ wpc' = [wpc EXCEPT ![w] = "loaded"]
  /\ cut' = (cut \/ Inside # {})
  /\ UNCHANGED <<mem, pointer, dvars>>

(* ... and the character and the moved pointer are stored, in an order that *)
(* the language leaves open.                                                *)
StoreChar(w) ==
  /\ wpc[w] \in {"loaded", "moved"}
  /\ mem' = [mem EXCEPT ![reg[w]] = char[w]]
  /\ wpc' = [wpc EXCEPT ![w] = IF wpc[w] = "moved" THEN "put" ELSE "stored"]
  /\ UNCHANGED <<reg, char, puts, pointer, dvars, cut>>

MovePointer(w) ==
  /\ wpc[w] \in {"loaded", "stored"}
  /\ pointer' = reg[w] + 1
  /\ wpc' = [wpc EXCEPT ![w] = IF wpc[w] = "stored" THEN "put" ELSE "moved"]
  /\ UNCHANGED <<reg, char, puts, mem, dvars, cut>>

(* *pointer=0: the pointer is loaded again, and the 0 stored.               *)
LoadEnd(w) ==
  /\ wpc[w] = "put"
  /\ reg' = [reg EXCEPT ![w] = pointer]
  /\ wpc' = [wpc EXCEPT ![w] = "ending"]
  /\ UNCHANGED <<char, puts, mem, pointer, dvars, cut>>

StoreEnd(w) ==
  /\ wpc[w] = "ending"
  /\ mem' = [mem EXCEPT ![reg[w]] = END]
  /\ wpc' = [wpc EXCEPT ![w] = "out"]
  /\ reg' = [reg EXCEPT ![w] = 0] /\ char' = [char EXCEPT ![w] = 0]   \* dead now
  /\ UNCHANGED <<puts, pointer, dvars, cut>>

(* while(pointer==buffer);                                                  *)
Spin == vpc = "wait" /\ pointer = 0 /\ UNCHANGED cvars

(* Slip: a single character is taken for none.                              *)
BeginLate ==
  /\ vpc = "wait" /\ pointer > 1
  /\ vpc' = "scan" /\ tmp' = 0
  /\ UNCHANGED <<wvars, mem, pointer, x, y, shown, cut>>

Begin ==
  /\ vpc = "wait" /\ pointer # 0
  /\ vpc' = "scan" /\ tmp' = 0
  /\ UNCHANGED <<wvars, mem, pointer, x, y, shown, cut>>

(* The switch of the loop: where character c sends the cursor ...           *)
Tab(c) == c - ((c - 4) % 64) + 64
Across(c) == CASE c \in {"r", "f"} -> 4
               [] c = "t" -> IF xRes - Tab(x) < 64 THEN 4 ELSE Tab(x)
               [] c = "b" -> x - 8
               [] c \in {"n", "up"} -> x
               [] OTHER -> x + 8
Down(c) == CASE c = "f" -> 28
             [] c = "n" \/ (c = "t" /\ xRes - Tab(x) < 64) -> y + 16
             [] c = "up" -> y - 16
             [] OTHER -> y

(* Slip: a backspace at the left edge stays in its line, as drawString's.   *)
WrapXRight(a) == IF a >= xRes - 4 THEN a - (xRes - 8) ELSE a

(* ... the line it wraps to, and the rows it is kept in.                    *)
WrapX(a) == IF a >= xRes - 4 THEN a - (xRes - 8) ELSE IF a < 4 THEN a + (xRes - 8) ELSE a
WrapY(a, b) == IF a >= xRes - 4 THEN b + 16 ELSE IF a < 4 THEN b - 16 ELSE b
KeepY(b) == IF b < 28 THEN 28 ELSE IF b > yRes - 16 THEN b - 16 ELSE b

Cursor(c) == /\ x' = WrapX(Across(c))
             /\ y' = KeepY(WrapY(Across(c), Down(c)))

(* c=*(tmp++), not 0.  Behind the text there may be anything, as far as the *)
(* scan gets, which is bounded to the cells.                                *)
ScanOver(k) ==
  /\ vpc = "scan" /\ tmp \in Cell /\ mem[tmp] # END
  /\ \E c \in Char : Cursor(c)
  /\ cut' = (cut \/ \E w \in Inside : reg[w] <= tmp)
  /\ shown' = IF cut' THEN <<>> ELSE Append(shown, mem[tmp])
  /\ tmp' = tmp + k
  /\ UNCHANGED <<wvars, mem, pointer, vpc>>
(* Slip: tmp is moved twice.                                                *)
ScanTwo == ScanOver(2)
Scan == ScanOver(1)

(* c=*(tmp++), which is 0: the loop ends ...                                *)
ScanEnd ==
  /\ vpc = "scan" /\ (tmp \in Cell => mem[tmp] \in {END, GARBAGE})
  /\ vpc' = "reset"
  /\ UNCHANGED <<wvars, mem, pointer, tmp, x, y, shown, cut>>

(* ... and pointer=buffer.  What has been put since is lost.                *)
Reset ==
  /\ vpc = "reset" /\ vpc' = "wait"
  /\ pointer' = 0
  /\ cut' = (cut \/ Inside # {} \/ pointer # tmp)
  /\ UNCHANGED <<wvars, mem, tmp, x, y, shown>>

Putc(w) == \/ Load(w) \/ StoreChar(w) \/ MovePointer(w) \/ LoadEnd(w) \/ StoreEnd(w)
VideoDriver == Spin \/ Begin \/ Scan \/ ScanEnd \/ Reset
CNext == (\E w \in Writer : Putc(w)) \/ VideoDriver
(* The driver and a process inside putc are scheduled again and again         *)
(* (Proc!NoStarvation); nobody is obliged to print.                         *)
CSpec == /\ CInit /\ [][CNext]_cvars
         /\ WF_cvars(VideoDriver)
         /\ \A w \in Writer : WF_cvars(wpc[w] # "out" /\ Putc(w))

(* Each glyph and the cursor lie on the screen, below the title bar,        *)
(* whatever is printed: a drawPoint outside writes to the next line, or     *)
(* behind the video memory.                                                 *)
CursorOnScreen ==
  /\ 4 <= x /\ x + 8 <= xRes - 4 /\ x % 8 = 4
  /\ 28 <= y /\ y + 16 <= yRes

(* The text the driver has yet to read.                                     *)
From == IF vpc = "wait" THEN 0 ELSE tmp
Ahead == [i \in 1 .. pointer - From |-> mem[From + i - 1]]

(* Each character is shown once and in the order in which it was put, as    *)
(* long as no putc met another one, the end of a scan, or the part of the   *)
(* buffer it was changing: whatever is put while the driver waits, or       *)
(* behind it while it scans, comes through.  Nothing but this timing        *)
(* protects the text: each of the three breaks it.                          *)
Numbers == [i \in 1 .. puts |-> i]
TextOnce ==
  ~cut => /\ Inside = {} => shown \o Ahead = Numbers /\ (pointer # 0 => mem[pointer] = END)
          /\ shown = SubSeq(Numbers, 1, Len(shown))

(* With the driver and a process inside putc scheduled again and again, no  *)
(* text waits for ever: once nothing more is put all of it is shown.  The   *)
(* scan ends, and the driver never spins on text.                           *)
Waiting == Len(shown) < puts
TextShown == Waiting ~> (~Waiting \/ cut)
=============================================================================
