------------------------------- MODULE Numbers -------------------------------
(***************************************************************************)
(* itoa and atoi of kernel/format.c: how printf and sprintf write a number, *)
(* and how the disk driver reads the number of a partition back.  itoa      *)
(* writes the digits backwards, pads them, and then turns them round in     *)
(* place: each iteration of its loops is an action.                         *)
(*                                                                         *)
(* A digit is its value, and any other character a number below 0.          *)
(***************************************************************************)
EXTENDS Integers, Sequences, FiniteSets

CONSTANTS INTBITS,  \* bits of a word, 32 in the code
          WIDTH     \* bound: the largest field width, 9 in the code

ASSUME WordAssumption == INTBITS \in Nat \ {0} /\ WIDTH \in Nat

MINUS == -1
PLUS  == -2
BLANK == -3
X     == -4   \* in upper or lower case

(* The powers of b, as far as a word of bits has any use for them.          *)
Power(b) == LET power[d \in 0 .. INTBITS] == IF d = 0 THEN 1 ELSE power[d - 1] * b
            IN  power
Signed   == -Power(2)[INTBITS - 1] .. Power(2)[INTBITS - 1] - 1
Unsigned(n) == n % Power(2)[INTBITS]

(* The arguments that vsprintf passes for %d, %u, %x and %o with flags.     *)
Letter == {"d", "u", "x", "o"}
Flag == {"LEFT", "PLUS", "SPECIAL", "ZEROPAD"}
Radix(c) == CASE c \in {"d", "u"} -> 10 [] c = "x" -> 16 [] c = "o" -> 8
FlagsOf(c, f) == f \cup (IF c = "d" THEN {"SIGN"} ELSE {})

VARIABLES num, radix, width, type,   \* the arguments
          unum, str, at, kept,        \* the local variables: i is Len(str), j and k
          ipc
itoavars == <<num, radix, width, type, unum, str, at, kept, ipc>>

ItoaFrom(nums, widths, letters) ==
  /\ num \in nums /\ width \in widths
  /\ \E c \in letters, f \in SUBSET Flag : radix = Radix(c) /\ type = FlagsOf(c, f)
  /\ unum = 0 /\ str = <<>> /\ at = 0 /\ kept = 0 /\ ipc = "sign"
ItoaInit == ItoaFrom(Signed, -1 .. WIDTH, Letter)

(* The sign, and the prefix of the radix.                                   *)
Minus == type \cap {"SIGN", "PLUS"} # {} /\ num < 0
SignOf == IF Minus THEN <<MINUS>> ELSE IF "PLUS" \in type THEN <<PLUS>> ELSE <<>>
Prefix == CASE "SPECIAL" \notin type -> <<>>
            [] radix = 8  -> <<0>>
            [] radix = 16 -> <<0, X>>
            [] OTHER      -> <<>>
Magnitude == Unsigned(IF Minus THEN -num ELSE num)
Sign == /\ ipc = "sign" /\ ipc' = "digits"
        /\ unum' = Magnitude
        /\ str' = SignOf \o Prefix /\ kept' = Len(str')
        /\ UNCHANGED <<num, radix, width, type, at>>

Digit == /\ ipc = "digits"
         /\ str' = Append(str, unum % radix) /\ unum' = unum \div radix
         /\ ipc' = IF unum' = 0 THEN "pad" ELSE "digits"
         /\ UNCHANGED <<num, radix, width, type, at, kept>>

(* Before they are turned round, the padding goes to the end.               *)
Pad == /\ ipc = "pad" /\ "LEFT" \notin type /\ Len(str) < width
       /\ str' = Append(str, IF "ZEROPAD" \in type THEN 0 ELSE BLANK)
       /\ UNCHANGED <<num, radix, width, type, unum, at, kept, ipc>>
Padded == /\ ipc = "pad" /\ ("LEFT" \in type \/ Len(str) >= width)
          /\ ipc' = "turn" /\ at' = kept
          /\ UNCHANGED <<num, radix, width, type, unum, str, kept>>

(* The characters behind the sign and the prefix change places in pairs.    *)
Half == (Len(str) + kept - 1) \div 2
(* Slip: the sign and the prefix are not left where they are.               *)
PartnerFromStart(i) == Len(str) - 1 - i
Partner(i) == Len(str) - 1 + kept - i
Turn == /\ ipc = "turn" /\ at <= Half /\ at' = at + 1
        /\ str' = [str EXCEPT ![at + 1] = str[Partner(at) + 1], ![Partner(at) + 1] = str[at + 1]]
        /\ UNCHANGED <<num, radix, width, type, unum, kept, ipc>>
Turned == /\ ipc = "turn" /\ at > Half /\ ipc' = "fill"
          /\ UNCHANGED <<num, radix, width, type, unum, str, at, kept>>

Fill == /\ ipc = "fill" /\ Len(str) < width /\ str' = Append(str, BLANK)
        /\ UNCHANGED <<num, radix, width, type, unum, at, kept, ipc>>
Written == /\ ipc = "fill" /\ Len(str) >= width /\ ipc' = "done"
           /\ UNCHANGED <<num, radix, width, type, unum, str, at, kept>>

ItoaNext == Sign \/ Digit \/ Pad \/ Padded \/ Turn \/ Turned \/ Fill \/ Written
ItoaSpec == ItoaInit /\ [][ItoaNext]_itoavars

(* The value of the digits of s from position n on, up to what is no digit. *)
Digits(s, n, base) ==
  LET ends == {m \in n - 1 .. Len(s) : \A i \in n .. m : s[i] \in 0 .. base - 1}
      last == CHOOSE m \in ends : \A i \in ends : i <= m
      value[m \in n - 1 .. last] == IF m = n - 1 THEN 0 ELSE value[m - 1] * base + s[m]
  IN  value[last]

atoi(s) == CASE s[1] = MINUS -> -Digits(s, 2, 10)
             [] s[1] = PLUS -> Digits(s, 2, 10)
             [] OTHER      -> Digits(s, 1, 10)

(* What is written can be read: the sign and the prefix, then blanks only,  *)
(* then the digits of the number, the smallest number of the word included, *)
(* and again blanks only; atoi reads a decimal number back, with zeros or   *)
(* with spaces around it.  It is as wide as it should be, and no wider than *)
(* it need be.                                                              *)
Blank(from, to) == \A i \in from .. to : str[i] = BLANK
Needs(n, d) == n < Power(radix)[d] /\ (d > 1 => n >= Power(radix)[d - 1])
Least == Len(SignOf \o Prefix) + CHOOSE d \in 1 .. INTBITS : Needs(Magnitude, d)
NumbersReadBack ==
  ipc = "done" =>
    /\ SubSeq(str, 1, kept) = SignOf \o Prefix
    /\ \E first \in kept + 1 .. Len(str) : \E last \in first .. Len(str) :
         /\ Blank(kept + 1, first - 1) /\ Blank(last + 1, Len(str))
         /\ \A i \in first .. last : str[i] \in 0 .. radix - 1
         /\ Digits(str, first, radix) = Magnitude
    /\ Len(str) = IF width > Least THEN width ELSE Least
    /\ radix = 10 /\ str[1] # BLANK /\ (Minus \/ num >= 0) /\ type \cap {"LEFT", "ZEROPAD"} # {}
         => atoi(str) = num
=============================================================================
