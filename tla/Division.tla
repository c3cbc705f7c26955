------------------------------ MODULE Division ------------------------------
(***************************************************************************)
(* do_divmod64 of kernel/lib.c, the division of the clock and of every      *)
(* printed time, one iteration of its two loops after the other.            *)
(***************************************************************************)
EXTENDS Integers

CONSTANTS BITS,   \* bits of a word, 64 in the code
          Bit     \* the powers of two

ASSUME BitsAssumption ==
  /\ BITS \in Nat \ {0}
  /\ Bit \in [0 .. BITS -> Nat] /\ Bit[0] = 1
  /\ \A k \in 0 .. BITS - 1 : Bit[k + 1] = 2 * Bit[k]

Word == 0 .. Bit[BITS] - 1

VARIABLES dividend, divisor,    \* the arguments
          rest, den, quot, qbit, \* num and the other local variables
          loop                  \* which of the loops it is in
divvars == <<dividend, divisor, rest, den, quot, qbit, loop>>

(* Division by 0 raises #DE; no caller asks for it.                         *)
DivFrom(words) ==
  /\ dividend \in words /\ divisor \in words \ {0}
  /\ rest = dividend /\ den = divisor /\ quot = 0 /\ qbit = 1
  /\ loop = "justify"
DivInit == DivFrom(Word)

Justified == den >= Bit[BITS - 1]   \* (s64)den < 0
Justify ==
  /\ loop = "justify"
  /\ IF Justified
       THEN loop' = "divide" /\ UNCHANGED <<den, qbit>>
       ELSE den' = den * 2 /\ qbit' = qbit * 2 /\ UNCHANGED loop
  /\ UNCHANGED <<dividend, divisor, rest, quot>>

(* Slip: a bit that fits exactly is left out.                               *)
DivideBelow ==
  /\ loop = "divide" /\ qbit # 0
  /\ IF den < rest THEN rest' = rest - den /\ quot' = quot + qbit
                  ELSE UNCHANGED <<rest, quot>>
  /\ den' = den \div 2 /\ qbit' = qbit \div 2
  /\ UNCHANGED <<dividend, divisor, loop>>

Divide ==
  /\ loop = "divide" /\ qbit # 0
  /\ IF den <= rest THEN rest' = rest - den /\ quot' = quot + qbit
                   ELSE UNCHANGED <<rest, quot>>
  /\ den' = den \div 2 /\ qbit' = qbit \div 2
  /\ UNCHANGED <<dividend, divisor, loop>>

DivNext == Justify \/ Divide
DivSpec == DivInit /\ [][DivNext]_divvars

(* Nothing is lost on the way, no word overflows, and what remains is less  *)
(* than the divisor: for each dividend and divisor, the ends of the range   *)
(* included.                                                                *)
DivisionExact ==
  /\ {rest, den, quot, qbit} \subseteq Word
  /\ dividend = quot * divisor + rest
  /\ qbit = 0 => rest < divisor
=============================================================================
