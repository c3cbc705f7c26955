--------------------------- MODULE Startup_proofs ---------------------------
(***************************************************************************)
(* What the kernel computes when it starts.  The arithmetic of              *)
(* kernel/lib.c: do_divmod64 divides exactly, whatever the width of a word, *)
(* for every dividend and every divisor but 0; mktime counts the days one   *)
(* by one, in every year, and gmtime undoes it.  The memory map of          *)
(* kernel/memory/memory.c: each page of memory is given to the allocator    *)
(* once.  The interrupts of acpi.c and apic.c come to their handlers, the   *)
(* file system finds its partition, and the clock is read at one time.      *)
(* What itoa of kernel/format.c writes can be read, and atoi reads it.      *)
(***************************************************************************)
EXTENDS Division, Dates, Numbers, MemoryMap, Acpi, Partitions, Rtc,
        SequenceTheorems, FiniteSetTheorems, WellFoundedInduction, TLAPS

(* Where the divisor is while the loops run: qbit is a bit of a word, and   *)
(* den the divisor times it.  What is left is less than twice that when the *)
(* second loop begins, and stays so because both are halved together.       *)
Aligned(k) == k \in 0 .. BITS - 1 /\ qbit = Bit[k] /\ den = divisor * Bit[k]
DivType ==
  /\ dividend \in Word /\ divisor \in Word \ {0}
  /\ rest \in Nat /\ den \in Word /\ quot \in Nat /\ qbit \in Word
  /\ loop \in {"justify", "divide"}
Shifted ==
  /\ loop = "justify" => rest = dividend /\ quot = 0 /\ qbit # 0 /\ \E k \in 0 .. BITS - 1 : Aligned(k)
  /\ loop = "divide" => \/ qbit = 0 /\ rest < divisor
                        \/ rest < 2 * den /\ \E k \in 0 .. BITS - 1 : Aligned(k)
DInv == DivType /\ Shifted /\ dividend = quot * divisor + rest

(* A bit is at least 1, below the end of the word, and apart from the       *)
(* first one twice another.                                                 *)
LEMMA Bits ==
  /\ BITS \in Nat /\ BITS >= 1
  /\ \A k \in 0 .. BITS : Bit[k] \in Nat
  /\ Bit[0] = 1
  /\ \A k \in 0 .. BITS - 1 : Bit[k + 1] = 2 * Bit[k]
  /\ \A k \in 1 .. BITS : k - 1 \in 0 .. BITS - 1 /\ Bit[k] = 2 * Bit[k - 1]
<1>1. \A k \in 1 .. BITS : k - 1 \in 0 .. BITS - 1 /\ Bit[k] = 2 * Bit[k - 1]
  <2> SUFFICES ASSUME NEW k \in 1 .. BITS
               PROVE  k - 1 \in 0 .. BITS - 1 /\ Bit[k] = 2 * Bit[k - 1]
    OBVIOUS
  <2>1. k - 1 \in 0 .. BITS - 1 /\ (k - 1) + 1 = k
    BY BitsAssumption
  <2>. QED
    BY <2>1, BitsAssumption
<1>. QED
  BY <1>1, BitsAssumption

(* Products keep their order.                                               *)
LEMMA TimesOrder ==
  ASSUME NEW a \in Nat, NEW b \in Nat, NEW c \in Nat, a >= 1
  PROVE  b <= a * b /\ (a * b) * c = a * (b * c) /\ (b + c) * a = b * a + c * a
  OBVIOUS

(* The two loops begin with nothing shifted.                                *)
LEMMA DivisionStarts == DivInit => DInv
<1> SUFFICES ASSUME DivInit PROVE DInv
  OBVIOUS
<1>1. /\ dividend \in Word /\ divisor \in Word \ {0}
      /\ rest = dividend /\ den = divisor /\ quot = 0 /\ qbit = 1 /\ loop = "justify"
  BY DEF DivInit, DivFrom
<1>2. 0 \in 0 .. BITS - 1 /\ Bit[0] = 1 /\ Bit[BITS] \in Nat
  BY Bits
<1>3. dividend \in Nat /\ divisor \in Nat /\ 1 <= divisor /\ 1 \in Word
  BY <1>1, <1>2 DEF Word
<1>4. Aligned(0)
  BY <1>1, <1>2, <1>3 DEF Aligned
<1>. QED
  BY <1>1, <1>2, <1>3, <1>4 DEF DInv, DivType, Shifted

(* The first loop: the divisor fits once more, because its top bit is clear.*)
LEMMA JustifyKeeps == DInv /\ Justify => DInv'
<1> SUFFICES ASSUME DInv, Justify PROVE DInv'
  OBVIOUS
<1>1. PICK k \in 0 .. BITS - 1 : Aligned(k)
  BY DEF DInv, Shifted, Justify
<1>2. /\ dividend \in Nat /\ divisor \in Nat /\ 1 <= divisor
      /\ den \in Nat /\ qbit \in Nat /\ k \in Nat
      /\ Bit[k] \in Nat /\ Bit[BITS - 1] \in Nat /\ Bit[BITS] = 2 * Bit[BITS - 1]
  BY Bits DEF DInv, DivType, Word
<1>3. dividend' = dividend /\ divisor' = divisor /\ rest' = rest /\ quot' = quot
  BY DEF Justify
<1>4. CASE Justified
  <2>1. loop' = "divide" /\ den' = den /\ qbit' = qbit /\ loop = "justify"
    BY <1>4 DEF Justify
  <2>2. rest < 2 * den
    BY <1>2, <1>4 DEF Justified, DInv, DivType, Shifted, Justify, Word
  <2>3. Aligned(k)'
    BY <1>1, <1>3, <2>1 DEF Aligned
  <2>. QED
    BY <1>3, <2>1, <2>2, <2>3 DEF DInv, DivType, Shifted
<1>5. CASE ~Justified
  <2>1. loop' = "justify" /\ den' = den * 2 /\ qbit' = qbit * 2 /\ loop = "justify"
    BY <1>5 DEF Justify
  <2>2. Bit[k] <= divisor * Bit[k]
    BY <1>2, TimesOrder
  <2>3. den < Bit[BITS - 1] /\ qbit <= den /\ den = divisor * Bit[k]
    BY <1>1, <1>2, <1>5, <2>2 DEF Aligned, Justified
  <2>4. k # BITS - 1
    BY <1>2, <2>2, <2>3
  <2>5. k + 1 \in 0 .. BITS - 1 /\ Bit[k + 1] = 2 * Bit[k]
    BY <2>4, Bits
  <2>6. divisor * Bit[k + 1] = 2 * (divisor * Bit[k])
    BY <1>2, <2>5
  <2>7. Aligned(k + 1)'
    BY <1>1, <1>2, <1>3, <2>1, <2>3, <2>5, <2>6 DEF Aligned
  <2>8. den' \in Word /\ qbit' \in Word
    BY <1>2, <2>1, <2>3 DEF Word
  <2>. QED
    BY <1>3, <2>1, <2>5, <2>7, <2>8 DEF DInv, DivType, Shifted
<1>. QED
  BY <1>4, <1>5

(* The second loop: one bit of the quotient, and what is left is less than  *)
(* the divisor where it is now.                                             *)
LEMMA DivideKeeps == DInv /\ Divide => DInv'
<1> SUFFICES ASSUME DInv, Divide PROVE DInv'
  OBVIOUS
<1>1. PICK k \in 0 .. BITS - 1 : Aligned(k)
  BY DEF DInv, Shifted, Divide
<1>2. /\ dividend \in Nat /\ divisor \in Nat /\ 1 <= divisor
      /\ rest \in Nat /\ quot \in Nat /\ den \in Nat /\ qbit \in Nat
      /\ Bit[k] \in Nat /\ rest < 2 * den /\ Bit[BITS] \in Nat
      /\ dividend = quot * divisor + rest
  BY Bits DEF DInv, DivType, Shifted, Divide, Word
<1>3. /\ dividend' = dividend /\ divisor' = divisor /\ loop' = loop /\ loop = "divide"
      /\ den' = den \div 2 /\ qbit' = qbit \div 2
  BY DEF Divide
<1>4. den = divisor * qbit /\ qbit = Bit[k]
  BY <1>1 DEF Aligned
<1>5. /\ rest' \in Nat /\ quot' \in Nat /\ rest' < den
      /\ dividend = quot' * divisor + rest'
  <2>1. CASE den <= rest
    <3>1. rest' = rest - den /\ quot' = quot + qbit
      BY <2>1 DEF Divide
    <3>2. (quot + qbit) * divisor = quot * divisor + divisor * qbit
      BY <1>2, TimesOrder
    <3>3. quot * divisor \in Nat
      BY <1>2
    <3>. QED
      BY <1>2, <1>4, <2>1, <3>1, <3>2, <3>3
  <2>2. CASE ~(den <= rest)
    BY <1>2, <2>2 DEF Divide
  <2>. QED
    BY <2>1, <2>2
<1>6. den' \in Word /\ qbit' \in Word
  BY <1>2, <1>3 DEF DInv, DivType, Word
<1>7. CASE k = 0
  <2>1. qbit' = 0 /\ den = divisor
    BY <1>2, <1>3, <1>4, <1>7, Bits
  <2>. QED
    BY <1>3, <1>5, <1>6, <2>1 DEF DInv, DivType, Shifted
<1>8. CASE k # 0
  <2>1. k - 1 \in 0 .. BITS - 1 /\ Bit[k] = 2 * Bit[k - 1] /\ Bit[k - 1] \in Nat
    BY <1>8, Bits
  <2>2. divisor * (2 * Bit[k - 1]) = 2 * (divisor * Bit[k - 1])
    BY <1>2, <2>1
  <2>3. divisor * Bit[k - 1] \in Nat
    BY <1>2, <2>1
  <2>4. qbit' = Bit[k - 1] /\ den' = divisor * Bit[k - 1] /\ den = 2 * den'
    BY <1>3, <1>4, <2>1, <2>2, <2>3
  <2>5. Aligned(k - 1)'
    BY <1>3, <2>1, <2>4 DEF Aligned
  <2>. QED
    BY <1>3, <1>5, <1>6, <2>1, <2>4, <2>5 DEF DInv, DivType, Shifted
<1>. QED
  BY <1>7, <1>8

(* The invariant says what the property does, since a product is no less    *)
(* than its factor.                                                         *)
LEMMA InvExact == DInv => DivisionExact
<1> SUFFICES ASSUME DInv PROVE DivisionExact
  OBVIOUS
<1>1. /\ dividend \in Word /\ divisor \in Nat /\ 1 <= divisor /\ dividend \in Nat
      /\ rest \in Nat /\ quot \in Nat /\ Bit[BITS] \in Nat
      /\ dividend = quot * divisor + rest
  BY Bits DEF DInv, DivType, Word
<1>2. quot <= divisor * quot /\ divisor * quot = quot * divisor /\ quot * divisor \in Nat
  BY <1>1, TimesOrder
<1>3. rest <= dividend /\ quot <= dividend
  BY <1>1, <1>2
<1>4. rest \in Word /\ quot \in Word
  BY <1>1, <1>3 DEF Word
<1>5. qbit = 0 => rest < divisor
  <2> SUFFICES ASSUME qbit = 0 PROVE rest < divisor
    OBVIOUS
  <2>1. CASE \E k \in 0 .. BITS - 1 : Aligned(k)
    <3>1. den = 0
      BY <1>1, <2>1 DEF Aligned
    <3>. QED
      BY <1>1, <3>1 DEF DInv, DivType, Shifted
  <2>2. CASE ~\E k \in 0 .. BITS - 1 : Aligned(k)
    BY <2>2 DEF DInv, DivType, Shifted
  <2>. QED
    BY <2>1, <2>2
<1>. QED
  BY <1>1, <1>4, <1>5 DEF DivisionExact, DInv, DivType

(* For every width of a word, dividend and divisor: nothing is lost on the  *)
(* way, no word overflows, and in the end the remainder is less than the    *)
(* divisor.                                                                 *)
THEOREM DividesExactly == DivSpec => []DivisionExact
<1>1. DInv /\ [DivNext]_divvars => DInv'
  <2> SUFFICES ASSUME DInv, [DivNext]_divvars PROVE DInv'
    OBVIOUS
  <2>1. CASE Justify
    BY <2>1, JustifyKeeps
  <2>2. CASE Divide
    BY <2>2, DivideKeeps
  <2>3. CASE UNCHANGED divvars
    BY <2>3 DEF DInv, DivType, Shifted, Aligned, divvars
  <2>. QED
    BY <2>1, <2>2, <2>3 DEF DivNext
<1>. QED
  BY <1>1, DivisionStarts, InvExact, PTL DEF DivSpec

(* A date of the calendar.                                                  *)
IsDate(d) ==
  /\ d \in [year : Nat \ {0}, month : 1 .. 12, day : 1 .. 31]
  /\ d.day <= Length(d.year, d.month)

(* The days before a year, as mktime has them, grow by the length of the    *)
(* year before it, which has a leap day when its number says so.            *)
Before(year) == year \div 4 - year \div 100 + year \div 400 + year * 365
LEMMA YearLength ==
  ASSUME NEW y \in Nat \ {0}
  PROVE  Before(y) = Before(y - 1) + 365 + (IF Leap(y) THEN 1 ELSE 0)
<1>1. y \div 4 = (y - 1) \div 4 + (IF y % 4 = 0 THEN 1 ELSE 0)
  OBVIOUS
<1>2. y \div 100 = (y - 1) \div 100 + (IF y % 100 = 0 THEN 1 ELSE 0)
  OBVIOUS
<1>3. y \div 400 = (y - 1) \div 400 + (IF y % 400 = 0 THEN 1 ELSE 0)
  OBVIOUS
<1>4. y % 400 = 0 => y % 100 = 0
  OBVIOUS
<1>5. y % 100 = 0 => y % 4 = 0
  OBVIOUS
<1>. QED
  BY <1>1, <1>2, <1>3, <1>4, <1>5 DEF Before, Leap

(* The number of a date by its month: from March on it counts in its own    *)
(* year, before that at the end of the year before.                         *)
Count(y, m, n) == IF m <= 2 THEN Before(y - 1) + (367 * (m + 10)) \div 12 + n - 337
                            ELSE Before(y) + (367 * (m - 2)) \div 12 + n - 337
LEMMA mktimeByMonth ==
  ASSUME NEW y \in Nat \ {0}, NEW m \in 1 .. 12, NEW n \in 1 .. 31
  PROVE  mktime([year |-> y, month |-> m, day |-> n]) = Count(y, m, n)
<1>1. CASE m <= 2
  <2>1. m - 2 <= 0
    BY <1>1
  <2>. QED
    BY <1>1, <2>1 DEF mktime, Before, Count
<1>2. CASE ~(m <= 2)
  <2>1. ~(m - 2 <= 0)
    BY <1>2
  <2>. QED
    BY <1>2, <2>1 DEF mktime, Before, Count
<1>. QED
  BY <1>1, <1>2

LEMMA NextMonth ==
  ASSUME NEW y, NEW m, NEW n, NEW d, d = [year |-> y, month |-> m, day |-> n]
  PROVE  [d EXCEPT !.month = @ + 1, !.day = 1] = [year |-> y, month |-> m + 1, day |-> 1]
<1>1. [d EXCEPT !.month = @ + 1] = [year |-> y, month |-> m + 1, day |-> n]
  OBVIOUS
<1>2. [[year |-> y, month |-> m + 1, day |-> n] EXCEPT !.day = 1]
        = [year |-> y, month |-> m + 1, day |-> 1]
  OBVIOUS
<1>. QED
  BY <1>1, <1>2

(* The next day has the next number, over the ends of months, leap days and *)
(* the ends of years: (367 * mon) / 12 grows by the length of each month.   *)
THEOREM mktimeCountsDays ==
  ASSUME NEW d, IsDate(d)
  PROVE  IsDate(Tomorrow(d)) /\ mktime(Tomorrow(d)) = mktime(d) + 1
<1> DEFINE y == d.year
           m == d.month
           n == d.day
<1>1. /\ y \in Nat \ {0} /\ m \in 1 .. 12 /\ n \in 1 .. 31 /\ n <= Length(y, m)
      /\ d = [year |-> y, month |-> m, day |-> n]
  BY DEF IsDate
<1>2. CASE n < Length(y, m)
  <2>1. Tomorrow(d) = [year |-> y, month |-> m, day |-> n + 1]
    BY <1>1, <1>2 DEF Tomorrow
  <2>2. Length(y, m) \in 28 .. 31
    BY DEF Length
  <2>3. n + 1 \in 1 .. 31 /\ n + 1 <= Length(y, m)
    BY <1>1, <1>2, <2>2
  <2>4. IsDate(Tomorrow(d))
    BY <1>1, <2>1, <2>3 DEF IsDate
  <2>5. /\ mktime(Tomorrow(d)) = Count(y, m, n + 1)
        /\ mktime(d) = Count(y, m, n)
    BY <1>1, <2>1, <2>3, mktimeByMonth
  <2>6. Before(y) \in Int /\ Before(y - 1) \in Int
    BY <1>1 DEF Before
  <2>7. Count(y, m, n + 1) = Count(y, m, n) + 1
    BY <1>1, <2>6 DEF Count
  <2>. QED
    BY <2>4, <2>5, <2>7
<1>3. CASE n = Length(y, m) /\ m < 12
  <2>1. Tomorrow(d) = [year |-> y, month |-> m + 1, day |-> 1]
    <3>1. ~(d.day < Length(d.year, d.month)) /\ d.month < 12
      BY <1>1, <1>3
    <3>2. [d EXCEPT !.month = @ + 1, !.day = 1] = [year |-> y, month |-> m + 1, day |-> 1]
      BY <1>1, NextMonth
    <3>. QED
      BY <3>1, <3>2 DEF Tomorrow
  <2>2. m + 1 \in 1 .. 12 /\ 1 \in 1 .. 31 /\ 1 <= Length(y, m + 1)
    BY <1>1, <1>3 DEF Length
  <2>3. IsDate(Tomorrow(d))
    BY <1>1, <2>1, <2>2 DEF IsDate
  <2>4. /\ mktime(Tomorrow(d)) = Count(y, m + 1, 1)
        /\ mktime(d) = Count(y, m, n)
    BY <1>1, <2>1, <2>2, mktimeByMonth
  <2>5. Before(y) \in Int /\ Before(y - 1) \in Int
    BY <1>1 DEF Before
  <2>6. Before(y) = Before(y - 1) + 365 + (IF Leap(y) THEN 1 ELSE 0)
    BY <1>1, YearLength
  <2>7. Count(y, m + 1, 1) = Count(y, m, n) + 1
    BY <1>1, <1>3, <2>5, <2>6 DEF Count, Length
  <2>. QED
    BY <2>3, <2>4, <2>7
<1>4. CASE n = Length(y, m) /\ m = 12
  <2>1. Tomorrow(d) = [year |-> y + 1, month |-> 1, day |-> 1]
    BY <1>1, <1>4 DEF Tomorrow
  <2>2. IsDate(Tomorrow(d))
    BY <1>1, <2>1 DEF IsDate, Length
  <2>3. n = 31
    BY <1>4 DEF Length
  <2>4. Before((y + 1) - 1) = Before(y) /\ Before(y) \in Int
    BY <1>1 DEF Before
  <2>5. y + 1 \in Nat \ {0} /\ 1 \in 1 .. 12 /\ 1 \in 1 .. 31
    BY <1>1
  <2>6. /\ mktime(Tomorrow(d)) = Count(y + 1, 1, 1)
        /\ mktime(d) = Count(y, m, n)
    BY <1>1, <2>1, <2>5, mktimeByMonth
  <2>7. Count(y + 1, 1, 1) = Count(y, m, n) + 1
    BY <1>1, <1>4, <2>3, <2>4 DEF Count
  <2>. QED
    BY <2>2, <2>6, <2>7
<1>. QED
  BY <1>1, <1>2, <1>3, <1>4 DEF Length

(***************************************************************************)
(* The memory map.  The memory of the regions before n; and what each loop  *)
(* gives of it.                                                             *)
(***************************************************************************)
UsableTo(n) == UNION {PagesOf(items[i]) : i \in {m \in DOMAIN items : m < n /\ items[m].type = 1}}
Loaded == KERNEL_END .. LOADER_MAPPED - 1
Mapped == LOADER_MAPPED .. MAX_MAPPING - 1

Ranges == [base : Int, limit : Int]
Covered(s) == UNION {PagesOf(s[i]) : i \in DOMAIN s}
Apart(s) == \A i, n \in DOMAIN s : i # n => PagesOf(s[i]) \cap PagesOf(s[n]) = {}

MapType ==
  /\ items \in Seq([base : Nat, limit : Nat, type : Nat])
  /\ ai \in 1 .. Len(items) + 1
  /\ max \in Nat
  /\ given \in Seq(Ranges)
  /\ mappc \in {"first", "panic", "second", "done"}

(* What has been given is the memory of the regions before ai, as far as    *)
(* the loop gives it; and memory ends at max, as far as it is known.        *)
Exact ==
  /\ Apart(given)
  /\ mappc \in {"first", "panic"} => Given = UsableTo(ai) \cap Loaded
  /\ mappc \in {"second", "done"} => Given = (Usable \cap Loaded) \cup (UsableTo(ai) \cap Mapped)
  /\ mappc = "done" => ai = Len(items) + 1
  /\ mappc = "first" => \A i \in DOMAIN items : i < ai /\ items[i].type = 1 => items[i].base + items[i].limit <= max
  /\ mappc = "second" => \A i \in DOMAIN items : items[i].type = 1 => items[i].base + items[i].limit <= max
MapInv == MapType /\ (Orderly => Exact)

LEMMA WordInt == WORD \in Nat /\ WORD > 0 /\ \A n \in Int : Wrap(n) \in 0 .. WORD - 1
BY MappingAssumption, SMT DEF Wrap

LEMMA WrapFits == \A n \in 0 .. WORD - 1 : Wrap(n) = n
BY MappingAssumption, SMT DEF Wrap

LEMMA RegionType ==
  ASSUME MapType, NEW n \in DOMAIN items
  PROVE  /\ n \in Nat
         /\ items[n] \in [base : Nat, limit : Nat, type : Nat]
         /\ items[n].base \in Nat /\ items[n].limit \in Nat
<1> DEFINE S == [base : Nat, limit : Nat, type : Nat]
<1>1. items \in Seq(S)  BY DEF MapType
<1>2. \A q \in S : q.base \in Nat /\ q.limit \in Nat  OBVIOUS
<1> HIDE DEF S
<1>3. items[n] \in S /\ n \in Nat  BY <1>1, SMT
<1>4. items[n].base \in Nat /\ items[n].limit \in Nat  BY <1>2, <1>3
<1> QED  BY <1>3, <1>4 DEF S

(* The two cuts of a range that ends below 4 GB leave what lies between the *)
(* two borders; a range that is not cut lies below the first.               *)
LEMMA CutExact ==
  ASSUME NEW b \in Nat, NEW l \in Nat, NEW low \in Nat, NEW high \in Nat,
         low <= high, b < high, b + l < WORD,
         NEW r, r = [base |-> b, limit |-> l]
  PROVE  /\ EndsBelow(r, low) => PagesOf(r) \cap (low .. high - 1) = {}
         /\ ~EndsBelow(r, low) =>
              PagesOf(CutAbove(CutBelow(r, low), high)) = PagesOf(r) \cap (low .. high - 1)
<1> DEFINE c == CutBelow(r, low)
<1>1. Wrap(b + l) = b + l /\ r.base = b /\ r.limit = l /\ PagesOf(r) = b .. b + l - 1
  BY WrapFits, WordInt DEF PagesOf
<1>2. CASE EndsBelow(r, low)
  BY <1>1, <1>2, SMT DEF EndsBelow
<1>3. CASE ~EndsBelow(r, low) /\ b < low
  <2>1. b + l > low  BY <1>1, <1>3, SMT DEF EndsBelow
  <2>2. b + l - low \in 0 .. WORD - 1  BY <2>1, <1>3, WordInt, SMT
  <2>3. c = [base |-> low, limit |-> b + l - low]  BY <1>1, <1>3, <2>2, WrapFits DEF CutBelow
  <2>4. c.base = low /\ c.limit = b + l - low  BY <2>3
  <2>5. Wrap(c.base + c.limit) = b + l  BY <2>4, <1>1, <2>1, SMT
  <2>6. CASE b + l > high
    <3>1. CutAbove(c, high).base = low /\ CutAbove(c, high).limit = high - low
      BY <2>3, <2>4, <2>5, <2>6 DEF CutAbove
    <3> QED  BY <3>1, <1>1, <1>3, <2>6, SMT DEF PagesOf
  <2>7. CASE ~(b + l > high)
    <3>1. CutAbove(c, high) = c  BY <2>5, <2>7 DEF CutAbove
    <3>2. PagesOf(c) = low .. b + l - 1
      <4>1. PagesOf(c) = low .. low + (b + l - low) - 1  BY <2>4 DEF PagesOf
      <4>2. low + (b + l - low) - 1 = b + l - 1  BY SMT
      <4> QED  BY <4>1, <4>2
    <3> QED  BY <3>1, <3>2, <1>1, <1>3, <2>7, SMT
  <2> QED  BY <2>6, <2>7
<1>4. CASE ~EndsBelow(r, low) /\ ~(b < low)
  <2>1. c = r  BY <1>1, <1>4 DEF CutBelow
  <2>2. CASE b + l > high
    <3>1. CutAbove(c, high).base = b /\ CutAbove(c, high).limit = high - b
      BY <2>1, <1>1, <2>2 DEF CutAbove
    <3>2. PagesOf(CutAbove(c, high)) = b .. high - 1
      <4>1. PagesOf(CutAbove(c, high)) = b .. b + (high - b) - 1  BY <3>1 DEF PagesOf
      <4>2. b + (high - b) - 1 = high - 1  BY SMT
      <4> QED  BY <4>1, <4>2
    <3> QED  BY <3>2, <1>1, <1>4, <2>2, SMT
  <2>3. CASE ~(b + l > high)
    <3>1. CutAbove(c, high) = r  BY <2>1, <1>1, <2>3 DEF CutAbove
    <3> QED  BY <3>1, <1>1, <1>4, <2>3, SMT
  <2> QED  BY <2>2, <2>3
<1> QED  BY <1>2, <1>3, <1>4

LEMMA CutType ==
  ASSUME NEW b \in Int, NEW l \in Int, NEW low \in Nat, NEW high \in Nat
  PROVE  CutAbove(CutBelow([base |-> b, limit |-> l], low), high) \in Ranges
<1>1. PICK c \in Ranges : c = CutBelow([base |-> b, limit |-> l], low)
  <2>1. Wrap(b + l - low) \in Int  BY WordInt
  <2>2. [base |-> low, limit |-> Wrap(b + l - low)] \in Ranges /\ [base |-> b, limit |-> l] \in Ranges
    BY <2>1 DEF Ranges
  <2>3. CutBelow([base |-> b, limit |-> l], low) \in Ranges
    BY <2>2 DEF CutBelow
  <2> QED  BY <2>3
<1>2. CutAbove(c, high) \in Ranges  BY SMT DEF CutAbove, Ranges
<1> QED  BY <1>1, <1>2

(* One more range covers what it covers.                                    *)
LEMMA CoversMore ==
  ASSUME NEW s \in Seq(Ranges), NEW r \in Ranges
  PROVE  /\ Append(s, r) \in Seq(Ranges)
         /\ Covered(Append(s, r)) = Covered(s) \cup PagesOf(r)
         /\ Apart(s) /\ Covered(s) \cap PagesOf(r) = {} => Apart(Append(s, r))
<1> DEFINE t == Append(s, r)
<1>1. /\ t \in Seq(Ranges) /\ DOMAIN t = DOMAIN s \cup {Len(s) + 1}
      /\ Len(s) + 1 \notin DOMAIN s /\ t[Len(s) + 1] = r
      /\ \A i \in DOMAIN s : t[i] = s[i]
  BY SMT
<1> HIDE DEF t
<1>2. Covered(t) = Covered(s) \cup PagesOf(r)
  <2>1. {PagesOf(t[i]) : i \in DOMAIN t} = {PagesOf(s[i]) : i \in DOMAIN s} \cup {PagesOf(r)}
    BY <1>1, Zenon
  <2> QED  BY <2>1 DEF Covered
<1>3. ASSUME Apart(s), Covered(s) \cap PagesOf(r) = {}  PROVE Apart(t)
  <2>1. \A i \in DOMAIN s : PagesOf(s[i]) \cap PagesOf(r) = {}  BY <1>3 DEF Covered
  <2>2. SUFFICES ASSUME NEW i \in DOMAIN t, NEW n \in DOMAIN t, i # n
                 PROVE  PagesOf(t[i]) \cap PagesOf(t[n]) = {}
    BY DEF Apart
  <2>3. CASE i \in DOMAIN s /\ n \in DOMAIN s  BY <2>2, <2>3, <1>1, <1>3 DEF Apart
  <2>4. CASE i = Len(s) + 1 /\ n \in DOMAIN s  BY <2>4, <2>1, <1>1
  <2>5. CASE n = Len(s) + 1 /\ i \in DOMAIN s  BY <2>5, <2>1, <1>1
  <2> QED  BY <2>2, <2>3, <2>4, <2>5, <1>1
<1> QED  BY <1>1, <1>2, <1>3 DEF t

LEMMA GivenIsCovered == Given = Covered(given)
BY DEF Given, Covered

(* The regions before the next are this one and those before it; it shares  *)
(* no page with them.                                                       *)
LEMMA UsableNext ==
  ASSUME MapType, NEW n \in DOMAIN items
  PROVE  /\ UsableTo(n + 1) = UsableTo(n) \cup IF items[n].type = 1 THEN PagesOf(items[n]) ELSE {}
         /\ Orderly => UsableTo(n) \cap PagesOf(items[n]) = {}
<1>1. n \in Nat /\ DOMAIN items \subseteq Nat  BY SMTT(30) DEF MapType
<1>2. {m \in DOMAIN items : m < n + 1 /\ items[m].type = 1}
        = {m \in DOMAIN items : m < n /\ items[m].type = 1} \cup {m \in {n} : items[m].type = 1}
  BY <1>1, SMT
<1>3. UsableTo(n + 1) = UsableTo(n) \cup IF items[n].type = 1 THEN PagesOf(items[n]) ELSE {}
  BY <1>2, ZenonT(60) DEF UsableTo
<1>4. ASSUME Orderly, NEW i \in DOMAIN items, i < n  PROVE PagesOf(items[i]) \cap PagesOf(items[n]) = {}
  <2>1. items[i] \in [base : Nat, limit : Nat, type : Nat] /\ items[n] \in [base : Nat, limit : Nat, type : Nat]
    BY RegionType
  <2>2. items[i].base + items[i].limit <= items[n].base  BY <1>4 DEF Orderly
  <2> QED  BY <2>1, <2>2, SMT DEF PagesOf
<1> QED  BY <1>3, <1>4 DEF UsableTo

LEMMA UsableEnds == ASSUME MapType PROVE UsableTo(1) = {} /\ UsableTo(Len(items) + 1) = Usable
<1>1. \A m \in DOMAIN items : ~(m < 1) /\ m < Len(items) + 1  BY DEF MapType
<1>2. {m \in DOMAIN items : m < 1 /\ items[m].type = 1} = {}  BY <1>1
<1>3. {m \in DOMAIN items : m < Len(items) + 1 /\ items[m].type = 1} = {n \in DOMAIN items : items[n].type = 1}
  BY <1>1
<1> QED  BY <1>2, <1>3 DEF UsableTo, Usable

(* What a call of GiveOf gives: what the region has between the borders.    *)
LEMMA GiveType ==
  ASSUME MapType, NEW low \in Nat, NEW high \in Nat, NEW n \in DOMAIN items,
         GiveOf(Narrow(items[n]), low, high)
  PROVE  given' \in Seq(Ranges)
<1>1. PICK b \in Int, l \in Int : Narrow(items[n]) = [base |-> b, limit |-> l]
  <2>1. Wrap(items[n].base) \in Int /\ Wrap(items[n].limit) \in Int  BY RegionType, WordInt
  <2> QED  BY <2>1 DEF Narrow
<1> QED  BY <1>1, CutType, CoversMore DEF GiveOf, MapType

LEMMA GiveExact ==
  ASSUME MapType, Orderly, NEW low \in Nat, NEW high \in Nat, low <= high, high <= MAX_MAPPING,
         NEW n \in DOMAIN items, items[n].base < high,
         Apart(given), Given \cap PagesOf(items[n]) \cap (low .. high - 1) = {},
         GiveOf(Narrow(items[n]), low, high)
  PROVE  Apart(given') /\ Given' = Given \cup (PagesOf(items[n]) \cap (low .. high - 1))
<1> DEFINE r == [base |-> items[n].base, limit |-> items[n].limit]
           c == CutAbove(CutBelow(r, low), high)
<1>1. items[n].base \in Nat /\ items[n].limit \in Nat  BY RegionType
<1>2. items[n].base + items[n].limit < WORD
  BY <1>1, MappingAssumption DEF Orderly
<1>3. Narrow(items[n]) = r
  <2>1. items[n].base \in 0 .. WORD - 1 /\ items[n].limit \in 0 .. WORD - 1
    BY <1>1, <1>2, WordInt, SMT
  <2> QED  BY <2>1, WrapFits DEF Narrow
<1>4. PagesOf(r) = PagesOf(items[n])  BY DEF PagesOf
<1>5. /\ EndsBelow(r, low) => PagesOf(r) \cap (low .. high - 1) = {}
      /\ ~EndsBelow(r, low) => PagesOf(c) = PagesOf(r) \cap (low .. high - 1)
  BY <1>1, <1>2, CutExact
<1>6. CASE EndsBelow(r, low)
  <2>1. given' = given  BY <1>3, <1>6 DEF GiveOf
  <2> QED  BY <2>1, <1>4, <1>5, <1>6 DEF Given
<1>7. CASE ~EndsBelow(r, low)
  <2>1. given' = Append(given, c)  BY <1>3, <1>7 DEF GiveOf
  <2>2. c \in Ranges  BY <1>1, CutType
  <2>3. Given' = Covered(given') /\ Given = Covered(given)  BY DEF Given, Covered
  <2>4. given \in Seq(Ranges)  BY DEF MapType
  <2>5. Covered(given) \cap PagesOf(c) = {}  BY <2>3, <1>4, <1>5, <1>7
  <2> HIDE DEF c
  <2> QED  BY <2>1, <2>2, <2>3, <2>4, <2>5, CoversMore, <1>4, <1>5, <1>7
<1> QED  BY <1>6, <1>7

(* A loop's step: its item's memory between the loop's borders is added,    *)
(* and nothing if the region is no memory or begins above.                  *)
LEMMA StepGives ==
  ASSUME MapType, Orderly, Apart(given), NEW low \in Nat, NEW high \in Nat, low <= high, high <= MAX_MAPPING,
         NEW n \in DOMAIN items,
         Given \cap PagesOf(items[n]) \cap (low .. high - 1) = {},
         IF items[n].type = 1 /\ items[n].base < high
           THEN GiveOf(Narrow(items[n]), low, high) ELSE UNCHANGED given
  PROVE  /\ Apart(given')
         /\ Given' = Given \cup ((UsableTo(n + 1) \ UsableTo(n)) \cap (low .. high - 1))
<1>1. items[n].base \in Nat /\ items[n].limit \in Nat  BY RegionType
<1>2. /\ UsableTo(n + 1) = UsableTo(n) \cup IF items[n].type = 1 THEN PagesOf(items[n]) ELSE {}
      /\ UsableTo(n) \cap PagesOf(items[n]) = {}
  BY UsableNext
<1>3. CASE items[n].type = 1 /\ items[n].base < high
  <2>1. Apart(given') /\ Given' = Given \cup (PagesOf(items[n]) \cap (low .. high - 1))
    BY <1>3, GiveExact
  <2>2. UsableTo(n + 1) \ UsableTo(n) = PagesOf(items[n])  BY <1>2, <1>3
  <2> QED  BY <2>1, <2>2
<1>4. CASE ~(items[n].type = 1 /\ items[n].base < high)
  <2>1. given' = given  BY <1>4
  <2>2. (UsableTo(n + 1) \ UsableTo(n)) \cap (low .. high - 1) = {}
    <3>1. CASE items[n].type # 1  BY <3>1, <1>2
    <3>2. CASE items[n].type = 1
      <4>1. ~(items[n].base < high)  BY <3>2, <1>4
      <4>2. PagesOf(items[n]) \cap (low .. high - 1) = {}  BY <4>1, <1>1, SMT DEF PagesOf
      <4> QED  BY <4>2, <3>2, <1>2
    <3> QED  BY <3>1, <3>2
  <2> QED  BY <2>1, <2>2 DEF Given
<1> QED  BY <1>3, <1>4

LEMMA Borders ==
  /\ KERNEL_END \in Nat /\ LOADER_MAPPED \in Nat /\ MAX_MAPPING \in Nat
  /\ KERNEL_END < LOADER_MAPPED /\ LOADER_MAPPED <= MAX_MAPPING
  /\ Loaded \cap Mapped = {} /\ Loaded \cup Mapped = KERNEL_END .. MAX_MAPPING - 1
BY MappingAssumption, SMT DEF Loaded, Mapped

LEMMA FirstLoopKeeps == ASSUME MapInv, FirstLoop PROVE MapInv'
<1>1. /\ mappc = "first" /\ ai \in Nat /\ ai <= Len(items) /\ ai' = ai + 1
      /\ items' = items /\ mappc' = mappc
      /\ items \in Seq([base : Nat, limit : Nat, type : Nat])
  BY DEF MapInv, MapType, FirstLoop, Within
<1>2. ai \in DOMAIN items /\ ai + 1 \in 1 .. Len(items) + 1  BY <1>1 DEF MapInv, MapType
<1>3. items[ai].base \in Nat /\ items[ai].limit \in Nat  BY <1>2, RegionType DEF MapInv
<1>4. MapType'
  <2>1. max' \in Nat
    <3>1. max' = items[ai].base + items[ai].limit \/ max' = max  BY DEF FirstLoop
    <3>2. max \in Nat  BY DEF MapInv, MapType
    <3> QED  BY <3>1, <3>2, <1>3, SMT
  <2>2. given' \in Seq(Ranges)
    <3>1. CASE given' = given  BY <3>1 DEF MapInv, MapType
    <3>2. CASE GiveOf(Narrow(items[ai]), KERNEL_END, LOADER_MAPPED)
      BY <3>2, <1>2, GiveType, Borders DEF MapInv
    <3> QED  BY <3>1, <3>2 DEF FirstLoop
  <2> QED  BY <2>1, <2>2, <1>1, <1>2 DEF MapType
<1>5. ASSUME Orderly PROVE Exact'
  <2>1. Apart(given) /\ Given = UsableTo(ai) \cap Loaded  BY <1>1, <1>5 DEF MapInv, Exact
  <2>2. UsableTo(ai) \cap PagesOf(items[ai]) = {} /\ UsableTo(ai) \subseteq UsableTo(ai + 1)
    BY <1>2, <1>5, UsableNext DEF MapInv
  <2>3. /\ Apart(given')
        /\ Given' = Given \cup ((UsableTo(ai + 1) \ UsableTo(ai)) \cap Loaded)
    <3>1. Given \cap PagesOf(items[ai]) \cap (KERNEL_END .. LOADER_MAPPED - 1) = {}  BY <2>1, <2>2
    <3>2. IF items[ai].type = 1 /\ items[ai].base < LOADER_MAPPED
            THEN GiveOf(Narrow(items[ai]), KERNEL_END, LOADER_MAPPED) ELSE UNCHANGED given
      BY DEF FirstLoop, Available
    <3>3. KERNEL_END \in Nat /\ LOADER_MAPPED \in Nat /\ KERNEL_END <= LOADER_MAPPED /\ LOADER_MAPPED <= MAX_MAPPING
      BY Borders, SMT
    <3> QED  BY <3>1, <3>2, <3>3, <2>1, <1>2, <1>5, StepGives DEF MapInv, Loaded
  <2>4. Given' = UsableTo(ai + 1) \cap Loaded  BY <2>1, <2>2, <2>3
  <2>5. UsableTo(ai)' = UsableTo(ai + 1)  BY <1>1 DEF UsableTo, PagesOf
  <2>6. ASSUME NEW i \in DOMAIN items, i < ai + 1, items[i].type = 1
        PROVE  items[i].base + items[i].limit <= max'
    <3>1. items[i].base \in Nat /\ items[i].limit \in Nat /\ i \in Nat  BY RegionType DEF MapInv
    <3>2. CASE i = ai  BY <3>2, <2>6, <1>1 DEF FirstLoop
    <3>3. CASE i < ai
      <4>1. items[i].base + items[i].limit <= items[ai].base  BY <3>3, <1>2, <1>5 DEF Orderly
      <4>2. items[i].base + items[i].limit <= max  BY <3>3, <1>1, <1>5, <2>6 DEF MapInv, Exact
      <4>3. max' = items[ai].base + items[ai].limit \/ max' = max  BY DEF FirstLoop
      <4> QED  BY <4>1, <4>2, <4>3, <3>1, <1>3, SMT
    <3> QED  BY <3>1, <3>2, <3>3, <2>6, <1>1, SMT
  <2> QED  BY <1>1, <2>3, <2>4, <2>5, <2>6 DEF Exact, Loaded
<1>6. Orderly' => Orderly  BY <1>1 DEF Orderly
<1> QED  BY <1>4, <1>5, <1>6 DEF MapInv

LEMMA PagingKeeps == ASSUME MapInv, init_paging PROVE MapInv'
<1>1. /\ mappc = "first" /\ mappc' = "second" /\ ai' = 1 /\ ai > Len(items)
      /\ items' = items /\ max' = max /\ given' = given
  BY DEF init_paging
<1>2. Len(items) \in Nat /\ ai = Len(items) + 1 /\ DOMAIN items = 1 .. Len(items)
  BY <1>1 DEF MapInv, MapType
<1>3. MapType'  BY <1>1, <1>2 DEF MapInv, MapType
<1>4. ASSUME Orderly PROVE Exact'
  <2>1. Given = Usable \cap Loaded /\ UsableTo(1) = {}  BY <1>1, <1>2, <1>4, UsableEnds DEF MapInv, Exact
  <2>2. /\ Given' = Given /\ Usable' = Usable /\ UsableTo(ai)' = UsableTo(1)
        /\ Loaded' = Loaded /\ Mapped' = Mapped
    BY <1>1 DEF Given, Usable, UsableTo, PagesOf, Loaded, Mapped
  <2>3. \A i \in DOMAIN items : items[i].type = 1 => items[i].base + items[i].limit <= max
    <3>1. \A i \in DOMAIN items : i < ai  BY <1>2
    <3> QED  BY <3>1, <1>1, <1>4 DEF MapInv, Exact
  <2>4. Apart(given)  BY <1>4 DEF MapInv, Exact
  <2>5. Given' = (Usable' \cap Loaded') \cup (UsableTo(ai)' \cap Mapped')  BY <2>1, <2>2
  <2> QED  BY <1>1, <2>3, <2>4, <2>5 DEF Exact
<1>5. Orderly' => Orderly  BY <1>1 DEF Orderly
<1> QED  BY <1>3, <1>4, <1>5 DEF MapInv

LEMMA SecondLoopKeeps == ASSUME MapInv, SecondLoop PROVE MapInv'
<1>1. /\ mappc = "second" /\ ai \in Nat /\ ai <= Len(items) /\ ai' = ai + 1
      /\ items' = items /\ mappc' = mappc /\ max' = max
      /\ items \in Seq([base : Nat, limit : Nat, type : Nat])
  BY DEF MapInv, MapType, SecondLoop, Within
<1>2. ai \in DOMAIN items /\ ai + 1 \in 1 .. Len(items) + 1  BY <1>1 DEF MapInv, MapType
<1>4. MapType'
  <2>2. given' \in Seq(Ranges)
    <3>1. CASE given' = given  BY <3>1 DEF MapInv, MapType
    <3>2. CASE GiveOf(Narrow(items[ai]), LOADER_MAPPED, MAX_MAPPING)
      BY <3>2, <1>2, GiveType, Borders DEF MapInv
    <3> QED  BY <3>1, <3>2 DEF SecondLoop, GiveAbove
  <2> QED  BY <2>2, <1>1, <1>2 DEF MapInv, MapType
<1>5. ASSUME Orderly PROVE Exact'
  <2>1. Apart(given) /\ Given = (Usable \cap Loaded) \cup (UsableTo(ai) \cap Mapped)
    BY <1>1, <1>5 DEF MapInv, Exact
  <2>2. UsableTo(ai) \cap PagesOf(items[ai]) = {} /\ UsableTo(ai) \subseteq UsableTo(ai + 1)
    BY <1>2, <1>5, UsableNext DEF MapInv
  <2>3. /\ Apart(given')
        /\ Given' = Given \cup ((UsableTo(ai + 1) \ UsableTo(ai)) \cap Mapped)
    <3>1. Given \cap PagesOf(items[ai]) \cap Mapped = {}  BY <2>1, <2>2, Borders
    <3>2. IF items[ai].type = 1 /\ items[ai].base < MAX_MAPPING
            THEN GiveOf(Narrow(items[ai]), LOADER_MAPPED, MAX_MAPPING) ELSE UNCHANGED given
      BY DEF SecondLoop, GiveAbove, Available
    <3>3. MAX_MAPPING <= MAX_MAPPING  BY Borders
    <3> QED  BY <3>1, <3>2, <3>3, <2>1, <1>2, <1>5, StepGives, Borders DEF MapInv, Mapped
  <2>4. Given' = (Usable \cap Loaded) \cup (UsableTo(ai + 1) \cap Mapped)  BY <2>1, <2>2, <2>3
  <2>5. /\ Usable' = Usable /\ UsableTo(ai)' = UsableTo(ai + 1)
        /\ Loaded' = Loaded /\ Mapped' = Mapped
    BY <1>1 DEF Usable, UsableTo, PagesOf, Loaded, Mapped
  <2>6. Given' = (Usable' \cap Loaded') \cup (UsableTo(ai)' \cap Mapped')  BY <2>4, <2>5
  <2>7. mappc = "second" => \A i \in DOMAIN items : items[i].type = 1 => items[i].base + items[i].limit <= max
    BY <1>5 DEF MapInv, Exact
  <2> QED  BY <1>1, <2>3, <2>6, <2>7 DEF Exact
<1>6. Orderly' => Orderly  BY <1>1 DEF Orderly
<1> QED  BY <1>4, <1>5, <1>6 DEF MapInv

LEMMA MapDoneKeeps == ASSUME MapInv, MapDone PROVE MapInv'
<1>1. /\ mappc = "second" /\ mappc' = "done" /\ ai > Len(items)
      /\ items' = items /\ ai' = ai /\ max' = max /\ given' = given
  BY DEF MapDone
<1>2. ai = Len(items) + 1  BY <1>1 DEF MapInv, MapType
<1>3. MapType'  BY <1>1 DEF MapInv, MapType
<1>4. /\ Given' = Given /\ Usable' = Usable /\ UsableTo(ai)' = UsableTo(ai)
      /\ Loaded' = Loaded /\ Mapped' = Mapped
  BY <1>1 DEF Given, Usable, UsableTo, PagesOf, Loaded, Mapped
<1>5. Orderly => Apart(given) /\ Given = (Usable \cap Loaded) \cup (UsableTo(ai) \cap Mapped)
  BY <1>1 DEF MapInv, Exact
<1>6. Orderly' => Orderly  BY <1>1 DEF Orderly
<1> QED  BY <1>1, <1>2, <1>3, <1>4, <1>5, <1>6 DEF MapInv, Exact

LEMMA PanicKeeps == ASSUME MapInv, TooLittle PROVE MapInv'
<1>1. /\ mappc = "first" /\ mappc' = "panic"
      /\ items' = items /\ ai' = ai /\ max' = max /\ given' = given
  BY DEF TooLittle
<1>2. MapType'  BY <1>1 DEF MapInv, MapType
<1>3. Given' = Given /\ UsableTo(ai)' = UsableTo(ai) /\ Loaded' = Loaded
  BY <1>1 DEF Given, UsableTo, PagesOf, Loaded
<1>4. Orderly => Apart(given) /\ Given = UsableTo(ai) \cap Loaded
  BY <1>1 DEF MapInv, Exact
<1>5. Orderly' => Orderly  BY <1>1 DEF Orderly
<1> QED  BY <1>1, <1>2, <1>3, <1>4, <1>5 DEF MapInv, Exact

LEMMA MapBegins == MapInit => MapInv
<1> SUFFICES ASSUME MapInit PROVE MapInv  OBVIOUS
<1>1. /\ items \in Seq([base : Nat, limit : Nat, type : Nat])
      /\ ai = 1 /\ max = 0 /\ given = <<>> /\ mappc = "first"
  BY MapAssumption DEF MapInit, MapFrom
<1>2. MapType
  <2>1. given \in Seq(Ranges)  BY <1>1
  <2>2. Len(items) \in Nat  BY <1>1
  <2> QED  BY <1>1, <2>1, <2>2 DEF MapType
<1>3. Apart(given) /\ Given = {}  BY <1>1 DEF Apart, Given
<1>4. UsableTo(1) = {}  BY <1>2, UsableEnds
<1>5. \A i \in DOMAIN items : ~(i < 1)  BY <1>1
<1> QED  BY <1>1, <1>2, <1>3, <1>4, <1>5 DEF MapInv, Exact

(* Every page is given once: the invariant says of every point of the loops *)
(* which pages those are.                                                   *)
LEMMA ExactIsOnce == MapInv => GivenOnce
<1> SUFFICES ASSUME MapInv, Orderly PROVE GivenOnce!2  BY DEF GivenOnce
<1> USE DEF MapInv, Exact
<1>1. \A i, n \in DOMAIN given : i # n => PagesOf(given[i]) \cap PagesOf(given[n]) = {}
  BY DEF Apart
<1>2. UsableTo(ai) \subseteq Usable  BY DEF UsableTo, Usable
<1>3. Loaded \cap (0 .. KERNEL_END - 1) = {} /\ Mapped \cap (0 .. KERNEL_END - 1) = {}
      /\ Loaded \subseteq 0 .. LOADER_MAPPED - 1
  BY Borders, SMT DEF Loaded, Mapped
<1>4. mappc \in {"first", "panic", "second", "done"}  BY DEF MapType
<1>5. Given \subseteq Usable \cap (Loaded \cup Mapped)  BY <1>2, <1>4
<1>6. Given \subseteq Usable \ (0 .. KERNEL_END - 1)  BY <1>3, <1>5
<1>7. mappc = "first" => Given \subseteq 0 .. LOADER_MAPPED - 1  BY <1>3
<1>8. ASSUME mappc = "second" PROVE Given \subseteq 0 .. max - 1
  <2>1. ASSUME NEW i \in DOMAIN items, items[i].type = 1 PROVE PagesOf(items[i]) \subseteq 0 .. max - 1
    <3>1. items[i].base \in Nat /\ items[i].limit \in Nat /\ max \in Nat  BY RegionType DEF MapType
    <3>2. items[i].base + items[i].limit <= max  BY <1>8, <2>1
    <3> QED  BY <3>1, <3>2, SMT DEF PagesOf
  <2>2. Usable \subseteq 0 .. max - 1  BY <2>1 DEF Usable
  <2> QED  BY <2>2, <1>5
<1>9. ASSUME mappc = "done" PROVE Given = Usable \cap (KERNEL_END .. MAX_MAPPING - 1)
  <2>1. UsableTo(ai) = Usable  BY <1>9, UsableEnds
  <2> QED  BY <2>1, <1>9, Borders
<1> QED  BY <1>1, <1>6, <1>7, <1>8, <1>9

LEMMA MapStep == ASSUME MapInv, [MapNext]_mapvars PROVE MapInv'
<1>1. CASE FirstLoop  BY <1>1, FirstLoopKeeps
<1>2. CASE TooLittle  BY <1>2, PanicKeeps
<1>3. CASE init_paging  BY <1>3, PagingKeeps
<1>4. CASE SecondLoop  BY <1>4, SecondLoopKeeps
<1>5. CASE MapDone  BY <1>5, MapDoneKeeps
<1>6. CASE UNCHANGED mapvars
  <2>1. items' = items /\ ai' = ai /\ max' = max /\ given' = given /\ mappc' = mappc
    BY <1>6 DEF mapvars
  <2>2. /\ Given' = Given /\ Usable' = Usable /\ UsableTo(ai)' = UsableTo(ai)
        /\ Loaded' = Loaded /\ Mapped' = Mapped
    BY <2>1 DEF Given, Usable, UsableTo, PagesOf, Loaded, Mapped
  <2>3. MapType'  BY <2>1 DEF MapInv, MapType
  <2>4. Orderly' => Orderly  BY <2>1 DEF Orderly
  <2>5. Exact => Exact'  BY <2>1, <2>2 DEF Exact
  <2> QED  BY <2>3, <2>4, <2>5 DEF MapInv
<1> QED  BY <1>1, <1>2, <1>3, <1>4, <1>5, <1>6 DEF MapNext

(* On every map whose regions are in order and apart, the allocator gets    *)
(* each page of usable memory behind the kernel that can be mapped, once.   *)
THEOREM MemoryIsGivenOnce == MapSpec => []GivenOnce
<1>1. MapInv /\ [MapNext]_mapvars => MapInv'  BY MapStep
<1> QED  BY <1>1, MapBegins, ExactIsOnce, PTL DEF MapSpec

(***************************************************************************)
(* The interrupts.  Where the walk has come in the table: the line of each  *)
(* IRQ is what the last entry before it says.                               *)
(***************************************************************************)
MovedBefore(irq, n) == {i \in DOMAIN madt : i < n /\ madt[i].type = "override" /\ madt[i].source = irq}
LineAt(irq, n) == IF MovedBefore(irq, n) = {} THEN irq ELSE madt[Highest(MovedBefore(irq, n))].interrupt

IsBoard ==
  /\ Len(madt) \in Nat /\ DOMAIN madt = 1 .. Len(madt)
  /\ \A i \in DOMAIN madt : madt[i].type = "override" => madt[i].source \in IRQS /\ madt[i].interrupt \in LINES
AcpiType ==
  /\ IsBoard
  /\ header \in 1 .. Len(madt) + 1
  /\ irqOverride \in [IRQS -> LINES]
  /\ handlerTable2 \in [IRQS -> Int]
  /\ apc \in {"rsdt", "madt", "fault", "devices"}
Walked == \A irq \in IRQS : irqOverride[irq] = LineAt(irq, header)

(* The devices are set up in their order.                                   *)
Setting ==
  /\ todo \in Seq(IRQS) /\ Len(todo) <= Len(Devices)
  /\ \A i \in 1 .. Len(todo) : todo[i] = Devices[Len(Devices) - Len(todo) + i]

(* Once init_apic has been there: each entry has its vector, and is open    *)
(* for the devices that are set up.                                         *)
Routed ==
  IF apc = "devices"
    THEN /\ header = Len(madt) + 1
         /\ red \in [LINES -> [vector : {Vectors[l] : l \in LINES}, masked : BOOLEAN]]
         /\ \A l \in LINES : red[l].vector = Vectors[l]
         /\ \A l \in LINES : red[l].masked <=> \A irq \in Ready : irqOverride[irq] # l
         /\ \A irq \in Ready : handlerTable2[irq] = irq
    ELSE todo = Devices
AcpiInv == AcpiType /\ Walked /\ Setting /\ Routed

LEMMA HighestIs ==
  ASSUME NEW S \in SUBSET Int, NEW n \in S, \A j \in S : j <= n
  PROVE  Highest(S) = n
<1>1. \A i \in S : (\A j \in S : j <= i) => i = n  BY SMT
<1> QED  BY <1>1 DEF Highest

(* One entry more: an override is the highest so far for its source, and    *)
(* all others stay as they are.                                             *)
LEMMA OneEntryMore ==
  ASSUME IsBoard, NEW n \in DOMAIN madt, NEW irq
  PROVE  LineAt(irq, n + 1) = IF madt[n].type = "override" /\ madt[n].source = irq
                                THEN madt[n].interrupt ELSE LineAt(irq, n)
<1>1. n \in Int /\ DOMAIN madt \subseteq Int  BY DEF IsBoard
<1>2. CASE madt[n].type = "override" /\ madt[n].source = irq
  <2>1. n \in MovedBefore(irq, n + 1) /\ \A j \in MovedBefore(irq, n + 1) : j <= n
    BY <1>1, <1>2, SMT DEF MovedBefore
  <2>2. MovedBefore(irq, n + 1) \in SUBSET Int  BY <1>1 DEF MovedBefore
  <2>3. Highest(MovedBefore(irq, n + 1)) = n  BY <2>1, <2>2, HighestIs
  <2> QED  BY <2>1, <2>3, <1>2 DEF LineAt
<1>3. CASE ~(madt[n].type = "override" /\ madt[n].source = irq)
  <2>1. MovedBefore(irq, n + 1) = MovedBefore(irq, n)  BY <1>1, <1>3, SMT DEF MovedBefore
  <2> QED  BY <2>1, <1>3 DEF LineAt
<1> QED  BY <1>2, <1>3

LEMMA WholeTable == ASSUME IsBoard, NEW irq PROVE LineAt(irq, Len(madt) + 1) = Line(irq)
<1>1. \A i \in DOMAIN madt : i < Len(madt) + 1  BY DEF IsBoard
<1>2. MovedBefore(irq, Len(madt) + 1) = Moved(irq)  BY <1>1 DEF MovedBefore, Moved
<1> QED  BY <1>2 DEF LineAt, Line

LEMMA AcpiBegins == AcpiInit => AcpiInv
<1> SUFFICES ASSUME AcpiInit PROVE AcpiInv  OBVIOUS
<1> USE DEF AcpiInit, AcpiFrom
<1>1. IsBoard  BY BoardAssumption DEF IsBoard
<1>2. \A i \in IRQS : i \in LINES  BY DEF IRQS, LINES
<1>3. AcpiType
  <2>1. 1 \in 1 .. Len(madt) + 1  BY <1>1 DEF IsBoard
  <2>3. irqOverride \in [IRQS -> LINES]  BY <1>2
  <2>4. handlerTable2 \in [IRQS -> Int]  BY DEF UNKNOWN
  <2> QED  BY <1>1, <2>1, <2>3, <2>4 DEF AcpiType
<1>4. Walked
  <2>1. \A i \in DOMAIN madt : ~(i < 1)  BY <1>1 DEF IsBoard
  <2>2. \A irq \in IRQS : MovedBefore(irq, 1) = {}  BY <2>1 DEF MovedBefore
  <2> QED  BY <2>2 DEF Walked, LineAt
<1>5. Setting
  <2>1. todo = Devices /\ Devices \in Seq(IRQS) /\ Len(Devices) \in Nat  BY DevicesAssumption
  <2> QED  BY <2>1, SMT DEF Setting
<1>6. Routed  BY DEF Routed
<1> QED  BY <1>3, <1>4, <1>5, <1>6 DEF AcpiInv

(* The walk's steps.                                                        *)
LEMMA WalkKeeps ==
  ASSUME AcpiInv, Processor \/ IoApic \/ Override \/ Other
  PROVE  AcpiInv'
<1>1. /\ apc = "madt" /\ header \in DOMAIN madt /\ header' = header + 1 /\ header \in Nat
      /\ madt' = madt /\ red' = red /\ handlerTable2' = handlerTable2 /\ todo' = todo /\ apc' = apc
  BY DEF AcpiInv, AcpiType, IsBoard, Processor, IoApic, Override, Other, At, Onwards
<1>2. IsBoard /\ IsBoard'  BY <1>1 DEF AcpiInv, AcpiType, IsBoard
<1>3. \A irq \in IRQS : LineAt(irq, header)' = LineAt(irq, header + 1)
  BY <1>1 DEF LineAt, MovedBefore
<1>4. /\ irqOverride' \in [IRQS -> LINES]
      /\ \A irq \in IRQS : irqOverride'[irq] = LineAt(irq, header + 1)
  <2>1. irqOverride \in [IRQS -> LINES] /\ \A irq \in IRQS : irqOverride[irq] = LineAt(irq, header)
    BY DEF AcpiInv, AcpiType, Walked
  <2>2. CASE Override
    <3>1. /\ madt[header].type = "override"
          /\ irqOverride' = [irqOverride EXCEPT ![madt[header].source] = madt[header].interrupt]
      BY <2>2 DEF Override, At
    <3>2. madt[header].source \in IRQS /\ madt[header].interrupt \in LINES  BY <3>1, <1>1, <1>2 DEF IsBoard
    <3>3. irqOverride' \in [IRQS -> LINES]  BY <3>1, <3>2, <2>1
    <3>4. ASSUME NEW irq \in IRQS PROVE irqOverride'[irq] = LineAt(irq, header + 1)
      BY <3>1, <3>2, <2>1, <1>1, <1>2, OneEntryMore
    <3> QED  BY <3>3, <3>4
  <2>3. CASE Processor \/ IoApic \/ Other
    <3>1. madt[header].type # "override" /\ irqOverride' = irqOverride
      BY <2>3 DEF Processor, IoApic, Other, At
    <3> QED  BY <3>1, <2>1, <1>1, <1>2, OneEntryMore
  <2> QED  BY <2>2, <2>3
<1>5. AcpiType'
  <2>1. header' \in 1 .. Len(madt)' + 1  BY <1>1, <1>2, SMT DEF IsBoard
  <2> QED  BY <2>1, <1>1, <1>2, <1>4 DEF AcpiInv, AcpiType
<1>6. Walked'  BY <1>3, <1>4 DEF Walked
<1>7. Setting' /\ Routed'  BY <1>1 DEF AcpiInv, Setting, Routed
<1> QED  BY <1>5, <1>6, <1>7 DEF AcpiInv

LEMMA InitApicKeeps == ASSUME AcpiInv, InitApic PROVE AcpiInv'
<1>1. /\ apc = "madt" /\ header > Len(madt) /\ apc' = "devices"
      /\ red' = [l \in LINES |-> [vector |-> Vectors[l], masked |-> TRUE]]
      /\ madt' = madt /\ header' = header /\ irqOverride' = irqOverride
      /\ handlerTable2' = handlerTable2 /\ todo' = todo
  BY DEF InitApic
<1>2. AcpiType /\ Walked /\ Setting /\ todo = Devices  BY <1>1 DEF AcpiInv, Routed
<1>4. AcpiType'  BY <1>1, <1>2 DEF AcpiType, IsBoard
<1>5. Walked'  BY <1>1, <1>2 DEF Walked, LineAt, MovedBefore
<1>6. Setting'  BY <1>1, <1>2 DEF Setting
<1>7. Ready' = {}
  <2>1. Len(Devices) \in Nat  BY DevicesAssumption
  <2>2. todo' = Devices  BY <1>1, <1>2
  <2>3. 1 .. Len(Devices) - Len(Devices) = {}  BY <2>1, SMT
  <2> QED  BY <2>2, <2>3 DEF Ready
<1>8. Routed'
  <2>1. header' = Len(madt') + 1  BY <1>1, <1>2 DEF AcpiType, IsBoard
  <2>2. Vectors' = Vectors  BY <1>1 DEF Vectors, Movers
  <2>4. /\ red' \in [LINES -> [vector : {Vectors'[l] : l \in LINES}, masked : BOOLEAN]]
        /\ \A l \in LINES : red'[l].vector = Vectors'[l] /\ red'[l].masked
    <3>1. red' \in [LINES -> [vector : {Vectors[l] : l \in LINES}, masked : BOOLEAN]]  BY <1>1
    <3>2. \A l \in LINES : red'[l].vector = Vectors[l] /\ red'[l].masked  BY <1>1
    <3> QED  BY <3>1, <3>2, <2>2
  <2>5. \A irq \in Ready' : handlerTable2'[irq] = irq  BY <1>7
  <2> QED  BY <2>1, <2>4, <2>5, <1>1, <1>7 DEF Routed
<1> QED  BY <1>4, <1>5, <1>6, <1>8 DEF AcpiInv

LEMMA SetUpKeeps == ASSUME AcpiInv, SetUp PROVE AcpiInv'
<1> DEFINE h == Head(todo)
<1>1. /\ apc = "devices" /\ todo # <<>> /\ todo' = Tail(todo) /\ apc' = apc
      /\ handlerTable2' = [handlerTable2 EXCEPT ![h] = h]
      /\ red' = [red EXCEPT ![irqOverride[h]].masked = FALSE]
      /\ madt' = madt /\ header' = header /\ irqOverride' = irqOverride
  BY DEF SetUp, registerIRQ, enableIRQ
<1>2. AcpiType /\ Walked /\ Setting /\ Routed  BY DEF AcpiInv
<1>3. /\ todo \in Seq(IRQS) /\ Len(todo) \in Nat \ {0} /\ h = todo[1] /\ h \in IRQS
      /\ Len(todo') = Len(todo) - 1 /\ todo' \in Seq(IRQS)
      /\ \A i \in 1 .. Len(todo') : todo'[i] = todo[i + 1]
  <2>1. todo \in Seq(IRQS)  BY <1>2 DEF Setting
  <2> QED  BY <2>1, <1>1, SMT
<1> HIDE DEF h
<1>4. irqOverride \in [IRQS -> LINES] /\ irqOverride[h] \in LINES  BY <1>2, <1>3 DEF AcpiType
<1>5. AcpiType'
  <2>1. handlerTable2' \in [IRQS -> Int]
    <3>1. h \in Int  BY <1>3 DEF IRQS
    <3> QED  BY <3>1, <1>1, <1>2 DEF AcpiType
  <2> QED  BY <2>1, <1>1, <1>2 DEF AcpiType, IsBoard
<1>6. Walked'  BY <1>1, <1>2 DEF Walked, LineAt, MovedBefore
<1>7. Len(Devices) \in Nat /\ Len(todo) <= Len(Devices)  BY <1>2, DevicesAssumption DEF Setting
<1>8. Setting'
  <2>1. ASSUME NEW i \in 1 .. Len(todo') PROVE todo'[i] = Devices[Len(Devices) - Len(todo') + i]
    <3>1. i + 1 \in 1 .. Len(todo)  BY <1>3, SMT
    <3>2. todo[i + 1] = Devices[Len(Devices) - Len(todo) + (i + 1)]  BY <3>1, <1>2 DEF Setting
    <3>3. Len(Devices) - Len(todo) + (i + 1) = Len(Devices) - Len(todo') + i  BY <1>3, <1>7, SMT
    <3> QED  BY <3>2, <3>3, <1>3
  <2> QED  BY <2>1, <1>3, <1>7, SMT DEF Setting
<1>9. Ready' = Ready \cup {h}
  <2> DEFINE n == Len(Devices) - Len(todo)
  <2>1. n \in Nat /\ Len(Devices) - Len(todo') = n + 1  BY <1>3, <1>7, SMT
  <2>2. h = Devices[n + 1]
    <3>1. 1 \in 1 .. Len(todo)  BY <1>3
    <3> QED  BY <3>1, <1>2, <1>3 DEF Setting
  <2>3. Ready = {Devices[i] : i \in 1 .. n}  BY DEF Ready
  <2>4. Ready' = {Devices[i] : i \in 1 .. n + 1}  BY <2>1 DEF Ready
  <2> HIDE DEF n
  <2>5. 1 .. n + 1 = (1 .. n) \cup {n + 1}  BY <2>1, SMT
  <2> QED  BY <2>2, <2>3, <2>4, <2>5
<1>10. Routed'
  <2>1. /\ header = Len(madt) + 1
        /\ red \in [LINES -> [vector : {Vectors[l] : l \in LINES}, masked : BOOLEAN]]
        /\ \A l \in LINES : red[l].vector = Vectors[l]
        /\ \A l \in LINES : red[l].masked <=> \A irq \in Ready : irqOverride[irq] # l
        /\ \A irq \in Ready : handlerTable2[irq] = irq
    BY <1>1, <1>2 DEF Routed
  <2>2. Vectors' = Vectors  BY <1>1 DEF Vectors, Movers
  <2> DEFINE V == {Vectors[l] : l \in LINES}
  <2>3. red \in [LINES -> [vector : V, masked : BOOLEAN]]  BY <2>1
  <2> HIDE DEF V
  <2>4. red' \in [LINES -> [vector : V, masked : BOOLEAN]]  BY <2>3, <1>1, <1>4
  <2>vectors. \A l \in LINES : red'[l].vector = red[l].vector  BY <2>3, <1>1, <1>4
  <2>masks. \A l \in LINES : red'[l].masked <=> (red[l].masked /\ irqOverride[h] # l)
    BY <2>3, <1>1, <1>4
  <2>5. \A l \in LINES : red'[l].masked <=> \A irq \in Ready' : irqOverride'[irq] # l
    BY <2>1, <2>masks, <1>1, <1>9
  <2>6. \A irq \in Ready' : handlerTable2'[irq] = irq
    <3>1. Ready \subseteq IRQS
      <4>1. Devices \in Seq(IRQS)  BY DevicesAssumption
      <4>2. \A i \in 1 .. Len(Devices) - Len(todo) : Devices[i] \in IRQS  BY <4>1, <1>3, <1>7, SMT
      <4> QED  BY <4>2 DEF Ready
    <3>2. handlerTable2 \in [IRQS -> Int]  BY <1>2 DEF AcpiType
    <3> QED  BY <3>1, <3>2, <2>1, <1>1, <1>3, <1>9
  <2>7. red' \in [LINES -> [vector : {Vectors'[l] : l \in LINES}, masked : BOOLEAN]]  BY <2>2, <2>4 DEF V
  <2>8. ASSUME NEW l \in LINES PROVE red'[l].vector = Vectors'[l]
    <3>1. red'[l].vector = red[l].vector  BY <2>vectors
    <3>2. red[l].vector = Vectors[l]  BY <2>1
    <3> QED  BY <3>1, <3>2, <2>2
  <2>9. header' = Len(madt') + 1 /\ apc' = "devices"  BY <2>1, <1>1
  <2> QED  BY <2>5, <2>6, <2>7, <2>8, <2>9 DEF Routed
<1> QED  BY <1>5, <1>6, <1>8, <1>10 DEF AcpiInv

LEMMA AcpiStep == ASSUME AcpiInv, [AcpiNext]_acpivars PROVE AcpiInv'
<1> USE DEF AcpiInv
<1>1. CASE SkipTable \/ FindMadt \/ NoMadt \/ NoIoApic \/ IoApicAgain \/ UNCHANGED acpivars
  <2>1. /\ madt' = madt /\ header' = header /\ irqOverride' = irqOverride /\ red' = red
        /\ handlerTable2' = handlerTable2 /\ todo' = todo
        /\ apc' \in {apc, "madt", "fault"} /\ (apc' # apc => apc # "devices")
    BY <1>1 DEF SkipTable, FindMadt, NoMadt, NoIoApic, IoApicAgain, acpivars
  <2>2. AcpiType' /\ Setting'  BY <2>1 DEF AcpiType, IsBoard, Setting
  <2>3. Walked'  BY <2>1 DEF Walked, LineAt, MovedBefore
  <2>4. Vectors' = Vectors /\ Ready' = Ready  BY <2>1 DEF Vectors, Movers, Ready
  <2>5. Routed'
    <3>1. CASE apc = "devices"
      <4>1. apc' = "devices"  BY <3>1, <2>1
      <4> QED  BY <4>1, <3>1, <2>1, <2>4 DEF Routed
    <3>2. CASE apc # "devices"
      <4>1. apc' # "devices"  BY <3>2, <2>1
      <4> QED  BY <4>1, <3>2, <2>1 DEF Routed
    <3> QED  BY <3>1, <3>2
  <2> QED  BY <2>2, <2>3, <2>5
<1>2. CASE Processor \/ IoApic \/ Override \/ Other  BY <1>2, WalkKeeps
<1>3. CASE InitApic  BY <1>3, InitApicKeeps
<1>4. CASE SetUp  BY <1>4, SetUpKeeps
<1> QED  BY <1>1, <1>2, <1>3, <1>4 DEF AcpiNext

(* An IRQ that has its line to itself: of the two writes to its redirection *)
(* entry the second, if it happens, is for it, and if not, the first is.    *)
LEMMA RoutedIsHeard == AcpiInv => DevicesHeard
<1> SUFFICES ASSUME AcpiInv, apc = "devices" PROVE DevicesHeard!2  BY DEF DevicesHeard
<1>1. /\ header = Len(madt) + 1
      /\ red \in [LINES -> [vector : {Vectors[l] : l \in LINES}, masked : BOOLEAN]]
      /\ \A l \in LINES : red[l].vector = Vectors[l]
      /\ \A l \in LINES : red[l].masked <=> \A irq \in Ready : irqOverride[irq] # l
      /\ \A irq \in Ready : handlerTable2[irq] = irq
  BY DEF AcpiInv, Routed
<1>2. \A irq \in IRQS : irqOverride[irq] = Line(irq) /\ Line(irq) \in LINES
  <2>1. IsBoard /\ irqOverride \in [IRQS -> LINES]  BY DEF AcpiInv, AcpiType
  <2>2. \A irq \in IRQS : irqOverride[irq] = Line(irq)
    BY <2>1, <1>1, WholeTable DEF AcpiInv, Walked
  <2> QED  BY <2>1, <2>2
<1>3. Ready \subseteq IRQS
  <2>1. Devices \in Seq(IRQS) /\ todo \in Seq(IRQS) /\ Len(todo) <= Len(Devices)
    BY DevicesAssumption DEF AcpiInv, Setting
  <2>2. \A i \in 1 .. Len(Devices) - Len(todo) : Devices[i] \in IRQS  BY <2>1, SMT
  <2> QED  BY <2>2 DEF Ready
<1>4. ASSUME NEW irq \in Ready, Alone(irq)
      PROVE  LET entry == red[Line(irq)]
             IN  ~entry.masked /\ entry.vector >= VECTOR /\ handlerTable2[entry.vector - VECTOR] = irq
  <2> DEFINE entry == red[Line(irq)]
  <2>1. irq \in IRQS /\ Line(irq) \in LINES /\ irqOverride[irq] = Line(irq)  BY <1>2, <1>3, <1>4
  <2>2. /\ entry.vector = Vectors[Line(irq)]
        /\ entry.masked <=> \A i \in Ready : irqOverride[i] # Line(irq)
    BY <1>1, <2>1
  <2>3. ~entry.masked  BY <2>1, <2>2, <1>4
  <2>4. \A i \in Movers(Line(irq)) : i = irq
    <3>1. SUFFICES ASSUME NEW i \in IRQS \ {irq}, irqOverride[i] # i, irqOverride[i] = Line(irq) PROVE FALSE
      BY DEF Movers
    <3>2. Line(i) # i /\ Line(i) = Line(irq)  BY <3>1, <1>2
    <3>3. Moved(i) # {}  BY <3>2 DEF Line
    <3> QED  BY <3>2, <3>3, <1>4 DEF Alone
  <2>5. Vectors[Line(irq)] = VECTOR + irq
    <3>1. CASE Movers(Line(irq)) # {}
      <4>1. irq \in Movers(Line(irq))  BY <3>1, <2>4
      <4>2. Highest(Movers(Line(irq))) = irq
        <5>1. Movers(Line(irq)) \in SUBSET Int /\ \A j \in Movers(Line(irq)) : j <= irq
          BY <2>1, <2>4 DEF IRQS, Movers
        <5> QED  BY <4>1, <5>1, HighestIs
      <4> QED  BY <4>2, <3>1, <2>1 DEF Vectors
    <3>2. CASE Movers(Line(irq)) = {}
      <4>1. irqOverride[irq] = irq  BY <3>2, <2>1 DEF Movers
      <4> QED  BY <4>1, <3>2, <2>1 DEF Vectors
    <3> QED  BY <3>1, <3>2
  <2>6. entry.vector = VECTOR + irq  BY <2>2, <2>5
  <2>7. irq \in Nat /\ VECTOR + irq >= VECTOR /\ VECTOR + irq - VECTOR = irq
    BY <2>1, SMT DEF IRQS, VECTOR
  <2>8. handlerTable2[entry.vector - VECTOR] = irq
    <3> HIDE DEF entry
    <3>1. entry.vector - VECTOR = irq  BY <2>6, <2>7, SMT DEF VECTOR
    <3> QED  BY <3>1, <1>1, <1>4
  <2>9. entry.vector >= VECTOR
    <3> HIDE DEF entry
    <3> QED  BY <2>6, <2>7
  <2> QED  BY <2>3, <2>8, <2>9
<1>5. ASSUME NEW l \in LINES PROVE red[l].masked \/ \E irq \in Ready : l = Line(irq)
  <2>1. red[l].masked <=> \A irq \in Ready : irqOverride[irq] # l  BY <1>1
  <2> QED  BY <2>1, <1>2, <1>3
<1> QED  BY <1>4, <1>5

(* For any board and any devices: the interrupt of a device that has its    *)
(* line to itself comes to the device's handler, in whatever order the      *)
(* table moves IRQs to lines, and no other line is open.                    *)
THEOREM InterruptsFindHandlers == AcpiSpec => []DevicesHeard
<1>1. AcpiInv /\ [AcpiNext]_acpivars => AcpiInv'  BY AcpiStep
<1> QED  BY <1>1, AcpiBegins, RoutedIsHeard, PTL DEF AcpiSpec

(***************************************************************************)
(* The partitions.  The disk, and the partition a record describes.         *)
(***************************************************************************)
DiskSound ==
  /\ mbr.entry \in [1 .. 4 -> [type : PartType, start : Nat]]
  /\ DOMAIN ebr \subseteq Nat \ {0}
  /\ ebr \in [DOMAIN ebr -> [valid : BOOLEAN, type : PartType, start : Nat, last : BOOLEAN, next : Nat]]
  /\ Extended(mbr) # 0 =>
       /\ Extended(mbr) \in DOMAIN ebr
       /\ \A s \in DOMAIN ebr : After(s) \subseteq DOMAIN ebr
Logical(s) == [type |-> ebr[s].type, start |-> s + ebr[s].start]

(* The records of R are in the slots from 4 to id, each leads to another of *)
(* them or to the next that is read, and so does the MBR.                   *)
ReadSoFar(R) ==
  /\ R \subseteq Chain
  /\ \A i \in 4 .. id - 1 : \E s \in R : part[i] = Logical(s)
  /\ \A s \in R : \E i \in 4 .. id - 1 : part[i] = Logical(s)
  /\ \A s \in R : After(s) \subseteq R \cup {extSec}
  /\ {Extended(mbr)} \ {0} \subseteq R \cup {extSec}
TableFilled ==
  /\ id >= 4
  /\ \A i \in 0 .. 3 : part[i] = mbr.entry[i + 1]
  /\ extSec \in Chain \cup {0}
  /\ \E R \in SUBSET DOMAIN ebr : ReadSoFar(R)

Places ==
  /\ id \in 0 .. MAX_PARTITIONS /\ slot \in Nat
  /\ DOMAIN part = 0 .. MAX_PARTITIONS - 1
  /\ hdpc \in {"mbr", "ebr", "serve"} /\ fspc \in {"wait", "search", "read", "exit"}
  /\ hdpc = "mbr" => id = 0
  /\ hdpc # "serve" => fspc = "wait"
  /\ fspc = "wait" => slot = 0
Filling ==
  Sound => /\ hdpc # "mbr" => TableFilled
           /\ hdpc = "serve" => partCount = id /\ (id < MAX_PARTITIONS => extSec = 0)
Searched ==
  /\ \A i \in 0 .. slot - 1 : part[i].type # "norlit"
  /\ fspc = "read" => /\ handle = slot + 1 /\ slot < partCount
                      /\ part[slot].type \in {"norlit", "garbage"}
  /\ fspc = "exit" => slot = partCount
PartInv == DiskSound /\ Places /\ Filling /\ Searched

(* What the chain leads to is on the chain, and a set of records that the   *)
(* chain does not lead out of has the chain in it.                          *)
LEMMA ChainIsClosed ==
  ASSUME DiskSound
  PROVE  /\ Chain \subseteq DOMAIN ebr
         /\ Extended(mbr) \in Chain \cup {0}
         /\ \A s \in Chain : After(s) \subseteq Chain
<1>1. Chain \subseteq DOMAIN ebr  BY DEF Chain
<1>2. Extended(mbr) \in Chain \cup {0}
  BY DEF Chain, DiskSound
<1>3. ASSUME NEW s \in Chain, NEW t \in After(s) PROVE t \in Chain
  <2>1. CASE Extended(mbr) = 0
    <3>1. {} \in SUBSET DOMAIN ebr /\ {Extended(mbr)} \ {0} \subseteq {}  BY <2>1
    <3>2. s \in {}  BY <1>3, <3>1 DEF Chain
    <3> QED  BY <3>2
  <2>2. CASE Extended(mbr) # 0
    <3>1. t \in DOMAIN ebr  BY <1>1, <1>3, <2>2 DEF DiskSound
    <3>2. ASSUME NEW S \in SUBSET DOMAIN ebr, {Extended(mbr)} \ {0} \subseteq S,
                 \A r \in S : After(r) \subseteq S
          PROVE  t \in S
      BY <1>3, <3>2 DEF Chain
    <3> QED  BY <3>1, <3>2 DEF Chain
  <2> QED  BY <2>1, <2>2
<1> QED  BY <1>1, <1>2, <1>3

LEMMA ChainIsLeast ==
  ASSUME NEW S \in SUBSET DOMAIN ebr, {Extended(mbr)} \ {0} \subseteq S, \A r \in S : After(r) \subseteq S
  PROVE  Chain \subseteq S
BY DEF Chain

LEMMA PartBegins == PartInit => PartInv
<1> SUFFICES ASSUME PartInit PROVE PartInv  OBVIOUS
<1>1. /\ mbr \in Mbr /\ ebr \in Ebr /\ id = 0 /\ slot = 0 /\ hdpc = "mbr" /\ fspc = "wait"
      /\ part = [i \in 0 .. MAX_PARTITIONS - 1 |-> GARBAGE]
  BY DEF PartInit, PartFrom
<1>2. DiskSound
  <2>1. mbr.entry \in [1 .. 4 -> [type : PartType, start : Nat]]  BY <1>1, DiskAssumption
  <2>2. /\ DOMAIN ebr \subseteq Nat \ {0}
        /\ ebr \in [DOMAIN ebr -> [valid : BOOLEAN, type : PartType, start : Nat, last : BOOLEAN, next : Nat]]
    BY <1>1, DiskAssumption
  <2>3. Extended(mbr) # 0 =>
          /\ Extended(mbr) \in DOMAIN ebr
          /\ \A s \in DOMAIN ebr : ebr[s].valid /\ ~ebr[s].last => Extended(mbr) + ebr[s].next \in DOMAIN ebr
    BY <1>1, DiskAssumption
  <2> HIDE DEF Extended
  <2> QED  BY <2>1, <2>2, <2>3 DEF DiskSound, After
<1>3. Places  BY <1>1, TableAssumption DEF Places
<1>4. Filling  BY <1>1 DEF Filling
<1>5. Searched  BY <1>1 DEF Searched
<1> QED  BY <1>2, <1>3, <1>4, <1>5 DEF PartInv

(* The disk does not change.                                                *)
LEMMA DiskStays ==
  ASSUME DiskSound, mbr' = mbr, ebr' = ebr
  PROVE  /\ DiskSound'
         /\ Chain' = Chain /\ (Sound' <=> Sound) /\ Described' = Described
         /\ Extended(mbr)' = Extended(mbr)
         /\ \A s : After(s)' = After(s) /\ Logical(s)' = Logical(s)
<1>1. Extended(mbr)' = Extended(mbr) /\ \A s : After(s)' = After(s) /\ Logical(s)' = Logical(s)
  BY DEF Extended, After, Logical
<1>2. Chain' = Chain  BY <1>1 DEF Chain
<1>3. DiskSound'  BY <1>1 DEF DiskSound
<1>4. Described' = Described  BY <1>2 DEF Described
<1> QED  BY <1>1, <1>2, <1>3, <1>4 DEF Sound

LEMMA PrimariesKeep == ASSUME PartInv, Primaries PROVE PartInv'
<1>1. /\ hdpc = "mbr" /\ hdpc' = "ebr" /\ mbr' = mbr /\ ebr' = ebr
      /\ part' = [i \in DOMAIN part |-> IF i < 4 THEN mbr.entry[i + 1] ELSE part[i]]
      /\ id' = 4 /\ extSec' = Extended(mbr)
      /\ fspc' = fspc /\ slot' = slot /\ partCount' = partCount /\ handle' = handle
  BY DEF Primaries
<1>2. DiskSound /\ Places /\ fspc = "wait" /\ slot = 0  BY <1>1 DEF PartInv, Places
<1>3. DiskSound' /\ Places'
  <2>1. 4 \in 0 .. MAX_PARTITIONS  BY TableAssumption
  <2> QED  BY <2>1, <1>1, <1>2, DiskStays DEF Places
<1>4. Searched'  BY <1>1, <1>2 DEF Searched
<1>5. TableFilled'
  <2>1. \A i \in 0 .. 3 : part'[i] = mbr.entry[i + 1]
    <3>1. \A i \in 0 .. 3 : i \in 0 .. MAX_PARTITIONS - 1 /\ i < 4  BY TableAssumption
    <3> QED  BY <3>1, <1>1, <1>2 DEF Places
  <2>2. extSec' \in Chain' \cup {0}  BY <1>1, <1>2, ChainIsClosed, DiskStays
  <2>3. ReadSoFar({})'
    <3>1. Extended(mbr)' = Extended(mbr)  BY <1>1, <1>2, DiskStays
    <3>2. 4 .. id' - 1 = {}  BY <1>1
    <3> QED  BY <3>1, <3>2, <1>1 DEF ReadSoFar
  <2>4. \E R \in SUBSET DOMAIN ebr' : ReadSoFar(R)'
    <3>1. {} \in SUBSET DOMAIN ebr'  OBVIOUS
    <3> QED  BY <3>1, <2>3
  <2> QED  BY <2>1, <2>2, <2>4, <1>1 DEF TableFilled
<1>6. Filling'  BY <1>1, <1>5 DEF Filling
<1> QED  BY <1>3, <1>4, <1>6 DEF PartInv

(* One record more: it goes to the next slot, and where it leads to is the  *)
(* next that is read.                                                       *)
LEMMA ReadEbrKeeps == ASSUME PartInv, ReadEbr PROVE PartInv'
<1>1. /\ hdpc = "ebr" /\ hdpc' = hdpc /\ extSec # 0 /\ id < MAX_PARTITIONS /\ ebr[extSec].valid
      /\ part' = [part EXCEPT ![id] = Logical(extSec)]
      /\ id' = id + 1
      /\ extSec' = IF ebr[extSec].last THEN 0 ELSE Extended(mbr) + ebr[extSec].next
      /\ mbr' = mbr /\ ebr' = ebr
      /\ fspc' = fspc /\ slot' = slot /\ partCount' = partCount /\ handle' = handle
  BY DEF ReadEbr, ReadEbrFrom, MoreRecords, Filled, Logical
<1>2. /\ DiskSound /\ Places /\ fspc = "wait" /\ slot = 0
      /\ id \in 0 .. MAX_PARTITIONS - 1 /\ DOMAIN part = 0 .. MAX_PARTITIONS - 1
  BY <1>1, TableAssumption DEF PartInv, Places
<1>3. DiskSound' /\ Places'
  <2>1. id + 1 \in 0 .. MAX_PARTITIONS  BY <1>2, TableAssumption
  <2> QED  BY <2>1, <1>1, <1>2, DiskStays DEF Places
<1>4. Searched'  BY <1>1, <1>2 DEF Searched
<1>5. ASSUME Sound PROVE TableFilled'
  <2>1. TableFilled  BY <1>1, <1>5 DEF PartInv, Filling
  <2>2. PICK R \in SUBSET DOMAIN ebr : ReadSoFar(R)  BY <2>1 DEF TableFilled
  <2> DEFINE e == extSec
  <2>3. e \in Chain /\ e \in DOMAIN ebr /\ Chain \subseteq DOMAIN ebr
    BY <2>1, <1>1, <1>2, ChainIsClosed DEF TableFilled
  <2>4. PICK Q \in SUBSET DOMAIN ebr : Q = R \cup {e}  BY <2>3
  <2>5. extSec' \in Chain \cup {0} /\ After(e) \subseteq {extSec'}
    <3>1. CASE ebr[e].last  BY <3>1, <1>1 DEF After
    <3>2. CASE ~ebr[e].last
      <4>1. After(e) = {extSec'}  BY <3>2, <1>1 DEF After
      <4> QED  BY <4>1, <2>3, <1>2, ChainIsClosed
    <3> QED  BY <3>1, <3>2
  <2>6. /\ part'[id] = Logical(e)
        /\ \A i \in 0 .. id - 1 : part'[i] = part[i]
    BY <1>1, <1>2
  <2>7. id >= 4 /\ 4 .. id' - 1 = (4 .. id - 1) \cup {id} /\ 4 .. id - 1 \subseteq 0 .. id - 1
        /\ 0 .. 3 \subseteq 0 .. id - 1
    BY <2>1, <1>1, <1>2 DEF TableFilled
  <2>8. /\ R \subseteq Chain
        /\ \A i \in 4 .. id - 1 : \E s \in R : part[i] = Logical(s)
        /\ \A s \in R : \E i \in 4 .. id - 1 : part[i] = Logical(s)
        /\ \A s \in R : After(s) \subseteq R \cup {e}
        /\ {Extended(mbr)} \ {0} \subseteq R \cup {e}
    BY <2>2 DEF ReadSoFar
  <2>9. ReadSoFar(Q)'
    <3> HIDE DEF e
    <3>1. Chain' = Chain /\ Extended(mbr)' = Extended(mbr)
          /\ \A s : After(s)' = After(s) /\ Logical(s)' = Logical(s)
      BY <1>1, <1>2, DiskStays
    <3>2. \A i \in 4 .. id' - 1 : \E s \in Q : part'[i] = Logical(s)  BY <2>4, <2>6, <2>7, <2>8
    <3>3. \A s \in Q : \E i \in 4 .. id' - 1 : part'[i] = Logical(s)  BY <2>4, <2>6, <2>7, <2>8
    <3>4. \A s \in Q : After(s) \subseteq Q \cup {extSec'}  BY <2>4, <2>5, <2>8
    <3>5. Q \subseteq Chain /\ {Extended(mbr)} \ {0} \subseteq Q \cup {extSec'}  BY <2>3, <2>4, <2>5, <2>8
    <3> QED  BY <3>1, <3>2, <3>3, <3>4, <3>5 DEF ReadSoFar
  <2>10. \A i \in 0 .. 3 : part'[i] = mbr'.entry[i + 1]
    BY <2>1, <2>6, <2>7, <1>1 DEF TableFilled
  <2>11. extSec' \in Chain' \cup {0} /\ id' >= 4
    BY <2>5, <2>7, <1>1, <1>2, DiskStays
  <2>12. \E S \in SUBSET DOMAIN ebr' : ReadSoFar(S)'  BY <2>4, <2>9, <1>1
  <2> QED  BY <2>10, <2>11, <2>12 DEF TableFilled
<1>6. Filling'
  <2>1. Sound' <=> Sound  BY <1>1, <1>2, DiskStays
  <2> QED  BY <2>1, <1>1, <1>5 DEF Filling
<1> QED  BY <1>3, <1>4, <1>6 DEF PartInv

LEMMA BrokenEbrKeeps == ASSUME PartInv, BrokenEbr PROVE PartInv'
<1>1. /\ hdpc = "ebr" /\ hdpc' = hdpc /\ extSec # 0 /\ id < MAX_PARTITIONS /\ ~ebr[extSec].valid
      /\ id' = id + 1 /\ part' = part /\ mbr' = mbr /\ ebr' = ebr
      /\ fspc' = fspc /\ slot' = slot /\ partCount' = partCount /\ handle' = handle
  BY DEF BrokenEbr, MoreRecords
<1>2. DiskSound /\ Places /\ fspc = "wait" /\ slot = 0  BY <1>1 DEF PartInv, Places
<1>3. DiskSound' /\ Places'
  <2>1. id + 1 \in 0 .. MAX_PARTITIONS  BY <1>1, <1>2, TableAssumption DEF Places
  <2> QED  BY <2>1, <1>1, <1>2, DiskStays DEF Places
<1>4. Searched'  BY <1>1, <1>2 DEF Searched
<1>5. ~Sound
  <2>1. SUFFICES ASSUME Sound PROVE FALSE  OBVIOUS
  <2>2. extSec \in Chain  BY <2>1, <1>1 DEF PartInv, Filling, TableFilled
  <2> QED  BY <2>1, <2>2, <1>1 DEF Sound
<1>6. Filling'  BY <1>1, <1>2, <1>5, DiskStays DEF Filling
<1> QED  BY <1>3, <1>4, <1>6 DEF PartInv

(* The other steps leave the table alone.                                   *)
LEMMA TableStays ==
  ASSUME DiskSound, TableFilled, mbr' = mbr, ebr' = ebr, part' = part, id' = id, extSec' = extSec
  PROVE  TableFilled'
<1>1. PICK R \in SUBSET DOMAIN ebr : ReadSoFar(R)  BY DEF TableFilled
<1>2. Chain' = Chain /\ Extended(mbr)' = Extended(mbr) /\ \A s : After(s)' = After(s) /\ Logical(s)' = Logical(s)
  BY DiskStays
<1>3. ReadSoFar(R)'  BY <1>1, <1>2 DEF ReadSoFar
<1>4. \E S \in SUBSET DOMAIN ebr' : ReadSoFar(S)'  BY <1>3
<1> QED  BY <1>2, <1>4 DEF TableFilled

LEMMA OthersKeep ==
  ASSUME PartInv,
         \/ BrokenMbr \/ Gpt \/ ChainEnds \/ OpenMbr \/ PassSlot \/ OpenPartition \/ NoPartition
         \/ UNCHANGED diskvars
  PROVE  PartInv'
<1>1. /\ mbr' = mbr /\ ebr' = ebr /\ part' = part /\ id' = id /\ extSec' = extSec
      /\ DiskSound /\ Places
  BY DEF PartInv, BrokenMbr, Gpt, ChainEnds, OpenMbr, PassSlot, OpenPartition, NoPartition, diskvars
<1>2. Sound' <=> Sound  BY <1>1, DiskStays
<1>3. Sound /\ TableFilled => TableFilled'  BY <1>1, TableStays
<1>4. DiskSound'  BY <1>1, DiskStays
<1>5. CASE BrokenMbr \/ Gpt
  <2>1. /\ hdpc = "mbr" /\ hdpc' = "serve" /\ ~Sound
        /\ fspc' = fspc /\ slot' = slot /\ handle' = handle
    BY <1>5 DEF BrokenMbr, Gpt, Sound
  <2>2. Places' /\ fspc = "wait" /\ slot = 0  BY <2>1, <1>1 DEF Places
  <2>3. Filling'  BY <2>1, <1>2 DEF Filling
  <2>4. Searched'  BY <2>1, <2>2 DEF Searched
  <2> QED  BY <2>2, <2>3, <2>4, <1>4 DEF PartInv
<1>6. CASE ChainEnds
  <2>1. /\ hdpc = "ebr" /\ hdpc' = "serve" /\ partCount' = id
        /\ (extSec = 0 \/ ~(id < MAX_PARTITIONS))
        /\ fspc' = fspc /\ slot' = slot /\ handle' = handle
    BY <1>6 DEF ChainEnds, MoreRecords
  <2>2. Places' /\ fspc = "wait" /\ slot = 0  BY <2>1, <1>1 DEF Places
  <2>3. Filling'
    <3>1. Sound => TableFilled'  BY <2>1, <1>3 DEF PartInv, Filling
    <3> QED  BY <3>1, <2>1, <1>1, <1>2 DEF Filling
  <2>4. Searched'  BY <2>1, <2>2 DEF Searched
  <2> QED  BY <2>2, <2>3, <2>4, <1>4 DEF PartInv
<1>7. CASE OpenMbr \/ PassSlot \/ OpenPartition \/ NoPartition \/ UNCHANGED diskvars
  <2>1. hdpc' = hdpc /\ partCount' = partCount
    BY <1>7 DEF OpenMbr, PassSlot, OpenPartition, NoPartition, diskvars
  <2>2. Filling'  BY <2>1, <1>1, <1>2, <1>3 DEF PartInv, Filling
  <2>3. slot \in Nat /\ Searched  BY <1>1 DEF PartInv, Places
  <2>4. CASE OpenMbr
    <3>1. hdpc = "serve" /\ fspc = "wait" /\ fspc' = "search" /\ slot' = slot /\ handle' = handle  BY <2>4 DEF OpenMbr
    <3>2. Places' /\ Searched'  BY <3>1, <2>1, <2>3, <1>1 DEF Places, Searched
    <3> QED  BY <3>2, <2>2, <1>4 DEF PartInv
  <2>5. CASE PassSlot
    <3>1. fspc = "search" /\ part[slot].type # "norlit" /\ slot' = slot + 1 /\ fspc' = fspc
      BY <2>5 DEF PassSlot, IsOther
    <3>2. Places'  BY <3>1, <2>1, <2>3, <1>1 DEF Places
    <3>3. 0 .. slot' - 1 = (0 .. slot - 1) \cup {slot}  BY <3>1, <2>3, SMT
    <3>4. Searched'  BY <3>1, <3>3, <2>3, <1>1 DEF Searched
    <3> QED  BY <3>2, <3>4, <2>2, <1>4 DEF PartInv
  <2>6. CASE OpenPartition
    <3>1. /\ fspc = "search" /\ slot < partCount /\ part[slot].type \in {"norlit", "garbage"}
          /\ handle' = slot + 1 /\ fspc' = "read" /\ slot' = slot
      BY <2>6 DEF OpenPartition, IsNorlit
    <3>2. Places' /\ Searched'  BY <3>1, <2>1, <2>3, <1>1 DEF Places, Searched
    <3> QED  BY <3>2, <2>2, <1>4 DEF PartInv
  <2>7. CASE NoPartition
    <3>1. fspc = "search" /\ slot = partCount /\ fspc' = "exit" /\ slot' = slot /\ handle' = handle
      BY <2>7 DEF NoPartition
    <3>2. Places' /\ Searched'  BY <3>1, <2>1, <2>3, <1>1 DEF Places, Searched
    <3> QED  BY <3>2, <2>2, <1>4 DEF PartInv
  <2>8. CASE UNCHANGED diskvars
    <3>1. fspc' = fspc /\ slot' = slot /\ handle' = handle  BY <2>8 DEF diskvars
    <3>2. Places' /\ Searched'  BY <3>1, <2>1, <2>3, <1>1 DEF Places, Searched
    <3> QED  BY <3>2, <2>2, <1>4 DEF PartInv
  <2> QED  BY <1>7, <2>4, <2>5, <2>6, <2>7, <2>8
<1> QED  BY <1>5, <1>6, <1>7

LEMMA SlotsAreDescribed ==
  ASSUME DiskSound, Sound, TableFilled, id \in Nat, NEW i \in 0 .. id - 1
  PROVE  part[i] \in Described /\ part[i].type \in PartType /\ part[i] = [type |-> part[i].type, start |-> part[i].start]
<1>1. CASE i < 4
  <2>1. i + 1 \in 1 .. 4 /\ part[i] = mbr.entry[i + 1]  BY <1>1 DEF TableFilled
  <2>2. mbr.entry[i + 1] \in [type : PartType, start : Nat]  BY <2>1 DEF DiskSound
  <2> QED  BY <2>1, <2>2 DEF Described
<1>2. CASE ~(i < 4)
  <2>1. i \in 4 .. id - 1  BY <1>2
  <2>2. PICK s \in Chain : part[i] = Logical(s)  BY <2>1 DEF TableFilled, ReadSoFar
  <2>3. s \in DOMAIN ebr /\ ebr[s].valid  BY <2>2 DEF Chain, Sound
  <2>4. ebr[s] \in [valid : BOOLEAN, type : PartType, start : Nat, last : BOOLEAN, next : Nat]
    BY <2>3 DEF DiskSound
  <2>5. ebr[s].type \in PartType  BY <2>4
  <2> QED  BY <2>2, <2>3, <2>5 DEF Described, Logical
<1> QED  BY <1>1, <1>2

(* When the chain has ended before the table, every partition has a slot.   *)
LEMMA DescribedHaveSlots ==
  ASSUME DiskSound, Sound, TableFilled, id \in Nat, extSec = 0, NEW d \in Described
  PROVE  \E i \in 0 .. id - 1 : part[i] = d
<1>1. CASE \E i \in 1 .. 4 : d = mbr.entry[i]
  <2>1. PICK i \in 1 .. 4 : d = mbr.entry[i]  BY <1>1
  <2>2. i - 1 \in 0 .. 3 /\ i - 1 \in 0 .. id - 1 /\ (i - 1) + 1 = i  BY DEF TableFilled
  <2> QED  BY <2>1, <2>2 DEF TableFilled
<1>2. CASE \E s \in Chain : d = Logical(s)
  <2>1. PICK R \in SUBSET DOMAIN ebr : ReadSoFar(R)  BY DEF TableFilled
  <2>2. 0 \notin R /\ \A s \in R : 0 \notin After(s)
    <3>1. 0 \notin DOMAIN ebr  BY DEF DiskSound
    <3>2. \A s \in R : After(s) \subseteq DOMAIN ebr
      <4>1. R \subseteq Chain  BY <2>1 DEF ReadSoFar
      <4> QED  BY <4>1, ChainIsClosed
    <3> QED  BY <3>1, <3>2
  <2>3. {Extended(mbr)} \ {0} \subseteq R /\ \A s \in R : After(s) \subseteq R
    BY <2>1, <2>2 DEF ReadSoFar
  <2>4. Chain \subseteq R  BY <2>3, ChainIsLeast
  <2>5. PICK i \in 4 .. id - 1 : part[i] = d  BY <2>1, <2>4, <1>2 DEF ReadSoFar
  <2>6. i \in 0 .. id - 1  OBVIOUS
  <2> QED  BY <2>5, <2>6
<1>3. d \in {mbr.entry[i] : i \in 1 .. 4} \/ \E s \in Chain : d = Logical(s)
  BY DEF Described, Logical
<1> QED  BY <1>1, <1>2, <1>3

LEMMA InvReads == PartInv => ReadsNorlit
<1> SUFFICES ASSUME PartInv PROVE ReadsNorlit  OBVIOUS
<1>1. DiskSound /\ Places /\ id \in Nat /\ id <= MAX_PARTITIONS /\ slot \in Nat
  BY TableAssumption DEF PartInv, Places
<1>2. ASSUME Sound, fspc \in {"read", "exit"}
      PROVE  TableFilled /\ partCount = id /\ (id < MAX_PARTITIONS => extSec = 0)
  <2>1. hdpc = "serve"  BY <1>1, <1>2 DEF Places
  <2> QED  BY <2>1, <1>2 DEF PartInv, Filling
<1>3. ASSUME Sound, fspc = "read" PROVE [type |-> "norlit", start |-> Base(handle)] \in Described
  <2>1. handle = slot + 1 /\ slot < partCount /\ part[slot].type \in {"norlit", "garbage"}
    BY <1>3 DEF PartInv, Searched
  <2>2. slot \in 0 .. id - 1  BY <2>1, <1>1, <1>2, <1>3
  <2>3. part[slot] \in Described /\ part[slot].type \in PartType
        /\ part[slot] = [type |-> part[slot].type, start |-> part[slot].start]
    BY <2>2, <1>1, <1>2, <1>3, SlotsAreDescribed
  <2>4. part[slot].type = "norlit"  BY <2>1, <2>3 DEF PartType
  <2>5. Base(handle) = part[slot].start
    <3>1. handle # 0 /\ handle - 1 = slot  BY <2>1, <1>1
    <3> QED  BY <3>1 DEF Base
  <2> QED  BY <2>3, <2>4, <2>5
<1>4. ASSUME Sound, fspc = "exit", partCount < MAX_PARTITIONS, NEW d \in Described PROVE d.type # "norlit"
  <2>1. TableFilled /\ partCount = id /\ extSec = 0  BY <1>2, <1>4
  <2>2. PICK i \in 0 .. id - 1 : part[i] = d  BY <2>1, <1>1, <1>4, DescribedHaveSlots
  <2>3. slot = partCount /\ \A n \in 0 .. slot - 1 : part[n].type # "norlit"
    BY <1>4 DEF PartInv, Searched
  <2> QED  BY <2>1, <2>2, <2>3
<1> QED  BY <1>1, <1>3, <1>4 DEF ReadsNorlit

(* From a disk whose records can be read, of any size and with any chain:   *)
(* the file system reads a partition of its own, and gives up only when     *)
(* there is none or the table is full.                                      *)
THEOREM FileSystemFindsItsPartition == PartSpec => []ReadsNorlit
<1>1. PartInv /\ [PartNext]_diskvars => PartInv'
  BY PrimariesKeep, ReadEbrKeeps, BrokenEbrKeeps, OthersKeep DEF PartNext
<1> QED  BY <1>1, PartBegins, InvReads, PTL DEF PartSpec

(***************************************************************************)
(* The clock.  Its times are counted by their seconds.                      *)
(***************************************************************************)
Date == {d \in [year : Nat \ {0}, month : 1 .. 12, day : 1 .. 31] : IsDate(d)}
Time == [date : Date, hour : 0 .. 23, minute : 0 .. 59, second : 0 .. 59]
Seconds(t) == ((mktime(t.date) * 24 + t.hour) * 60 + t.minute) * 60 + t.second

LEMMA mktimeInt == ASSUME NEW d, IsDate(d) PROVE mktime(d) \in Int
<1> DEFINE y == d.year
           m == d.month
           n == d.day
<1>1. /\ y \in Nat \ {0} /\ m \in 1 .. 12 /\ n \in 1 .. 31
      /\ d = [year |-> y, month |-> m, day |-> n]
  BY DEF IsDate
<1>2. mktime(d) = Count(y, m, n)  BY <1>1, mktimeByMonth
<1>3. Before(y) \in Int /\ Before(y - 1) \in Int  BY <1>1, SMT DEF Before
<1>4. Count(y, m, n) \in Int  BY <1>1, <1>3, SMT DEF Count
<1> QED  BY <1>2, <1>4

TimeOf(d, h, m, s) == [date |-> d, hour |-> h, minute |-> m, second |-> s]
LEMMA TimeParts ==
  ASSUME NEW t \in Time
  PROVE  /\ t.date \in Date /\ IsDate(t.date) /\ t.hour \in 0 .. 23 /\ t.minute \in 0 .. 59 /\ t.second \in 0 .. 59
         /\ t = TimeOf(t.date, t.hour, t.minute, t.second)
         /\ mktime(t.date) \in Int
<1>1. /\ t.date \in Date /\ t.hour \in 0 .. 23 /\ t.minute \in 0 .. 59 /\ t.second \in 0 .. 59
      /\ t = TimeOf(t.date, t.hour, t.minute, t.second)
  BY DEF Time, TimeOf
<1>2. IsDate(t.date)  BY <1>1 DEF Date
<1> QED  BY <1>1, <1>2, mktimeInt

LEMMA MakeTime ==
  ASSUME NEW d \in Date, NEW h \in 0 .. 23, NEW m \in 0 .. 59, NEW s \in 0 .. 59
  PROVE  /\ TimeOf(d, h, m, s) \in Time
         /\ Seconds(TimeOf(d, h, m, s)) = ((mktime(d) * 24 + h) * 60 + m) * 60 + s
BY DEF Time, TimeOf, Seconds

(* A second later the count is one more, over the ends of minutes, hours,   *)
(* days, months and years.                                                  *)
LEMMA SecondLater ==
  ASSUME NEW t \in Time
  PROVE  /\ NextSecond(t) \in Time /\ Seconds(t) \in Int
         /\ Seconds(NextSecond(t)) = Seconds(t) + 1
<1>1. PICK d \in Date, h \in 0 .. 23, m \in 0 .. 59, s \in 0 .. 59, k \in Int :
        /\ IsDate(d) /\ t = TimeOf(d, h, m, s) /\ mktime(d) = k
        /\ t.date = d /\ t.hour = h /\ t.minute = m /\ t.second = s
  BY TimeParts
<1>2. Seconds(t) = ((k * 24 + h) * 60 + m) * 60 + s  BY <1>1, MakeTime, ZenonT(60)
<1>3. Seconds(t) \in Int  BY <1>2
<1>5. CASE s < 59
  <2>1. NextSecond(t) = TimeOf(d, h, m, s + 1)
    <3>1. NextSecond(t) = [t EXCEPT !.second = s + 1]  BY <1>1, <1>5 DEF NextSecond
    <3>2. [t EXCEPT !.second = s + 1] = TimeOf(d, h, m, s + 1)  BY <1>1 DEF TimeOf
    <3> QED  BY <3>1, <3>2
  <2>2. s + 1 \in 0 .. 59  BY <1>5
  <2>3. /\ TimeOf(d, h, m, s + 1) \in Time
        /\ Seconds(TimeOf(d, h, m, s + 1)) = ((k * 24 + h) * 60 + m) * 60 + (s + 1)
    BY <2>2, <1>1 DEF Time, TimeOf, Seconds
  <2>4. ((k * 24 + h) * 60 + m) * 60 + (s + 1) = Seconds(t) + 1  BY <1>2
  <2> QED  BY <2>1, <2>3, <2>4, <1>3
<1>6. CASE s = 59 /\ m < 59
  <2>1. NextSecond(t) = TimeOf(d, h, m + 1, 0)
    <3>1. NextSecond(t) = [t EXCEPT !.minute = m + 1, !.second = 0]  BY <1>1, <1>6 DEF NextSecond
    <3>2. [t EXCEPT !.minute = m + 1] = TimeOf(d, h, m + 1, s)  BY <1>1 DEF TimeOf
    <3>3. [TimeOf(d, h, m + 1, s) EXCEPT !.second = 0] = TimeOf(d, h, m + 1, 0)  BY DEF TimeOf
    <3> QED  BY <3>1, <3>2, <3>3
  <2>2. m + 1 \in 0 .. 59 /\ 0 \in 0 .. 59  BY <1>6
  <2>3. /\ TimeOf(d, h, m + 1, 0) \in Time
        /\ Seconds(TimeOf(d, h, m + 1, 0)) = ((k * 24 + h) * 60 + (m + 1)) * 60 + 0
    BY <2>2, <1>1 DEF Time, TimeOf, Seconds
  <2>4. ((k * 24 + h) * 60 + (m + 1)) * 60 + 0 = Seconds(t) + 1  BY <1>2, <1>6
  <2> QED  BY <2>1, <2>3, <2>4, <1>3
<1>7. CASE s = 59 /\ m = 59 /\ h < 23
  <2>1. NextSecond(t) = TimeOf(d, h + 1, 0, 0)
    <3>1. NextSecond(t) = [t EXCEPT !.hour = h + 1, !.minute = 0, !.second = 0]  BY <1>1, <1>7 DEF NextSecond
    <3>2. [t EXCEPT !.hour = h + 1] = TimeOf(d, h + 1, m, s)  BY <1>1 DEF TimeOf
    <3>3. [TimeOf(d, h + 1, m, s) EXCEPT !.minute = 0] = TimeOf(d, h + 1, 0, s)  BY DEF TimeOf
    <3>4. [TimeOf(d, h + 1, 0, s) EXCEPT !.second = 0] = TimeOf(d, h + 1, 0, 0)  BY DEF TimeOf
    <3> QED  BY <3>1, <3>2, <3>3, <3>4
  <2>2. h + 1 \in 0 .. 23 /\ 0 \in 0 .. 59  BY <1>7
  <2>3. /\ TimeOf(d, h + 1, 0, 0) \in Time
        /\ Seconds(TimeOf(d, h + 1, 0, 0)) = ((k * 24 + (h + 1)) * 60 + 0) * 60 + 0
    BY <2>2, <1>1 DEF Time, TimeOf, Seconds
  <2>4. ((k * 24 + (h + 1)) * 60 + 0) * 60 + 0 = Seconds(t) + 1  BY <1>2, <1>7
  <2> QED  BY <2>1, <2>3, <2>4, <1>3
<1>8. CASE s = 59 /\ m = 59 /\ h = 23
  <2>1. NextSecond(t) = TimeOf(Tomorrow(d), 0, 0, 0)  BY <1>1, <1>8 DEF NextSecond, TimeOf
  <2>2. Tomorrow(d) \in Date /\ mktime(Tomorrow(d)) = k + 1
    <3>1. IsDate(Tomorrow(d)) /\ mktime(Tomorrow(d)) = k + 1  BY <1>1, mktimeCountsDays
    <3> QED  BY <3>1 DEF Date, IsDate
  <2>3. /\ TimeOf(Tomorrow(d), 0, 0, 0) \in Time
        /\ Seconds(TimeOf(Tomorrow(d), 0, 0, 0)) = (((k + 1) * 24 + 0) * 60 + 0) * 60 + 0
    <3>1. 0 \in 0 .. 59 /\ 0 \in 0 .. 23  OBVIOUS
    <3> QED  BY <2>2, <3>1 DEF Time, TimeOf, Seconds
  <2>4. (((k + 1) * 24 + 0) * 60 + 0) * 60 + 0 = Seconds(t) + 1  BY <1>2, <1>8
  <2> QED  BY <2>1, <2>3, <2>4, <1>3
<1> QED  BY <1>5, <1>6, <1>7, <1>8

(* Times less than a minute apart differ in their second.                   *)
LEMMA WithinAMinute ==
  ASSUME NEW t \in Time, NEW u \in Time, Seconds(u) - Seconds(t) \in 1 .. 59
  PROVE  u.second # t.second
<1>1. t.hour \in Int /\ t.minute \in Int /\ t.second \in Int /\ mktime(t.date) \in Int
  BY TimeParts
<1>2. u.hour \in Int /\ u.minute \in Int /\ u.second \in Int /\ mktime(u.date) \in Int
  BY TimeParts
<1> QED  BY <1>1, <1>2, SMT DEF Seconds

(* A register gives back what it holds.                                     *)
LEMMA Decoded ==
  ASSUME NEW v \in 0 .. 99, bcd \in BOOLEAN
  PROVE  Plain(Held(v)) = v /\ Held(v) \in 0 .. 153
<1>1. CASE bcd
  <2>1. v \div 10 \in 0 .. 9 /\ v % 10 \in 0 .. 9 /\ v = 10 * (v \div 10) + (v % 10)  BY SMT
  <2>2. PICK a \in 0 .. 9, b \in 0 .. 9 : v \div 10 = a /\ v % 10 = b /\ v = 10 * a + b  BY <2>1
  <2>3. Held(v) = a * 16 + b  BY <1>1, <2>2 DEF Held
  <2>4. (a * 16 + b) % 16 = b /\ (a * 16 + b) \div 16 = a  BY <2>2, SMT
  <2>5. Plain(Held(v)) = b + a * 10  BY <1>1, <2>3, <2>4 DEF Plain, BCD2BIN
  <2> QED  BY <2>2, <2>3, <2>5, SMT
<1>2. CASE ~bcd  BY <1>2, SMT DEF Plain, Held
<1> QED  BY <1>1, <1>2

(* What the registers hold at a time.                                       *)
HourOf(h) == IF h24 THEN Held(h) ELSE Held(((h + 11) % 12) + 1) + (IF h >= 12 THEN 128 ELSE 0)
RegistersAt(t) == <<Held(t.second), Held(t.minute), HourOf(t.hour),
                    Held(t.date.day), Held(t.date.month), Held(t.date.year % 100)>>

(* The hour comes back, but for 12 o'clock on a 12-hour clock.              *)
HourFrom(r) ==
  LET afternoon == ~h24 /\ r >= 128
      hour      == Plain(IF afternoon THEN r - 128 ELSE r)
  IN  (hour + (IF afternoon THEN 12 ELSE 0)) % 24
LEMMA HourReadBack ==
  ASSUME bcd \in BOOLEAN, h24 \in BOOLEAN, NEW h \in 0 .. 23
  PROVE  /\ h24 => HourFrom(HourOf(h)) = h
         /\ ~h24 => HourFrom(HourOf(h)) = IF h % 12 = 0 THEN 12 - h ELSE h
<1>1. CASE h24
  <2>1. HourOf(h) = Held(h) /\ Plain(Held(h)) = h  BY <1>1, Decoded, SMTT(30) DEF HourOf
  <2>2. HourFrom(HourOf(h)) = (h + 0) % 24  BY <1>1, <2>1 DEF HourFrom
  <2> QED  BY <1>1, <2>2
<1>2. CASE ~h24
  <2>1. PICK c \in 1 .. 12 : c = ((h + 11) % 12) + 1  BY SMT
  <2>2. Plain(Held(c)) = c /\ Held(c) \in 0 .. 153  BY Decoded, SMTT(30)
  <2>3. Held(c) < 128
    <3>1. CASE ~bcd  BY <3>1 DEF Held
    <3>2. CASE bcd
      <4>1. Held(c) = (c \div 10) * 16 + (c % 10)  BY <3>2 DEF Held
      <4>2. c \div 10 \in 0 .. 1 /\ c % 10 \in 0 .. 9  BY SMT
      <4> QED  BY <4>1, <4>2, SMT
    <3> QED  BY <3>1, <3>2
  <2>4. CASE h >= 12
    <3>1. HourOf(h) = Held(c) + 128  BY <1>2, <2>1, <2>4 DEF HourOf
    <3>2. HourOf(h) >= 128 /\ HourOf(h) - 128 = Held(c)  BY <3>1, <2>2, SMT
    <3>3. HourFrom(HourOf(h)) = (c + 12) % 24  BY <3>2, <2>2, <1>2 DEF HourFrom
    <3>4. (c + 12) % 24 = IF h % 12 = 0 THEN 12 - h ELSE h  BY <2>1, <2>4, SMT
    <3> QED  BY <3>3, <3>4, <1>2
  <2>5. CASE ~(h >= 12)
    <3>1. HourOf(h) = Held(c) + 0  BY <1>2, <2>1, <2>5 DEF HourOf
    <3>2. HourOf(h) = Held(c) /\ ~(HourOf(h) >= 128)  BY <3>1, <2>2, <2>3, SMT
    <3>3. HourFrom(HourOf(h)) = (c + 0) % 24  BY <3>2, <2>2, <1>2 DEF HourFrom
    <3>4. (c + 0) % 24 = IF h % 12 = 0 THEN 12 - h ELSE h  BY <2>1, <2>5, SMT
    <3> QED  BY <3>3, <3>4, <1>2
  <2> QED  BY <2>4, <2>5
<1> QED  BY <1>1, <1>2

LEMMA ReadBack ==
  ASSUME bcd \in BOOLEAN, h24 \in BOOLEAN, NEW t \in Time, t.date.year \in 2000 .. 2099
  PROVE  Swapped(Converted(RegistersAt(t))) = t
<1> DEFINE r == RegistersAt(t)
           w == Converted(r)
<1>1. /\ t.hour \in 0 .. 23 /\ t.minute \in 0 .. 59 /\ t.second \in 0 .. 59
      /\ t.date.day \in 1 .. 31 /\ t.date.month \in 1 .. 12
      /\ t = TimeOf(t.date, t.hour, t.minute, t.second)
      /\ t.date = [year |-> t.date.year, month |-> t.date.month, day |-> t.date.day]
  BY TimeParts DEF IsDate
<1>2. t.date.year % 100 \in 0 .. 99 /\ (t.date.year % 100) + 2000 = t.date.year  BY SMT
<1>3. /\ Plain(Held(t.second)) = t.second /\ Plain(Held(t.minute)) = t.minute
      /\ Plain(Held(t.date.day)) = t.date.day /\ Plain(Held(t.date.month)) = t.date.month
      /\ Plain(Held(t.date.year % 100)) = t.date.year % 100
  BY <1>1, <1>2, Decoded, SMTT(30)
<1>4. /\ r[1] = Held(t.second) /\ r[2] = Held(t.minute) /\ r[3] = HourOf(t.hour)
      /\ r[4] = Held(t.date.day) /\ r[5] = Held(t.date.month) /\ r[6] = Held(t.date.year % 100)
  BY DEF RegistersAt
<1> HIDE DEF r
<1>5. w = TimeOf([year |-> Plain(r[6]) + 2000, month |-> Plain(r[5]), day |-> Plain(r[4])],
                 HourFrom(r[3]), Plain(r[2]), Plain(r[1]))
  BY DEF Converted, HourFrom, TimeOf
<1>6. w = TimeOf(t.date, HourFrom(HourOf(t.hour)), t.minute, t.second)
  BY <1>1, <1>2, <1>3, <1>4, <1>5
<1>7. w.hour = HourFrom(HourOf(t.hour))  BY <1>6 DEF TimeOf
<1> HIDE DEF w
<1>8. CASE h24 \/ t.hour % 12 # 0
  <2>1. w.hour = t.hour /\ w = t  BY <1>1, <1>6, <1>7, <1>8, HourReadBack
  <2> QED  BY <2>1, <1>8 DEF Swapped, w, r
<1>9. CASE ~h24 /\ t.hour % 12 = 0
  <2>1. w.hour = 12 - t.hour /\ w.hour % 12 = 0 /\ 12 - w.hour = t.hour
    <3>1. w.hour = 12 - t.hour  BY <1>1, <1>7, <1>9, HourReadBack
    <3>2. t.hour \in {0, 12}  BY <1>1, <1>9, SMT
    <3> QED  BY <3>1, <3>2, SMT
  <2>2. Swapped(w) = [w EXCEPT !.hour = t.hour]  BY <2>1, <1>9 DEF Swapped
  <2>3. [w EXCEPT !.hour = t.hour] = TimeOf(t.date, t.hour, t.minute, t.second)
    BY <1>6 DEF TimeOf
  <2> QED  BY <2>2, <2>3, <1>1 DEF w, r
<1> QED  BY <1>8, <1>9

(* The clock: each time it has shown is another, not after now, and as far  *)
(* back as there are times since then; a call takes less than a minute.     *)
Shown ==
  /\ now \in seen /\ seen \subseteq Time /\ IsFiniteSet(seen)
  /\ Cardinality(seen) <= TICKS + 1 /\ (uip => Cardinality(seen) <= TICKS)
  /\ \A t \in seen : Seconds(t) <= Seconds(now) /\ Seconds(now) - Seconds(t) <= Cardinality(seen) - 1
  /\ \A t \in seen : t # now => Seconds(t) < Seconds(now)

(* The years stay in what two digits and 2000 can say.                      *)
Century ==
  /\ \A t \in seen : t.date.year \in 2000 .. 2099
  /\ \/ now.date.year <= 2098
     \/ /\ now.date.month = 1 /\ now.date.day = 1
        /\ now.hour = 0 /\ now.minute = 0 /\ now.second < Cardinality(seen)

(* A round that was begun at t is all of t, unless the clock has gone on;   *)
(* and the round before it is, if both have read the same second.           *)
ThisRound(t) ==
  /\ reading[1] = RegistersAt(t)[1]
  /\ now = t => \A i \in 1 .. Len(reading) : reading[i] = RegistersAt(t)[i]
RoundBefore(t) ==
  /\ last[1] = RegistersAt(t)[1]
  /\ reading = <<>> /\ now = t => last = RegistersAt(t)
  /\ reading # <<>> /\ reading[1] = last[1] => last = RegistersAt(t)
Rounds ==
  /\ reading \in Seq(Int) /\ Len(reading) <= 6
  /\ reading # <<>> => \E t \in seen : ThisRound(t)
  /\ last # <<>> => last \in Seq(Int) /\ Len(last) = 6 /\ \E t \in seen : RoundBefore(t)
RtcInv ==
  /\ uip \in BOOLEAN /\ bcd \in BOOLEAN /\ h24 \in BOOLEAN
  /\ Shown /\ Century /\ Rounds /\ TimeWasShown

LEMMA RegistersType ==
  ASSUME bcd \in BOOLEAN, h24 \in BOOLEAN, NEW t \in Time
  PROVE  RegistersAt(t) \in Seq(Int) /\ Len(RegistersAt(t)) = 6
<1>1. /\ t.hour \in 0 .. 23 /\ t.minute \in 0 .. 59 /\ t.second \in 0 .. 59
      /\ t.date.day \in 1 .. 31 /\ t.date.month \in 1 .. 12 /\ t.date.year \in Nat
  BY TimeParts DEF IsDate
<1>2. \A v \in Int : Held(v) \in Int  BY SMT DEF Held
<1>3. t.date.year % 100 \in Int /\ ((t.hour + 11) % 12) + 1 \in Int  BY <1>1, SMT
<1>4. HourOf(t.hour) \in Int
  <2>1. Held(t.hour) \in Int /\ Held(((t.hour + 11) % 12) + 1) \in Int  BY <1>1, <1>2, <1>3
  <2> QED  BY <2>1 DEF HourOf
<1>5. /\ Held(t.second) \in Int /\ Held(t.minute) \in Int /\ Held(t.date.day) \in Int
      /\ Held(t.date.month) \in Int /\ Held(t.date.year % 100) \in Int
  BY <1>1, <1>2, <1>3
<1> QED  BY <1>4, <1>5 DEF RegistersAt

(* The register of the seconds tells the times of a call apart.             *)
LEMMA SameSecond ==
  ASSUME bcd \in BOOLEAN, Shown, NEW t \in seen, RegistersAt(t)[1] = RegistersAt(now)[1]
  PROVE  t = now
<1>1. t \in Time /\ now \in Time  BY DEF Shown
<1>2. t.second \in 0 .. 59 /\ now.second \in 0 .. 59  BY <1>1, TimeParts
<1>3. Held(t.second) = Held(now.second)  BY DEF RegistersAt
<1>4. t.second = now.second
  <2>1. Plain(Held(t.second)) = t.second /\ Plain(Held(now.second)) = now.second  BY <1>2, Decoded, SMTT(30)
  <2> QED  BY <2>1, <1>3
<1>5. SUFFICES ASSUME t # now PROVE FALSE  OBVIOUS
<1>6. Seconds(t) \in Int /\ Seconds(now) \in Int  BY <1>1, SecondLater
<1>7. Seconds(now) - Seconds(t) \in 1 .. 59
  <2>1. Cardinality(seen) \in Nat  BY FS_CardinalityType DEF Shown
  <2>2. Seconds(t) < Seconds(now) /\ Seconds(now) - Seconds(t) <= Cardinality(seen) - 1
        /\ Cardinality(seen) <= TICKS + 1
    BY <1>5 DEF Shown
  <2> QED  BY <2>1, <2>2, <1>6, TicksAssumption, SMT
<1> QED  BY <1>1, <1>4, <1>7, WithinAMinute

LEMMA RtcBegins == RtcInit => RtcInv
<1> SUFFICES ASSUME RtcInit PROVE RtcInv  OBVIOUS
<1>1. /\ now \in Start /\ uip = FALSE /\ bcd \in BOOLEAN /\ h24 \in BOOLEAN
      /\ seen = {now} /\ reading = <<>> /\ last = <<>> /\ rpc = "wait"
  BY DEF RtcInit, RtcFrom
<1>2. /\ now \in [date : [year : 2000 .. 2098, month : 1 .. 12, day : 1 .. 31],
                  hour : 0 .. 23, minute : 0 .. 59, second : 0 .. 59]
      /\ now.date.day <= Length(now.date.year, now.date.month)
  BY <1>1, StartAssumption
<1>3. now \in Time /\ now.date.year \in 2000 .. 2098
  <2>1. now.date \in [year : 2000 .. 2098, month : 1 .. 12, day : 1 .. 31]  BY <1>2
  <2>2. now.date \in [year : Nat \ {0}, month : 1 .. 12, day : 1 .. 31] /\ now.date.year \in 2000 .. 2098
    BY <2>1
  <2>3. now.date \in Date  BY <2>2, <1>2 DEF Date, IsDate
  <2> QED  BY <2>2, <2>3, <1>2 DEF Time
<1>4. IsFiniteSet(seen) /\ Cardinality(seen) = 1  BY <1>1, FS_Singleton
<1>5. Seconds(now) \in Int  BY <1>3, SecondLater
<1>6. Shown  BY <1>1, <1>3, <1>4, <1>5, TicksAssumption DEF Shown
<1>7. Century
  <2>1. now.date.year \in 2000 .. 2099 /\ now.date.year <= 2098  BY <1>3
  <2> QED  BY <2>1, <1>1 DEF Century
<1>8. Rounds  BY <1>1 DEF Rounds
<1>9. TimeWasShown  BY <1>1 DEF TimeWasShown
<1> QED  BY <1>1, <1>6, <1>7, <1>8, <1>9 DEF RtcInv

(* The clock goes on: what is being read is of another time than now.       *)
LEMMA UpdateKeeps == ASSUME RtcInv, Update PROVE RtcInv'
<1>1. /\ uip /\ uip' = FALSE /\ now' = NextSecond(now) /\ seen' = seen \cup {now'}
      /\ bcd' = bcd /\ h24' = h24 /\ reading' = reading /\ last' = last /\ rpc' = rpc /\ wallClock' = wallClock
  BY DEF Update
<1>2. RtcInv /\ Shown /\ now \in Time /\ now \in seen  BY DEF RtcInv, Shown
<1>3. now' \in Time /\ Seconds(now) \in Int /\ Seconds(now') = Seconds(now) + 1
  BY <1>1, <1>2, SecondLater
<1>4. \A t \in seen : t \in Time /\ Seconds(t) \in Int /\ Seconds(t) <= Seconds(now)
  BY <1>2, SecondLater DEF Shown
<1>5. now' \notin seen  BY <1>3, <1>4
<1>6. IsFiniteSet(seen') /\ Cardinality(seen') = Cardinality(seen) + 1 /\ Cardinality(seen) \in Nat
  BY <1>1, <1>2, <1>5, FS_AddElement, FS_CardinalityType DEF Shown
<1>7. Shown'
  <2>1. Cardinality(seen) <= TICKS  BY <1>1, <1>2 DEF Shown
  <2>2. \A t \in seen' : Seconds(t) <= Seconds(now') /\ Seconds(now') - Seconds(t) <= Cardinality(seen') - 1
    <3>1. \A t \in seen : Seconds(now) - Seconds(t) <= Cardinality(seen) - 1  BY <1>2 DEF Shown
    <3>2. ASSUME NEW t \in seen
          PROVE  Seconds(t) <= Seconds(now') /\ Seconds(now') - Seconds(t) <= Cardinality(seen') - 1
      BY <3>1, <1>3, <1>4, <1>6
    <3>3. Seconds(now') <= Seconds(now') /\ Seconds(now') - Seconds(now') <= Cardinality(seen') - 1
      BY <1>3, <1>6
    <3> QED  BY <3>2, <3>3, <1>1
  <2>3. \A t \in seen' : t # now' => Seconds(t) < Seconds(now')
    <3>1. ASSUME NEW t \in seen PROVE Seconds(t) < Seconds(now')  BY <1>3, <1>4
    <3> QED  BY <3>1, <1>1
  <2>4. seen' \subseteq Time /\ now' \in seen'  BY <1>1, <1>3, <1>4
  <2>5. Cardinality(seen') <= TICKS + 1  BY <2>1, <1>6, TicksAssumption
  <2> QED  BY <2>2, <2>3, <2>4, <2>5, <1>1, <1>6 DEF Shown
<1>8. Century'
  <2> DEFINE d == now.date
  <2>1. /\ IsDate(d) /\ d.year \in 2000 .. 2099 /\ now.hour \in 0 .. 23 /\ now.minute \in 0 .. 59 /\ now.second \in 0 .. 59
        /\ \A t \in seen : t.date.year \in 2000 .. 2099
    BY <1>2, TimeParts DEF RtcInv, Century
  <2>2. CASE d.year <= 2098
    <3>1. \/ now'.date.year = d.year
          \/ now' = [date |-> [year |-> d.year + 1, month |-> 1, day |-> 1], hour |-> 0, minute |-> 0, second |-> 0]
      <4>1. \/ now'.date = d
            \/ now' = [date |-> Tomorrow(d), hour |-> 0, minute |-> 0, second |-> 0]
        BY <1>1, <1>2 DEF NextSecond, Time
      <4>2. Tomorrow(d).year = d.year \/ Tomorrow(d) = [year |-> d.year + 1, month |-> 1, day |-> 1]
        BY <2>1 DEF Tomorrow, IsDate
      <4> QED  BY <4>1, <4>2
    <3>2. CASE now'.date.year = d.year
      <4>1. now'.date.year \in 2000 .. 2099 /\ now'.date.year <= 2098  BY <3>2, <2>1, <2>2
      <4> QED  BY <4>1, <2>1, <1>1 DEF Century
    <3>3. CASE now' = [date |-> [year |-> d.year + 1, month |-> 1, day |-> 1], hour |-> 0, minute |-> 0, second |-> 0]
      <4>1. /\ now'.date.year = d.year + 1 /\ now'.date.month = 1 /\ now'.date.day = 1
            /\ now'.hour = 0 /\ now'.minute = 0 /\ now'.second = 0
        BY <3>3
      <4>2. now'.date.year \in 2000 .. 2099 /\ now'.second < Cardinality(seen')  BY <4>1, <2>1, <2>2, <1>6
      <4> QED  BY <4>1, <4>2, <2>1, <1>1 DEF Century
    <3> QED  BY <3>1, <3>2, <3>3
  <2>3. CASE ~(d.year <= 2098)
    <3>1. /\ d.month = 1 /\ d.day = 1 /\ now.hour = 0 /\ now.minute = 0
          /\ now.second < Cardinality(seen) /\ Cardinality(seen) <= TICKS
      BY <2>3, <1>1, <1>2 DEF RtcInv, Century, Shown
    <3>2. now.second < 59  BY <3>1, <2>1, <1>6, TicksAssumption
    <3>3. now' = TimeOf(d, 0, 0, now.second + 1)
      <4>1. now' = [now EXCEPT !.second = now.second + 1]  BY <3>2, <1>1 DEF NextSecond
      <4>2. now = TimeOf(d, 0, 0, now.second)  BY <3>1, <1>2, TimeParts
      <4>3. [now EXCEPT !.second = now.second + 1] = TimeOf(d, 0, 0, now.second + 1)
        BY <4>2 DEF TimeOf
      <4> QED  BY <4>1, <4>3
    <3>4. now'.date = d /\ now'.hour = 0 /\ now'.minute = 0 /\ now'.second = now.second + 1
      BY <3>3 DEF TimeOf
    <3>5. now'.second < Cardinality(seen')  BY <3>1, <3>4, <2>1, <1>6
    <3> QED  BY <3>1, <3>4, <3>5, <2>1, <1>1 DEF Century
  <2> QED  BY <2>2, <2>3
<1>9. Rounds'
  <2>1. \A t : RegistersAt(t)' = RegistersAt(t)  BY <1>1 DEF RegistersAt, HourOf, Held
  <2>2. \A t \in seen : ThisRound(t) => ThisRound(t)'
    BY <2>1, <1>1, <1>5 DEF ThisRound
  <2>3. \A t \in seen : RoundBefore(t) => RoundBefore(t)'
    BY <2>1, <1>1, <1>5 DEF RoundBefore
  <2>4. Rounds  BY <1>2 DEF RtcInv
  <2> QED  BY <2>2, <2>3, <2>4, <1>1 DEF Rounds
<1>10. TimeWasShown'  BY <1>1, <1>2 DEF RtcInv, TimeWasShown, Swapped
<1> QED  BY <1>1, <1>2, <1>7, <1>8, <1>9, <1>10 DEF RtcInv

(* Steps of read_RTC leave the clock alone.                                 *)
LEMMA ClockStays ==
  ASSUME RtcInv, UNCHANGED <<now, uip, bcd, h24, seen>>
  PROVE  /\ uip' \in BOOLEAN /\ bcd' \in BOOLEAN /\ h24' \in BOOLEAN /\ Shown' /\ Century'
         /\ \A t : RegistersAt(t)' = RegistersAt(t) /\ Swapped(t)' = Swapped(t)
<1>1. now' = now /\ uip' = uip /\ bcd' = bcd /\ h24' = h24 /\ seen' = seen  OBVIOUS
<1>2. Shown' /\ Century'  BY <1>1 DEF RtcInv, Shown, Century
<1>3. \A t : RegistersAt(t)' = RegistersAt(t) /\ Swapped(t)' = Swapped(t)
  BY <1>1 DEF RegistersAt, HourOf, Held, Swapped
<1> QED  BY <1>1, <1>2, <1>3 DEF RtcInv

LEMMA ReadKeeps == ASSUME RtcInv, CMOS_read PROVE RtcInv'
<1>1. /\ rpc = "read" /\ rpc' = rpc /\ Len(reading) < 6
      /\ reading' = Append(reading, Registers[Len(reading) + 1])
      /\ UNCHANGED <<now, uip, bcd, h24, seen>> /\ now' = now /\ seen' = seen /\ last' = last
  BY DEF CMOS_read
<1>2. /\ Rounds /\ Shown /\ now \in seen /\ now \in Time /\ bcd \in BOOLEAN /\ h24 \in BOOLEAN
      /\ reading \in Seq(Int)
  BY DEF RtcInv, Shown, Rounds
<1>3. \A t : RegistersAt(t)' = RegistersAt(t)  BY <1>1, ClockStays
<1>4. Registers = RegistersAt(now)  BY DEF Registers, RegistersAt, HourRegister, HourOf
<1>5. RegistersAt(now) \in Seq(Int) /\ Len(RegistersAt(now)) = 6  BY <1>2, RegistersType
<1>6. PICK n \in 0 .. 5, v \in Int :
        /\ n = Len(reading) /\ v = RegistersAt(now)[n + 1] /\ reading' = Append(reading, v)
  <2>1. PICK k \in 0 .. 5 : k = Len(reading)
    <3>1. PICK k \in Nat : k = Len(reading)  BY <1>2
    <3>2. k < 6  BY <3>1, <1>1
    <3>3. k \in 0 .. 5  BY <3>2
    <3> QED  BY <3>1, <3>3
  <2>2. RegistersAt(now)[k + 1] \in Int
    <3>1. PICK q \in Seq(Int) : q = RegistersAt(now) /\ Len(q) = 6  BY <1>5
    <3>2. k + 1 \in 1 .. Len(q)  BY <3>1
    <3>3. q[k + 1] \in Int  BY <3>2
    <3> QED  BY <3>1, <3>3
  <2> QED  BY <2>1, <2>2, <1>1, <1>4
<1>7. /\ reading' \in Seq(Int) /\ Len(reading') = n + 1 /\ reading' # <<>>
      /\ reading'[n + 1] = v /\ \A i \in 1 .. n : reading'[i] = reading[i]
      /\ (n = 0) = (reading = <<>>)
  BY <1>2, <1>6
<1>8. ASSUME n = 0 PROVE Rounds'
  <2>1. reading'[1] = RegistersAt(now)[1]  BY <1>6, <1>7, <1>8
  <2>2. ThisRound(now)'
    <3>1. \A i \in 1 .. Len(reading') : reading'[i] = RegistersAt(now)[i]  BY <2>1, <1>7, <1>8
    <3>2. RegistersAt(now)' = RegistersAt(now)  BY <1>1 DEF RegistersAt, HourOf, Held
    <3> QED  BY <2>1, <3>1, <3>2, <1>1 DEF ThisRound
  <2>3. ASSUME last # <<>>, NEW t \in seen, RoundBefore(t)
        PROVE  RoundBefore(t)'
    <3>1. last[1] = RegistersAt(t)[1] /\ (now = t => last = RegistersAt(t))
      BY <2>3, <1>7, <1>8 DEF RoundBefore
    <3>2. ASSUME reading'[1] = last[1] PROVE last = RegistersAt(t)
      <4>1. t = now  BY <3>1, <3>2, <2>1, <1>2, SameSecond
      <4> QED  BY <4>1, <3>1
    <3> QED  BY <3>1, <3>2, <1>1, <1>3, <1>7 DEF RoundBefore
  <2>4. \E t \in seen' : ThisRound(t)'
    <3>1. PICK u \in seen : u = now  BY <1>2
    <3>2. ThisRound(u)'
      <4>1. RegistersAt(u)' = RegistersAt(u)  BY <1>3
      <4>2. \A i \in 1 .. Len(reading') : reading'[i] = RegistersAt(u)[i]  BY <2>1, <1>7, <1>8, <3>1
      <4> QED  BY <4>1, <4>2, <2>1, <3>1 DEF ThisRound
    <3> QED  BY <3>1, <3>2, <1>1
  <2>5. Rounds'
    <3>1. last # <<>> => last \in Seq(Int) /\ Len(last) = 6 /\ \E t \in seen : RoundBefore(t)
      BY <1>2 DEF Rounds
    <3>2. last' # <<>> => last' \in Seq(Int) /\ Len(last') = 6 /\ \E t \in seen' : RoundBefore(t)'
      BY <3>1, <2>3, <1>1
    <3>3. Len(reading') <= 6  BY <1>7
    <3> QED  BY <3>2, <3>3, <2>4, <1>7 DEF Rounds
  <2> QED  BY <2>5
<1>9. ASSUME n # 0 PROVE Rounds'
  <2>1. \A t \in seen : ThisRound(t) => ThisRound(t)'
    <3> SUFFICES ASSUME NEW t \in seen, ThisRound(t) PROVE ThisRound(t)'  OBVIOUS
    <3>1. RegistersAt(t)' = RegistersAt(t)  BY <1>3
    <3>2. 1 \in 1 .. n /\ reading'[1] = RegistersAt(t)[1]  BY <1>7, <1>9 DEF ThisRound
    <3>3. ASSUME now = t PROVE \A i \in 1 .. n + 1 : reading'[i] = RegistersAt(t)[i]
      BY <3>3, <1>6, <1>7 DEF ThisRound
    <3> QED  BY <3>1, <3>2, <3>3, <1>1, <1>7 DEF ThisRound
  <2>2. \A t \in seen : RoundBefore(t) => RoundBefore(t)'
    <3>1. 1 \in 1 .. n  BY <1>9
    <3> QED  BY <3>1, <1>1, <1>3, <1>7, <1>9 DEF RoundBefore
  <2>3. Len(reading') <= 6  BY <1>7
  <2>4. Rounds'  BY <2>1, <2>2, <2>3, <1>1, <1>2, <1>7, <1>9 DEF Rounds
  <2> QED  BY <2>4
<1>10. Rounds'  BY <1>8, <1>9
<1>11. TimeWasShown'  BY <1>1 DEF TimeWasShown
<1> QED  BY <1>1, <1>10, <1>11, ClockStays DEF RtcInv

LEMMA AgainKeeps == ASSUME RtcInv, Again PROVE RtcInv'
<1>1. /\ rpc' = "wait" /\ Len(reading) = 6 /\ last' = reading /\ reading' = <<>>
      /\ UNCHANGED <<now, uip, bcd, h24, seen>> /\ now' = now /\ seen' = seen
  BY DEF Again
<1>2. Rounds /\ Shown /\ bcd \in BOOLEAN /\ h24 \in BOOLEAN  BY DEF RtcInv
<1>3. reading \in Seq(Int) /\ reading # <<>>  BY <1>1, <1>2 DEF Rounds
<1>4. PICK t \in seen : ThisRound(t)  BY <1>2, <1>3 DEF Rounds
<1>5. RegistersAt(t) \in Seq(Int) /\ Len(RegistersAt(t)) = 6 /\ RegistersAt(t)' = RegistersAt(t)
  BY <1>1, <1>2, RegistersType, ClockStays DEF Shown
<1>6. now = t => reading = RegistersAt(t)
  <2>1. ASSUME now = t PROVE \A i \in 1 .. Len(reading) : reading[i] = RegistersAt(t)[i]
    BY <2>1, <1>4 DEF ThisRound
  <2>2. Len(reading) = Len(RegistersAt(t))  BY <1>1, <1>5
  <2> QED  BY <2>1, <2>2, <1>3, <1>5, SeqEqual
<1>7. RoundBefore(t)'
  BY <1>1, <1>4, <1>5, <1>6 DEF RoundBefore, ThisRound
<1>8. Rounds'
  <2>1. reading' \in Seq(Int) /\ Len(reading') <= 6  BY <1>1
  <2> QED  BY <2>1, <1>1, <1>3, <1>4, <1>7 DEF Rounds
<1>9. TimeWasShown'  BY <1>1 DEF TimeWasShown
<1> QED  BY <1>1, <1>8, <1>9, ClockStays DEF RtcInv

(* Two rounds agree in the second, so the first of them is of one time.     *)
LEMMA ReturnKeeps == ASSUME RtcInv, Return PROVE RtcInv'
<1>1. /\ rpc' = "done" /\ Len(reading) = 6 /\ last = reading /\ wallClock' = Converted(reading)
      /\ reading' = <<>> /\ last' = <<>>
      /\ UNCHANGED <<now, uip, bcd, h24, seen>> /\ seen' = seen
  BY DEF Return, Stable
<1>2. Rounds /\ Shown /\ Century /\ bcd \in BOOLEAN /\ h24 \in BOOLEAN  BY DEF RtcInv
<1>3. reading # <<>>  BY <1>1
<1>4. PICK t \in seen : RoundBefore(t)  BY <1>1, <1>2, <1>3 DEF Rounds
<1>5. reading = RegistersAt(t)  BY <1>1, <1>3, <1>4 DEF RoundBefore
<1>6. t \in Time /\ t.date.year \in 2000 .. 2099  BY <1>2 DEF Shown, Century
<1>7. Swapped(wallClock') = t  BY <1>1, <1>2, <1>5, <1>6, ReadBack
<1>8. TimeWasShown'
  <2>1. PICK w : w = wallClock'  OBVIOUS
  <2>2. Swapped(w)' = Swapped(w)  BY <1>1, ClockStays
  <2>3. Swapped(wallClock)' = t
    <3>1. Swapped(wallClock)' = Swapped(w)'  BY <2>1 DEF Swapped
    <3> QED  BY <3>1, <2>1, <2>2, <1>7
  <2> QED  BY <2>3, <1>1 DEF TimeWasShown
<1>9. Rounds'
  <2>1. reading' \in Seq(Int) /\ Len(reading') <= 6  BY <1>1
  <2> QED  BY <2>1, <1>1 DEF Rounds
<1> QED  BY <1>1, <1>8, <1>9, ClockStays DEF RtcInv

LEMMA RtcStep == ASSUME RtcInv, [RtcNext]_rtcvars PROVE RtcInv'
<1>1. CASE Update  BY <1>1, UpdateKeeps
<1>2. CASE CMOS_read  BY <1>2, ReadKeeps
<1>3. CASE Again  BY <1>3, AgainKeeps
<1>4. CASE Return  BY <1>4, ReturnKeeps
<1>5. CASE Announce
  <2>1. /\ uip' = TRUE /\ Cardinality(seen) <= TICKS
        /\ now' = now /\ bcd' = bcd /\ h24' = h24 /\ seen' = seen
        /\ reading' = reading /\ last' = last /\ rpc' = rpc /\ wallClock' = wallClock
    BY <1>5 DEF Announce
  <2>2. \A t : RegistersAt(t)' = RegistersAt(t)  BY <2>1 DEF RegistersAt, HourOf, Held
  <2>3. Shown' /\ Century'  BY <2>1 DEF RtcInv, Shown, Century
  <2>4. Rounds'
    <3>1. \A t : ThisRound(t)' <=> ThisRound(t)  BY <2>1, <2>2 DEF ThisRound
    <3>2. \A t : RoundBefore(t)' <=> RoundBefore(t)  BY <2>1, <2>2 DEF RoundBefore
    <3> QED  BY <3>1, <3>2, <2>1 DEF RtcInv, Rounds
  <2>5. TimeWasShown'  BY <2>1 DEF RtcInv, TimeWasShown, Swapped
  <2> QED  BY <2>1, <2>3, <2>4, <2>5 DEF RtcInv
<1>6. CASE NotUpdating \/ UNCHANGED rtcvars
  <2>1. /\ UNCHANGED <<now, uip, bcd, h24, seen>> /\ now' = now /\ seen' = seen /\ h24' = h24
        /\ reading' = reading /\ last' = last /\ wallClock' = wallClock
        /\ rpc' = "done" => rpc = "done"
    BY <1>6 DEF NotUpdating, rtcvars
  <2>2. \A t : RegistersAt(t)' = RegistersAt(t)  BY <2>1, ClockStays
  <2>3. Rounds'
    <3>1. \A t : ThisRound(t)' <=> ThisRound(t)  BY <2>1, <2>2 DEF ThisRound
    <3>2. \A t : RoundBefore(t)' <=> RoundBefore(t)  BY <2>1, <2>2 DEF RoundBefore
    <3> QED  BY <3>1, <3>2, <2>1 DEF RtcInv, Rounds
  <2>4. TimeWasShown'  BY <2>1 DEF RtcInv, TimeWasShown, Swapped
  <2> QED  BY <2>1, <2>3, <2>4, ClockStays DEF RtcInv
<1> QED  BY <1>1, <1>2, <1>3, <1>4, <1>5, <1>6 DEF RtcNext, read_RTC

(* Whatever the clock does in less than a minute, in either number format   *)
(* and either mode: read_RTC returns a time that the clock has shown.       *)
THEOREM ClockReadIsOfOneTime == RtcSpec => []TimeWasShown
<1>1. RtcInv /\ [RtcNext]_rtcvars => RtcInv'  BY RtcStep
<1>2. RtcInv => TimeWasShown  BY DEF RtcInv
<1> QED  BY <1>1, <1>2, RtcBegins, PTL DEF RtcSpec

(***************************************************************************)
(* The calendar, day after day.  gmtime is a loop, which Calendar has as a  *)
(* recursive function: induction over the naturals says what it counts.     *)
(***************************************************************************)
(* A set with 0 and with the next of each of its naturals has them all: an  *)
(* element that is missing would have a least one.                          *)
LEMMA AllNaturals ==
  ASSUME NEW S, 0 \in S, \A n \in Nat : n \in S => n + 1 \in S
  PROVE  Nat \subseteq S
<1> DEFINE T == Nat \ S
<1>1. SUFFICES ASSUME T # {} PROVE FALSE  OBVIOUS
<1>2. PICK n \in T : \A m \in T : ~(<<m, n>> \in OpToRel(<, Nat))
  <2>1. T \subseteq Nat  OBVIOUS
  <2> HIDE DEF T
  <2> QED  BY ONLY <2>1, <1>1, NatLessThanWellFounded, WFMin
<1>3. n \in Nat /\ n # 0  BY <1>2
<1>4. n - 1 \in Nat /\ n - 1 < n /\ (n - 1) + 1 = n  BY <1>3
<1>5. n - 1 \in T  BY <1>2, <1>4
<1> QED  BY <1>2, <1>4, <1>5 DEF OpToRel

(* The function that gmtime counts back with, written without its loop.     *)
(* From a year on which the days before it grow, they are more.             *)
LEMMA BeforeGrows ==
  ASSUME NEW k \in Nat, NEW n \in Nat, k < n
  PROVE  Before(k + 1) <= Before(n)
<1> DEFINE S == {i \in Nat : Before(k + 1) <= Before(k + 1 + i)}
<1>1. \A i \in Nat : Before(i) \in Int  BY SMT DEF Before
<1>2. Before(k + 1) \in Int /\ k + 1 + 0 = k + 1  BY <1>1
<1>3. 0 \in S  BY <1>2
<1>4. ASSUME NEW i \in Nat, i \in S PROVE i + 1 \in S
  <2>1. /\ k + 1 + (i + 1) \in Nat \ {0} /\ k + 1 + i \in Nat
        /\ (k + 1 + (i + 1)) - 1 = k + 1 + i
    OBVIOUS
  <2>2. Before(k + 1 + (i + 1)) = Before(k + 1 + i) + 365 + (IF Leap(k + 1 + (i + 1)) THEN 1 ELSE 0)
    BY <2>1, YearLength
  <2>3. Before(k + 1 + (i + 1)) >= Before(k + 1 + i)  BY <1>1, <2>1, <2>2
  <2>4. Before(k + 1) <= Before(k + 1 + i)  BY <1>4
  <2>5. Before(k + 1) <= Before(k + 1 + (i + 1))  BY <1>1, <1>2, <2>1, <2>3, <2>4
  <2> QED  BY <2>5
<1> HIDE DEF S
<1>5. Nat \subseteq S  BY <1>3, <1>4, AllNaturals
<1>6. n - (k + 1) \in Nat /\ k + 1 + (n - (k + 1)) = n  OBVIOUS
<1>7. n - (k + 1) \in S  BY <1>5, <1>6
<1> QED  BY <1>6, <1>7 DEF S

(* The function that gmtime counts back with, written without its loop.     *)
LEMMA CountsBack ==
  ASSUME NEW time \in Nat
  PROVE  LET year == time \div 365
             back == [n \in 0 .. year |-> time + 1 - Before(year - n)]
             steps == CHOOSE n \in 0 .. year : back[n] > 0 /\ (n > 0 => back[n - 1] <= 0)
         IN  CountBack(time) = <<year - steps + 1, back[steps]>>
<1> DEFINE year == time \div 365
           Begin == (time % 365) - year \div 4 + year \div 100 - year \div 400 + 1
           Round(f, n) == f[n - 1] + 365 + (IF Leap(year - (n - 1)) THEN 1 ELSE 0)
           back[n \in 0 .. year] ==
             IF n = 0
               THEN (time % 365) - year \div 4 + year \div 100 - year \div 400 + 1
               ELSE back[n - 1] + 365 + (IF Leap(year - (n - 1)) THEN 1 ELSE 0)
           steps == CHOOSE n \in 0 .. year : back[n] > 0 /\ (n > 0 => back[n - 1] <= 0)
           closed == [n \in 0 .. year |-> time + 1 - Before(year - n)]
<1>1. CountBack(time) = <<year - steps + 1, back[steps]>>  BY DEF CountBack
<1>2. year \in Nat /\ time = 365 * year + (time % 365)  BY SMT
<1>3. \A i \in Nat : Before(i) \in Int  BY SMT DEF Before
<1>4. closed[0] = Begin
  <2>1. 0 \in 0 .. year /\ year - 0 = year  BY <1>2
  <2>2. closed[0] = time + 1 - Before(year)  BY <2>1
  <2>3. time + 1 - Before(year) = Begin  BY <1>2, SMT DEF Before
  <2> QED  BY <2>2, <2>3
<1>5. ASSUME NEW n \in 0 .. year, n # 0 PROVE closed[n] = Round(closed, n)
  <2>1. n - 1 \in 0 .. year /\ year - n \in Nat /\ year - (n - 1) \in Nat \ {0}
        /\ (year - (n - 1)) - 1 = year - n
    BY <1>2, <1>5
  <2>2. closed[n] = time + 1 - Before(year - n) /\ closed[n - 1] = time + 1 - Before(year - (n - 1))
    BY <2>1
  <2>3. Before(year - (n - 1)) = Before(year - n) + 365 + (IF Leap(year - (n - 1)) THEN 1 ELSE 0)
    BY <2>1, YearLength
  <2> HIDE DEF closed, year
  <2>4. Before(year - (n - 1)) \in Int /\ Before(year - n) \in Int  BY <1>3, <2>1
  <2> QED  BY <2>2, <2>3, <2>4
<1>6. closed = [n \in 0 .. year |-> IF n = 0 THEN Begin ELSE Round(closed, n)]
  <2>1. closed = [n \in 0 .. year |-> closed[n]]  OBVIOUS
  <2> HIDE DEF closed, year, Begin, Round
  <2>2. \A n \in 0 .. year : closed[n] = IF n = 0 THEN Begin ELSE Round(closed, n)  BY <1>4, <1>5
  <2> QED  BY <2>1, <2>2
<1>7. back = [n \in 0 .. year |-> IF n = 0 THEN Begin ELSE Round(back, n)]
  BY <1>6, ZenonT(60)
<1>8. back = closed
  <2>1. closed = [n \in 0 .. year |-> closed[n]]  OBVIOUS
  <2> HIDE DEF closed, back, year, Begin
  <2>2. back = [n \in 0 .. year |-> back[n]]  BY <1>7
  <2>3. \A n \in 0 .. year : n # 0 => back[n] = Round(back, n)  BY <1>7, ZenonT(60)
  <2> DEFINE S == {n \in Nat : n \in 0 .. year => back[n] = closed[n]}
  <2>4. back[0] = closed[0]  BY <1>2, <1>4, <1>7
  <2>5. 0 \in S  BY <2>4
  <2>6. ASSUME NEW n \in Nat, n \in S PROVE n + 1 \in S
    <3>1. SUFFICES ASSUME n + 1 \in 0 .. year PROVE back[n + 1] = closed[n + 1]  OBVIOUS
    <3>2. n \in 0 .. year /\ n + 1 # 0 /\ (n + 1) - 1 = n  BY <1>2, <3>1
    <3>3. back[n] = closed[n]  BY <2>6, <3>2
    <3>4. back[n + 1] = Round(back, n + 1) /\ closed[n + 1] = Round(closed, n + 1)
      <4> HIDE DEF Round
      <4> QED  BY <1>5, <2>3, <3>1, <3>2
    <3>5. Round(back, n + 1) = Round(closed, n + 1)  BY <3>2, <3>3
    <3> HIDE DEF Round
    <3> QED  BY <3>4, <3>5
  <2> HIDE DEF S
  <2>7. Nat \subseteq S  BY <2>5, <2>6, AllNaturals
  <2>8. \A n \in 0 .. year : n \in Nat  BY <1>2
  <2>9. \A n \in 0 .. year : back[n] = closed[n]  BY <2>7, <2>8 DEF S
  <2> QED  BY <2>1, <2>2, <2>9
<1> QED  BY <1>1, <1>8, ZenonT(60)

(* So it ends in the year that the day is in.                               *)
LEMMA YearAndDay ==
  ASSUME NEW k \in Nat, NEW n \in Nat, n < Before(k + 1) - Before(k)
  PROVE  CountBack(Before(k) + n) = <<k + 1, n + 1>>
<1> DEFINE time == Before(k) + n
           year == time \div 365
           back == [i \in 0 .. year |-> time + 1 - Before(year - i)]
           Ends(i) == back[i] > 0 /\ (i > 0 => back[i - 1] <= 0)
           steps == CHOOSE i \in 0 .. year : Ends(i)
<1>1. \A i \in Nat : Before(i) \in Int /\ Before(i) >= 365 * i  BY SMT DEF Before
<1>2. Before(k) \in Int /\ Before(k + 1) \in Int /\ Before(k) >= 365 * k /\ 365 * k >= 0
  <2>1. k + 1 \in Nat /\ 365 * k >= 0  OBVIOUS
  <2> QED  BY <1>1, <2>1
<1>3. time \in Nat /\ time < Before(k + 1) /\ time >= Before(k) /\ time >= 365 * k
      /\ time + 1 - Before(k) = n + 1
  BY <1>2
<1> HIDE DEF time
<1>4. year \in Nat /\ k <= year  BY <1>3, SMT
<1>5. CountBack(time) = <<year - steps + 1, back[steps]>>  BY <1>3, CountsBack, ZenonT(60)
<1> HIDE DEF year
<1>6. \A i \in 0 .. year : back[i] = time + 1 - Before(year - i)  OBVIOUS
<1>7. year - k \in 0 .. year /\ year - (year - k) = k  BY <1>4
<1>8. back[year - k] = time + 1 - Before(k)  BY <1>6, <1>7
<1> HIDE DEF back
<1>9. Ends(year - k)
  <2>1. back[year - k] > 0  BY <1>2, <1>3, <1>8
  <2>2. ASSUME year - k > 0 PROVE back[year - k - 1] <= 0
    <3>1. year - k - 1 \in 0 .. year /\ year - (year - k - 1) = k + 1  BY <1>4, <2>2
    <3>2. back[year - k - 1] = time + 1 - Before(k + 1)  BY <1>6, <3>1
    <3> QED  BY <1>2, <1>3, <3>2
  <2> QED  BY <2>1, <2>2
<1>10. ASSUME NEW i \in 0 .. year, Ends(i) PROVE i = year - k
  <2>1. i \in Nat /\ year - i \in Nat /\ back[i] = time + 1 - Before(year - i)  BY <1>4, <1>6
  <2>2. Before(year - i) \in Int  BY <1>1, <2>1
  <2>3. Before(year - i) <= time  BY <1>3, <1>10, <2>1, <2>2
  <2>4. CASE i < year - k
    <3>1. k \in Nat /\ year - i \in Nat /\ k < year - i  BY <1>4, <2>1, <2>4
    <3>2. Before(k + 1) <= Before(year - i)  BY <3>1, BeforeGrows
    <3> QED  BY <1>2, <1>3, <2>2, <2>3, <3>2
  <2>5. CASE i > year - k
    <3>1. i > 0 /\ i - 1 \in 0 .. year /\ year - (i - 1) = year - i + 1 /\ year - i < k
      BY <1>4, <2>1, <2>5
    <3>2. back[i - 1] = time + 1 - Before(year - i + 1)  BY <1>6, <3>1
    <3>3. Before(year - i + 1) <= Before(k)  BY <2>1, <3>1, BeforeGrows
    <3>4. Before(year - i + 1) \in Int  BY <1>1, <2>1
    <3>5. back[i - 1] <= 0  BY <1>10, <3>1
    <3> QED  BY <1>2, <1>3, <3>2, <3>3, <3>4, <3>5
  <2> QED  BY <1>4, <2>1, <2>4, <2>5
<1> HIDE DEF Ends
<1>11. steps = year - k  BY <1>7, <1>9, <1>10
<1> HIDE DEF steps
<1>12. year - steps + 1 = k + 1 /\ back[steps] = n + 1
  BY <1>3, <1>4, <1>8, <1>11
<1> QED  BY <1>5, <1>12 DEF time

(* The days before a month in a year without a leap day, and the day of the *)
(* year.                                                                    *)
LEMMA Months ==
  /\ mday[1] = 0 /\ mday[2] = 31 /\ mday[3] = 59 /\ mday[4] = 90 /\ mday[5] = 120 /\ mday[6] = 151
  /\ mday[7] = 181 /\ mday[8] = 212 /\ mday[9] = 243 /\ mday[10] = 273 /\ mday[11] = 304
  /\ mday[12] = 334 /\ mday[13] = 365
BY DEF mday

DayOfYear(y, m, n) == mday[m] + n + (IF m > 2 /\ Leap(y) THEN 1 ELSE 0)
LEMMA CountByDay ==
  ASSUME NEW y \in Nat \ {0}, NEW m \in 1 .. 12, NEW n \in Nat
  PROVE  Count(y, m, n) = Before(y - 1) + DayOfYear(y, m, n) - 1
<1>1. Before(y) = Before(y - 1) + 365 + (IF Leap(y) THEN 1 ELSE 0)  BY YearLength
<1>2. Before(y) \in Int /\ Before(y - 1) \in Int  BY SMT DEF Before
<1>3. m \in {1, 2} \cup {3, 4, 5, 6, 7} \cup {8, 9, 10, 11, 12}  OBVIOUS
<1>4. CASE m \in {1, 2}
  BY <1>2, <1>4, Months DEF Count, DayOfYear
<1>5. CASE m \in {3, 4, 5, 6, 7}
  BY <1>1, <1>2, <1>5, Months DEF Count, DayOfYear
<1>6. CASE m \in {8, 9, 10, 11, 12}
  BY <1>1, <1>2, <1>6, Months DEF Count, DayOfYear
<1> QED  BY <1>3, <1>4, <1>5, <1>6

(* The month of a day of a year without a leap day: the last of January is  *)
(* taken for February.                                                      *)
LEMMA MonthIs ==
  ASSUME NEW m \in 1 .. 12, NEW n \in Nat \ {0}, mday[m] + n <= mday[m + 1]
  PROVE  MonthOf(mday[m] + n) = IF m = 1 /\ n = 31 THEN 1 ELSE m - 1
<1> DEFINE days == mday[m] + n
           b == days \div 30
           c == days \div 31
<1>1. m \in {1, 2, 3} \cup {4, 5, 6} \cup {7, 8, 9} \cup {10, 11, 12}  OBVIOUS
<1>2. MonthOf(days) = IF b # c /\ days > mday[b + 1] THEN b ELSE c  BY DEF MonthOf
<1>3. CASE m \in {1, 2, 3}
  BY <1>2, <1>3, Months
<1>4. CASE m \in {4, 5, 6}
  BY <1>2, <1>4, Months
<1>5. CASE m \in {7, 8, 9}
  BY <1>2, <1>5, Months
<1>6. CASE m \in {10, 11, 12}
  BY <1>2, <1>6, Months
<1> QED  BY <1>1, <1>3, <1>4, <1>5, <1>6

(* gmtime undoes mktime, but for the last of January, which it calls the    *)
(* 0th of February; mktime takes that for the same day.                     *)
Undone(d) == IF d.month = 1 /\ d.day = 31 THEN [d EXCEPT !.month = 2, !.day = 0] ELSE d
LEMMA gmtimeUndoes ==
  ASSUME NEW d, IsDate(d)
  PROVE  gmtime(mktime(d)) = Undone(d) /\ mktime(Undone(d)) = mktime(d)
<1> DEFINE y == d.year
           m == d.month
           n == d.day
           found == DayOfYear(y, m, n)
           days == IF Leap(y) /\ found > 60 THEN found - 1 ELSE found
           mon == MonthOf(days)
<1>1. /\ y \in Nat \ {0} /\ m \in 1 .. 12 /\ n \in 1 .. 31 /\ n <= Length(y, m)
      /\ d = [year |-> y, month |-> m, day |-> n]
  BY DEF IsDate
<1> HIDE DEF y, m, n
<1>2. /\ mday[m] \in Nat /\ mday[m] <= 334 /\ (m = 1 => mday[m] = 0) /\ (m = 2 => mday[m] = 31) /\ (m > 2 => mday[m] >= 59)
      /\ mday[m] + n <= mday[m + 1] + (IF m = 2 /\ Leap(y) THEN 1 ELSE 0)
      /\ mday[m + 1] <= 365 /\ mday[m + 1] \in Nat
  <2>1. m \in {1, 2, 3, 4, 5, 6} \cup {7, 8, 9, 10, 11, 12}  BY <1>1
  <2>2. CASE m \in {1, 2, 3, 4, 5, 6}  BY <1>1, <2>2, Months DEF Length
  <2>3. CASE m \in {7, 8, 9, 10, 11, 12}  BY <1>1, <2>3, Months DEF Length
  <2> QED  BY <2>1, <2>2, <2>3
<1>3. gmtime(mktime(d)) = IF Leap(y) /\ found = 60
                            THEN [year |-> y, month |-> 2, day |-> 29]
                            ELSE [year |-> y, month |-> mon + 1, day |-> days - mday[mon + 1]]
  <2>1. mktime(d) = Before(y - 1) + found - 1
    <3>1. mktime(d) = Count(y, m, n)  BY <1>1, mktimeByMonth
    <3>2. n \in Nat  BY <1>1
    <3> QED  BY <1>1, <3>1, <3>2, CountByDay
  <2>2. found \in Nat \ {0} /\ found <= 365 + (IF Leap(y) THEN 1 ELSE 0)  BY <1>1, <1>2 DEF DayOfYear
  <2>3. Before(y) = Before(y - 1) + 365 + (IF Leap(y) THEN 1 ELSE 0)  BY <1>1, YearLength
  <2> HIDE DEF found
  <2>4. Before(y) \in Int /\ Before(y - 1) \in Int  BY <1>1, SMT DEF Before
  <2>5. y - 1 \in Nat /\ (y - 1) + 1 = y /\ found - 1 \in Nat /\ found - 1 + 1 = found  BY <1>1, <2>2
  <2>6. found - 1 < Before((y - 1) + 1) - Before(y - 1)  BY <2>2, <2>3, <2>4, <2>5
  <2>7. CountBack(Before(y - 1) + (found - 1)) = <<y, found>>  BY <2>5, <2>6, YearAndDay
  <2>8. Before(y - 1) + (found - 1) = mktime(d)  BY <2>1, <2>2, <2>4
  <2>9. CountBack(mktime(d))[1] = y /\ CountBack(mktime(d))[2] = found  BY <2>7, <2>8
  <2> QED  BY <2>9 DEF gmtime
<1>4. CASE Leap(y) /\ m = 2 /\ n = 29
  <2>1. found = 60  BY <1>2, <1>4 DEF DayOfYear
  <2>2. Undone(d) = d  BY <1>1, <1>4 DEF Undone
  <2> QED  BY <1>1, <1>3, <1>4, <2>1, <2>2
<1>5. CASE ~(Leap(y) /\ m = 2 /\ n = 29)
  <2>1. ~(Leap(y) /\ found = 60) /\ days = mday[m] + n  BY <1>1, <1>2, <1>5, Months DEF DayOfYear, Length
  <2>2. mday[m] + n <= mday[m + 1]  BY <1>1, <1>2, <1>5, Months DEF Length
  <2>3. mon = IF m = 1 /\ n = 31 THEN 1 ELSE m - 1  BY <1>1, <2>1, <2>2, MonthIs
  <2>4. gmtime(mktime(d)) = [year |-> y, month |-> mon + 1, day |-> days - mday[mon + 1]]  BY <1>3, <2>1
  <2> HIDE DEF mon, days, found
  <2>5. CASE m = 1 /\ n = 31
    <3>1. mon + 1 = 2 /\ days - mday[mon + 1] = 0  BY <2>1, <2>3, <2>5, Months
    <3>2. Undone(d) = [year |-> y, month |-> 2, day |-> 0]
      <4>1. Undone(d) = [d EXCEPT !.month = 2, !.day = 0]  BY <2>5 DEF Undone, m, n
      <4>2. [d EXCEPT !.month = 2] = [year |-> y, month |-> 2, day |-> n]  BY <1>1
      <4>3. [[year |-> y, month |-> 2, day |-> n] EXCEPT !.day = 0] = [year |-> y, month |-> 2, day |-> 0]  OBVIOUS
      <4> QED  BY <4>1, <4>2, <4>3
    <3>3. mktime([year |-> y, month |-> 2, day |-> 0]) = Count(y, 2, 0)
      <4>1. 2 - 2 <= 0  OBVIOUS
      <4> QED  BY <1>1, <4>1 DEF mktime, Before, Count
    <3>4. mktime(d) = Count(y, 1, 31)  BY <1>1, <2>5, mktimeByMonth
    <3>5. Before(y - 1) \in Int  BY <1>1, SMT DEF Before
    <3>6. Count(y, 2, 0) = Count(y, 1, 31)  BY <3>5 DEF Count
    <3> QED  BY <2>4, <3>1, <3>2, <3>3, <3>4, <3>6
  <2>6. CASE ~(m = 1 /\ n = 31)
    <3>1. mon + 1 = m /\ days - mday[mon + 1] = n  BY <1>1, <1>2, <2>1, <2>3, <2>6
    <3>2. Undone(d) = d  BY <2>6 DEF Undone, m, n
    <3> QED  BY <1>1, <2>4, <3>1, <3>2
  <2> QED  BY <2>5, <2>6
<1> QED  BY <1>4, <1>5

(* The leap years before a year are as many as mktime adds for them.        *)
LeapYears(k) == {y \in 1 .. k : Leap(y)}
LEMMA LeapYearsCount ==
  ASSUME NEW k \in Nat
  PROVE  IsFiniteSet(LeapYears(k)) /\ Before(k) = k * 365 + Cardinality(LeapYears(k))
<1> DEFINE S == {i \in Nat : IsFiniteSet(LeapYears(i)) /\ Before(i) = i * 365 + Cardinality(LeapYears(i))}
<1>1. 0 \in S
  <2>1. LeapYears(0) = {}  BY DEF LeapYears
  <2>2. Before(0) = 0  BY SMT DEF Before
  <2> QED  BY <2>1, <2>2, FS_EmptySet
<1>2. ASSUME NEW i \in Nat, i \in S PROVE i + 1 \in S
  <2>1. IsFiniteSet(LeapYears(i)) /\ Before(i) = i * 365 + Cardinality(LeapYears(i))  BY <1>2
  <2>2. Cardinality(LeapYears(i)) \in Nat  BY <2>1, FS_CardinalityType
  <2>3. (i + 1) - 1 = i /\ i + 1 \in Nat \ {0} /\ (i + 1) * 365 = i * 365 + 365  OBVIOUS
  <2>4. Before(i + 1) = Before(i) + 365 + (IF Leap(i + 1) THEN 1 ELSE 0)  BY <2>3, YearLength
  <2>5. CASE Leap(i + 1)
    <3>1. LeapYears(i + 1) = LeapYears(i) \cup {i + 1} /\ i + 1 \notin LeapYears(i)  BY <2>5 DEF LeapYears
    <3>2. IsFiniteSet(LeapYears(i + 1)) /\ Cardinality(LeapYears(i + 1)) = Cardinality(LeapYears(i)) + 1
      BY <2>1, <3>1, FS_AddElement
    <3>3. Before(i + 1) = (i + 1) * 365 + Cardinality(LeapYears(i + 1))  BY <2>1, <2>2, <2>3, <2>4, <2>5, <3>2
    <3> QED  BY <3>2, <3>3
  <2>6. CASE ~Leap(i + 1)
    <3>1. LeapYears(i + 1) = LeapYears(i)  BY <2>6 DEF LeapYears
    <3>2. Before(i + 1) = (i + 1) * 365 + Cardinality(LeapYears(i + 1))  BY <2>1, <2>2, <2>3, <2>4, <2>6, <3>1
    <3> QED  BY <2>1, <3>1, <3>2
  <2> QED  BY <2>5, <2>6
<1> HIDE DEF S
<1>3. k \in S  BY <1>1, <1>2, AllNaturals
<1> QED  BY <1>3 DEF S

(* What the calendar knows of each day.                                     *)
CalInv == IsDate(date) /\ mktime(date) = number /\ weekday = (number + 1) % 7
(* On every day from the first year on, mktime and gmtime agree with the    *)
(* calendar, and so does the day of the week.                               *)
THEOREM DatesAgreeWithCalendar == CalSpec => []DatesAgree
<1>1. CalInit => CalInv
  <2> SUFFICES ASSUME CalInit PROVE CalInv  OBVIOUS
  <2> DEFINE k == FirstYear - 1
  <2>1. k \in Nat /\ FirstYear \in Nat \ {0}  BY YearsAssumption
  <2>2. date = [year |-> FirstYear, month |-> 1, day |-> 1] /\ weekday = (number + 1) % 7
        /\ number = k * 365 + Cardinality(LeapYears(k))
    BY DEF CalInit, LeapYears
  <2>3. IsDate(date)  BY <2>1, <2>2 DEF IsDate, Length
  <2>4. number = Before(k)  BY <2>1, <2>2, LeapYearsCount
  <2>5. mktime(date) = Count(FirstYear, 1, 1)
    <3>1. 1 \in 1 .. 12 /\ 1 \in 1 .. 31  OBVIOUS
    <3> QED  BY <2>1, <2>2, <3>1, mktimeByMonth
  <2>6. Before(k) \in Int  BY <2>1, SMT DEF Before
  <2>7. Count(FirstYear, 1, 1) = Before(k)  BY <2>6 DEF Count
  <2> QED  BY <2>2, <2>3, <2>4, <2>5, <2>7 DEF CalInv
<1>2. CalInv /\ [NextDay]_calvars => CalInv'
  <2> SUFFICES ASSUME CalInv, [NextDay]_calvars PROVE CalInv'  OBVIOUS
  <2>1. IsDate(date) /\ mktime(date) = number /\ weekday = (number + 1) % 7 /\ number \in Int
    BY mktimeInt DEF CalInv
  <2>2. CASE NextDay
    <3>1. date' = Tomorrow(date) /\ number' = number + 1 /\ weekday' = (weekday + 1) % 7  BY <2>2 DEF NextDay
    <3>2. IsDate(date') /\ mktime(date') = number'  BY <2>1, <3>1, mktimeCountsDays
    <3>3. weekday' = (number' + 1) % 7  BY <2>1, <3>1
    <3> QED  BY <3>2, <3>3 DEF CalInv
  <2>3. CASE UNCHANGED calvars
    BY <2>3 DEF CalInv, calvars
  <2> QED  BY <2>2, <2>3
<1>3. CalInv => DatesAgree
  <2> SUFFICES ASSUME CalInv PROVE DatesAgree  OBVIOUS
  <2>1. gmtime(number) = Undone(date) /\ mktime(Undone(date)) = number
    BY gmtimeUndoes DEF CalInv
  <2> QED  BY <2>1 DEF CalInv, DatesAgree, Undone, WeekdayOf
<1> QED  BY <1>1, <1>2, <1>3, PTL DEF CalSpec

(* The powers of a base: 1, and each after it the base times the one before. *)
Powers(b, p, n) == /\ p \in [0 .. n -> Nat \ {0}] /\ p[0] = 1
                   /\ \A d \in 1 .. n : p[d] = p[d - 1] * b
LEMMA PowersExist ==
  ASSUME NEW b \in Nat \ {0}, NEW k \in Nat  PROVE \E p : Powers(b, p, k)
<1> DEFINE S == {n \in Nat : \E p : Powers(b, p, n)}
<1>1. 0 \in S
  <2> DEFINE p == [d \in 0 .. 0 |-> 1]
  <2>1. Powers(b, p, 0)  BY DEF Powers
  <2> QED  BY <2>1
<1>2. ASSUME NEW n \in Nat, n \in S PROVE n + 1 \in S
  <2>1. PICK p : Powers(b, p, n)  BY <1>2
  <2> DEFINE q == [d \in 0 .. n + 1 |-> IF d <= n THEN p[d] ELSE p[n] * b]
  <2>2. p[n] \in Nat \ {0} /\ p[0] = 1 /\ (\A d \in 0 .. n : p[d] \in Nat \ {0})
        /\ \A d \in 1 .. n : p[d] = p[d - 1] * b
    BY <2>1 DEF Powers
  <2>3. p[n] * b \in Nat \ {0}  BY <2>2, SMT
  <2>4. q \in [0 .. n + 1 -> Nat \ {0}]  BY <2>2, <2>3
  <2>5. q[0] = 1  BY <2>2
  <2>6. ASSUME NEW d \in 1 .. n + 1 PROVE q[d] = q[d - 1] * b
    <3>1. CASE d <= n
      <4>1. d \in 1 .. n /\ q[d] = p[d] /\ q[d - 1] = p[d - 1]  BY <3>1
      <4> QED  BY <4>1, <2>2
    <3>2. CASE ~(d <= n)
      <4>1. d - 1 = n /\ q[d] = p[n] * b /\ q[d - 1] = p[n]  BY <3>2
      <4> QED  BY <4>1
    <3> QED  BY <3>1, <3>2
  <2> HIDE DEF q
  <2>7. Powers(b, q, n + 1)  BY <2>4, <2>5, <2>6 DEF Powers
  <2> QED  BY <2>7
<1> HIDE DEF S
<1>3. k \in S  BY <1>1, <1>2, AllNaturals
<1> QED  BY <1>3 DEF S

(* Power is the function that its recursion describes.                       *)
LEMMA PowerIs ==
  ASSUME NEW b \in Nat \ {0}  PROVE Powers(b, Power(b), INTBITS)
<1>0. INTBITS \in Nat  BY WordAssumption
<1>1. PICK p : Powers(b, p, INTBITS)  BY <1>0, PowersExist
<1>2. p = [d \in 0 .. INTBITS |-> IF d = 0 THEN 1 ELSE p[d - 1] * b]
  <2>1. p = [d \in 0 .. INTBITS |-> p[d]]  BY <1>1 DEF Powers
  <2>2. \A d \in 0 .. INTBITS : p[d] = IF d = 0 THEN 1 ELSE p[d - 1] * b
    BY <1>0, <1>1 DEF Powers
  <2> QED  BY <2>1, <2>2, Zenon
<1> DEFINE w == Power(b)
<1>3. w = [d \in 0 .. INTBITS |-> IF d = 0 THEN 1 ELSE w[d - 1] * b]
  BY <1>2 DEF Power
<1> HIDE DEF w
<1>4. w[0] = 1 /\ \A d \in 1 .. INTBITS : w[d] = w[d - 1] * b
  <2>1. \A d \in 0 .. INTBITS : w[d] = IF d = 0 THEN 1 ELSE w[d - 1] * b  BY <1>3
  <2>2. 0 \in 0 .. INTBITS /\ \A d \in 1 .. INTBITS : d \in 0 .. INTBITS /\ d # 0  BY <1>0
  <2> QED  BY <2>1, <2>2
<1> DEFINE S == {n \in Nat : n <= INTBITS => w[n] \in Nat \ {0}}
<1>5. 0 \in S  BY <1>4
<1>6. ASSUME NEW n \in Nat, n \in S PROVE n + 1 \in S
  <2>1. SUFFICES ASSUME n + 1 <= INTBITS PROVE w[n + 1] \in Nat \ {0}  OBVIOUS
  <2>2. n + 1 \in 1 .. INTBITS /\ (n + 1) - 1 = n /\ n <= INTBITS  BY <1>0, <2>1
  <2>3. w[n] \in Nat \ {0} /\ w[n + 1] = w[n] * b  BY <1>4, <1>6, <2>2
  <2>4. \A i \in Nat \ {0} : i * b \in Nat \ {0}  BY SMT
  <2> QED  BY <2>3, <2>4
<1> HIDE DEF S
<1>7. Nat \subseteq S  BY <1>5, <1>6, AllNaturals
<1>8. \A d \in 0 .. INTBITS : d \in Nat /\ d <= INTBITS  BY <1>0
<1>9. \A d \in 0 .. INTBITS : w[d] \in Nat \ {0}  BY <1>7, <1>8 DEF S
<1>10. w \in [0 .. INTBITS -> Nat \ {0}]  BY <1>3, <1>9
<1> QED  BY <1>4, <1>10 DEF Powers, w

(* Powers grow, and those of a radix are at least those of two.             *)
LEMMA PowersGrow ==
  ASSUME NEW b \in {2, 8, 10, 16}
  PROVE  /\ \A d \in 0 .. INTBITS : Power(b)[d] \in Nat \ {0} /\ Power(b)[d] >= Power(2)[d]
         /\ Power(b)[0] = 1 /\ \A d \in 1 .. INTBITS : Power(b)[d] = Power(b)[d - 1] * b
         /\ \A j \in 0 .. INTBITS : \A i \in 0 .. j : Power(b)[i] <= Power(b)[j]
<1> DEFINE p == Power(b)
           t == Power(2)
<1>1. Powers(b, p, INTBITS) /\ Powers(2, t, INTBITS) /\ INTBITS \in Nat
  BY PowerIs, WordAssumption
<1> HIDE DEF p, t
<1>2. /\ p \in [0 .. INTBITS -> Nat \ {0}] /\ p[0] = 1 /\ \A d \in 1 .. INTBITS : p[d] = p[d - 1] * b
      /\ t \in [0 .. INTBITS -> Nat \ {0}] /\ t[0] = 1 /\ \A d \in 1 .. INTBITS : t[d] = t[d - 1] * 2
  BY <1>1 DEF Powers
<1> DEFINE S == {n \in Nat : n <= INTBITS => p[n] >= t[n] /\ \A i \in 0 .. n : p[i] <= p[n]}
<1>3. 0 \in S  BY <1>1, <1>2
<1>4. ASSUME NEW n \in Nat, n \in S PROVE n + 1 \in S
  <2>1. SUFFICES ASSUME n + 1 <= INTBITS PROVE p[n + 1] >= t[n + 1] /\ \A i \in 0 .. n + 1 : p[i] <= p[n + 1]
    OBVIOUS
  <2>2. n + 1 \in 1 .. INTBITS /\ (n + 1) - 1 = n /\ n <= INTBITS /\ n \in 0 .. INTBITS  BY <1>1, <2>1
  <2>3. p[n + 1] = p[n] * b /\ t[n + 1] = t[n] * 2 /\ p[n] \in Nat \ {0} /\ t[n] \in Nat \ {0}
        /\ p[n] >= t[n] /\ \A i \in 0 .. n : p[i] <= p[n]
    BY <1>2, <1>4, <2>2
  <2>4. p[n] * b >= p[n] * 2
    <3>1. PICK x \in Nat \ {0} : x = p[n]  BY <2>3
    <3>2. x * 8 >= x * 2 /\ x * 10 >= x * 2 /\ x * 16 >= x * 2  BY SMT
    <3> QED  BY <3>1, <3>2
  <2>5. p[n + 1] >= p[n] /\ p[n + 1] \in Nat  BY <1>2, <2>2, <2>3, <2>4
  <2>6. p[n + 1] >= t[n + 1]  BY <2>3, <2>4, <2>5
  <2>7. ASSUME NEW i \in 0 .. n + 1 PROVE p[i] <= p[n + 1]
    <3>1. CASE i = n + 1  BY <3>1, <2>5
    <3>2. CASE i # n + 1
      <4>1. i \in 0 .. n /\ i \in 0 .. INTBITS  BY <1>1, <3>2, <2>2
      <4>2. p[i] \in Nat /\ p[n] \in Nat /\ p[i] <= p[n]  BY <4>1, <1>2, <2>3
      <4> QED  BY <4>2, <2>5
    <3> QED  BY <3>1, <3>2
  <2> QED  BY <2>6, <2>7
<1> HIDE DEF S
<1>5. Nat \subseteq S  BY <1>3, <1>4, AllNaturals
<1>6. \A d \in 0 .. INTBITS : d \in Nat /\ d <= INTBITS  BY <1>1
<1>7. \A d \in 0 .. INTBITS : p[d] >= t[d] /\ \A i \in 0 .. d : p[i] <= p[d]  BY <1>5, <1>6 DEF S
<1> QED  BY <1>2, <1>7 DEF p, t

(* What is left of n after each of its digits to a base.                    *)
Quotients(Q, n, r) ==
  /\ Q \in Seq(Nat) /\ Len(Q) >= 1 /\ Q[1] = n
  /\ \A i \in 1 .. Len(Q) : Q[i] \in Nat /\ Q[i] <= n
  /\ \A i \in 1 .. Len(Q) - 1 : Q[i + 1] = Q[i] \div r /\ (i > 1 => Q[i] # 0)
Complete(Q, n, r) == Quotients(Q, n, r) /\ Len(Q) >= 2 /\ Q[Len(Q)] = 0

LEMMA Dividing ==
  ASSUME NEW r \in {8, 10, 16}, NEW x \in Nat
  PROVE  /\ x \div r \in Nat /\ x % r \in 0 .. r - 1 /\ x % r \in Int
         /\ x = (x \div r) * r + (x % r) /\ x \div r <= x
<1>1. CASE r = 8  BY <1>1, SMT
<1>2. CASE r = 10  BY <1>2, SMT
<1>3. CASE r = 16  BY <1>3, SMT
<1> QED  BY <1>1, <1>2, <1>3

(* There are as many digits as the number needs.                            *)
LEMMA DigitsNeeded ==
  ASSUME NEW r \in {8, 10, 16}, NEW n \in Nat, n < Power(2)[INTBITS], NEW Q, Complete(Q, n, r)
  PROVE  /\ Len(Q) - 1 \in 1 .. INTBITS /\ n < Power(r)[Len(Q) - 1]
         /\ Len(Q) - 1 > 1 => n >= Power(r)[Len(Q) - 2]
<1> DEFINE p == Power(r)
           t == Power(2)[INTBITS]
           D == Len(Q) - 1
<1>1. INTBITS \in Nat \ {0} /\ t \in Nat  BY WordAssumption, PowersGrow
<1>2. /\ p[0] = 1 /\ (\A d \in 0 .. INTBITS : p[d] \in Nat \ {0}) /\ (\A d \in 1 .. INTBITS : p[d] = p[d - 1] * r)
      /\ p[INTBITS] >= t
  BY <1>1, PowersGrow
<1>3. Len(Q) \in Nat /\ D \in Nat \ {0} /\ Len(Q) = D + 1  BY DEF Complete, Quotients
<1>4. /\ Q[1] = n /\ Q[D + 1] = 0 /\ (\A i \in 1 .. D + 1 : Q[i] \in Nat /\ Q[i] <= n)
      /\ (\A i \in 1 .. D : Q[i + 1] = Q[i] \div r) /\ (D > 1 => Q[D] # 0)
  BY <1>3 DEF Complete, Quotients
<1> HIDE DEF p, t, D
<1>5. \A i \in 1 .. D : Q[i] >= Q[i + 1] * r /\ Q[i] < Q[i + 1] * r + r
  <2> SUFFICES ASSUME NEW i \in 1 .. D PROVE Q[i] >= Q[i + 1] * r /\ Q[i] < Q[i + 1] * r + r  OBVIOUS
  <2>1. PICK x \in Nat, y \in Nat : x = Q[i] /\ y = Q[i + 1] /\ y = x \div r  BY <1>3, <1>4
  <2>2. PICK z \in 0 .. r - 1 : x = y * r + z
    <3>1. x % r \in 0 .. r - 1 /\ x = y * r + (x % r)  BY <2>1, Dividing, ZenonT(60)
    <3> QED  BY <3>1
  <2>3. x >= y * r /\ x < y * r + r  BY <2>2
  <2> QED  BY <2>1, <2>3
<1> DEFINE S == {j \in Nat : j <= INTBITS => /\ j <= D => Q[D + 1 - j] < p[j]
                                             /\ j < D /\ D > 1 => Q[D - j] >= p[j]}
<1>6. 0 \in S
  <2>1. D + 1 - 0 = D + 1 /\ D - 0 = D /\ D \in 1 .. D + 1  BY <1>3
  <2> QED  BY <1>2, <1>4, <2>1
<1>7. ASSUME NEW j \in Nat, j \in S PROVE j + 1 \in S
  <2>1. SUFFICES ASSUME j + 1 <= INTBITS
                 PROVE  /\ j + 1 <= D => Q[D + 1 - (j + 1)] < p[j + 1]
                        /\ j + 1 < D /\ D > 1 => Q[D - (j + 1)] >= p[j + 1]
    OBVIOUS
  <2>2. j \in 0 .. INTBITS /\ j + 1 \in 1 .. INTBITS /\ (j + 1) - 1 = j  BY <1>1, <2>1
  <2>3. PICK u \in Nat \ {0} : u = p[j] /\ p[j + 1] = u * r  BY <1>2, <2>2
  <2>4. ASSUME j + 1 <= D PROVE Q[D + 1 - (j + 1)] < p[j + 1]
    <3>1. D - j \in 1 .. D /\ D + 1 - j = (D - j) + 1 /\ D + 1 - (j + 1) = D - j
          /\ D - j \in 1 .. D + 1 /\ (D - j) + 1 \in 1 .. D + 1
      BY <1>3, <2>4
    <3>2. PICK x \in Nat, y \in Nat : x = Q[D - j] /\ y = Q[(D - j) + 1]  BY <1>4, <3>1
    <3>3. y < u /\ x < y * r + r
      <4>1. Q[D - j] < Q[(D - j) + 1] * r + r  BY <1>5, <3>1
      <4>2. Q[D + 1 - j] < p[j]  BY <1>3, <1>7, <2>2, <2>4
      <4> QED  BY <4>1, <4>2, <2>3, <3>1, <3>2
    <3>4. x < u * r
      <4>1. x < y * 8 + 8 => x < u * 8  BY <3>3
      <4>2. x < y * 10 + 10 => x < u * 10  BY <3>3
      <4>3. x < y * 16 + 16 => x < u * 16  BY <3>3
      <4> QED  BY <4>1, <4>2, <4>3, <3>3
    <3> QED  BY <2>3, <3>1, <3>2, <3>4
  <2>5. ASSUME j + 1 < D, D > 1 PROVE Q[D - (j + 1)] >= p[j + 1]
    <3>1. D - (j + 1) \in 1 .. D /\ (D - (j + 1)) + 1 = D - j
          /\ D - j \in 1 .. D + 1 /\ D - (j + 1) \in 1 .. D + 1 /\ j < D
      BY <1>3, <2>5
    <3>2. PICK x \in Nat, y \in Nat : x = Q[D - (j + 1)] /\ y = Q[D - j]  BY <1>4, <3>1
    <3>3. y >= u /\ x >= y * r
      <4>1. Q[D - (j + 1)] >= Q[D - j] * r  BY <1>5, <3>1
      <4>2. Q[D - j] >= p[j]  BY <1>7, <2>2, <2>5, <3>1
      <4> QED  BY <4>1, <4>2, <2>3, <3>2
    <3>4. x >= u * r
      <4>1. x >= y * 8 => x >= u * 8  BY <3>3
      <4>2. x >= y * 10 => x >= u * 10  BY <3>3
      <4>3. x >= y * 16 => x >= u * 16  BY <3>3
      <4> QED  BY <4>1, <4>2, <4>3, <3>3
    <3> QED  BY <2>3, <3>2, <3>4
  <2> QED  BY <2>4, <2>5
<1> HIDE DEF S
<1>8. Nat \subseteq S  BY <1>6, <1>7, AllNaturals
<1>9. \A j \in Nat : j <= INTBITS => /\ j <= D => Q[D + 1 - j] < p[j]
                                     /\ j < D /\ D > 1 => Q[D - j] >= p[j]
  BY <1>8 DEF S
<1>10. D <= INTBITS
  <2>1. SUFFICES ASSUME D > INTBITS PROVE FALSE  BY <1>1, <1>3
  <2>2. D > 1 /\ D - INTBITS \in 1 .. D + 1  BY <1>1, <1>3, <2>1
  <2>3. Q[D - INTBITS] >= p[INTBITS]  BY <1>1, <1>9, <2>1, <2>2
  <2>4. Q[D - INTBITS] \in Nat /\ Q[D - INTBITS] <= n  BY <1>4, <2>2
  <2>5. p[INTBITS] \in Nat  BY <1>1, <1>2
  <2> QED  BY <1>1, <1>2, <2>3, <2>4, <2>5 DEF t
<1>11. n < p[D]
  <2>1. D + 1 - D = 1 /\ D \in Nat  BY <1>3
  <2> QED  BY <1>4, <1>9, <1>10, <2>1
<1>12. D > 1 => n >= p[D - 1]
  <2>1. D > 1 => D - (D - 1) = 1 /\ D - 1 \in Nat /\ D - 1 < D /\ D - 1 <= INTBITS  BY <1>1, <1>3, <1>10
  <2> QED  BY <1>4, <1>9, <2>1
<1>13. D \in 1 .. INTBITS /\ Len(Q) - 2 = D - 1  BY <1>1, <1>3, <1>10
<1> QED  BY <1>11, <1>12, <1>13 DEF p, D

(* No other length will do.                                                 *)
LEMMA NeedsOne ==
  ASSUME radix \in {8, 10, 16}, NEW n \in Nat,
         NEW d \in 1 .. INTBITS, NEW e \in 1 .. INTBITS, Needs(n, d), Needs(n, e)
  PROVE  d = e
<1> DEFINE p == Power(radix)
<1>1. /\ n < p[d] /\ (d > 1 => n >= p[d - 1]) /\ n < p[e] /\ (e > 1 => n >= p[e - 1])  BY DEF Needs
<1>2. INTBITS \in Nat  BY WordAssumption
<1>3. /\ \A i \in 0 .. INTBITS : p[i] \in Nat
      /\ \A j \in 0 .. INTBITS : \A i \in 0 .. j : p[i] <= p[j]
  BY PowersGrow
<1> HIDE DEF p
<1>4. ASSUME d < e PROVE FALSE
  <2>1. e > 1 /\ e - 1 \in 0 .. INTBITS /\ d \in 0 .. e - 1 /\ d \in 0 .. INTBITS  BY <1>2, <1>4
  <2>2. p[d] <= p[e - 1] /\ p[d] \in Nat /\ p[e - 1] \in Nat  BY <1>3, <2>1
  <2> QED  BY <1>1, <2>1, <2>2
<1>5. ASSUME e < d PROVE FALSE
  <2>1. d > 1 /\ d - 1 \in 0 .. INTBITS /\ e \in 0 .. d - 1 /\ e \in 0 .. INTBITS  BY <1>2, <1>5
  <2>2. p[e] <= p[d - 1] /\ p[e] \in Nat /\ p[d - 1] \in Nat  BY <1>3, <2>1
  <2> QED  BY <1>1, <2>1, <2>2
<1> QED  BY <1>2, <1>4, <1>5

(* What atoi reads: with the values of the digits so far, the last of them. *)
ReadTo(s, base, n, e, V) ==
  /\ Len(s) \in Nat /\ n \in 1 .. Len(s) /\ e \in n .. Len(s) /\ V[n - 1] = 0
  /\ \A m \in n .. e : s[m] \in 0 .. base - 1 /\ V[m] = V[m - 1] * base + s[m]
  /\ e < Len(s) => s[e + 1] \notin 0 .. base - 1
LEMMA DigitsAre ==
  ASSUME NEW s, NEW base \in Nat \ {0}, NEW n, NEW e, NEW V, ReadTo(s, base, n, e, V)
  PROVE  Digits(s, n, base) = V[e]
<1>0. /\ Len(s) \in Nat /\ n \in 1 .. Len(s) /\ e \in n .. Len(s) /\ V[n - 1] = 0
      /\ \A m \in n .. e : s[m] \in 0 .. base - 1 /\ V[m] = V[m - 1] * base + s[m]
      /\ e < Len(s) => s[e + 1] \notin 0 .. base - 1
  BY DEF ReadTo
<1> USE <1>0
<1> DEFINE ends == {m \in n - 1 .. Len(s) : \A i \in n .. m : s[i] \in 0 .. base - 1}
           final == CHOOSE m \in ends : \A i \in ends : i <= m
           value[m \in n - 1 .. final] == IF m = n - 1 THEN 0 ELSE value[m - 1] * base + s[m]
           U == [m \in n - 1 .. e |-> V[m]]
<1>1. Digits(s, n, base) = value[final]  BY DEF Digits
<1>2. final = e
  <2> HIDE DEF value
  <2>1. e \in ends  OBVIOUS
  <2>2. ASSUME NEW i \in ends PROVE i <= e
    <3>1. SUFFICES ASSUME e < i PROVE FALSE  OBVIOUS
    <3>2. e + 1 \in n .. i /\ e < Len(s)  BY <3>1
    <3> QED  BY <3>2
  <2>3. ends \subseteq Int  OBVIOUS
  <2> HIDE DEF ends
  <2>4. ASSUME NEW m \in ends, \A i \in ends : i <= m PROVE m = e
    <3>1. m \in Int /\ e \in Int /\ e <= m /\ m <= e  BY <2>1, <2>2, <2>3, <2>4
    <3> QED  BY <3>1
  <2> QED  BY <2>1, <2>2, <2>4
<1> HIDE DEF final, ends
<1>3. U = [m \in n - 1 .. e |-> IF m = n - 1 THEN 0 ELSE U[m - 1] * base + s[m]]
  <2>1. U = [m \in n - 1 .. e |-> U[m]]  OBVIOUS
  <2>2. \A m \in n - 1 .. e : U[m] = IF m = n - 1 THEN 0 ELSE U[m - 1] * base + s[m]
    <3> SUFFICES ASSUME NEW m \in n - 1 .. e PROVE U[m] = IF m = n - 1 THEN 0 ELSE U[m - 1] * base + s[m]
      OBVIOUS
    <3>1. CASE m = n - 1  BY <3>1
    <3>2. CASE m # n - 1
      <4>1. m \in n .. e /\ m - 1 \in n - 1 .. e  BY <3>2
      <4>2. V[m] = V[m - 1] * base + s[m]  BY <4>1
      <4> QED  BY <3>2, <4>1, <4>2
    <3> QED  BY <3>1, <3>2
  <2> HIDE DEF U
  <2> QED  BY <2>1, <2>2, Zenon
<1> DEFINE val == value
<1>4. val = [m \in n - 1 .. e |-> IF m = n - 1 THEN 0 ELSE val[m - 1] * base + s[m]]
  <2> HIDE DEF U
  <2> QED  BY <1>2, <1>3
<1>5. val[final] = value[final]  OBVIOUS
<1> HIDE DEF val, U, value
<1>6. \A m \in n - 1 .. e : val[m] = IF m = n - 1 THEN 0 ELSE val[m - 1] * base + s[m]  BY <1>4
<1> DEFINE S == {j \in Nat : n - 1 + j <= e => val[n - 1 + j] = V[n - 1 + j]}
<1>7. 0 \in S
  <2>1. n - 1 + 0 = n - 1 /\ n - 1 \in n - 1 .. e  OBVIOUS
  <2> QED  BY <1>6, <2>1
<1>8. ASSUME NEW j \in Nat, j \in S PROVE j + 1 \in S
  <2>1. SUFFICES ASSUME n - 1 + (j + 1) <= e PROVE val[n - 1 + (j + 1)] = V[n - 1 + (j + 1)]  OBVIOUS
  <2> DEFINE m == n - 1 + (j + 1)
  <2>2. m \in n .. e /\ m \in n - 1 .. e /\ m # n - 1 /\ m - 1 = n - 1 + j /\ n - 1 + j <= e  BY <2>1
  <2> HIDE DEF m
  <2>3. val[m] = val[m - 1] * base + s[m] /\ V[m] = V[m - 1] * base + s[m]  BY <1>6, <2>2
  <2>4. val[m - 1] = V[m - 1]  BY <1>8, <2>2
  <2> QED  BY <2>3, <2>4 DEF m
<1> HIDE DEF S
<1>9. Nat \subseteq S  BY <1>7, <1>8, AllNaturals
<1>10. PICK k \in Nat : n - 1 + k = e
  <2>1. e - (n - 1) \in Nat /\ n - 1 + (e - (n - 1)) = e  OBVIOUS
  <2> QED  BY <2>1
<1>11. n - 1 + k <= e => val[n - 1 + k] = V[n - 1 + k]  BY <1>9 DEF S
<1>12. val[e] = V[e]
  <2>1. n - 1 + k <= e  BY <1>10
  <2> QED  BY <1>10, <1>11, <2>1
<1> QED  BY <1>1, <1>2, <1>5, <1>12

(* The magnitude of a number fits in a word, that of the smallest too.      *)
LEMMA Magnitudes ==
  ASSUME num \in Signed
  PROVE  /\ Magnitude \in Nat /\ Magnitude < Power(2)[INTBITS] /\ num \in Int
         /\ Minus => Magnitude = -num
         /\ num >= 0 => Magnitude = num
<1> DEFINE h == Power(2)[INTBITS - 1]
           w == Power(2)[INTBITS]
<1>1. h \in Nat \ {0} /\ w = h * 2
  <2>1. INTBITS \in 1 .. INTBITS /\ INTBITS - 1 \in 0 .. INTBITS  BY WordAssumption
  <2> QED  BY <2>1, PowersGrow
<1>2. num \in -h .. h - 1  BY DEF Signed
<1>3. Magnitude = (IF Minus THEN -num ELSE num) % w  BY DEF Magnitude, Unsigned
<1> HIDE DEF h, w
<1>4. w \in Nat \ {0} /\ num \in Int /\ (num < 0 => -num \in 0 .. w - 1) /\ (num >= 0 => num \in 0 .. w - 1)
  BY <1>1, <1>2
<1>5. \A x \in Int : x % w \in 0 .. w - 1 /\ (x \in 0 .. w - 1 => x % w = x)  BY <1>4, SMT
<1>6. Minus => num < 0  BY DEF Minus
<1>7. (IF Minus THEN -num ELSE num) \in Int  BY <1>4
<1>8. Magnitude \in 0 .. w - 1  BY <1>3, <1>5, <1>7
<1>9. Minus => Magnitude = -num  BY <1>3, <1>4, <1>5, <1>6
<1>10. num >= 0 => Magnitude = num  BY <1>3, <1>4, <1>5, <1>6
<1> QED  BY <1>4, <1>8, <1>9, <1>10 DEF w

(* A sequence that begins with h, then has the digits of the number from    *)
(* the last to the first, and then only c.                                  *)
Laid(s, Q, h, r, c) ==
  /\ s \in Seq(Int) /\ Len(s) >= Len(h) + Len(Q) - 1
  /\ \A i \in 1 .. Len(h) : s[i] = h[i]
  /\ \A i \in 1 .. Len(Q) - 1 : s[Len(h) + i] = Q[i] % r
  /\ \A i \in Len(h) + Len(Q) .. Len(s) : s[i] = c
(* A sequence that is w with the places behind k exchanged with those that  *)
(* mirror them, from both ends up to place j.                               *)
Mirror(w, k, i) == Len(w) + k + 1 - i
TurnedTo(s, w, k, j) ==
  /\ s \in Seq(Int) /\ Len(s) = Len(w)
  /\ \A i \in 1 .. Len(w) :
       s[i] = IF i > k /\ (i <= j \/ Mirror(w, k, i) <= j) THEN w[Mirror(w, k, i)] ELSE w[i]
(* It is w turned round behind k, and blanks behind it.                     *)
TurnedRound(s, w, k) ==
  /\ s \in Seq(Int) /\ Len(s) >= Len(w)
  /\ \A i \in 1 .. Len(w) : s[i] = IF i > k THEN w[Mirror(w, k, i)] ELSE w[i]
  /\ \A i \in Len(w) + 1 .. Len(s) : s[i] = BLANK

(* Each step of the loops, on what is there.                                *)
LEMMA OneDigit ==
  ASSUME NEW r \in {8, 10, 16}, NEW n \in Nat, NEW h \in Seq(Int), NEW c \in Int, NEW Q, NEW s, NEW u,
         Quotients(Q, n, r), Laid(s, Q, h, r, c), Len(s) = Len(h) + Len(Q) - 1,
         u = Q[Len(Q)], Len(Q) > 1 => u # 0
  PROVE  /\ u \in Nat /\ u \div r \in Nat
         /\ Quotients(Append(Q, u \div r), n, r) /\ Laid(Append(s, u % r), Append(Q, u \div r), h, r, c)
         /\ Len(Append(Q, u \div r)) = Len(Q) + 1 /\ Append(Q, u \div r)[Len(Q) + 1] = u \div r
         /\ Len(Append(s, u % r)) = Len(h) + Len(Q)
<1>1. /\ Q \in Seq(Nat) /\ Len(Q) \in Nat \ {0} /\ Q[1] = n /\ Len(h) \in Nat /\ s \in Seq(Int) /\ Len(s) \in Nat
      /\ (\A i \in 1 .. Len(Q) : Q[i] \in Nat /\ Q[i] <= n)
      /\ (\A i \in 1 .. Len(Q) - 1 : Q[i + 1] = Q[i] \div r /\ (i > 1 => Q[i] # 0))
      /\ (\A i \in 1 .. Len(h) : s[i] = h[i]) /\ (\A i \in 1 .. Len(Q) - 1 : s[Len(h) + i] = Q[i] % r)
  BY DEF Quotients, Laid
<1>0. Len(Q) \in Nat \ {0} /\ Len(h) \in Nat /\ Len(s) \in Nat /\ Len(s) = Len(h) + Len(Q) - 1  BY <1>1
<1>2. u \in Nat /\ u <= n  BY <1>1
<1>3. PICK d \in Nat, m \in Int : d = u \div r /\ m = u % r /\ d <= u  BY <1>2, Dividing
<1> DEFINE P == Append(Q, d)
           t == Append(s, m)
<1>4. /\ P \in Seq(Nat) /\ Len(P) = Len(Q) + 1 /\ P[Len(Q) + 1] = d
      /\ \A i \in 1 .. Len(Q) : P[i] = Q[i]
  BY <1>1, <1>3
<1>5. /\ t \in Seq(Int) /\ Len(t) = Len(s) + 1 /\ t[Len(s) + 1] = m
      /\ \A i \in 1 .. Len(s) : t[i] = s[i]
  BY <1>1, <1>3, SMTT(30)
<1> HIDE DEF P, t
<1>6. Quotients(P, n, r)
  <2>1. Len(P) >= 1 /\ P[1] = n  BY <1>1, <1>4, SMTT(30)
  <2>2. ASSUME NEW i \in 1 .. Len(P) PROVE P[i] \in Nat /\ P[i] <= n
    <3>1. CASE i = Len(Q) + 1  BY <3>1, <1>2, <1>3, <1>4
    <3>2. CASE i # Len(Q) + 1
      <4>1. i \in 1 .. Len(Q)  BY <3>2, <1>1, <1>4
      <4> QED  BY <4>1, <1>1, <1>4
    <3> QED  BY <3>1, <3>2
  <2>3. ASSUME NEW i \in 1 .. Len(P) - 1 PROVE P[i + 1] = P[i] \div r /\ (i > 1 => P[i] # 0)
    <3>1. i \in 1 .. Len(Q) /\ P[i] = Q[i]  BY <1>1, <1>4
    <3>2. CASE i = Len(Q)  BY <3>1, <3>2, <1>3, <1>4
    <3>3. CASE i # Len(Q)
      <4>1. i \in 1 .. Len(Q) - 1 /\ i + 1 \in 1 .. Len(Q)  BY <3>1, <3>3, <1>1
      <4> QED  BY <3>1, <4>1, <1>1, <1>4
    <3> QED  BY <3>2, <3>3
  <2> QED  BY <1>4, <2>1, <2>2, <2>3 DEF Quotients
<1>7. Laid(t, P, h, r, c)
  <2>1. Len(t) >= Len(h) + Len(P) - 1  BY <1>1, <1>4, <1>5
  <2>2. ASSUME NEW i \in 1 .. Len(h) PROVE t[i] = h[i]
    <3>1. i \in 1 .. Len(s)  BY <1>1
    <3> QED  BY <3>1, <1>1, <1>5
  <2>3. ASSUME NEW i \in 1 .. Len(P) - 1 PROVE t[Len(h) + i] = P[i] % r
    <3>1. i \in 1 .. Len(Q) /\ P[i] = Q[i]  BY <1>1, <1>4
    <3>2. CASE i = Len(Q)
      <4>1. Len(h) + i = Len(s) + 1  BY <3>2, <1>1
      <4> QED  BY <4>1, <3>1, <3>2, <1>3, <1>5
    <3>3. CASE i # Len(Q)
      <4>1. i \in 1 .. Len(Q) - 1 /\ Len(h) + i \in 1 .. Len(s)  BY <3>1, <3>3, <1>0
      <4> QED  BY <4>1, <3>1, <1>1, <1>5
    <3> QED  BY <3>2, <3>3
  <2>4. \A i \in Len(h) + Len(P) .. Len(t) : t[i] = c  BY <1>1, <1>4, <1>5
  <2> QED  BY <1>5, <2>1, <2>2, <2>3, <2>4 DEF Laid
<1>8. Len(t) = Len(h) + Len(Q)  BY <1>1, <1>5
<1> QED  BY <1>2, <1>3, <1>4, <1>6, <1>7, <1>8 DEF P, t

LEMMA OnePad ==
  ASSUME NEW r, NEW h \in Seq(Int), NEW c \in Int, NEW Q, Len(Q) \in Nat \ {0}, NEW s, Laid(s, Q, h, r, c)
  PROVE  Laid(Append(s, c), Q, h, r, c) /\ Len(Append(s, c)) = Len(s) + 1
<1> DEFINE t == Append(s, c)
<1>1. /\ s \in Seq(Int) /\ Len(s) \in Nat /\ Len(h) \in Nat /\ Len(s) >= Len(h) + Len(Q) - 1
      /\ (\A i \in 1 .. Len(h) : s[i] = h[i]) /\ (\A i \in 1 .. Len(Q) - 1 : s[Len(h) + i] = Q[i] % r)
      /\ (\A i \in Len(h) + Len(Q) .. Len(s) : s[i] = c)
  BY DEF Laid
<1>2. /\ t \in Seq(Int) /\ Len(t) = Len(s) + 1 /\ t[Len(s) + 1] = c
      /\ \A i \in 1 .. Len(s) : t[i] = s[i]
  BY <1>1
<1>0. Len(s) \in Nat /\ Len(h) \in Nat /\ Len(s) >= Len(h) + Len(Q) - 1 /\ Len(t) = Len(s) + 1  BY <1>1, <1>2
<1> HIDE DEF t
<1>3. ASSUME NEW i \in 1 .. Len(h) PROVE t[i] = h[i]
  <2>1. i \in 1 .. Len(s)  BY <1>0
  <2> QED  BY <2>1, <1>1, <1>2
<1>4. ASSUME NEW i \in 1 .. Len(Q) - 1 PROVE t[Len(h) + i] = Q[i] % r
  <2>1. Len(h) + i \in 1 .. Len(s)  BY <1>0
  <2> QED  BY <2>1, <1>1, <1>2
<1>5. ASSUME NEW i \in Len(h) + Len(Q) .. Len(t) PROVE t[i] = c
  <2>1. CASE i = Len(s) + 1  BY <2>1, <1>2
  <2>2. CASE i # Len(s) + 1
    <3>1. i \in 1 .. Len(s) /\ i \in Len(h) + Len(Q) .. Len(s)  BY <2>2, <1>0
    <3> QED  BY <3>1, <1>1, <1>2
  <2> QED  BY <2>1, <2>2
<1>6. Len(t) >= Len(h) + Len(Q) - 1  BY <1>0
<1> QED  BY <1>2, <1>3, <1>4, <1>5, <1>6 DEF Laid, t

(* Two places change, from the ends.                                        *)
LEMMA OneTurn ==
  ASSUME NEW k \in Nat, NEW w, Len(w) \in Nat, NEW s, NEW j \in Nat, j >= k, j <= (Len(w) + k - 1) \div 2,
         TurnedTo(s, w, k, j)
  PROVE  LET p == j + 1
             q == Len(w) + k - j
         IN  TurnedTo([s EXCEPT ![p] = s[q], ![q] = s[p]], w, k, j + 1)
<1> DEFINE p == j + 1
           q == Len(w) + k - j
           t == [s EXCEPT ![p] = s[q], ![q] = s[p]]
<1>0. /\ p \in Nat /\ q \in Nat /\ p <= q /\ q <= Len(w) /\ p > k /\ q > k /\ ~(p <= j) /\ ~(q <= j)
      /\ Mirror(w, k, p) = q /\ Mirror(w, k, q) = p
  BY SMT DEF Mirror
<1>1. /\ s \in Seq(Int) /\ Len(s) = Len(w)
      /\ \A i \in 1 .. Len(w) :
           s[i] = IF i > k /\ (i <= j \/ Mirror(w, k, i) <= j) THEN w[Mirror(w, k, i)] ELSE w[i]
  BY DEF TurnedTo
<1>2. p \in 1 .. Len(w) /\ q \in 1 .. Len(w)  BY <1>0
<1>3. s[p] = w[p] /\ s[q] = w[q]  BY <1>0, <1>1, <1>2
<1>4. /\ t \in Seq(Int) /\ Len(t) = Len(w)
      /\ t[p] = s[q] /\ t[q] = s[p] /\ \A i \in 1 .. Len(w) : i # p /\ i # q => t[i] = s[i]
  <2> HIDE DEF p, q
  <2>1. \A i \in 1 .. Len(w) : s[i] \in Int  BY <1>1
  <2> QED  BY <1>1, <1>2, <2>1, SMTT(30)
<1>5. ASSUME NEW i \in 1 .. Len(w)
      PROVE  t[i] = IF i > k /\ (i <= j + 1 \/ Mirror(w, k, i) <= j + 1) THEN w[Mirror(w, k, i)] ELSE w[i]
  <2>1. CASE i = p
    <3>1. t[i] = w[q]  BY <2>1, <1>3, <1>4
    <3>2. i > k /\ i <= j + 1 /\ Mirror(w, k, i) = q  BY <2>1, <1>0
    <3> QED  BY <3>1, <3>2
  <2>2. CASE i = q
    <3>1. t[i] = w[p]  BY <2>2, <1>3, <1>4
    <3>2. i > k /\ Mirror(w, k, i) <= j + 1 /\ Mirror(w, k, i) = p
      <4> QED  BY <2>2, <1>0
    <3> QED  BY <3>1, <3>2
  <2>3. CASE i # p /\ i # q
    <3>1. (i <= j + 1 <=> i <= j) /\ (Mirror(w, k, i) <= j + 1 <=> Mirror(w, k, i) <= j)
      BY <2>3 DEF Mirror
    <3>2. t[i] = s[i]  BY <2>3, <1>4
    <3> HIDE DEF t, p, q
    <3> QED  BY <3>1, <3>2, <1>1
  <2> QED  BY <2>1, <2>2, <2>3
<1> HIDE DEF t
<1>6. TurnedTo(t, w, k, j + 1)  BY <1>4, <1>5 DEF TurnedTo
<1> QED  BY <1>6 DEF t

LEMMA AllTurned ==
  ASSUME NEW k \in Nat, NEW w, Len(w) \in Nat, NEW s, NEW j \in Nat, j > (Len(w) + k - 1) \div 2,
         TurnedTo(s, w, k, j)
  PROVE  TurnedRound(s, w, k) /\ Len(s) = Len(w)
<1>1. /\ s \in Seq(Int) /\ Len(s) = Len(w)
      /\ \A i \in 1 .. Len(w) :
           s[i] = IF i > k /\ (i <= j \/ Mirror(w, k, i) <= j) THEN w[Mirror(w, k, i)] ELSE w[i]
  BY DEF TurnedTo
<1>2. \A i \in 1 .. Len(w) : i > k => i <= j \/ Mirror(w, k, i) <= j  BY SMT DEF Mirror
<1>3. \A i \in 1 .. Len(w) : s[i] = IF i > k THEN w[Mirror(w, k, i)] ELSE w[i]  BY <1>1, <1>2
<1>4. \A i \in Len(w) + 1 .. Len(s) : s[i] = BLANK  BY <1>1
<1>5. Len(s) >= Len(w)  BY <1>1
<1> QED  BY <1>1, <1>3, <1>4, <1>5 DEF TurnedRound

LEMMA OneBlank ==
  ASSUME NEW k \in Nat, NEW w, Len(w) \in Nat, NEW s, TurnedRound(s, w, k)
  PROVE  TurnedRound(Append(s, BLANK), w, k) /\ Len(Append(s, BLANK)) = Len(s) + 1
<1> DEFINE t == Append(s, BLANK)
<1>1. /\ s \in Seq(Int) /\ Len(s) \in Nat /\ Len(s) >= Len(w) /\ BLANK \in Int
      /\ \A i \in 1 .. Len(w) : s[i] = IF i > k THEN w[Mirror(w, k, i)] ELSE w[i]
      /\ \A i \in Len(w) + 1 .. Len(s) : s[i] = BLANK
  BY DEF TurnedRound, BLANK
<1>2. /\ t \in Seq(Int) /\ Len(t) = Len(s) + 1 /\ t[Len(s) + 1] = BLANK
      /\ \A i \in 1 .. Len(s) : t[i] = s[i]
  BY <1>1
<1>0. Len(s) \in Nat /\ Len(s) >= Len(w) /\ Len(t) = Len(s) + 1  BY <1>1, <1>2
<1> HIDE DEF t
<1>3. ASSUME NEW i \in 1 .. Len(w) PROVE t[i] = IF i > k THEN w[Mirror(w, k, i)] ELSE w[i]
  <2>1. i \in 1 .. Len(s)  BY <1>0
  <2>2. t[i] = s[i]  BY <2>1, <1>2
  <2> QED  BY <2>2, <1>1
<1>4. ASSUME NEW i \in Len(w) + 1 .. Len(t) PROVE t[i] = BLANK
  <2>1. CASE i = Len(s) + 1  BY <2>1, <1>2
  <2>2. CASE i # Len(s) + 1
    <3>1. i \in 1 .. Len(s) /\ i \in Len(w) + 1 .. Len(s)  BY <2>2, <1>0
    <3> QED  BY <3>1, <1>1, <1>2
  <2> QED  BY <2>1, <2>2
<1>5. Len(t) >= Len(w)  BY <1>0
<1> QED  BY <1>2, <1>3, <1>4, <1>5 DEF TurnedRound, t

(* Turned round, the digits are in the order in which they are read: behind *)
(* blanks, if there are any, and before blanks.                             *)
Reads(s, w, Q, h, r, n, c) ==
  \E first \in Len(h) + 1 .. Len(s) : \E final \in first .. Len(s) :
    /\ \A i \in Len(h) + 1 .. first - 1 : s[i] = BLANK
    /\ \A i \in final + 1 .. Len(s) : s[i] = BLANK
    /\ \A i \in first .. final : s[i] \in 0 .. r - 1
    /\ Digits(s, first, r) = n
    /\ c = 0 \/ Len(w) = Len(h) + Len(Q) - 1 => first = Len(h) + 1
LEMMA Readable ==
  ASSUME NEW r \in {8, 10, 16}, NEW n \in Nat, NEW h \in Seq(Int), NEW c \in {0, BLANK}, NEW Q, NEW w, NEW s,
         Complete(Q, n, r), Laid(w, Q, h, r, c), TurnedRound(s, w, Len(h))
  PROVE  Reads(s, w, Q, h, r, n, c)
<1> DEFINE k == Len(h)
           e == Len(w)
           D == Len(Q) - 1
           first == IF c = 0 THEN k + 1 ELSE e - D + 1
           V == [m \in 0 .. e |-> IF e - m <= D THEN Q[e - m + 1] ELSE 0]
<1>1. /\ k \in Nat /\ e \in Nat /\ D \in Nat \ {0} /\ e >= k + D /\ Len(s) \in Nat /\ Len(s) >= e
      /\ Len(Q) = D + 1
  <2>1. Len(Q) \in Nat /\ Len(Q) >= 2  BY DEF Complete, Quotients
  <2>2. Len(h) \in Nat /\ Len(w) \in Nat /\ Len(w) >= Len(h) + Len(Q) - 1  BY DEF Laid
  <2>3. Len(s) \in Nat /\ Len(s) >= Len(w)  BY DEF TurnedRound
  <2>4. D \in Nat \ {0} /\ Len(Q) = D + 1
    <3>1. PICK l \in Nat : l = Len(Q) /\ l >= 2  BY <2>1
    <3>2. l - 1 \in Nat \ {0} /\ (l - 1) + 1 = l  BY <3>1
    <3> QED  BY <3>1, <3>2
  <2>5. k \in Nat /\ e \in Nat /\ e >= k + Len(Q) - 1  BY <2>2
  <2>6. Len(s) \in Nat /\ Len(s) >= e  BY <2>3
  <2> HIDE DEF V, first, k, e, D
  <2> QED  BY <2>4, <2>5, <2>6
<1>2. /\ Q[1] = n /\ Q[D + 1] = 0 /\ (\A i \in 1 .. D : Q[i] \in Nat /\ Q[i + 1] = Q[i] \div r /\ Q[i + 1] \in Nat)
      /\ (\A i \in 1 .. D : w[k + i] = Q[i] % r) /\ (\A i \in k + D + 1 .. e : w[i] = c)
  <2>1. /\ Q[1] = n /\ Q[Len(Q)] = 0 /\ (\A i \in 1 .. Len(Q) : Q[i] \in Nat)
        /\ (\A i \in 1 .. Len(Q) - 1 : Q[i + 1] = Q[i] \div r)
    BY DEF Complete, Quotients
  <2>2. (\A i \in 1 .. Len(Q) - 1 : w[k + i] = Q[i] % r) /\ (\A i \in k + Len(Q) .. e : w[i] = c)
    BY DEF Laid
  <2>3. k + D + 1 = k + Len(Q)  BY <1>1
  <2>4. \A i \in 1 .. D : i \in 1 .. Len(Q) /\ i + 1 \in 1 .. Len(Q)  BY <1>1
  <2> HIDE DEF k, e
  <2> QED  BY <1>1, <2>1, <2>2, <2>3, <2>4
<1>3. /\ (\A i \in k + 1 .. e : s[i] = w[e + k + 1 - i])
      /\ (\A i \in e + 1 .. Len(s) : s[i] = BLANK)
  <2>1. \A i \in 1 .. e : s[i] = IF i > k THEN w[Mirror(w, k, i)] ELSE w[i]  BY DEF TurnedRound
  <2>2. \A i \in k + 1 .. e : i \in 1 .. e /\ i > k  BY <1>1
  <2>3. \A i \in e + 1 .. Len(s) : s[i] = BLANK  BY DEF TurnedRound
  <2> QED  BY <2>1, <2>2, <2>3 DEF Mirror
<1> HIDE DEF k, e, D
<1>4. /\ first \in k + 1 .. e - D + 1 /\ first \in 1 .. Len(s) /\ first <= e /\ first \in Int
      /\ (c = 0 => first = k + 1) /\ (c # 0 => first = e - D + 1)
  BY <1>1
<1> HIDE DEF first
<1>5. \A m \in 0 .. e : V[m] = IF e - m <= D THEN Q[e - m + 1] ELSE 0  OBVIOUS
<1> HIDE DEF V
<1>6. V[e] = n
  <2>1. e \in 0 .. e /\ e - e <= D /\ e - e + 1 = 1  BY <1>1
  <2> QED  BY <1>2, <1>5, <2>1
<1>7. V[first - 1] = 0
  <2>1. first - 1 \in 0 .. e /\ e - (first - 1) >= D  BY <1>1, <1>4
  <2>2. e - (first - 1) <= D => e - (first - 1) + 1 = D + 1  BY <1>1, <1>4, <2>1
  <2> QED  BY <1>2, <1>5, <2>1, <2>2
<1>8. ASSUME NEW m \in first .. e PROVE s[m] \in 0 .. r - 1 /\ V[m] = V[m - 1] * r + s[m]
  <2> DEFINE i == e + 1 - m
  <2>1. /\ i \in 1 .. e - k /\ m \in k + 1 .. e /\ e + k + 1 - m = k + i /\ m \in 0 .. e /\ m - 1 \in 0 .. e
        /\ e - m = i - 1 /\ e - m + 1 = i /\ e - (m - 1) = i /\ e - (m - 1) + 1 = i + 1
    BY <1>1, <1>4
  <2> HIDE DEF i
  <2>2. s[m] = w[k + i]  BY <1>3, <2>1
  <2>3. V[m] = (IF i - 1 <= D THEN Q[i] ELSE 0) /\ V[m - 1] = (IF i <= D THEN Q[i + 1] ELSE 0)
    BY <1>5, <2>1
  <2>4. CASE i <= D
    <3>1. i \in 1 .. D /\ i - 1 <= D  BY <1>1, <2>1, <2>4
    <3>2. PICK x \in Nat, y \in Nat : x = Q[i] /\ y = Q[i + 1] /\ y = x \div r /\ s[m] = x % r
      BY <1>2, <2>2, <3>1
    <3>3. x % r \in 0 .. r - 1 /\ x = y * r + (x % r)  BY <3>2, Dividing, ZenonT(60)
    <3>4. V[m] = x /\ V[m - 1] = y  BY <2>3, <2>4, <3>1, <3>2
    <3> QED  BY <3>2, <3>3, <3>4
  <2>5. CASE ~(i <= D)
    <3>1. k + i \in k + D + 1 .. e /\ (i - 1 <= D => i = D + 1)  BY <1>1, <2>1, <2>5
    <3>2. c = 0  BY <1>1, <1>4, <2>1, <2>5
    <3>3. s[m] = 0 /\ V[m] = 0 /\ V[m - 1] = 0  BY <1>2, <2>2, <2>3, <2>5, <3>1, <3>2
    <3>4. 0 \in 0 .. r - 1 /\ 0 = 0 * r + 0  OBVIOUS
    <3> QED  BY <3>3, <3>4
  <2> QED  BY <2>4, <2>5
<1>9. e < Len(s) => s[e + 1] \notin 0 .. r - 1
  <2>1. BLANK \notin 0 .. r - 1  BY DEF BLANK
  <2>2. e < Len(s) => e + 1 \in e + 1 .. Len(s)  BY <1>1
  <2> QED  BY <1>3, <2>1, <2>2
<1>10. Digits(s, first, r) = n
  <2>1. r \in Nat \ {0} /\ Len(s) \in Nat /\ first \in 1 .. Len(s) /\ e \in first .. Len(s)  BY <1>1, <1>4
  <2>2. \A m \in first .. e : s[m] \in 0 .. r - 1 /\ V[m] = V[m - 1] * r + s[m]  BY <1>8
  <2>4. ReadTo(s, r, first, e, V)  BY <1>7, <1>9, <2>1, <2>2 DEF ReadTo
  <2>3. Digits(s, first, r) = V[e]  BY <2>1, <2>4, DigitsAre
  <2> QED  BY <1>6, <2>3
<1>11. ASSUME NEW i \in k + 1 .. first - 1 PROVE s[i] = BLANK
  <2>1. c # 0 /\ c = BLANK /\ i <= e - D  BY <1>1, <1>4, <1>11
  <2>2. i \in k + 1 .. e /\ e + k + 1 - i \in k + D + 1 .. e  BY <1>1, <1>4, <2>1
  <2> QED  BY <1>2, <1>3, <2>1, <2>2
<1>12. c = 0 \/ e = k + Len(Q) - 1 => first = k + 1  BY <1>1, <1>4
<1>13. first \in k + 1 .. Len(s) /\ e \in first .. Len(s)  BY <1>1, <1>4
<1>14. \A i \in first .. e : s[i] \in 0 .. r - 1  BY <1>8
<1>15. /\ \A i \in k + 1 .. first - 1 : s[i] = BLANK
       /\ \A i \in e + 1 .. Len(s) : s[i] = BLANK
  BY <1>3, <1>11
<1> QED  BY <1>10, <1>12, <1>13, <1>14, <1>15 DEF k, e, Reads

(* What str holds while it is written.  Nothing remembers the quotients, nor *)
(* the characters before they are turned round: there are a Q and a w that  *)
(* account for what is there.                                               *)
Lead == SignOf \o Prefix
PadChar == IF "ZEROPAD" \in type THEN 0 ELSE BLANK
Digitized(w, Q) ==
  /\ Complete(Q, Magnitude, radix) /\ Laid(w, Q, Lead, radix, PadChar)
  /\ Len(w) = Len(Lead) + Len(Q) - 1 \/ ("LEFT" \notin type /\ Len(w) <= width)
PaddedTo(w, Q) == Digitized(w, Q) /\ ("LEFT" \in type \/ Len(w) >= width)
Counting ==
  \E Q : /\ Quotients(Q, Magnitude, radix) /\ Laid(str, Q, Lead, radix, PadChar)
         /\ Len(str) = Len(Lead) + Len(Q) - 1 /\ unum = Q[Len(Q)] /\ (Len(Q) > 1 => unum # 0)
Turning == \E w, Q : PaddedTo(w, Q) /\ TurnedTo(str, w, kept, at) /\ at \in Nat /\ at >= kept
Finishing == \E w, Q : /\ PaddedTo(w, Q) /\ TurnedRound(str, w, kept)
                       /\ Len(str) = Len(w) \/ Len(str) <= width
WriteInv ==
  /\ num \in Signed /\ width \in Int /\ radix \in {8, 10, 16}
  /\ ipc \in {"sign", "digits", "pad", "turn", "fill", "done"}
  /\ ipc # "sign" => kept = Len(Lead)
  /\ ipc = "digits" => Counting
  /\ ipc = "pad" => \E Q : Digitized(str, Q)
  /\ ipc = "turn" => Turning
  /\ ipc \in {"fill", "done"} => Finishing
  /\ ipc = "done" => Len(str) >= width

LEMMA LeadIs ==
  ASSUME radix \in {8, 10, 16}
  PROVE  /\ Lead \in Seq(Int) /\ Len(Lead) \in Nat /\ PadChar \in Int /\ PadChar \in {0, BLANK}
         /\ radix = 10 => Lead = SignOf
<1>1. SignOf \in Seq(Int) /\ Prefix \in Seq(Int)  BY DEF SignOf, Prefix, MINUS, PLUS, X
<1>2. PadChar \in Int /\ PadChar \in {0, BLANK}  BY DEF PadChar, BLANK
<1>3. radix = 10 => Prefix = <<>>  BY DEF Prefix
<1> QED  BY <1>1, <1>2, <1>3 DEF Lead

(* The arguments stay what they were, and with them all that is to be       *)
(* written.                                                                 *)
LEMMA ArgumentsStay ==
  ASSUME UNCHANGED <<num, radix, width, type>>
  PROVE  /\ num' = num /\ width' = width /\ radix' = radix /\ type' = type
         /\ Magnitude' = Magnitude /\ Lead' = Lead /\ PadChar' = PadChar
         /\ \A w, Q : Digitized(w, Q)' <=> Digitized(w, Q)
         /\ \A w, Q : PaddedTo(w, Q)' <=> PaddedTo(w, Q)
<1>1. num' = num /\ width' = width /\ radix' = radix /\ type' = type  OBVIOUS
<1>2. Minus' <=> Minus  BY <1>1 DEF Minus
<1>3. Magnitude' = Magnitude  BY <1>1, <1>2 DEF Magnitude
<1>4. SignOf' = SignOf /\ Prefix' = Prefix  BY <1>1, <1>2 DEF SignOf, Prefix
<1>5. Lead' = Lead  BY <1>4 DEF Lead
<1>6. PadChar' = PadChar  BY <1>1 DEF PadChar
<1>7. ASSUME NEW w, NEW Q PROVE Digitized(w, Q)' <=> Digitized(w, Q)
  BY <1>1, <1>3, <1>5, <1>6 DEF Digitized
<1>8. ASSUME NEW w, NEW Q PROVE PaddedTo(w, Q)' <=> PaddedTo(w, Q)
  BY <1>1, <1>7 DEF PaddedTo
<1> QED  BY <1>1, <1>3, <1>5, <1>6, <1>7, <1>8

LEMMA WriteBegins == ItoaInit => WriteInv
<1> SUFFICES ASSUME ItoaInit PROVE WriteInv  OBVIOUS
<1>1. num \in Signed /\ width \in -1 .. WIDTH /\ ipc = "sign"  BY DEF ItoaInit, ItoaFrom
<1>2. PICK c \in Letter : radix = Radix(c)  BY DEF ItoaInit, ItoaFrom
<1>3. radix \in {8, 10, 16}  BY <1>2 DEF Letter, Radix
<1>4. width \in Int  BY <1>1, WordAssumption
<1> QED  BY <1>1, <1>3, <1>4 DEF WriteInv

(* Every action keeps the invariant.                                        *)
LEMMA SignKeeps == ASSUME WriteInv, Sign PROVE WriteInv'
<1>1. /\ ipc' = "digits" /\ unum' = Magnitude /\ str' = Lead /\ kept' = Len(str')
      /\ UNCHANGED <<num, radix, width, type>>
  BY DEF Sign, Lead
<1>2. num \in Signed /\ width \in Int /\ radix \in {8, 10, 16}  BY DEF WriteInv
<1>3. Magnitude \in Nat  BY <1>2, Magnitudes
<1>4. Lead \in Seq(Int) /\ Len(Lead) \in Nat  BY <1>2, LeadIs
<1> DEFINE Q == <<Magnitude>>
<1>5. Q \in Seq(Nat) /\ Len(Q) = 1 /\ Q[1] = Magnitude  BY <1>3
<1> HIDE DEF Q
<1>6. Quotients(Q, Magnitude, radix)  BY <1>3, <1>5 DEF Quotients
<1>7. Laid(Lead, Q, Lead, radix, PadChar)  BY <1>4, <1>5 DEF Laid
<1>8. Len(Lead) = Len(Lead) + Len(Q) - 1 /\ Magnitude = Q[Len(Q)]  BY <1>4, <1>5
<1>9. Magnitude' = Magnitude /\ Lead' = Lead /\ PadChar' = PadChar  BY <1>1, ArgumentsStay
<1>10. Counting'
  <2>1. ~(Len(Q) > 1)  BY <1>5
  <2> QED  BY <1>1, <1>6, <1>7, <1>8, <1>9, <2>1 DEF Counting
<1> QED  BY <1>1, <1>2, <1>9, <1>10 DEF WriteInv

LEMMA DigitKeeps == ASSUME WriteInv, Digit PROVE WriteInv'
<1>1. /\ ipc = "digits" /\ str' = Append(str, unum % radix) /\ unum' = unum \div radix
      /\ ipc' = (IF unum' = 0 THEN "pad" ELSE "digits") /\ kept' = kept
      /\ UNCHANGED <<num, radix, width, type>>
  BY DEF Digit
<1>2. num \in Signed /\ width \in Int /\ radix \in {8, 10, 16} /\ kept = Len(Lead) /\ Counting
  BY <1>1 DEF WriteInv
<1>3. PICK Q : /\ Quotients(Q, Magnitude, radix) /\ Laid(str, Q, Lead, radix, PadChar)
               /\ Len(str) = Len(Lead) + Len(Q) - 1 /\ unum = Q[Len(Q)] /\ (Len(Q) > 1 => unum # 0)
  BY <1>2 DEF Counting
<1>4. Magnitude \in Nat /\ Lead \in Seq(Int) /\ Len(Lead) \in Nat /\ PadChar \in Int
  BY <1>2, Magnitudes, LeadIs
<1>5. PICK P :
      /\ unum' \in Nat /\ Quotients(P, Magnitude, radix) /\ Laid(str', P, Lead, radix, PadChar)
      /\ Len(P) = Len(Q) + 1 /\ P[Len(Q) + 1] = unum' /\ Len(str') = Len(Lead) + Len(Q)
  <2> DEFINE P == Append(Q, unum \div radix)
  <2>1. /\ unum \div radix \in Nat /\ Quotients(P, Magnitude, radix)
        /\ Laid(Append(str, unum % radix), P, Lead, radix, PadChar)
        /\ Len(P) = Len(Q) + 1 /\ P[Len(Q) + 1] = unum \div radix
        /\ Len(Append(str, unum % radix)) = Len(Lead) + Len(Q)
    BY <1>2, <1>3, <1>4, OneDigit
  <2> HIDE DEF P
  <2> QED  BY <1>1, <2>1
<1>6. Len(Q) \in Nat \ {0}  BY <1>3 DEF Quotients
<1>7. Len(str') = Len(Lead) + Len(P) - 1 /\ unum' = P[Len(P)] /\ Len(P) >= 2  BY <1>4, <1>5, <1>6
<1>8. /\ Magnitude' = Magnitude /\ Lead' = Lead /\ PadChar' = PadChar
  BY <1>1, ArgumentsStay
<1>9. CASE unum' = 0
  <2>1. Complete(P, Magnitude, radix)  BY <1>5, <1>7, <1>9 DEF Complete
  <2>2. Digitized(str, P)'
    BY <1>1, <1>5, <1>7, <1>8, <2>1 DEF Digitized
  <2> QED  BY <1>1, <1>2, <1>8, <1>9, <2>2 DEF WriteInv
<1>10. CASE unum' # 0
  <2>1. Counting'
    BY <1>1, <1>5, <1>7, <1>8, <1>10 DEF Counting
  <2> QED  BY <1>1, <1>2, <1>8, <1>10, <2>1 DEF WriteInv
<1> QED  BY <1>9, <1>10

LEMMA PadKeeps == ASSUME WriteInv, Pad PROVE WriteInv'
<1>1. /\ ipc = "pad" /\ "LEFT" \notin type /\ Len(str) < width /\ str' = Append(str, PadChar)
      /\ ipc' = ipc /\ kept' = kept
      /\ UNCHANGED <<num, radix, width, type>>
  BY DEF Pad, PadChar
<1>2. num \in Signed /\ width \in Int /\ radix \in {8, 10, 16} /\ kept = Len(Lead)
  BY <1>1 DEF WriteInv
<1>3. PICK Q : Digitized(str, Q)  BY <1>1 DEF WriteInv
<1>4. Lead \in Seq(Int) /\ PadChar \in Int  BY <1>2, LeadIs
<1>5. Complete(Q, Magnitude, radix) /\ Laid(str, Q, Lead, radix, PadChar)  BY <1>3 DEF Digitized
<1>6. Len(Q) \in Nat \ {0}  BY <1>5 DEF Complete, Quotients
<1>7. Laid(str', Q, Lead, radix, PadChar) /\ Len(str') = Len(str) + 1  BY <1>1, <1>4, <1>5, <1>6, OnePad
<1>8. Len(str') <= width
  <2>1. Len(str) \in Nat  BY <1>5 DEF Laid
  <2> QED  BY <1>1, <1>2, <1>7, <2>1
<1>9. Magnitude' = Magnitude /\ Lead' = Lead /\ PadChar' = PadChar  BY <1>1, ArgumentsStay
<1>10. Digitized(str, Q)'
  BY <1>1, <1>5, <1>7, <1>8, <1>9 DEF Digitized
<1> QED  BY <1>1, <1>2, <1>9, <1>10 DEF WriteInv

LEMMA PaddedKeeps == ASSUME WriteInv, Padded PROVE WriteInv'
<1>1. /\ ipc = "pad" /\ ("LEFT" \in type \/ Len(str) >= width) /\ ipc' = "turn" /\ at' = kept
      /\ str' = str /\ kept' = kept /\ UNCHANGED <<num, radix, width, type>>
  BY DEF Padded
<1>2. num \in Signed /\ width \in Int /\ radix \in {8, 10, 16} /\ kept = Len(Lead)
  BY <1>1 DEF WriteInv
<1>3. PICK Q : Digitized(str, Q)  BY <1>1 DEF WriteInv
<1>4. PaddedTo(str, Q)  BY <1>1, <1>3 DEF PaddedTo
<1>5. Lead' = Lead /\ PaddedTo(str, Q)'
  BY <1>1, <1>4, ArgumentsStay DEF PaddedTo, Digitized
<1>6. kept \in Nat  BY <1>2, LeadIs
<1>7. TurnedTo(str, str, kept, kept)
  <2>1. str \in Seq(Int) /\ Len(str) \in Nat  BY <1>3 DEF Digitized, Laid
  <2>2. \A i \in 1 .. Len(str) : ~(i > kept /\ (i <= kept \/ Mirror(str, kept, i) <= kept))
    BY <1>6, <2>1 DEF Mirror
  <2> QED  BY <2>1, <2>2 DEF TurnedTo
<1>8. Turning'
  BY <1>1, <1>5, <1>6, <1>7 DEF Turning
<1> QED  BY <1>1, <1>2, <1>5, <1>8 DEF WriteInv

LEMMA TurnKeeps == ASSUME WriteInv, Turn PROVE WriteInv'
<1>1. /\ ipc = "turn" /\ at <= Half /\ at' = at + 1
      /\ str' = [str EXCEPT ![at + 1] = str[Partner(at) + 1], ![Partner(at) + 1] = str[at + 1]]
      /\ ipc' = ipc /\ kept' = kept /\ UNCHANGED <<num, radix, width, type>>
  BY DEF Turn
<1>2. num \in Signed /\ width \in Int /\ radix \in {8, 10, 16} /\ kept = Len(Lead)
  BY <1>1 DEF WriteInv
<1>3. PICK w, Q : PaddedTo(w, Q) /\ TurnedTo(str, w, kept, at) /\ at \in Nat /\ at >= kept
  <2>1. Turning  BY <1>1 DEF WriteInv
  <2> QED  BY <2>1 DEF Turning
<1>4. kept \in Nat  BY <1>2, LeadIs
<1>5. Len(w) \in Nat /\ Len(str) = Len(w)  BY <1>3 DEF PaddedTo, Digitized, Laid, TurnedTo
<1>6. at <= (Len(w) + kept - 1) \div 2 /\ Partner(at) + 1 = Len(w) + kept - at
  BY <1>1, <1>3, <1>4, <1>5 DEF Half, Partner
<1>7. TurnedTo(str', w, kept, at + 1)
  BY <1>1, <1>3, <1>4, <1>5, <1>6, OneTurn
<1>8. Lead' = Lead /\ PaddedTo(w, Q)'  BY <1>1, <1>3, ArgumentsStay
<1>9. at' \in Nat /\ at' >= kept'  BY <1>1, <1>3, <1>4
<1>10. Turning'
  BY <1>1, <1>7, <1>8, <1>9 DEF Turning
<1> QED  BY <1>1, <1>2, <1>8, <1>10 DEF WriteInv

LEMMA TurnedKeeps == ASSUME WriteInv, Turned PROVE WriteInv'
<1>1. /\ ipc = "turn" /\ at > Half /\ ipc' = "fill"
      /\ str' = str /\ kept' = kept /\ UNCHANGED <<num, radix, width, type>>
  BY DEF Turned
<1>2. num \in Signed /\ width \in Int /\ radix \in {8, 10, 16} /\ kept = Len(Lead)
  BY <1>1 DEF WriteInv
<1>3. PICK w, Q : PaddedTo(w, Q) /\ TurnedTo(str, w, kept, at) /\ at \in Nat /\ at >= kept
  <2>1. Turning  BY <1>1 DEF WriteInv
  <2> QED  BY <2>1 DEF Turning
<1>4. kept \in Nat  BY <1>2, LeadIs
<1>5. Len(w) \in Nat /\ Len(str) = Len(w)  BY <1>3 DEF PaddedTo, Digitized, Laid, TurnedTo
<1>6. at > (Len(w) + kept - 1) \div 2  BY <1>1, <1>5 DEF Half
<1>7. TurnedRound(str, w, kept)  BY <1>3, <1>4, <1>5, <1>6, AllTurned
<1>8. Lead' = Lead /\ PaddedTo(w, Q)'  BY <1>1, <1>3, ArgumentsStay
<1>9. Finishing'
  BY <1>1, <1>5, <1>7, <1>8 DEF Finishing
<1> QED  BY <1>1, <1>2, <1>8, <1>9 DEF WriteInv

LEMMA FillKeeps == ASSUME WriteInv, Fill PROVE WriteInv'
<1>1. /\ ipc = "fill" /\ Len(str) < width /\ str' = Append(str, BLANK) /\ ipc' = ipc
      /\ kept' = kept /\ UNCHANGED <<num, radix, width, type>>
  BY DEF Fill
<1>2. num \in Signed /\ width \in Int /\ radix \in {8, 10, 16} /\ kept = Len(Lead)
  BY <1>1 DEF WriteInv
<1>3. PICK w, Q : PaddedTo(w, Q) /\ TurnedRound(str, w, kept)
  <2>1. ipc \in {"fill", "done"}  BY <1>1
  <2>2. Finishing  BY <2>1 DEF WriteInv
  <2> QED  BY <2>2 DEF Finishing
<1>4. kept \in Nat  BY <1>2, LeadIs
<1>5. Len(w) \in Nat /\ Len(str) \in Nat  BY <1>3 DEF PaddedTo, Digitized, Laid, TurnedRound
<1>6. TurnedRound(str', w, kept) /\ Len(str') = Len(str) + 1  BY <1>1, <1>3, <1>4, <1>5, OneBlank
<1>7. Len(str') <= width'  BY <1>1, <1>2, <1>5, <1>6
<1>8. Lead' = Lead /\ PaddedTo(w, Q)'  BY <1>1, <1>3, ArgumentsStay
<1>9. Finishing'
  BY <1>1, <1>6, <1>7, <1>8 DEF Finishing
<1> QED  BY <1>1, <1>2, <1>8, <1>9 DEF WriteInv

LEMMA WrittenKeeps == ASSUME WriteInv, Written PROVE WriteInv'
<1>1. /\ ipc = "fill" /\ Len(str) >= width /\ ipc' = "done" /\ str' = str
      /\ kept' = kept /\ UNCHANGED <<num, radix, width, type>>
  BY DEF Written
<1>2. num \in Signed /\ width \in Int /\ radix \in {8, 10, 16} /\ kept = Len(Lead)
  BY <1>1 DEF WriteInv
<1>3. PICK w, Q : PaddedTo(w, Q) /\ TurnedRound(str, w, kept) /\ (Len(str) = Len(w) \/ Len(str) <= width)
  <2>1. ipc \in {"fill", "done"}  BY <1>1
  <2>2. Finishing  BY <2>1 DEF WriteInv
  <2> QED  BY <2>2 DEF Finishing
<1>4. Lead' = Lead /\ PaddedTo(w, Q)'  BY <1>1, <1>3, ArgumentsStay
<1>5. Finishing'
  BY <1>1, <1>3, <1>4 DEF Finishing
<1> QED  BY <1>1, <1>2, <1>4, <1>5 DEF WriteInv

(* When it is done, what is written is what was to be written.              *)
LEMMA InvReadsBack == WriteInv => NumbersReadBack
<1> SUFFICES ASSUME WriteInv, ipc = "done" PROVE NumbersReadBack  BY DEF NumbersReadBack
<1>1. num \in Signed /\ width \in Int /\ radix \in {8, 10, 16} /\ kept = Len(Lead) /\ Len(str) >= width
  BY DEF WriteInv
<1>2. PICK w, Q : PaddedTo(w, Q) /\ TurnedRound(str, w, kept) /\ (Len(str) = Len(w) \/ Len(str) <= width)
  <2>1. ipc \in {"fill", "done"}  OBVIOUS
  <2>2. Finishing  BY <2>1 DEF WriteInv
  <2> QED  BY <2>2 DEF Finishing
<1>3. /\ Complete(Q, Magnitude, radix) /\ Laid(w, Q, Lead, radix, PadChar)
      /\ Len(w) = Len(Lead) + Len(Q) - 1 \/ ("LEFT" \notin type /\ Len(w) <= width)
      /\ "LEFT" \in type \/ Len(w) >= width
  BY <1>2 DEF PaddedTo, Digitized
<1>4. /\ Magnitude \in Nat /\ Magnitude < Power(2)[INTBITS] /\ num \in Int
      /\ (Minus => Magnitude = -num) /\ (num >= 0 => Magnitude = num)
  BY <1>1, Magnitudes
<1>5. /\ Lead \in Seq(Int) /\ Len(Lead) \in Nat /\ PadChar \in {0, BLANK} /\ (radix = 10 => Lead = SignOf)
  BY <1>1, LeadIs
<1>6. PICK d \in 1 .. INTBITS : d = Len(Q) - 1 /\ Needs(Magnitude, d)
  <2>1. /\ Len(Q) - 1 \in 1 .. INTBITS /\ Magnitude < Power(radix)[Len(Q) - 1]
        /\ Len(Q) - 1 > 1 => Magnitude >= Power(radix)[Len(Q) - 2]
    BY <1>1, <1>3, <1>4, DigitsNeeded
  <2>2. Len(Q) \in Nat  BY <1>3 DEF Complete, Quotients
  <2>3. Len(Q) - 2 = (Len(Q) - 1) - 1  BY <2>2
  <2> QED  BY <2>1, <2>3 DEF Needs
<1>7. /\ Len(w) \in Nat /\ Len(str) \in Nat /\ Len(str) >= Len(w) /\ Len(w) >= kept + d /\ d \in Nat \ {0} /\ kept \in Nat
      /\ Len(w) = kept + d \/ ("LEFT" \notin type /\ Len(w) <= width)
  <2>1. Len(w) \in Nat /\ Len(str) \in Nat /\ Len(str) >= Len(w) /\ Len(w) >= Len(Lead) + Len(Q) - 1
    BY <1>2, <1>3 DEF TurnedRound, Laid
  <2>2. Len(Q) \in Nat  BY <1>3 DEF Complete, Quotients
  <2>3. INTBITS \in Nat  BY WordAssumption
  <2>4. Len(Q) = d + 1 /\ d \in Nat \ {0}  BY <1>6, <2>2, <2>3
  <2> QED  BY <1>1, <1>3, <1>5, <2>1, <2>4
<1>8. SubSeq(str, 1, kept) = Lead
  <2>1. ASSUME NEW i \in 1 .. kept PROVE str[i] = Lead[i]
    <3>1. i \in 1 .. Len(w) /\ ~(i > kept)  BY <1>7
    <3>2. str[i] = w[i]  BY <1>2, <3>1 DEF TurnedRound
    <3>3. w[i] = Lead[i]  BY <1>1, <1>3 DEF Laid
    <3> QED  BY <3>2, <3>3
  <2>2. Lead = [i \in 1 .. kept |-> Lead[i]]  BY <1>1, <1>5
  <2>3. SubSeq(str, 1, kept) = [i \in 1 .. kept |-> str[i]]
    <3>1. str \in Seq(Int) /\ kept <= Len(str)  BY <1>2, <1>7 DEF TurnedRound
    <3> QED  BY <1>7, <3>1
  <2> QED  BY <2>1, <2>2, <2>3, Zenon
<1>9. PICK first \in kept + 1 .. Len(str) : \E final \in first .. Len(str) :
           /\ \A i \in kept + 1 .. first - 1 : str[i] = BLANK
           /\ \A i \in final + 1 .. Len(str) : str[i] = BLANK
           /\ \A i \in first .. final : str[i] \in 0 .. radix - 1
           /\ Digits(str, first, radix) = Magnitude
           /\ PadChar = 0 \/ Len(w) = Len(Lead) + Len(Q) - 1 => first = kept + 1
  <2>1. TurnedRound(str, w, Len(Lead))  BY <1>1, <1>2
  <2>2. Reads(str, w, Q, Lead, radix, Magnitude, PadChar)
    BY <1>1, <1>3, <1>4, <1>5, <2>1, Readable
  <2> QED  BY <1>1, <2>2, Zenon DEF Reads
<1>10. Least = kept + d
  <2> DEFINE c == CHOOSE e \in 1 .. INTBITS : Needs(Magnitude, e)
  <2>1. c \in 1 .. INTBITS /\ Needs(Magnitude, c)  BY <1>6
  <2>2. Least = Len(Lead) + c  BY DEF Least, Lead
  <2> HIDE DEF c
  <2>3. c = d  BY <1>1, <1>4, <1>6, <2>1, NeedsOne
  <2> QED  BY <1>1, <2>2, <2>3
<1>11. Len(str) = IF width > Least THEN width ELSE Least
  BY <1>1, <1>2, <1>3, <1>7, <1>10
<1>12. ASSUME radix = 10, Minus \/ num >= 0, type \cap {"LEFT", "ZEROPAD"} # {} PROVE atoi(str) = num
  <2>1. PadChar = 0 \/ Len(w) = Len(Lead) + Len(Q) - 1  BY <1>3, <1>12 DEF PadChar
  <2>2. first = kept + 1 /\ Digits(str, first, 10) = Magnitude /\ str[first] \in 0 .. 9
    <3>1. PICK final \in first .. Len(str) : \A i \in first .. final : str[i] \in 0 .. radix - 1  BY <1>9
    <3>2. first \in first .. final  BY <1>7, <1>9
    <3> QED  BY <1>9, <1>12, <2>1, <3>1, <3>2
  <2>3. \A i \in 1 .. kept : str[i] = SignOf[i]
    <3>1. ASSUME NEW i \in 1 .. kept PROVE str[i] = Lead[i]
      <4>1. i \in 1 .. Len(w) /\ ~(i > kept)  BY <1>7
      <4>2. str[i] = w[i]  BY <1>2, <4>1 DEF TurnedRound
      <4>3. w[i] = Lead[i]  BY <1>1, <1>3 DEF Laid
      <4> QED  BY <4>2, <4>3
    <3> QED  BY <1>5, <1>12, <3>1
  <2>4. kept = Len(SignOf)  BY <1>1, <1>5, <1>12
  <2>5. CASE Minus
    <3>1. SignOf = <<MINUS>>  BY <2>5 DEF SignOf
    <3>2. kept = 1 /\ str[1] = MINUS  BY <2>3, <2>4, <3>1
    <3>3. atoi(str) = -Digits(str, 2, 10)  BY <3>2 DEF atoi, MINUS, PLUS
    <3> QED  BY <1>4, <2>2, <2>5, <3>2, <3>3
  <2>6. CASE ~Minus /\ "PLUS" \in type
    <3>1. SignOf = <<PLUS>>  BY <2>6 DEF SignOf
    <3>2. kept = 1 /\ str[1] = PLUS  BY <2>3, <2>4, <3>1
    <3>3. atoi(str) = Digits(str, 2, 10)  BY <3>2 DEF atoi, MINUS, PLUS
    <3> QED  BY <1>4, <1>12, <2>2, <2>6, <3>2, <3>3
  <2>7. CASE ~Minus /\ "PLUS" \notin type
    <3>1. SignOf = <<>>  BY <2>7 DEF SignOf
    <3>2. kept = 0 /\ first = 1  BY <2>2, <2>4, <3>1
    <3>3. atoi(str) = Digits(str, 1, 10)  BY <2>2, <3>2 DEF atoi, MINUS, PLUS
    <3> QED  BY <1>4, <1>12, <2>2, <2>7, <3>2, <3>3
  <2> QED  BY <2>5, <2>6, <2>7
<1> QED  BY <1>8, <1>9, <1>11, <1>12 DEF NumbersReadBack, Blank, Lead

(* Whatever number printf or sprintf writes, with whatever flags, radix and *)
(* width, can be read, and is as wide as it should be; atoi reads a decimal *)
(* number back, the smallest of the word included.                          *)
THEOREM NumbersAreReadBack == ItoaSpec => []NumbersReadBack
<1>1. ItoaInit => WriteInv  BY WriteBegins
<1>2. WriteInv /\ [ItoaNext]_itoavars => WriteInv'
  <2> SUFFICES ASSUME WriteInv, [ItoaNext]_itoavars PROVE WriteInv'  OBVIOUS
  <2>1. CASE Sign  BY <2>1, SignKeeps
  <2>2. CASE Digit  BY <2>2, DigitKeeps
  <2>3. CASE Pad  BY <2>3, PadKeeps
  <2>4. CASE Padded  BY <2>4, PaddedKeeps
  <2>5. CASE Turn  BY <2>5, TurnKeeps
  <2>6. CASE Turned  BY <2>6, TurnedKeeps
  <2>7. CASE Fill  BY <2>7, FillKeeps
  <2>8. CASE Written  BY <2>8, WrittenKeeps
  <2>9. CASE UNCHANGED itoavars
    <3>1. /\ num' = num /\ width' = width /\ radix' = radix /\ type' = type /\ ipc' = ipc /\ kept' = kept
          /\ str' = str /\ at' = at /\ unum' = unum
      BY <2>9 DEF itoavars
    <3>2. /\ Magnitude' = Magnitude /\ Lead' = Lead /\ PadChar' = PadChar
          /\ \A w, Q : Digitized(w, Q)' <=> Digitized(w, Q)
          /\ \A w, Q : PaddedTo(w, Q)' <=> PaddedTo(w, Q)
      BY <3>1, ArgumentsStay
    <3>3. (Counting' <=> Counting) /\ (Turning' <=> Turning) /\ (Finishing' <=> Finishing)
      BY <3>1, <3>2 DEF Counting, Turning, Finishing
    <3>4. (\E Q : Digitized(str, Q)') <=> \E Q : Digitized(str, Q)
      BY <3>1, <3>2
    <3> QED  BY <3>1, <3>2, <3>3, <3>4 DEF WriteInv
  <2> QED  BY <2>1, <2>2, <2>3, <2>4, <2>5, <2>6, <2>7, <2>8, <2>9 DEF ItoaNext
<1>3. WriteInv => NumbersReadBack  BY InvReadsBack
<1> QED  BY <1>1, <1>2, <1>3, PTL DEF ItoaSpec
=============================================================================
