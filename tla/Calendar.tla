------------------------------ MODULE Calendar ------------------------------
(***************************************************************************)
(* mktime and gmtime of kernel/lib.c, and the calendar they are about       *)
(* (external).  A u64 of milliseconds since 1/1/1 is kept as its day number *)
(* and what is left of the day, which both functions only multiply out or   *)
(* divide off, with do_divmod64 (module Division).                          *)
(***************************************************************************)
EXTENDS Integers, Sequences

(* The calendar.                                                            *)
Leap(y) == (y % 4 = 0 /\ y % 100 # 0) \/ y % 400 = 0
Length(y, m) == CASE m = 2 -> IF Leap(y) THEN 29 ELSE 28
                  [] m \in {4, 6, 9, 11} -> 30
                  [] OTHER -> 31
Tomorrow(d) ==
  IF d.day < Length(d.year, d.month) THEN [d EXCEPT !.day = @ + 1]
  ELSE IF d.month < 12 THEN [d EXCEPT !.month = @ + 1, !.day = 1]
  ELSE [year |-> d.year + 1, month |-> 1, day |-> 1]

(* mktime, as far as the day: mon is counted from March, as a u8.           *)
mktime(d) ==
  LET early == d.month - 2 <= 0
      mon   == IF early THEN d.month + 10 ELSE d.month - 2
      year  == IF early THEN d.year - 1 ELSE d.year
  IN  year \div 4 - year \div 100 + year \div 400 + (367 * mon) \div 12 + d.day
        + year * 365 - 337

(* gmtime: the day of the year the number falls into, counting back from    *)
(* the year that 365 days per year would give, ...                          *)
CountBack(time) ==
  LET year == time \div 365
      back[n \in 0 .. year] ==
        IF n = 0
          THEN (time % 365) - year \div 4 + year \div 100 - year \div 400 + 1
          ELSE back[n - 1] + 365 + (IF Leap(year - (n - 1)) THEN 1 ELSE 0)
      steps == CHOOSE n \in 0 .. year : back[n] > 0 /\ (n > 0 => back[n - 1] <= 0)
  IN  <<year - steps + 1, back[steps]>>

(* ... the month, of the two that days/30 and days/31 leave open, ...       *)
mday == <<0, 31, 59, 90, 120, 151, 181, 212, 243, 273, 304, 334, 365>>
(* Slip: the table is read one month on.                                    *)
MonthOn(days) ==
  LET bmon == days \div 30
      mon  == days \div 31
  IN  IF bmon # mon /\ bmon < 12 /\ days > mday[bmon + 2] THEN bmon ELSE mon

(* The month as the code finds it.                                          *)
MonthOf(days) ==
  LET bmon == days \div 30
      mon  == days \div 31
  IN  IF bmon # mon /\ days > mday[bmon + 1] THEN bmon ELSE mon

(* ... with the 29th of February taken out first.                           *)
gmtime(time) ==
  LET year  == CountBack(time)[1]
      found == CountBack(time)[2]
      days  == IF Leap(year) /\ found > 60 THEN found - 1 ELSE found
      mon   == MonthOf(days)
  IN  IF Leap(year) /\ found = 60
        THEN [year |-> year, month |-> 2, day |-> 29]
        ELSE [year |-> year, month |-> mon + 1, day |-> days - mday[mon + 1]]
WeekdayOf(time) == (time + 1) % 7
=============================================================================
