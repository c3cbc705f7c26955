--------------------------------- MODULE Rtc ---------------------------------
(***************************************************************************)
(* read_RTC of kernel/driver/rtc.c, which sets wallClock when the system    *)
(* starts, and the clock it reads (external), which goes on meanwhile.      *)
(*                                                                         *)
(* The clock announces an update with a bit, UIP, and then changes all its  *)
(* registers at once.  They are read one at a time.  A time is a date of    *)
(* Calendar with the hour, minute and second.                               *)
(***************************************************************************)
EXTENDS Calendar, FiniteSets

CONSTANTS Start,   \* the times at which the call may begin
          TICKS    \* bound: seconds that go by in the call

ASSUME TicksAssumption == TICKS \in 0 .. 59
(* The code takes the two digits of the year for those of a year from 2000. *)
ASSUME StartAssumption ==
  \A t \in Start :
    /\ t \in [date : [year : 2000 .. 2098, month : 1 .. 12, day : 1 .. 31],
             hour : 0 .. 23, minute : 0 .. 59, second : 0 .. 59]
    /\ t.date.day <= Length(t.date.year, t.date.month)

VARIABLES now, uip,      \* the clock
          bcd, h24,      \* the bits of register B: its number format, 24-hour mode
          seen,          \* what the clock has shown since the call (history)
          reading, last, \* the registers read in this round, and in the one before
          rpc,           \* where read_RTC is
          wallClock      \* what it returns
rtcvars == <<now, uip, bcd, h24, seen, reading, last, rpc, wallClock>>

RtcFrom(times, modes) ==
  /\ now \in times /\ uip = FALSE /\ bcd \in modes /\ h24 \in modes
  /\ seen = {now}
  /\ reading = <<>> /\ last = <<>> /\ rpc = "wait" /\ wallClock = now
RtcInit == RtcFrom(Start, BOOLEAN)

(* The clock.                                                               *)
NextSecond(t) ==
  IF t.second < 59 THEN [t EXCEPT !.second = @ + 1]
  ELSE IF t.minute < 59 THEN [t EXCEPT !.minute = @ + 1, !.second = 0]
  ELSE IF t.hour < 23 THEN [t EXCEPT !.hour = @ + 1, !.minute = 0, !.second = 0]
  ELSE [date |-> Tomorrow(t.date), hour |-> 0, minute |-> 0, second |-> 0]
Announce == /\ ~uip /\ Cardinality(seen) <= TICKS /\ uip' = TRUE
            /\ UNCHANGED <<now, bcd, h24, seen, reading, last, rpc, wallClock>>
Update == /\ uip /\ uip' = FALSE
          /\ now' = NextSecond(now) /\ seen' = seen \cup {now'}
          /\ UNCHANGED <<bcd, h24, reading, last, rpc, wallClock>>

(* What its registers hold: 12-hour mode counts 12, 1, ..., 11, and bit 7   *)
(* tells the afternoon.                                                     *)
Held(v) == IF bcd THEN (v \div 10) * 16 + (v % 10) ELSE v
HourRegister == IF h24 THEN Held(now.hour)
                ELSE Held(((now.hour + 11) % 12) + 1) + (IF now.hour >= 12 THEN 128 ELSE 0)
Registers == <<Held(now.second), Held(now.minute), HourRegister,
               Held(now.date.day), Held(now.date.month), Held(now.date.year % 100)>>

(* while(BIT_TEST(CMOS_read(0x0A),7));                                      *)
NotUpdating == rpc = "wait" /\ ~uip /\ rpc' = "read" /\ UNCHANGED <<now, uip, bcd, h24, seen, reading, last, wallClock>>

CMOS_read == /\ rpc = "read" /\ Len(reading) < 6
             /\ reading' = Append(reading, Registers[Len(reading) + 1])
             /\ UNCHANGED <<now, uip, bcd, h24, seen, last, rpc, wallClock>>

(* Slip: the first round is enough.                                         *)
AtOnce == TRUE

(* The loop goes on until two rounds agree.                                 *)
Stable == last = reading
Again == /\ rpc = "read" /\ Len(reading) = 6 /\ ~Stable
         /\ last' = reading /\ reading' = <<>> /\ rpc' = "wait"
         /\ UNCHANGED <<now, uip, bcd, h24, seen, wallClock>>

(* The conversion; mktime, which takes the result, is one to one.           *)
BCD2BIN(v) == (v % 16) + (v \div 16) * 10
Plain(v) == IF bcd THEN BCD2BIN(v) ELSE v
Converted(r) ==
  LET afternoon == ~h24 /\ r[3] >= 128
      hour      == Plain(IF afternoon THEN r[3] - 128 ELSE r[3])
  IN  [date   |-> [year |-> Plain(r[6]) + 2000, month |-> Plain(r[5]), day |-> Plain(r[4])],
       hour   |-> (hour + (IF afternoon THEN 12 ELSE 0)) % 24,
       minute |-> Plain(r[2]), second |-> Plain(r[1])]

Return == /\ rpc = "read" /\ Len(reading) = 6 /\ Stable
          /\ wallClock' = Converted(reading) /\ rpc' = "done"
          /\ reading' = <<>> /\ last' = <<>>
          /\ UNCHANGED <<now, uip, bcd, h24, seen>>

read_RTC == NotUpdating \/ CMOS_read \/ Again \/ Return
RtcNext == Announce \/ Update \/ read_RTC
RtcSpec == RtcInit /\ [][RtcNext]_rtcvars

(* The time returned is one that the clock has shown during the call,       *)
(* although the registers were not read at once and the clock may pass a    *)
(* minute, an hour, a month or a leap day in between: as long as a call     *)
(* takes less than a minute.  In 12-hour mode the code takes 12 o'clock at  *)
(* noon for midnight, and the other way round: it adds 12 to 12 and takes   *)
(* the remainder of 24, or adds nothing.                                    *)
Swapped(t) == IF ~h24 /\ t.hour % 12 = 0 THEN [t EXCEPT !.hour = 12 - @] ELSE t
TimeWasShown == rpc = "done" => Swapped(wallClock) \in seen
=============================================================================
