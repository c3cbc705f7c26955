------------------------------ MODULE MCStartup ------------------------------
(* What the kernel computes once, when it starts, from what it finds: the   *)
(* memory map, the interrupts, the time, the partitions; and the arithmetic *)
(* under it.  Each part is examined by itself; they share no variable.      *)
EXTENDS MemoryMap, Acpi, Partitions, Rtc, Dates, Division, Numbers, SequencesExt

VARIABLE examined   \* which of the parts moves

Parts == {"memory", "interrupts", "partitions", "rtc", "dates", "division", "numbers"}

(* Two regions in order, of every kind and over every border.               *)
Region == [base : 0 .. 10, limit : 1 .. 6, type : {1, 2, 3, 5}]
MCMap == {<<r>> : r \in Region} \cup
         {<<q, r>> \in Region \X Region : q.base + q.limit <= r.base /\ (q.limit > 2 \/ r.limit > 2)}

(* Moved interrupts: to the line of another, to one of nobody, above 15.    *)
MCRsdt == {<<"APIC">>, <<"FACP", "APIC">>, <<"FACP">>}
MCDevices == <<14, 1, 12, 0>>
Moves == [type : {"override"}, source : {0, 9, 14}, interrupt : {1, 2, 20}]
Cpu == [type |-> "processor"]
Io == [type |-> "ioapic", address |-> 1]
MCMadt == {<<Cpu, Io>> \o s : s \in BoundedSeq(Moves, 3)} \cup
          BoundedSeq({Cpu, Io, [type |-> "other"]}, 2)

(* Disks with a primary partition, a chain, two chains, GPT, neither.       *)
Entry(t, s) == [type |-> t, start |-> s]
None == Entry("none", 0)
MCMbr ==
  {[valid |-> TRUE, entry |-> e] : e \in
     {<<None, Entry("norlit", 1), None, Entry("extended", 10)>>,
      <<Entry("other", 1), Entry("extended", 10), None, None>>,
      <<Entry("extended", 20), Entry("other", 1), Entry("extended", 10), None>>,
      <<Entry("gpt", 1), None, None, None>>,
      <<Entry("other", 1), None, None, None>>}}
  \cup {[valid |-> FALSE, entry |-> <<None, None, None, None>>]}
Record ==
  [valid : {TRUE}, type : {"norlit", "other"}, start : {1}, last : {FALSE}, next : 0 .. 2] \cup
  [valid : {TRUE}, type : {"norlit", "other"}, start : {1}, last : {TRUE}, next : {0}] \cup
  [valid : {FALSE}, type : {"other"}, start : {0}, last : {TRUE}, next : {0}]
MCEbr == [{10, 11, 12} -> Record]

(* Just before the hour, on days before a month, a leap day and a year end. *)
Day(y, m, d) == [year |-> y, month |-> m, day |-> d]
MCStart == [date : {Day(2023, 12, 31), Day(2024, 2, 28), Day(2024, 2, 29), Day(2025, 2, 28)},
            hour : {0, 9, 11, 12, 19, 23}, minute : {59}, second : {58}]

MCBit == [k \in 0 .. BITS |-> 2 ^ k]

(* A part that is not examined stays in one state.                          *)
StillMemory == MapFrom({<<>>})
StillInterrupts == AcpiFrom({<<>>}, {<<>>})
StillPartitions == PartFrom({[valid |-> FALSE]}, {<<>>}, {0})
StillRtc == RtcFrom({[hour |-> 0]}, {TRUE})
StillDivision == DivFrom({1})
StillNumbers == num = 0 /\ width = 0 /\ radix = 10 /\ type = {} /\ unum = 0
                /\ str = <<>> /\ at = 0 /\ kept = 0 /\ ipc = "sign"
Is(p) == examined = p
StartupInit ==
  /\ examined \in Parts
  /\ IF Is("memory") THEN MapInit ELSE StillMemory
  /\ IF Is("interrupts") THEN AcpiInit ELSE StillInterrupts
  /\ IF Is("partitions") THEN PartInit ELSE StillPartitions
  /\ IF Is("rtc") THEN RtcInit ELSE StillRtc
  /\ IF Is("division") THEN DivInit ELSE StillDivision
  /\ IF Is("numbers") THEN ItoaInit ELSE StillNumbers
  /\ CalInit

StartupNext ==
  /\ \/ Is("memory") /\ MapNext /\ UNCHANGED <<acpivars, diskvars, rtcvars, calvars, divvars, itoavars>>
     \/ Is("interrupts") /\ AcpiNext /\ UNCHANGED <<mapvars, diskvars, rtcvars, calvars, divvars, itoavars>>
     \/ Is("partitions") /\ PartNext /\ UNCHANGED <<mapvars, acpivars, rtcvars, calvars, divvars, itoavars>>
     \/ Is("rtc") /\ RtcNext /\ UNCHANGED <<mapvars, acpivars, diskvars, calvars, divvars, itoavars>>
     \/ Is("dates") /\ NextDay /\ UNCHANGED <<mapvars, acpivars, diskvars, rtcvars, divvars, itoavars>>
     \/ Is("division") /\ DivNext /\ UNCHANGED <<mapvars, acpivars, diskvars, rtcvars, calvars, itoavars>>
     \/ Is("numbers") /\ ItoaNext /\ UNCHANGED <<mapvars, acpivars, diskvars, rtcvars, calvars, divvars>>
  /\ UNCHANGED examined
startupvars == <<mapvars, acpivars, diskvars, rtcvars, calvars, divvars, itoavars, examined>>
StartupSpec == StartupInit /\ [][StartupNext]_startupvars
=============================================================================
