-------------------------------- MODULE Acpi --------------------------------
(***************************************************************************)
(* How the interrupt of a device comes to its handler: acpi_apic of         *)
(* kernel/driver/acpi.c walks the table that describes the board, and       *)
(* init_apic, registerIRQ and enableIRQ of apic.c set up the I/O APIC and   *)
(* the vectors.  All of it happens when the system starts, interrupts off.  *)
(***************************************************************************)
EXTENDS Integers, Sequences, FiniteSets

CONSTANTS
  Rsdt,     \* the tables of the board to examine, and ...
  Madt,     \* ... the entries of the one that acpi_apic is for
  Devices   \* the IRQs of the devices, in the order in which they are set up

IRQS  == 0 .. 15
LINES == 0 .. 23
VECTOR == 32            \* of IRQ 0: the exceptions are below
UNKNOWN == -1           \* unknown_irq

ASSUME DevicesAssumption == Devices \in Seq(IRQS)
(* What the ACPI tables promise; the code does not look.                    *)
ASSUME BoardAssumption ==
  \A m \in Madt :
    /\ Len(m) \in Nat /\ DOMAIN m = 1 .. Len(m)
    /\ \A i \in DOMAIN m : m[i].type = "override" => m[i].source \in IRQS /\ m[i].interrupt \in LINES

VARIABLES rsdt, madt,            \* the board
          index, header,         \* the loops of init_acpi and acpi_apic
          pros, io_apic_base,    \* what the walk has found
          irqOverride,           \* the line of each IRQ
          red,                   \* the redirection entries of the I/O APIC
          handlerTable2,         \* the handler of each IRQ's vector
          todo,                  \* the devices that have yet to be set up
          apc                    \* where the start is
acpivars == <<rsdt, madt, index, header, pros, io_apic_base, irqOverride, red, handlerTable2, todo, apc>>

(* Before init_apic the entries are the firmware's: masked.                 *)
AcpiFrom(rsdts, madts) ==
  /\ rsdt \in rsdts /\ madt \in madts
  /\ index = 1 /\ header = 1 /\ pros = 0 /\ io_apic_base = 0
  /\ irqOverride = [i \in IRQS |-> i]
  /\ red = [l \in LINES |-> [vector |-> 0, masked |-> TRUE]]
  /\ handlerTable2 = [i \in IRQS |-> UNKNOWN]
  /\ todo = Devices /\ apc = "rsdt"
AcpiInit == AcpiFrom(Rsdt, Madt)

(* init_acpi: the first table with the signature APIC.                      *)
SkipTable == /\ apc = "rsdt" /\ index <= Len(rsdt) /\ rsdt[index] # "APIC" /\ index' = index + 1
             /\ UNCHANGED <<rsdt, madt, header, pros, io_apic_base, irqOverride, red, handlerTable2, todo, apc>>
FindMadt == /\ apc = "rsdt" /\ index <= Len(rsdt) /\ rsdt[index] = "APIC" /\ apc' = "madt"
            /\ UNCHANGED <<rsdt, madt, index, header, pros, io_apic_base, irqOverride, red, handlerTable2, todo>>
NoMadt == /\ apc = "rsdt" /\ index > Len(rsdt) /\ apc' = "fault"     \* no APIC is mapped
          /\ UNCHANGED <<rsdt, madt, index, header, pros, io_apic_base, irqOverride, red, handlerTable2, todo>>

(* acpi_apic: one entry.                                                    *)
At(kind) == apc = "madt" /\ header <= Len(madt) /\ madt[header].type = kind
Onwards == /\ header' = header + 1
           /\ UNCHANGED <<rsdt, madt, index, red, handlerTable2, todo, apc>>
Processor == At("processor") /\ Onwards /\ pros' = pros + 1 /\ UNCHANGED <<io_apic_base, irqOverride>>
IoApic == /\ At("ioapic") /\ io_apic_base = 0 /\ Onwards
          /\ io_apic_base' = madt[header].address /\ UNCHANGED <<pros, irqOverride>>
(* A second I/O APIC: the loop goes on with the same entry, for ever.       *)
IoApicAgain == At("ioapic") /\ io_apic_base # 0 /\ UNCHANGED acpivars
Override == /\ At("override") /\ Onwards
            /\ irqOverride' = [irqOverride EXCEPT ![madt[header].source] = madt[header].interrupt]
            /\ UNCHANGED <<pros, io_apic_base>>
Other == At("other") /\ Onwards /\ UNCHANGED <<pros, io_apic_base, irqOverride>>

(* Slip: the vectors are left as they were set by line.                     *)
VectorsByLine == [l \in LINES |-> IF l \in IRQS THEN VECTOR + l ELSE 0]

(* The redirection entries of init_apic: the second loop rewrites the line  *)
(* of each IRQ that has moved, the highest IRQ last.                        *)
Movers(l) == {i \in IRQS : irqOverride[i] # i /\ irqOverride[i] = l}
Highest(S) == CHOOSE i \in S : \A j \in S : j <= i
Vectors == [l \in LINES |-> IF Movers(l) # {} THEN VECTOR + Highest(Movers(l))
                            ELSE IF l \in IRQS THEN VECTOR + l ELSE 0]

InitApic ==
  /\ apc = "madt" /\ header > Len(madt) /\ io_apic_base # 0 /\ apc' = "devices"
  /\ red' = [l \in LINES |-> [vector |-> Vectors[l], masked |-> TRUE]]
  /\ UNCHANGED <<rsdt, madt, index, header, pros, io_apic_base, irqOverride, handlerTable2, todo>>
NoIoApic == /\ apc = "madt" /\ header > Len(madt) /\ io_apic_base = 0 /\ apc' = "fault"   \* assert
            /\ UNCHANGED <<rsdt, madt, index, header, pros, io_apic_base, irqOverride, red, handlerTable2, todo>>

(* The init function of a device.  Its handler is named by its IRQ.         *)
registerIRQ(irq) == handlerTable2' = [handlerTable2 EXCEPT ![irq] = irq]
enableIRQ(irq) == red' = [red EXCEPT ![irqOverride[irq]].masked = FALSE]
SetUp == /\ apc = "devices" /\ todo # <<>> /\ todo' = Tail(todo)
         /\ registerIRQ(Head(todo)) /\ enableIRQ(Head(todo))
         /\ UNCHANGED <<rsdt, madt, index, header, pros, io_apic_base, irqOverride, apc>>

AcpiNext == \/ SkipTable \/ FindMadt \/ NoMadt
            \/ Processor \/ IoApic \/ IoApicAgain \/ Override \/ Other
            \/ InitApic \/ NoIoApic \/ SetUp
AcpiSpec == AcpiInit /\ [][AcpiNext]_acpivars

(* The line on which the interrupt of a device arrives, as the board says.  *)
Moved(irq) == {i \in DOMAIN madt : madt[i].type = "override" /\ madt[i].source = irq}
Line(irq) == IF Moved(irq) = {} THEN irq ELSE madt[Highest(Moved(irq))].interrupt
Ready == {Devices[i] : i \in 1 .. Len(Devices) - Len(todo)}

(* An IRQ has its line to itself, when no other IRQ that the board moves,   *)
(* and no other device, is on it.                                           *)
Alone(irq) == \A i \in IRQS \ {irq} : i \in Ready \/ Moved(i) # {} => Line(i) # Line(irq)

(* The interrupt of each device that is set up comes to its own handler,    *)
(* wherever the board has moved it, and no line is open that is not one of  *)
(* theirs.  The order of the entries and of the two loops decides which of  *)
(* two writes to one redirection entry stays.                               *)
DevicesHeard ==
  apc = "devices" =>
    /\ \A irq \in Ready : Alone(irq) =>
         LET entry == red[Line(irq)]
         IN  ~entry.masked /\ entry.vector >= VECTOR /\ handlerTable2[entry.vector - VECTOR] = irq
    /\ \A l \in LINES : red[l].masked \/ \E irq \in Ready : l = Line(irq)
=============================================================================
