# NorlitOS: models and proofs

NorlitOS is a 32-bit x86 operating system with a message-passing kernel: drivers, the
file system and the windows are processes that talk to one another by `SEND` and
`RECEIVE`. This directory holds TLA+ modules translated from its source, the TLC
configurations that check them, and theorems about them that TLAPS proves.

* `tlc -config MCProcIpc.cfg MCProc` (and the other pairs of the table of runs) checks a module,
* `tlapm Proc_proofs.tla` (and the other `*_proofs` modules) checks the proofs.

`PROJECT.json` lists the components, the runs, the lines of the source each definition
stands for, the hazards, and for each property a plausible bug that violates it.

## 1. The system

Paths are relative to `src/kernel/` unless they start with `boot/`.

| Component | State it keeps | Operations | What makes it correct |
|---|---|---|---|
| Processes, threads, scheduler (`process/proc.c`, `process/timer.c`) | `processTable`; per process priority, ticks, flag, `avl_thread`, thread list, current thread; per thread flag and registers; `current_proc` | `newProcess`, `createThread`, `disposeThread`, `disposeProcess`, `schedule`, `threadSleep`, `threadAwake`, NICE, `irq0_handler` | one process has the CPU; a process sleeps only with a reason; the accounting of threads and ticks is right; `schedule` ends; nobody starves |
| Message passing (`process/proc.c`) | `receiving`, the queue, `ax` of the caller | SEND, RECEIVE, `sendInterrupt` | no message lost, duplicated or reordered; no lost wakeup; each call answered once with the right code |
| Message ring (`process/proc.c`) | `messages[]`, `msgHead`, `msgTail`, `msgCount` | put, take, drain at disposal, reuse | a bounded FIFO; each message drained once |
| Ordered lists (`process/proc.c`, `include/list.h`) | `processTable`, `threadList` | insertion with the first free number, `list_hide`, `getProcessById` | unique numbers, smallest first, well linked, lookup exact |
| SMP (`process/proc.asm`, `boot/smp.asm`, `driver/apic.c`, `start.c`) | spin locks, one CPU page per processor | `spin_lock`, start of the secondary CPUs | the above, with calls cut at their locks |
| Pages (`process/page.c`) | page directories, the user page allocator | `alloc`, `recycle`, stacks, page faults, device pages | a page belongs to one process or to one message |
| Kernel memory (`memory/memory.c`, `memory/paging.c`) | free lists by size, the firmware's memory map | `init_memory`, `malloc`, `free`, split and merge | the allocator gets each usable page once; blocks disjoint, memory conserved |
| Keyboard, mouse (`driver/keyboard`, `driver/mouse`) | a byte buffer each, shared by the IRQ handler and the driver; where the driver is in a key or a packet | `irq1_handler`, `irq12_handler`, read, clear, the dialogue with the mouse | each byte read once, in order; count and notifications agree; a movement is one the mouse made |
| Hard disk (`driver/harddisk`) | the table of partitions, ATA registers | `readPartition`, HD_OPEN, HD_READ, HD_WRITE, `irq13_handler` | each request answered once, from the partition it names |
| File system (`driver/filesystem`) | on the disk: superblock, lists of free blocks by size, file blocks, directories | HD_OPEN (which creates what is missing), HD_READ, HD_WRITE | a block is in one file or free, and a file holds what was written to it, after a crash and on a full disk too |
| Message library (`proclib.c`) | none | `send`, `receive`, `sendReceive`, file calls | the reply a client reads is the one to its request |
| Console (`driver/video`) | the text buffer and `pointer`, the cursor | `putc`, the loop of `video_driver` | text appears once, in order; the cursor stays on the screen |
| Library (`lib.c`, `format.c`) | none | division, dates, number formatting | agree with arithmetic and the calendar |
| Clock (`driver/rtc.c`) | `wallClock` | `read_RTC` | the time is one the clock has shown |
| ACPI, APIC (`driver/acpi.c`, `driver/apic.c`) | `irqOverride`, the redirection entries, `handlerTable2` | `init_acpi`, `init_apic`, `registerIRQ`, `enableIRQ` | an interrupt comes to its own handler |
| Boot, windows, demo processes, test stub | | | sequential start, output |

**How they interact.** A process enters the kernel by a system call; a handler (timer, keyboard,
mouse, disk) enters it between any two instructions of a process and may notify a process with
`sendInterrupt`, which a process sees as a message from pid -1. Servers loop over RECEIVE; a
client calls `sendReceive`. Any process prints with `putc` into the buffer that the video driver
empties. Init (pid 0) creates a process and then calls NICE for ever; the
video driver (pid 1) never enters the kernel. A process goes by EXIT or by a fault.

**What is hard.** Interleavings of calls with interrupts; a sleeping receiver whose fields three
parties change (itself, a sender, an interrupt); numbers and ring slots that are reused; ticks,
flags and counters changed in many places; lists cut and linked under a walk; on SMP, everything
between two locks. `PROJECT.json` lists each hazard at its line with the properties that cover it.

## 2. Plan

Done, in this order, because the kernel calls carry everything else:

1. `Proc` with `Mailbox` as its abstract specification, `MsgRing` with `Fifo`, `IdList`, and
   the proofs about all of them.
2. `InputBuffer` and `Keyboard`: the byte buffer that a driver and its handler share.
3. `Buddy`: the memory allocator, cut at its locks.
4. `NorlitFs`: block allocation and creation of files, write by write, with crashes.
5. `Servers`: requests and replies of `proclib.c` between programs, file system and disk.
6. `Pages`: who holds each physical page, and its proofs.
7. `Mouse` on `InputBuffer`, `Console`, and its proofs: with the keyboard, what stands between the
   user and the system.
8. What the kernel computes when it starts, and the arithmetic under it: `MemoryMap`, `Acpi`,
   `Partitions`, `Rtc`, `Dates`, `Division`, `Numbers`.
9. Contents of files in `NorlitFs`; the arithmetic proved for every width and every year.
10. The allocator, the input drivers and the file system proved.
11. The servers, and what the kernel computes at its start, proved; last, that numbers written can be read.

Left:

12. `ProcSMP`: the calls of `Proc` cut at their locks on two processors; with one processor it
    implements `Proc`. `config.h` 124-129 turns SMP off and says that it does not run yet.

Which module stands on which:

    Proc --implements--> Mailbox         Servers, InputBuffer: use mailboxes as Mailbox promises
      |  uses a queue as in Fifo <--implements-- MsgRing
      |  names processes by pid, least first <-- IdList
    Pages: the pages that the calls of Proc move; takes a free one as Buddy gives it
    Keyboard, Mouse EXTEND InputBuffer    NorlitFs: the work behind one FS request of Servers
    Console: any process prints           Partitions: how the file system finds what NorlitFs is on
    Rtc, Dates EXTEND Calendar            MemoryMap: which memory Buddy is given
    MCTables, MCTerminal, MCStartup: parts that share no variable, each examined by itself

## 3. The modules

A definition whose comment begins with "Slip" is no part of a specification: it is a form a bug in
the definition after it could take, and `PROJECT.json` says which property it violates. A type invariant without a run of its own is a conjunct
of one that has (`Agree`, `PacketsWhole`, `NoBlockShared`, `IInv`, `PInv`).

### Proc, Mailbox
All gates of the IDT are interrupt gates, so on one CPU (`NO_SMP`, `config.h` 121-129) a kernel
entry runs from start to end: each action of `Proc` is one entry. State: `procs` is the table;
`priority`, `ticks`, `flag`, `current`, `avl_thread`, `receiving`, `queue` and `threads` are the
fields of `Process`; `tflag` and `ax` those of `Thread` (`ax` is the register that carries the
answer, with the call it belongs to); `current_proc` is the CPU page's field.

| Code | Actions |
|---|---|
| SEND, `proc.c` 360-419 | `SendBadAddress`, `SendNoProcess`, `SendDeliver`, `SendQueue`, `SendFull` |
| RECEIVE, 420-468, with `threadSleep` | `ReceiveBadAddress`, `ReceiveMessage`, `ReceiveSleep` |
| `sendInterrupt`, 332-356 | `InterruptDeliver`, `InterruptQueue` |
| CREATE_THREAD, DISPOSE_THREAD, NICE | `CreateThread`, `CreateThreadNoStack`, `DisposeOther`, `DisposeSelf`, `Nice` |
| `disposeProcess`, the exception handler | `Exit`, `Exception` |
| `newProcess`, `irq0_handler` | `CreateProcess`, `Timer` |

`schedule` is the operator `ScheduleTo`: the loops of the code become `Replenish` (ticks run out)
and `Pick` (greatest ticks, first in list order). It is part of each action that calls it.
A process may make any call at any time, which includes everything the drivers, the file system
and the windows do. Three facts about programs are used: Init and the video driver call
only what they call in the source, and a process to which an IRQ handler holds a pointer does not exit.
`Mailbox` is the promise: a set of live processes, a bounded FIFO box for each, who waits, and the
last reply. It knows nothing of threads, flags, ticks or the scheduler. `Proc` maps onto it with
`receiving > 0` as "waits" and `ax` of the current thread as the reply.

Left out: page addresses (a message is its source; `Pages` has the rest), the text of handles.

### MsgRing, Fifo
The array of `Process.messages` with its three indices. Memory is not cleared by
`malloc`, so a slot starts with anything in it. `Recycle` is one turn of the loop in `disposeProcess`, with
its own modulus `KB_BUFFER_SIZE`. The ring implements `Fifo`, the bounded FIFO that `Proc` uses as
`queue`, with the mapping `Queue`.

### IdList
A process table or a thread list, `next` and `prev` pointer by pointer, including the
head. `newProcess` and `createThread` walk to the first gap and link the structure before the entry at which
they stop; `list_hide` unlinks; `getProcessById` walks. The walks are one step per entry, so that
the loop and what it knows can be stated; on one CPU nothing runs between those steps, and the
module lets nothing run there. Together with its theorems it justifies that `Proc` names a process by its pid and
takes `Least` for the first one in list order.

### Order
`Least`, the smallest of a set of naturals, with the lemmas that give it its meaning.

### InputBuffer, Keyboard
`InputBuffer` is the ring of bytes (`buf`, `p_head`, `p_tail`, `count`) and the driver's queue.
`Irq` stores the byte if there is room and notifies if there is room, each without regard to the
other. `Keyboard` adds the driver `keyboard_bottom`: `pc` is where it is, `want` what the
next byte is for (acknowledgement of a LED command, after E0, after E1), `owes` whether the keyboard
has yet to acknowledge (external). A system call, a critical section and an access to
the buffer outside one are steps of their own, so the handler comes between any two of them:

| Code | Actions |
|---|---|
| `keyboard_clear` | `SendOwn`, `DrainOther`, `DrainOwn`, `Empty` |
| `keyboard_read` | `SkipOther`, `Notified`, `TakeByte`, `CountDown` |
| `keyboard_sendBytes`, the key loop | `Command`, `After` |
| `irq1_handler`, the window manager's message to pid 5 | `irq1_handler`, `WindowManager` |

`count` is a word that wraps (`WORD` values instead of 2^32: what matters is that 0 - 1 is greater than the
buffer). `parted` is history: since the last clear a byte was dropped and its notification was not,
or the other way round. The code has no protection against that, and the invariant speaks of
the time before it. The posted events and the shift state, which nothing here reads, are left out.

### Mouse
`irq12_handler` and `mouse_bottom` on the same buffer. A byte is its place in the packet and whether a byte
before it was lost, not its value: any byte but the first may look like a first byte, an ACK or the identity 3.
`setup` is the command the dialogue is at, `mwant` what the next byte is for, `row` (history) how many bytes of the
message so far belong to one packet, `mistaken` (history) that the driver took a byte of a movement for the mouse's identity.

| Code | Actions |
|---|---|
| `mouse_clear` | `MSendOwn`, `MDrainOther`, `MDrainOwn`, `MEmpty` |
| `mouse_sendBytes`, the identity | `MCommand`, `MArgument` |
| `mouse_read` | `MNotified`, `MTake`, `MCountDown` |
| the loop of packets, the message to the window manager | `SkipByte`, `FirstByte`, `NextByte`, `Post` |
| `irq12_handler` | `irq12_handler` |

`mouse_sendBytes` does not announce the argument of SET_SAMPLE_RATE to the controller, so it goes to the keyboard and the
mouse never answers it: the driver waits for the byte that comes next, whatever it is.

### Console
`putc` stores a character, moves `pointer` and stores the 0 that ends the text; the driver scans from the start of the
buffer to the 0 and then sets `pointer` back. They share no lock, and the timer may switch between any two
accesses, so each access is a step, and the store of a character and that of the pointer come in either order. A
character is its number in the order of the calls; which one it is, is chosen where the driver reads it.

| Code | Actions |
|---|---|
| `putc` | `Load`, `StoreChar`, `MovePointer`, `LoadEnd`, `StoreEnd` |
| `video_driver` | `Spin`, `Begin`, `Scan` (with the cursor), `ScanEnd`, `Reset` |

`cut` (history): a `putc` has met the end of a scan or another `putc`, where characters are lost or shown twice.
The code has nothing against that, and the invariant says that nothing else loses any.

### Buddy
Addresses in units of 4 bytes, the smallest block. `memoryBlocks[b]` is the list of free blocks of `Pow[b]`
units, the powers of two being a constant of the module; it is a set since `memory_block_free` keeps each list ascending. One step is one critical
section of `memoryLock`:

| Code | Actions |
|---|---|
| `memory_block_free`: the buddy is listed, or not | `Merge`, `LinkBlock` |
| `memory_free_nocheck`: pieces from the low and the high end | `LowPiece`, `HighPiece`, `EndRange` |
| `memory_alloc` | `AllocExact`, `AllocSplit`, `AllocHalt` |
| `free`, `FREE_PAGE` | `Free` |

`blk`, `rest` and `keep` are what a processor has in hand between two of them. `BOOT` runs
`init_memory` first (`up`). An allocation that finds no block stops the system (`halted`), as
the code does. Left out: `memory_free`'s rounding of addresses, which only the boot uses.

### NorlitFs
The file system server on its partition: `sb` is the superblock, `cell` what a block holds as far as
the server reads it (the link of a free block, the data block of a file block, the entries of a
directory, or the text a program wrote over them, since files and directories are not told apart). A write
to the disk ends a step, and a read belongs to the decision it serves, so `Crash` comes between any two writes.

| Code | Actions |
|---|---|
| `norlitfs_bottom`: start, HD_OPEN | `Boot`, `Open`, `Found`, `NotFound`, `Reply` |
| `mallocBlock` | `MallocExact`, `MallocSplit`, `MallocNone` |
| `freeBlock`, inside the split | `FreeHead`, `FreeLink` |
| `createFileBlock`, the new entry | `ClearData`, `WriteFile`, `WriteEntry` |
| HD_WRITE, and HD_READ, which changes nothing | `Write` |

`mallocBlock` and `createFileBlock` return 0 when there is no space and HD_OPEN goes on with 0. When a
component is left to look up, the server reads block 0 as a file, or the text of a file as entries; what it
does then depends on bytes that are not its own, and the model stops (`Astray`). `hashName` is taken as given: a name is its hash.
`held` (history) is what each file should hold. `Reach(c, S)` is the least set that holds `S` and is closed under what
`c` says of each block: links of free blocks, or files and entries. `PartitionAssumption` is what is assumed of the way the
partition was formatted, which nothing in the repository does: each block but the root's two lies in exactly one free block. Programs write no directory and name offset 0, as those in
the repository do; behind the end of a file, HD_WRITE writes block 0 (`Offsets` with 1 in it shows that).

### Servers
`send`, `receive` and the file calls of `proclib.c`, the loops of the file system and of the disk
driver, one system call a step, on mailboxes as `Mailbox` promises them. A message is its source and the
request it is about, so that a reply to an older request can be told from the right one. `receive`
with a source puts a message from somebody else back into its own queue: `SetAside`, `PutBack`.
Both servers begin with calls of their own, with requests of programs already coming in. `busy` (external) is the disk at
work on a sector; `irq13_handler` ends it. What a file request does on the disk is some number of disk requests (`REQUESTS`), and
a disk request some sectors (`SECTORS`).

### Pages
`mem.at` says what each place holds: a page directory, a page table, an entry of a table, a slot of a
message queue. `mem.free` is the rest. The primitives `Take`, `Move`, `Map`, `Forget`, `Recycle` and `Tabled` are
what the code does with one page; a call is a composition of them in the order of the code, and one
action. `stack` holds the pair of page tables of each thread's stack, `wait` the address a thread
has given to RECEIVE.

| Code | Actions |
|---|---|
| `newProcess`, `createThread`, `allocThreadStack` | `CreateProcess`, `CreateThread` |
| the page fault handler, in a stack or outside | `Expand`, `Exit` |
| ALLOC_MEMORY, OPEN_PHYSICAL_MEMORY | `AllocMemory`, `OpenPhysicalMemory` |
| SEND, RECEIVE, `sendInterrupt` | `SendDeliver`, `SendQueue`, `ReceiveMessage`, `ReceiveSleep`, `InterruptDeliver`, `InterruptQueue` |
| `recycleThreadStack`, `disposeThread`, `disposeProcess` | `DisposeThread`, `Exit` (both by `Dispose`) |

Three things are assumed of programs, and hold for all in the repository: they allocate one page at
a time, no call names an address in the stack area, and none names an address at which another
thread of the process waits. With more than one page ALLOC_MEMORY takes one and maps the ones behind it too,
whoever they belong to. A call that answers with an error before it touches a page is left out.

### MemoryMap
The two loops of `init_memory` over the firmware's regions, an iteration a step: `FirstLoop` gives the
allocator what the loader has mapped, `SecondLoop`, after `init_paging`, what is above. Both cut with u32 arithmetic
(`WORD`). A region that ends at 4 GB wraps to 0; the property is about maps without one below what can be mapped.

### Acpi
`init_acpi` to the table APIC (`SkipTable`, `FindMadt`), `acpi_apic` over its entries (`Processor`, `IoApic`, `Override`,
`Other`), `init_apic` (`InitApic`), and the init functions of the devices (`SetUp`, with `registerIRQ` and
`enableIRQ`). A second I/O APIC sends `acpi_apic` to the same entry for ever (`IoApicAgain`).

### Partitions
`readPartition` fills the table (`BrokenMbr`, `Gpt`, `Primaries`, `ReadEbr`, `BrokenEbr`, `ChainEnds`), and the file
system looks for its partition and opens it by its number (`OpenMbr`, `PassSlot`, `OpenPartition`, `NoPartition`).
What the page of the table held before is `GARBAGE`, which a broken record leaves in a slot and a broken MBR in all of them.

### Rtc, Calendar, Dates
`Rtc` is `read_RTC` (`NotUpdating`, `CMOS_read`, `Again`, `Return`) while the clock goes on (`Announce`, `Update`,
external). `Calendar` has `mktime` and `gmtime` as operators, and `Dates` a calendar that goes on day after day, to compare
them with. Two things come out that the properties spell out: `gmtime` of a January 31 is February 0, and in
12-hour mode `read_RTC` takes noon for midnight and midnight for noon.

### Division, Numbers
`do_divmod64` (`Justify`, `Divide`) and `itoa` (`Sign`, `Digit`, `Pad`, `Turn`, `Fill` and the ends of its loops), one
iteration a step; `atoi` is an operator. `Bit` gives the powers of two, so that `Division` says what it needs of them;
in `Numbers`, `Power` is a recursive function, since the provers know nothing of `^`.

## 4. The runs

`tlc -config <cfg> <module>`. States are distinct states.

| Run | Module, configuration | Shows | States |
|---|---|---|---|
| `proc_ipc` | `MCProc`, `MCProcIpc.cfg` | one process runs, no lost wakeup, `Proc` implements `Mailbox` | 132,770 |
| `proc_threads` | `MCProc`, `MCProcThreads.cfg` | what sleeping means, which thread runs | 458,036 |
| `proc_sched` | `MCProc`, `MCProcLive.cfg` | the scheduler ends, no starvation | 33,927 |
| `tables` | `MCTables`, `MCTables.cfg` | the ring is a FIFO; numbers, links, walks and lookup of the lists | 335,047 |
| `terminal` | `MCTerminal`, `MCTerminal.cfg` | bytes of keyboard and mouse read once, packets whole, a clear ends; the cursor, text shown once and in the end | 1,081,879 |
| `keyboard_count` | `Keyboard`, `KeyboardCount.cfg` | **violated:** `count` goes below zero | |
| `buddy` | `MCBuddy`, `Buddy.cfg` | memory conserved, always merged, calls end, out of memory is real | 48,182 |
| `norlit_fs` | `MCNorlitFs`, `NorlitFs.cfg` | names lead to complete files that hold what was written, no block shared, none lost but by a crash | 95,474 |
| `norlit_fs_full` | `MCNorlitFs`, `NorlitFsFull.cfg` | **violated:** a full disk loses its superblock | |
| `pages` | `MCPages`, `Pages.cfg` | each page free or held once, none lost, stacks apart | 19,874 |
| `servers` | `MCServers`, `Servers.cfg` | each request answered once, queues suffice, calls return | 41,540 |
| `startup` | `MCStartup`, `MCStartup.cfg` | memory map, interrupts, partitions, clock, dates, division, numbers | 535,484 |

**Bounds, and why they are enough.**

* `proc_ipc`: Init, the video driver, one driver with interrupts, and the process Init creates; queues of two. The queue
  gets empty, partly filled and full; a client exits and its pid is used again (`MAX_CREATES` = 1).
  `proc_threads` trades queue length for two threads a process and a second creation, which is what
  `receiving` and the flags of threads need. `proc_sched` has unequal priorities, 1 and 2, so ticks run out at different
  times. Every call of the code is in each of them.
* `tables`: three slots, so that the head wraps before, with and after the tail; four structures: a gap at the front,
  in the middle and at the end, all symmetric.
* `terminal`: a buffer of two and a queue of three, so that each can be full while the other is not; one
  SET_SAMPLE_RATE instead of four (`RATES`). Two writers; a character printed before the driver starts and two after, so that
  one lies in each part of the buffer. The screen is 144 by 60: less than three tab stops, two rows and a rest.
* `buddy`: eight units from an odd address, so that `init_memory` gives blocks of several sizes whose
  buddies lie outside; two processors.
* `norlit_fs`: free blocks of sizes 2 and 4 (one and two splits), paths of up to two components from two names, two
  crashes: the second one meets what the first left behind. Six free blocks are three files, more than one
  path creates. Two texts tell a file's own from another's. `norlit_fs_full` has an odd number of free blocks, so that the second of a file's two is missing.
* `pages`: ten pages, two processes of two threads, one table for programs, two stacks, two entries a table.
  A process needs a directory and, for a thread, a stack table and a page, so that both can be full, and
  memory can run out. `View` keeps which places hold the same page and which of them hold a free one: pages are
  interchangeable but for `Fresh`, which takes some free one.
* `servers`: two clients of the file system and one of the disk, so that both servers have foreign messages to
  put back; up to two disk requests a file request and two sectors a disk request. Two numbers tell a request from the one before.
* `startup`: two regions in order with every kind and over every border; up to three moved interrupts; disks with a
  primary partition, a chain, two chains, GPT, neither, and every chain of three records; the seconds before a full hour on the last
  days of months, leap years and years; every day of 1899 to 2100, with two centuries that have no leap day and one that has; all
  words of six bits, 0 divisors apart.

**Deadlock** is checked except where the system may stop: memory used up (`buddy`, `pages`), the file
system exited or `Astray` (`norlit_fs`, `norlit_fs_full`), the start done (`startup`).

**Fairness.** `proc_sched` assumes that the local APIC timer keeps firing (`WF` of `Timer`) and nothing
else; what it shows, `NoStarvation`, is what justifies `WF` of the driver in `Keyboard` and in `Console`, of a process
that is inside `putc`, of each process in `Servers` and of the server in `NorlitFs`. `Servers` also assumes that the disk completes each sector.
`Buddy` assumes that a call inside the kernel goes on. Nobody is obliged to make a call or press a key.

**Findings.**

* `keyboard_count`: a key between `keyboard_clear`'s message to itself and its critical section leaves a
  notification in the queue and no byte. The next `keyboard_read` takes a byte that is not there and
  `count--` makes 2^32 - 1; the handler then drops every byte until the next clear. The comment at
  `keyboard.c` 151-153 says the critical sections keep `count` safe from the handler.
* `norlit_fs_full`: `createFileBlock` (`filesystem.c` 268) looks at the answer of its first `mallocBlock`, not of
  its second. With one block left it clears block 0, and the superblock (`filesystem.h` 47) with it.
* Not a run: the comment at `filesystem.c` 101 says "and mkfs if FS does not exist", but line 83 sets the
  flag that is tested, so that `mkfs` is never reached and the server exits without a file system.

## 5. The proofs

Every theorem holds for all values of the constants under the named assumptions. Sizes and sets have the types the code
gives them in `BoundsAssumption`, `PriorityAssumption`, `IrqAssumption` (Proc), `RingAssumption` (MsgRing),
`HeadAssumption` and `FirstAssumption` (IdList), `PagesAssumption` (Pages), `MemoryAssumption` and `PowAssumption` (Buddy),
`BufferAssumption` (InputBuffer), `ScanCodeAssumption` (Keyboard), `MouseAssumption` (Mouse), `ScreenAssumption` and
`TextAssumption` (Console), `PowAssumption` and `PartitionAssumption` (NorlitFs), `YearsAssumption` (Dates), `ServersAssumption` (Servers),
`MapAssumption` (MemoryMap), `DevicesAssumption` (Acpi), `TicksAssumption` (Rtc), `BitsAssumption` (Division) and `WordAssumption` (Numbers). These say more:

| Assumption | Says | Why |
|---|---|---|
| `SameSizeAssumption` (MsgRing) | `KB_BUFFER_SIZE` is `MAX_MESSAGE_COUNT` | both are 0x100, by two lines of `config.h`, 91 and 131 |
| `QueuesSuffice` (Servers) | no process has more peers than its queue has slots | 256 slots (`config.h` 131), a dozen processes |
| `MappingAssumption` (MemoryMap) | kernel, loader's mapping, what can be mapped, 4 GB: ascending | constants of `config.h` |
| `BoardAssumption` (Acpi) | an override names an IRQ of the ISA bus and an input of the I/O APIC | the ACPI standard; the code indexes `irqOverride` without a look |
| `TableAssumption` (Partitions) | the table has room for the four primary partitions | 64 slots |
| `DiskAssumption` (Partitions) | wherever the chain leads is a sector of the disk, though not the first | the code reads what the record says; a read past the end is the disk's affair |
| `StartAssumption` (Rtc) | the clock shows a date from 2000 to 2098 | the code adds 2000 to two digits |

That no more than 59 seconds go by in `read_RTC` (`TicksAssumption`) is a matter of speed: each round is seven port accesses,
and the call is made once, while the kernel starts (`timer.c` 73).

**`Proc_proofs`: the safety of the kernel calls.** `NoLostWakeup` alone is not inductive: a sleeper is found by
the flag of its thread, and it becomes current by its ticks. The invariant is

    IInv == TypeOK /\ OneRunning /\ SleepsInReceive /\ NoLostWakeup
              /\ AvailableThreads /\ TicksBudget /\ Permanent

`Permanent` (Init and the video driver never sleep) and `TicksBudget` are the strengthening: with them
`schedule` always finds a ready process with ticks, so the choice `Pick` makes exists and is
another process than a sleeping one. `ScheduleTo` is treated in lemmas of its own, once for all actions that call
it. From `IInv` follow `TypeCorrect`, `MutualExclusion`, `SleepersReceive`, `NoWakeupIsLost`, `AvailableCounts`,
`TicksKept` and `SchedulerTerminates`.

**There too: `Proc` implements `Mailbox`.** `OnlyCurrentRuns` is needed first: what a caller sees in
`ax` is that of the current thread only because no other thread has made a call. Then each action maps to
a step of `Mailbox` or to a stutter; `Timer`, `Nice` and the calls for threads stutter unless they end a process.

**`Structures_proofs`: the ring implements `Fifo`**, from `RInv` (head, tail and count agree), for any size, and with the
loop of `disposeProcess` only because `KB_BUFFER_SIZE` equals `MAX_MESSAGE_COUNT` (`SameSizeAssumption`).

**There too: the lists.** `LInv` says that following `next` visits ascending numbers and that `prev` is its inverse, and
`WalkKnows` what a walk has found out so far; from it the number given is the least free one and the lookup is exact.

**`Pages_proofs`: no page is shared or lost.** `PInv` is inductive. The proof has two halves: each primitive preserves
`Good` (types, one holder, none lost), so a call, being a composition of them, does, whatever it composes; and
`Structure` (`Reachable`, `StacksApart`, `WaitsVacant`) is shown for each action by what its primitives change. The
step that needs most is disposal: everything of a stack, or of a process, is recycled, and what is left must not hang
below it. `WaitsVacant` is why the page that wakes a receiver overwrites nothing.

**There too: memory is conserved, merged, and used up before the system stops.** Any number of processors, any range
`init_memory` is given. The invariant is that every unit has a place of its own: in a free block, in a block somebody
owns, or in what a processor has in hand (`blk`, `rest`, `keep`), with `freeMemoryCounter` the size of the first and the
last kind. A merge keeps it because a block and its buddy are both aligned to their size, so that two blocks that
touch are nested or disjoint. That two free buddies are never both listed (`Unmerged`) only forbids buddies of one size;
`Coalesced` speaks of every aligned range, and follows by the least exponent at which a free range would not be a
block: its two halves are free, so listed, and so buddies. `StopIsForLackOfMemory` uses this: when no list at or above the
size has a block, no aligned range of that size is free.

**`Terminal_proofs`: the bytes of keyboard and mouse are read once, in order.** `KInv` follows each byte from the handler through
the buffer into the driver: bytes and notifications agree as long as nothing has parted them, with one more or
one less at the two points of `keyboard_read` and `keyboard_clear` at which the handler may come between. The mouse's adds
`Chained`: bytes in a row in the buffer belong to one packet unless one before was lost, which is why a packet
whose first byte is a first byte is whole. For buffers larger than those of the run, the statement as it
first stood was false (a byte of an old movement may pass for the identity 3, which turns the wheel on and makes packets of four out
of packets of three); `PacketsWhole` now says so by `mistaken`.

**There too: the cursor stays on the screen**, for every resolution. `CursorOnScreen` says nothing of the rows below
the last one that fits, so the invariant adds that rows are 16 apart (`y % 16 = 12`): a cursor one row
too low is then taken back to a row, and not above the first. **Text is shown once and in order**, for any number of
writers. The invariant (`CutInv`): as long as nothing has met, one writer at most is inside `putc`; character `i` of the
buffer is number `Base + i`, where `Base` counts what was shown before it; and `WriterAt` says what the writer has
done of its three stores, in either order. So the scan, which stays behind that writer, reads the number that follows
the last one (`ReadsNext`), and the reset finds nothing left.

**`NorlitFs_proofs`: the tree of files stays intact and no block is shared, over any number of crashes and on a disk of any
size; without a crash none is lost.** The invariant `NInv` says that each block has one place: in a list of free blocks (`Listed`),
in the hand of `mallocBlock` or `createFileBlock` (`Hand`), or in the tree (`Used`). The lists and the tree are least
fixed points (`Reach`), so each write needs what it does to them: a write outside a reachable set leaves it as it is, one at its end adds a
leaf, and taking the first block of a list leaves the rest. A crash empties the hand: a block in it is lost, and
never shared, because it leaves its list before it is given a use. `TreeStaysIntact` is about the order in which
`createFileBlock` writes: data block, file block, then the entry that names it, so that at any
instant what has a name is complete. It holds as long as the superblock is one, which is what `norlit_fs_full` loses.
A directory over which a program has written lists nothing from then on; the code would read the text as entries, and the model stops there.

**`Startup_proofs`: `do_divmod64` divides exactly**, for every width of a word. The invariant is that `den` is the divisor times
`qbit`, a bit of the word, and that what is left is less than twice `den`. `qbit` stays a bit because the first loop stops at
the sign bit, and both are halved together in the second. **`mktime` counts the days** one by one, in every year: by month,
since `(367 * mon) / 12` grows by the length of each month from March on, and by `YearLength` at the turn of its year.
**`gmtime` undoes it** (`DatesAgreeWithCalendar`). Its loop is a recursive function in `Calendar`. `CountsBack` gives
that function a form without recursion, days left minus the days before a year, by an induction in which the least number it
fails for is taken (`AllNaturals`). Since the days before a year grow, there is one year at which the loop ends, and it is the year of the day;
the month is the one of two that the table leaves.
**What `itoa` writes can be read** (`NumbersAreReadBack`), for any width of word and field. Nothing in the state remembers
the number's quotients once a digit has been taken, nor the characters before they are turned round, so the invariant
(`WriteInv`) says that there are a sequence of quotients and an unturned sequence that account for what is in `str`: while the
digits come out, while it is padded, with the places exchanged so far from both ends (`TurnedTo`), and with blanks behind.
Read from the front, the value after each digit is one of these quotients, and the last is the number (`Readable`,
`DigitsAre`). There are as many digits as the number needs because the quotients, from the last back, lie between
powers of the radix (`DigitsNeeded`). `Power` and `Digits` are unfolded as the loop of `gmtime` is.

**There too: what the kernel finds out when it starts.** *Memory*: at each point of the two loops, what has been given is
exactly the usable memory of the regions before `ai`, up to the border of the loop, and no two of the ranges
overlap. The cuts of u32 arithmetic are exact because a region that matters ends below 4 GB; the two loops share nothing, because
one ends where the other begins. *Interrupts*: the line of an IRQ is what the last entry before `header` says of it;
afterwards each redirection entry has the vector `init_apic` wrote last, and is open just for the lines of the devices that are set up.
The line of an IRQ that has it to itself is rewritten for that IRQ and for no other. *Partitions*: the records read so far are in the slots from 4 on, and each of them leads to another or to
`extSec`. The chain is the least set of records closed under that, so when it ends before the table does, all of it has been read.
*The clock*: times are counted in seconds, on the days that `mktimeCountsDays` counts. Two rounds that agree in the seconds have no update between them, since the call takes
less than a minute, and so the registers are of one time.

**`Servers_proofs`: a request is served once, and replies find room**, for any number of clients. A queue
looks like any sequence of messages, but who sent a message says which one it is (`Letter`): a peer has one message at most in a queue, and it is the request
the peer waits for, the reply to the owner's own, or the interrupt. So the invariant follows a request by the names of senders:
while its caller waits it is in one of the server's queue or hand (`Asked`), in its work (`Served`), and the caller's queue (`Answered`), and else
in none. What `receive` puts back is a message of another sender than those in the queue, so the message is never there twice. There
is room because the senders are distinct: a queue is no longer than its owner has peers.

`Order_proofs` gives `Least` its meaning for the others.

**Only model-checked.** What must eventually happen (`NoStarvation`, `ClearEnds`, `PutsShown`, `CallsEnd`, `OpenEnds`,
`CallsReturn`): liveness under fairness and `ENABLED` are out of the prover's reach. Every other property of a passing run is
stated by a theorem.

## 6. Not modelled

* **SMP.** Off in the default build, and known not to run (`config.h` 124-129). `Proc` takes a kernel entry as one step,
  which on two processors holds only between a lock and its unlock. `Buddy` is cut at its lock and covers both.
* **Boot, interrupt entry, paging at boot.** Sequential code that fills tables once or saves registers.
* **Of ACPI**, the search for the root pointer and the temporary mappings; **of the disk**, IDENTIFY and the
  ATA registers; **of the clock**, `write_RTC`, which nothing calls.
* **Of the library**, the parsing of formats by `vsprintf`, and `memcpy`, `strlen` and the like: data without a state.
* **Video, windows.** Pixels, fills and bitmaps, which nothing reads back. **Key maps**: the values of keys, which only the windows read.
* **`mkfs`**, which is never reached (`filesystem.c` 83), and blocks of a file behind its first, which nothing allocates.
* **The test stub** (`test/test.c`), which exercises nothing of the kernel.

Hazards no property covers are in `PROJECT.json` with the reason.
