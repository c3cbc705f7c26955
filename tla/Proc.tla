-------------------------------- MODULE Proc --------------------------------
(***************************************************************************)
(* kernel/process/proc.c and kernel/process/timer.c on one CPU (the         *)
(* default build, NO_SMP = 1): the process table, the scheduler, threads    *)
(* and the message system calls.                                            *)
(*                                                                         *)
(* Every gate of the IDT is an interrupt gate, so the kernel runs with      *)
(* interrupts disabled and a system call, an IRQ handler or an exception    *)
(* handler is one atomic step from a user-mode state to a user-mode state.  *)
(* An action below is one such kernel entry.                                *)
(*                                                                         *)
(* A process is named by its pid and a thread by its pid and threadID: that *)
(* both are unique, and that both lists are in ascending order of them, is  *)
(* what module IdList shows.  A message is its source pid (-1 for a         *)
(* hardware interrupt); the ring of messages[] is the sequence queue[p],    *)
(* which module MsgRing shows it to implement.  The page a message carries  *)
(* is left out.                                                             *)
(***************************************************************************)
EXTENDS Order, Sequences, FiniteSets

CONSTANTS
  MAX_PID,            \* bound: greatest pid the model has room for
  NBOOT,              \* cstart creates the processes 1 .. NBOOT
  BootPriority,       \* priority each of 0 .. NBOOT was created with
  IrqTargets,         \* the processes some IRQ handler notifies
  MAX_MESSAGE_COUNT,  \* slots of Process.messages
  MAX_THREADS,        \* stacks between STACK_BOTTOM and STACK_TOP
  MAX_CREATES         \* bound: calls of createProcess after boot (1 in Init)

INIT      == 0        \* init_proc gives the first process pid 0
PID_VIDEO == 1
Boot      == 0 .. NBOOT
Pid       == 0 .. MAX_PID
Tid       == 0 .. MAX_THREADS - 1

ASSUME BoundsAssumption ==
  /\ MAX_PID \in Nat /\ NBOOT \in Nat /\ PID_VIDEO <= NBOOT /\ NBOOT <= MAX_PID
  /\ MAX_MESSAGE_COUNT \in Nat \ {0}
  /\ MAX_THREADS \in Nat \ {0}
  /\ MAX_CREATES \in Nat
ASSUME PriorityAssumption == BootPriority \in [Boot -> Nat \ {0}]
ASSUME IrqAssumption == IrqTargets \subseteq Boot \ {INIT, PID_VIDEO}

IRQ     == -1         \* the source RECEIVE reports for a hardware interrupt
PENDING == -3         \* no answer yet: ax still holds the call number
NULL    == 0
Source  == Pid \cup {IRQ}

(* The call a thread made last and what the kernel left in regs.ax for it.  *)
Call   == {"START", "SEND", "RECEIVE", "CREATE_THREAD", "DISPOSE_THREAD", "NICE"}
Answer == [call : Call, ret : Int]

(* The values of Process.flag and Thread.flag.                              *)
READY == 0            \* a thread with this flag is "available"
ASLEEP == 1
RUNNING == 2          \* of a process: it has the CPU
RECEIVING == 2        \* of a thread: it waits in RECEIVE

VARIABLES
  procs,         \* pids in processTable
  priority, ticks, flag, current, avl_thread, receiving, queue,
                 \* the fields of Process, one function of pids each
  threads,       \* [Pid -> SUBSET Tid]: the thread list of each process
  tflag,         \* [Pid -> [Tid -> 0 .. 2]]: Thread.flag
  ax,            \* [Pid -> [Tid -> Answer]]: Thread.regs.ax
  current_proc,  \* cpuPage.current_proc
  creates        \* number of processes created after boot

table == <<procs, priority, current, threads>>
ipc   == <<receiving, queue, tflag, avl_thread>>
sched == <<ticks, flag, current_proc>>
vars  == <<table, ipc, sched, ax, creates>>

(***************************************************************************)
(* The scheduler.                                                           *)
(***************************************************************************)
Ready(fl) == {q \in procs : fl[q] = READY}

(* The second inner loop of schedule: when no ready process has ticks left, *)
(* each of them gets its priority as ticks.                                 *)
Replenish(fl, tk) ==
  IF \E q \in Ready(fl) : tk[q] > 0
    THEN tk
    ELSE [q \in Pid |-> IF q \in Ready(fl) THEN priority[q] ELSE tk[q]]

(* The first inner loop: the ready process with most ticks, and the first   *)
(* one in list order among equals.                                          *)
Pick(fl, tk) ==
  LET best == {q \in Ready(fl) : \A r \in Ready(fl) : tk[r] <= tk[q]}
  IN  Least(best)

(* Slip: the process that gets the CPU is not marked.                       *)
ScheduleToUnmarked(f, tk, left) ==
  LET tk2 == Replenish([flag EXCEPT ![current_proc] = f], tk)
  IN  /\ ticks' = tk2
      /\ current_proc' = Pick([flag EXCEPT ![current_proc] = f], tk2)
      /\ flag' = [flag EXCEPT ![current_proc] = left]

(* schedule(f), called with ticks tk.  The process that loses the CPU ends  *)
(* with flag "left", which is f except for NICE, whose caller resets it.    *)
ScheduleTo(f, tk, left) ==
  LET fl   == [flag EXCEPT ![current_proc] = f]
      tk2  == Replenish(fl, tk)
      next == Pick(fl, tk2)
  IN  /\ ticks' = tk2
      /\ current_proc' = next
      /\ flag' = [flag EXCEPT ![current_proc] = left, ![next] = RUNNING]

Schedule(f) == ScheduleTo(f, ticks, f)

(***************************************************************************)
(* Which program runs what: Init (pid 0) creates a process and then calls   *)
(* NICE for ever, the video driver polls and never enters the kernel, and   *)
(* the processes that IRQ handlers notify never return from their loops.    *)
(***************************************************************************)
Caller == current_proc \notin {INIT, PID_VIDEO}
Mortal == Caller /\ current_proc \notin IrqTargets

Answered(p, a) == ax' = [ax EXCEPT ![p][current[p]] = a]
Ans(c, r) == [call |-> c, ret |-> r]

(* The receiver a message is handed to: the first thread with flag 2.       *)
FirstReceiving(q) == Least({t \in threads[q] : tflag[q][t] = RECEIVING})

(* The body SEND and sendInterrupt share when p->receiving is not 0, up to  *)
(* the answer: receiving--, and threadAwake of the receiver.                *)
Wake(q) ==
  LET t == FirstReceiving(q)
  IN  /\ receiving' = [receiving EXCEPT ![q] = @ - 1]
      /\ tflag' = [tflag EXCEPT ![q][t] = READY]
      /\ avl_thread' = [avl_thread EXCEPT ![q] = @ + 1]
      /\ flag' = IF flag[q] = ASLEEP THEN [flag EXCEPT ![q] = READY] ELSE flag

Enqueue(q, src) == queue' = [queue EXCEPT ![q] = Append(@, src)]

(***************************************************************************)
(* Start: what cstart leaves.  init_proc made Init the current process and  *)
(* each init_xxx called createProcess, before the first interrupt.          *)
(***************************************************************************)
Init ==
  /\ procs = Boot
  /\ priority = [p \in Pid |-> IF p \in Boot THEN BootPriority[p] ELSE 1]
  /\ ticks = priority
  /\ flag = [p \in Pid |-> IF p = INIT THEN RUNNING ELSE READY]
  /\ current = [p \in Pid |-> 0]
  /\ avl_thread = [p \in Pid |-> 1]
  /\ receiving = [p \in Pid |-> 0]
  /\ queue = [p \in Pid |-> <<>>]
  /\ threads = [p \in Pid |-> {0}]
  /\ tflag = [p \in Pid |-> [t \in Tid |-> READY]]
  /\ ax = [p \in Pid |-> [t \in Tid |-> Ans("START", PENDING)]]
  /\ current_proc = INIT
  /\ creates = 0

(***************************************************************************)
(* SYSCALL_SEND.  sendMessage passes ebx = 0, the sender's own pid; only    *)
(* proclib's receive passes another source, when it puts a message back     *)
(* into its own queue under the source RECEIVE has just reported.           *)
(***************************************************************************)
Sends(q, src) ==
  /\ Caller
  /\ \/ src = current_proc
     \/ /\ q = current_proc
        /\ LET a == ax[current_proc][current[current_proc]]
           IN  a.call = "RECEIVE" /\ a.ret = src
        /\ src \in Source

(* ecx is not a page the sender has mapped, or is a device page: -2.        *)
SendBadAddress ==
  /\ Caller
  /\ Answered(current_proc, Ans("SEND", -2))
  /\ UNCHANGED <<table, ipc, sched, creates>>

(* getProcessById starts after the table's head: it never finds Init.       *)
Found(q) == q \in procs \ {INIT}

SendNoProcess(q, src) ==
  /\ Sends(q, src) /\ ~Found(q)
  /\ Answered(current_proc, Ans("SEND", -1))
  /\ UNCHANGED <<table, ipc, sched, creates>>

SendDeliver(q, src) ==
  /\ Sends(q, src) /\ Found(q) /\ receiving[q] > 0
  /\ ax' = [ax EXCEPT ![q][FirstReceiving(q)] = Ans("RECEIVE", src),
                      ![current_proc][current[current_proc]] = Ans("SEND", 1)]
  /\ Wake(q)
  /\ UNCHANGED <<table, queue, ticks, current_proc, creates>>

(* Slip: SEND queues without a look at p->receiving.                        *)
SendQueueBlindly(q, src) ==
  /\ Sends(q, src) /\ Found(q)
  /\ Len(queue[q]) < MAX_MESSAGE_COUNT
  /\ Enqueue(q, src)
  /\ Answered(current_proc, Ans("SEND", 1))
  /\ UNCHANGED <<table, receiving, tflag, avl_thread, sched, creates>>

SendQueue(q, src) ==
  /\ Sends(q, src) /\ Found(q) /\ receiving[q] = 0
  /\ Len(queue[q]) < MAX_MESSAGE_COUNT
  /\ Enqueue(q, src)
  /\ Answered(current_proc, Ans("SEND", 1))
  /\ UNCHANGED <<table, receiving, tflag, avl_thread, sched, creates>>

SendFull(q, src) ==
  /\ Sends(q, src) /\ Found(q) /\ receiving[q] = 0
  /\ Len(queue[q]) >= MAX_MESSAGE_COUNT
  /\ Answered(current_proc, Ans("SEND", 0))
  /\ UNCHANGED <<table, ipc, sched, creates>>

(***************************************************************************)
(* SYSCALL_RECEIVE.                                                         *)
(***************************************************************************)
ReceiveBadAddress ==
  /\ Caller
  /\ Answered(current_proc, Ans("RECEIVE", -2))
  /\ UNCHANGED <<table, ipc, sched, creates>>

(* Slip: RECEIVE reads the slot before msgHead.                             *)
ReceiveNewest ==
  LET p == current_proc
      n == Len(queue[p])
  IN  /\ Caller /\ n > 0
      /\ Answered(p, Ans("RECEIVE", queue[p][n]))
      /\ queue' = [queue EXCEPT ![p] = SubSeq(@, 1, n - 1)]
      /\ UNCHANGED <<table, receiving, tflag, avl_thread, sched, creates>>

ReceiveMessage ==
  LET p == current_proc
  IN  /\ Caller /\ queue[p] # <<>>
      /\ Answered(p, Ans("RECEIVE", Head(queue[p])))
      /\ queue' = [queue EXCEPT ![p] = Tail(@)]
      /\ UNCHANGED <<table, receiving, tflag, avl_thread, sched, creates>>

(* Slip: p->receiving is not counted up.                                    *)
ReceiveSleepUncounted ==
  LET p == current_proc
  IN  /\ Caller /\ queue[p] = <<>>
      /\ avl_thread' = [avl_thread EXCEPT ![p] = @ - 1]
      /\ Schedule(ASLEEP)
      /\ tflag' = [tflag EXCEPT ![p][current[p]] = RECEIVING]
      /\ Answered(p, Ans("RECEIVE", PENDING))
      /\ UNCHANGED <<table, receiving, queue, creates>>

(* threadSleep: whether or not another thread is available, the process     *)
(* that has the CPU ends with flag 1, since the test "current_thread=t" is  *)
(* an assignment.  The thread's flag is 1 only until threadSleep returns.   *)
ReceiveSleep ==
  LET p == current_proc
  IN  /\ Caller /\ queue[p] = <<>>
      /\ avl_thread' = [avl_thread EXCEPT ![p] = @ - 1]
      /\ Schedule(ASLEEP)
      /\ tflag' = [tflag EXCEPT ![p][current[p]] = RECEIVING]
      /\ receiving' = [receiving EXCEPT ![p] = @ + 1]
      /\ Answered(p, Ans("RECEIVE", PENDING))
      /\ UNCHANGED <<table, queue, creates>>

(***************************************************************************)
(* sendInterrupt(d), from the handler of an IRQ, whatever process runs.     *)
(***************************************************************************)
InterruptDeliver(d) ==
  /\ receiving[d] > 0
  /\ ax' = [ax EXCEPT ![d][FirstReceiving(d)] = Ans("RECEIVE", IRQ)]
  /\ Wake(d)
  /\ UNCHANGED <<table, queue, ticks, current_proc, creates>>

InterruptQueue(d) ==
  /\ receiving[d] = 0 /\ Len(queue[d]) < MAX_MESSAGE_COUNT
  /\ Enqueue(d, IRQ)
  /\ UNCHANGED <<table, receiving, tflag, avl_thread, sched, ax, creates>>
(* A full queue drops the interrupt (puts("Q")): nothing changes.           *)

(* Slip: the tick is not taken from the running process.                    *)
TimerFree == ScheduleTo(READY, ticks, READY) /\ UNCHANGED <<table, ipc, ax, creates>>

(* irq0_handler.                                                            *)
Timer ==
  /\ ScheduleTo(READY, [ticks EXCEPT ![current_proc] = @ - 1], READY)
  /\ UNCHANGED <<table, ipc, ax, creates>>

(* Slip: the flag is not reset after schedule(2).                           *)
NiceForGood ==
  /\ current_proc # PID_VIDEO
  /\ ScheduleTo(RUNNING, ticks, RUNNING)
  /\ Answered(current_proc, Ans("NICE", PENDING))
  /\ UNCHANGED <<table, ipc, creates>>

(* SYSCALL_NICE: schedule(2), and the flag is reset to 0 after it.          *)
Nice ==
  /\ current_proc # PID_VIDEO
  /\ ScheduleTo(RUNNING, ticks, READY)
  /\ Answered(current_proc, Ans("NICE", PENDING))
  /\ UNCHANGED <<table, ipc, creates>>

(***************************************************************************)
(* Threads.  The handle CREATE_THREAD returns is the Thread's address; the  *)
(* model returns threadID + 1, which is not NULL either.                    *)
(***************************************************************************)
Handle(t) == t + 1

(* Slip: the new thread becomes current.                                   *)
CreateThreadCurrent ==
  LET p == current_proc
      t == Least(Tid \ threads[p])
  IN  /\ Caller /\ threads[p] # Tid
      /\ threads' = [threads EXCEPT ![p] = @ \cup {t}]
      /\ current' = [current EXCEPT ![p] = t]
      /\ avl_thread' = [avl_thread EXCEPT ![p] = @ + 1]
      /\ tflag' = [tflag EXCEPT ![p][t] = READY]
      /\ ax' = [ax EXCEPT ![p][t] = Ans("START", PENDING),
                          ![p][current[p]] = Ans("CREATE_THREAD", Handle(t))]
      /\ UNCHANGED <<procs, priority, receiving, queue, sched, creates>>

CreateThread ==
  LET p == current_proc
      t == Least(Tid \ threads[p])
  IN  /\ Caller /\ threads[p] # Tid
      /\ threads' = [threads EXCEPT ![p] = @ \cup {t}]
      /\ avl_thread' = [avl_thread EXCEPT ![p] = @ + 1]
      /\ tflag' = [tflag EXCEPT ![p][t] = READY]
      /\ ax' = [ax EXCEPT ![p][t] = Ans("START", PENDING),
                          ![p][current[p]] = Ans("CREATE_THREAD", Handle(t))]
      /\ UNCHANGED <<procs, priority, current, receiving, queue, sched, creates>>

(* allocThreadStack finds no free stack: NULL.                              *)
CreateThreadNoStack ==
  /\ Caller /\ threads[current_proc] = Tid
  /\ Answered(current_proc, Ans("CREATE_THREAD", NULL))
  /\ UNCHANGED <<table, ipc, sched, creates>>

(* What disposeThread does to p when its threads S go.  Their registers go  *)
(* with them (Fresh), and nothing reads them again.                         *)
Drop(p, S) ==
  /\ receiving' = [receiving EXCEPT
       ![p] = @ - Cardinality({t \in S : tflag[p][t] = RECEIVING})]
  /\ avl_thread' = [avl_thread EXCEPT
       ![p] = @ - Cardinality({t \in S : tflag[p][t] = READY})]
  /\ threads' = [threads EXCEPT ![p] = @ \ S]

Fresh(a, S) == [t \in Tid |-> IF t \in S THEN Ans("START", PENDING) ELSE a[t]]

(* DISPOSE_THREAD of another thread of the caller's process.                *)
DisposeOther(t) ==
  LET p == current_proc
  IN  /\ Caller /\ t \in threads[p] \ {current[p]}
      /\ Drop(p, {t})
      /\ ax' = [ax EXCEPT ![p] = [Fresh(@, {t}) EXCEPT
                                   ![current[p]] = Ans("DISPOSE_THREAD", PENDING)]]
      /\ UNCHANGED <<procs, priority, current, queue, tflag, sched, creates>>

(* DISPOSE_THREAD of the calling thread, when the process has others.       *)
DisposeSelf ==
  LET p == current_proc
      rest == threads[p] \ {current[p]}
  IN  /\ Caller /\ rest # {}
      /\ Drop(p, {current[p]})
      /\ ax' = [ax EXCEPT ![p] = Fresh(@, {current[p]})]
      /\ current' = [current EXCEPT ![p] = Least(rest)]
      /\ Schedule(READY)
      /\ UNCHANGED <<procs, priority, queue, tflag, creates>>

(***************************************************************************)
(* disposeProcess: from EXIT of the last thread, or from an exception or a  *)
(* page fault of any thread.  schedule(2) takes the CPU away, then the      *)
(* remaining threads go and the process leaves the table; its queued        *)
(* messages are recycled.  The schedule(0) disposeThread adds for every     *)
(* thread but the last picks the same process again (lemma Repick).         *)
(***************************************************************************)
Dispose(p) ==
  /\ Drop(p, threads[p])
  /\ ax' = [ax EXCEPT ![p] = Fresh(@, threads[p])]
  /\ Schedule(RUNNING)
  /\ procs' = procs \ {p}
  /\ queue' = [queue EXCEPT ![p] = <<>>]
  /\ UNCHANGED <<priority, current, tflag, creates>>

Exit == Mortal /\ threads[current_proc] = {current[current_proc]} /\ Dispose(current_proc)

Exception == Mortal /\ Dispose(current_proc)

(***************************************************************************)
(* createProcess, which Init calls under cli: newProcess with the smallest  *)
(* pid >= 1 no process has, and priority 1.                                 *)
(***************************************************************************)
FreePid == Least((1 .. MAX_PID) \ procs)

CreateProcess ==
  LET p == FreePid
  IN  /\ current_proc = INIT /\ creates < MAX_CREATES
      /\ (1 .. MAX_PID) \ procs # {}
      /\ procs' = procs \cup {p}
      /\ priority' = [priority EXCEPT ![p] = 1]
      /\ ticks' = [ticks EXCEPT ![p] = 1]
      /\ flag' = [flag EXCEPT ![p] = READY]
      /\ threads' = [threads EXCEPT ![p] = {0}]
      /\ current' = [current EXCEPT ![p] = 0]
      /\ avl_thread' = [avl_thread EXCEPT ![p] = 1]
      /\ tflag' = [tflag EXCEPT ![p][0] = READY]
      /\ ax' = [ax EXCEPT ![p][0] = Ans("START", PENDING)]
      /\ receiving' = [receiving EXCEPT ![p] = 0]
      /\ queue' = [queue EXCEPT ![p] = <<>>]
      /\ creates' = creates + 1
      /\ UNCHANGED current_proc

Next ==
  \/ SendBadAddress \/ ReceiveBadAddress \/ ReceiveMessage \/ ReceiveSleep
  \/ \E q \in Pid \ {PID_VIDEO}, src \in Source :
       \/ SendNoProcess(q, src) \/ SendDeliver(q, src)
       \/ SendQueue(q, src) \/ SendFull(q, src)
  \/ \E d \in IrqTargets : InterruptDeliver(d) \/ InterruptQueue(d)
  \/ Timer \/ Nice
  \/ CreateThread \/ CreateThreadNoStack \/ DisposeSelf
  \/ \E t \in Tid : DisposeOther(t)
  \/ Exit \/ Exception \/ CreateProcess

(* The local APIC timer of the CPU keeps firing, and a process runs with    *)
(* interrupts enabled: WF of Timer is all the scheduler relies on.          *)
Spec     == Init /\ [][Next]_vars
FairSpec == Spec /\ WF_vars(Timer)

TypeOK ==
  /\ procs \subseteq Pid /\ current_proc \in procs
  /\ priority \in [Pid -> Nat \ {0}]
  /\ ticks \in [Pid -> Int]
  /\ flag \in [Pid -> {READY, ASLEEP, RUNNING}]
  /\ current \in [Pid -> Tid]
  /\ avl_thread \in [Pid -> Int] /\ receiving \in [Pid -> Int]
  /\ queue \in [Pid -> Seq(Source)]
  /\ threads \in [Pid -> SUBSET Tid]
  /\ tflag \in [Pid -> [Tid -> {READY, ASLEEP, RECEIVING}]]
  /\ ax \in [Pid -> [Tid -> Answer]]
  /\ creates \in Nat

(***************************************************************************)
(* Safety.                                                                  *)
(***************************************************************************)

(* The CPU belongs to exactly one process: current_proc is the only one     *)
(* whose flag is 2, whatever schedule, NICE and the disposals did.          *)
OneRunning == \A p \in procs : flag[p] = RUNNING <=> p = current_proc

(* A process sleeps exactly when its current thread waits in RECEIVE with   *)
(* an unanswered call, p->receiving counts that thread, and no other thread *)
(* of it waits: so the receiver SEND and sendInterrupt look for exists.     *)
SleepsInReceive ==
  \A p \in procs :
    /\ current[p] \in threads[p]
    /\ receiving[p] = IF flag[p] = ASLEEP THEN 1 ELSE 0
    /\ tflag[p][current[p]] = IF flag[p] = ASLEEP THEN RECEIVING ELSE READY
    /\ flag[p] = ASLEEP => ax[p][current[p]] = Ans("RECEIVE", PENDING)
    /\ \A t \in threads[p] \ {current[p]} : tflag[p][t] = READY

(* No wakeup is lost: while a process sleeps its queue is empty, so every   *)
(* message sent to it has either been answered or will wake it.             *)
NoLostWakeup == \A p \in procs : flag[p] = ASLEEP => queue[p] = <<>>

(* avl_thread is the number of threads that do not wait, over any sequence  *)
(* of sleeps, wakeups, creations and disposals.                             *)
AvailableThreads ==
  \A p \in procs :
    avl_thread[p] = Cardinality({t \in threads[p] : tflag[p][t] = READY})

(* Of a process only the current thread ever runs: threadSleep leaves       *)
(* proc->current alone, so another thread has made no call since it was     *)
(* created, and starts only when disposals make it the current one.         *)
OneThreadRuns ==
  \A p \in procs : \A t \in threads[p] \ {current[p]} : ax[p][t] = Ans("START", PENDING)

(* schedule never spins for ever holding scheduleLock: whichever process    *)
(* the next kernel entry takes the CPU from, another one is ready.          *)
SchedulerFindsOne == \E p \in procs \ {current_proc} : flag[p] = READY

(* Ticks are spent only by running: none goes below 0 or above the          *)
(* priority, and the process that runs has some left, so that the greatest  *)
(* one schedule looks for is positive.                                      *)
TicksBudget ==
  /\ \A p \in procs : ticks[p] \in 0 .. priority[p]
  /\ ticks[current_proc] > 0

(* Init and the video driver never sleep and, like the processes that IRQ   *)
(* handlers hold pointers to, never leave the table.                        *)
Permanent ==
  /\ {INIT, PID_VIDEO} \cup IrqTargets \subseteq procs
  /\ flag[INIT] # ASLEEP /\ flag[PID_VIDEO] # ASLEEP

(* The inductive invariant the theorems of Proc_proofs rest on.             *)
IInv == /\ TypeOK /\ OneRunning /\ SleepsInReceive /\ NoLostWakeup
        /\ AvailableThreads /\ TicksBudget /\ Permanent

(***************************************************************************)
(* The message system calls keep the promise of Mailbox.                    *)
(***************************************************************************)
Promise == INSTANCE Mailbox WITH
  Owner <- Pid, Initially <- Boot, Deaf <- {INIT}, Capacity <- MAX_MESSAGE_COUNT,
  alive <- procs, box <- queue,
  waiting <- {p \in Pid : receiving[p] > 0},
  reply <- [p \in Pid |-> ax[p][current[p]]]

(* Messages are neither lost, duplicated nor reordered, whether they are    *)
(* handed to a sleeping receiver or queued, from SEND or from an interrupt, *)
(* and each call is answered once and with the code its comment gives.      *)
KeepsPromise == Promise!MSpec

(***************************************************************************)
(* Liveness.                                                                *)
(***************************************************************************)

(* No ready process starves: with the timer alone, one that is ready gets   *)
(* the CPU, although others NICE, sleep and are woken around it.            *)
NoStarvation ==
  \A p \in Pid : (p \in procs /\ flag[p] = READY) ~> (current_proc = p)
=============================================================================
