----------------------------- MODULE Proc_proofs ----------------------------
(***************************************************************************)
(* Proofs about Proc, for every number of processes and threads, every      *)
(* queue length and all priorities: IInv is an inductive invariant, and     *)
(* Proc implements Mailbox.                                                 *)
(***************************************************************************)
EXTENDS Proc, Order_proofs

LEMMA Finite == IsFiniteSet(Pid) /\ IsFiniteSet(Tid)
  BY BoundsAssumption, FS_Interval DEF Pid, Tid

LEMMA FiniteParts ==
  /\ \A S \in SUBSET Pid : IsFiniteSet(S)
  /\ \A S \in SUBSET Tid : IsFiniteSet(S) /\ Cardinality(S) \in Nat
  BY Finite, FS_Subset, FS_CardinalityType

LEMMA Constants ==
  /\ INIT \in Boot /\ PID_VIDEO \in Boot /\ INIT # PID_VIDEO
  /\ Boot \subseteq Pid /\ IrqTargets \subseteq Boot
  /\ 0 \in Tid /\ Tid \subseteq Int /\ Pid \subseteq Int
  BY BoundsAssumption, IrqAssumption DEF INIT, PID_VIDEO, Boot, Pid, Tid

-----------------------------------------------------------------------------
(* schedule() always has a process to choose, on whichever process it is    *)
(* called: Init and the video driver are never both blocked.                *)
LEMMA AnotherIsReady ==
  ASSUME OneRunning, Permanent, TypeOK
  PROVE  SchedulerFindsOne
<1>1. CASE current_proc = INIT
  <2>1. PID_VIDEO \in procs \ {current_proc} /\ flag[PID_VIDEO] = READY
    BY <1>1, Constants DEF OneRunning, Permanent, TypeOK, READY, RUNNING, ASLEEP
  <2>. QED
    BY <2>1 DEF SchedulerFindsOne
<1>2. CASE current_proc # INIT
  <2>1. INIT \in procs \ {current_proc} /\ flag[INIT] = READY
    BY <1>2, Constants DEF OneRunning, Permanent, TypeOK, READY, RUNNING, ASLEEP
  <2>. QED
    BY <2>1 DEF SchedulerFindsOne
<1>. QED
  BY <1>1, <1>2

(* Replenish keeps every budget within 0 .. priority and leaves some ready  *)
(* process with a positive one.                                             *)
LEMMA ReplenishWorks ==
  ASSUME NEW fl \in [Pid -> {READY, ASLEEP, RUNNING}], NEW tk \in [Pid -> Int],
         TypeOK, Ready(fl) # {}, \A p \in procs : tk[p] \in 0 .. priority[p]
  PROVE  /\ Replenish(fl, tk) \in [Pid -> Int]
         /\ \A p \in procs : Replenish(fl, tk)[p] \in 0 .. priority[p]
         /\ \E q \in Ready(fl) : Replenish(fl, tk)[q] > 0
<1>1. CASE \E q \in Ready(fl) : tk[q] > 0
  BY <1>1 DEF Replenish
<1>2. CASE ~ \E q \in Ready(fl) : tk[q] > 0
  <2>1. Replenish(fl, tk) =
          [q \in Pid |-> IF q \in Ready(fl) THEN priority[q] ELSE tk[q]]
    BY <1>2 DEF Replenish
  <2>2. Ready(fl) \subseteq procs /\ procs \subseteq Pid
    BY DEF Ready, TypeOK
  <2>3. \A q \in Pid : priority[q] \in Nat /\ priority[q] > 0
    BY DEF TypeOK
  <2>. QED
    BY <2>1, <2>2, <2>3
<1>. QED
  BY <1>1, <1>2

(* Pick returns a ready process whose budget is the greatest.               *)
LEMMA PickWorks ==
  ASSUME NEW fl, NEW tk \in [Pid -> Int], procs \subseteq Pid, Ready(fl) # {}
  PROVE  /\ Pick(fl, tk) \in Ready(fl)
         /\ \A r \in Ready(fl) : tk[r] <= tk[Pick(fl, tk)]
<1> DEFINE best == {q \in Ready(fl) : \A r \in Ready(fl) : tk[r] <= tk[q]}
<1>1. Ready(fl) \subseteq Pid
  BY DEF Ready
<1>2. IsFiniteSet(Ready(fl)) /\ \A x \in Ready(fl) : tk[x] \in Int
  BY <1>1, FiniteParts
<1>3. best # {}
  <2>1. \E m \in Ready(fl) : \A x \in Ready(fl) : tk[x] <= tk[m]
    BY <1>2, GreatestExists
  <2>. QED
    BY <2>1
<1>4. IsFiniteSet(best) /\ best \subseteq Int
  BY <1>1, FiniteParts, Constants
<1>5. Least(best) \in best
  BY ONLY <1>3, <1>4, LeastIsLeast
<1>. QED
  BY <1>5 DEF Pick

(* A second schedule(0) right after a schedule() picks the same process:    *)
(* the flags it looks at are those of the first, and the ticks are already  *)
(* replenished.  disposeThread relies on it when a whole process goes.      *)
LEMMA Repick ==
  ASSUME NEW fl \in [Pid -> {READY, ASLEEP, RUNNING}], NEW tk \in [Pid -> Int], TypeOK,
         Ready(fl) # {}, \A p \in procs : tk[p] \in 0 .. priority[p]
  PROVE  LET tk2  == Replenish(fl, tk)
             next == Pick(fl, tk2)
             fl2  == [[fl EXCEPT ![next] = RUNNING] EXCEPT ![next] = READY]
         IN  Replenish(fl2, tk2) = tk2 /\ Pick(fl2, tk2) = next
<1> DEFINE tk2  == Replenish(fl, tk)
           next == Pick(fl, tk2)
           fl2  == [[fl EXCEPT ![next] = RUNNING] EXCEPT ![next] = READY]
<1>1. tk2 \in [Pid -> Int] /\ \E q \in Ready(fl) : tk2[q] > 0
  BY ReplenishWorks
<1> HIDE DEF tk2
<1>2. next \in Ready(fl)
  BY <1>1, PickWorks DEF TypeOK
<1> HIDE DEF next
<1>3. fl2 = fl
  BY <1>2 DEF Ready, TypeOK
<1>4. Replenish(fl, tk2) = tk2
  BY <1>1 DEF Replenish
<1>. QED
  BY <1>3, <1>4 DEF tk2, next

(* What every kernel entry that calls schedule() can rely on.               *)
LEMMA ScheduleWorks ==
  ASSUME TypeOK, OneRunning, Permanent,
         NEW tk \in [Pid -> Int], \A p \in procs : tk[p] \in 0 .. priority[p],
         NEW f \in {READY, ASLEEP, RUNNING}, NEW left, ScheduleTo(f, tk, left)
  PROVE  /\ ticks' \in [Pid -> Int]
         /\ \A p \in procs : ticks'[p] \in 0 .. priority[p]
         /\ current_proc' \in procs
         /\ ticks'[current_proc'] > 0
         /\ current_proc' = current_proc => f = READY
         /\ current_proc' # current_proc => flag[current_proc'] = READY
         /\ flag' = [flag EXCEPT ![current_proc] = left,
                                 ![current_proc'] = RUNNING]
<1> DEFINE fl  == [flag EXCEPT ![current_proc] = f]
           tk2 == Replenish(fl, tk)
<1>1. fl \in [Pid -> {READY, ASLEEP, RUNNING}] /\ procs \subseteq Pid
  BY DEF TypeOK
<1>2. Ready(fl) # {}
  <2>1. PICK p \in procs \ {current_proc} : flag[p] = READY
    BY AnotherIsReady DEF SchedulerFindsOne
  <2>2. fl[p] = READY
    BY <2>1 DEF TypeOK
  <2>. QED
    BY <2>1, <2>2 DEF Ready
<1>3. /\ tk2 \in [Pid -> Int]
      /\ \A p \in procs : tk2[p] \in 0 .. priority[p]
      /\ \E q \in Ready(fl) : tk2[q] > 0
  BY <1>1, <1>2, ReplenishWorks
<1>4. /\ ticks' = tk2 /\ current_proc' = Pick(fl, tk2)
      /\ flag' = [flag EXCEPT ![current_proc] = left, ![current_proc'] = RUNNING]
  BY DEF ScheduleTo
<1> HIDE DEF tk2
<1>5. /\ Pick(fl, tk2) \in Ready(fl)
      /\ \A r \in Ready(fl) : tk2[r] <= tk2[Pick(fl, tk2)]
  BY <1>1, <1>2, <1>3, PickWorks
<1>6. current_proc' \in procs /\ fl[current_proc'] = READY
  BY <1>4, <1>5 DEF Ready
<1>7. ticks'[current_proc'] > 0
  <2>1. PICK q \in Ready(fl) : tk2[q] > 0
    BY <1>3
  <2>2. q \in Pid /\ Pick(fl, tk2) \in Pid
    BY <1>1, <1>5 DEF Ready
  <2>3. tk2[q] \in Int /\ tk2[Pick(fl, tk2)] \in Int
    BY <2>2, <1>3
  <2>4. tk2[q] <= tk2[Pick(fl, tk2)]
    BY <2>1, <1>5
  <2>5. tk2[Pick(fl, tk2)] > 0
    BY <2>1, <2>3, <2>4
  <2>. QED
    BY <2>5, <1>4
<1>8. /\ current_proc' = current_proc => f = READY
      /\ current_proc' # current_proc => flag[current_proc'] = READY
  BY <1>1, <1>6 DEF TypeOK
<1>. QED
  BY <1>3, <1>4, <1>6, <1>7, <1>8

-----------------------------------------------------------------------------
(* The state cstart leaves satisfies the invariant.                         *)
LEMMA InitIInv == Init => IInv
<1> SUFFICES ASSUME Init PROVE IInv
  OBVIOUS
<1>0. /\ procs = Boot /\ current_proc = INIT
      /\ \A p \in Pid : /\ threads[p] = {0} /\ current[p] = 0 /\ queue[p] = <<>>
                        /\ avl_thread[p] = 1 /\ receiving[p] = 0
                        /\ flag[p] = IF p = INIT THEN RUNNING ELSE READY
                        /\ \A t \in Tid : tflag[p][t] = READY
  BY Constants DEF Init
<1>1. TypeOK
  <2>1. priority \in [Pid -> Nat \ {0}]
    BY PriorityAssumption, Constants DEF Init
  <2>2. ticks \in [Pid -> Int]
    BY <2>1 DEF Init
  <2>3. ax \in [Pid -> [Tid -> Answer]]
    BY DEF Init, Ans, Answer, Call, PENDING
  <2>4. queue \in [Pid -> Seq(Source)]
    BY DEF Init
  <2>5. /\ procs \subseteq Pid /\ current_proc \in procs
        /\ flag \in [Pid -> {READY, ASLEEP, RUNNING}]
        /\ current \in [Pid -> Tid]
        /\ avl_thread \in [Pid -> Int] /\ receiving \in [Pid -> Int]
        /\ threads \in [Pid -> SUBSET Tid]
        /\ tflag \in [Pid -> [Tid -> {READY, ASLEEP, RECEIVING}]]
        /\ creates \in Nat
    BY Constants DEF Init
  <2>. QED
    BY <2>1, <2>2, <2>3, <2>4, <2>5 DEF TypeOK
<1>2. OneRunning
  <2> SUFFICES ASSUME NEW p \in procs PROVE flag[p] = RUNNING <=> p = current_proc
    BY DEF OneRunning
  <2>1. p \in Pid /\ flag[p] = IF p = INIT THEN RUNNING ELSE READY
    BY <1>0, Constants
  <2>. QED
    BY <2>1, <1>0 DEF READY, RUNNING
<1>3. SleepsInReceive
  BY <1>0, Constants DEF SleepsInReceive, READY, RUNNING, ASLEEP
<1>4. NoLostWakeup
  BY <1>0, Constants DEF NoLostWakeup
<1>5. AvailableThreads
  <2> SUFFICES ASSUME NEW p \in procs
               PROVE  avl_thread[p] = Cardinality({t \in threads[p] : tflag[p][t] = READY})
    BY DEF AvailableThreads
  <2>1. {t \in threads[p] : tflag[p][t] = READY} = {0}
    BY <1>0, Constants
  <2>. QED
    BY <2>1, <1>0, Constants, FS_Singleton
<1>6. TicksBudget
  <2>1. \A p \in Pid : ticks[p] = priority[p] /\ priority[p] \in Nat /\ priority[p] > 0
    BY <1>1 DEF Init, TypeOK
  <2>2. \A p \in procs : ticks[p] \in 0 .. priority[p] /\ ticks[p] > 0
    BY <2>1, <1>1 DEF TypeOK
  <2>. QED
    BY <2>2, <1>1 DEF TicksBudget, TypeOK
<1>7. Permanent
  <2>1. {INIT, PID_VIDEO} \cup IrqTargets \subseteq procs
    BY <1>0, Constants
  <2>2. INIT \in Pid /\ PID_VIDEO \in Pid
    BY Constants
  <2>3. flag[INIT] # ASLEEP /\ flag[PID_VIDEO] # ASLEEP
    BY <1>0, <2>2 DEF READY, RUNNING, ASLEEP
  <2>. QED
    BY <2>1, <2>3 DEF Permanent
<1>. QED
  BY <1>1, <1>2, <1>3, <1>4, <1>5, <1>6, <1>7 DEF IInv

-----------------------------------------------------------------------------
(* A call that does nothing but answer the running process.                 *)
LEMMA AnswerOnly ==
  ASSUME IInv, NEW a \in Answer, Answered(current_proc, a),
         UNCHANGED <<table, ipc, sched, creates>>
  PROVE  IInv'
<1> USE DEF table, ipc, sched
<1>1. TypeOK'
  BY DEF IInv, TypeOK, Answered
<1>2. \A p \in procs \ {current_proc} : ax'[p] = ax[p]
  BY DEF IInv, TypeOK, Answered
<1>3. OneRunning' /\ NoLostWakeup' /\ AvailableThreads' /\ TicksBudget' /\ Permanent'
  BY DEF IInv, OneRunning, NoLostWakeup, AvailableThreads, TicksBudget, Permanent
<1>4. SleepsInReceive'
  BY <1>2 DEF IInv, SleepsInReceive, OneRunning, ASLEEP, RUNNING
<1>. QED
  BY <1>1, <1>3, <1>4 DEF IInv

(* A message put in the queue of a process that does not wait.              *)
LEMMA QueueOnly ==
  ASSUME IInv, NEW q \in procs, NEW src \in Source, receiving[q] = 0, Enqueue(q, src),
         ax' = ax \/ \E a \in Answer : Answered(current_proc, a),
         UNCHANGED <<table, receiving, tflag, avl_thread, sched, creates>>
  PROVE  IInv'
<1> USE DEF table, sched
<1>0. flag[q] # ASLEEP
  BY DEF IInv, SleepsInReceive
<1>1. TypeOK'
  <2>1. ax' \in [Pid -> [Tid -> Answer]]
    <3>1. CASE ax' = ax
      BY <3>1 DEF IInv, TypeOK
    <3>2. ASSUME NEW a \in Answer, Answered(current_proc, a)
          PROVE  ax' \in [Pid -> [Tid -> Answer]]
      BY <3>2 DEF IInv, TypeOK, Answered
    <3>. QED
      BY <3>1, <3>2
  <2>2. queue' \in [Pid -> Seq(Source)]
    BY DEF IInv, TypeOK, Enqueue
  <2>. QED
    BY <2>1, <2>2 DEF IInv, TypeOK
<1>2. /\ \A p \in procs \ {current_proc} : ax'[p] = ax[p]
      /\ \A p \in procs \ {q} : queue'[p] = queue[p]
  BY DEF IInv, TypeOK, Answered, Enqueue
<1>3. OneRunning' /\ AvailableThreads' /\ TicksBudget' /\ Permanent'
  BY DEF IInv, OneRunning, AvailableThreads, TicksBudget, Permanent
<1>4. SleepsInReceive'
  BY <1>2 DEF IInv, SleepsInReceive, OneRunning, ASLEEP, RUNNING
<1>5. NoLostWakeup'
  BY <1>0, <1>2 DEF IInv, NoLostWakeup
<1>. QED
  BY <1>1, <1>3, <1>4, <1>5 DEF IInv

(* Who a message wakes: a sleeping process, and in it its current thread.   *)
LEMMA Receiver ==
  ASSUME IInv, NEW q \in procs, receiving[q] > 0
  PROVE  /\ flag[q] = ASLEEP /\ q # current_proc /\ receiving[q] = 1
         /\ FirstReceiving(q) = current[q]
<1>1. flag[q] = ASLEEP /\ receiving[q] = 1
  BY DEF IInv, SleepsInReceive
<1>2. q # current_proc
  BY <1>1 DEF IInv, OneRunning, ASLEEP, RUNNING
<1>3. {t \in threads[q] : tflag[q][t] = RECEIVING} = {current[q]}
  BY <1>1 DEF IInv, SleepsInReceive, RECEIVING, READY
<1>4. Least({current[q]}) = current[q]
  <2>1. current[q] \in Int
    BY Constants DEF IInv, TypeOK
  <2>2. Least({current[q]}) \in {current[q]}
    BY <2>1, FS_Singleton, LeastIsLeast
  <2>. QED
    BY <2>2
<1>. QED
  BY <1>1, <1>2, <1>3, <1>4 DEF FirstReceiving

(* A message handed to a sleeping receiver.                                 *)
LEMMA WakeOnly ==
  ASSUME IInv, NEW q \in procs, receiving[q] > 0, Wake(q),
         ax' \in [Pid -> [Tid -> Answer]],
         \A p \in procs \ {q, current_proc} : ax'[p] = ax[p],
         UNCHANGED <<table, queue, ticks, current_proc, creates>>
  PROVE  IInv'
<1> USE DEF table
<1>0. /\ flag[q] = ASLEEP /\ q # current_proc /\ receiving[q] = 1
      /\ q \in Pid /\ current[q] \in threads[q] /\ current[q] \in Tid
      /\ tflag[q][current[q]] = RECEIVING
  BY Receiver DEF IInv, SleepsInReceive, TypeOK
<1>1. /\ flag' = [flag EXCEPT ![q] = READY]
      /\ tflag' = [tflag EXCEPT ![q][current[q]] = READY]
      /\ receiving' = [receiving EXCEPT ![q] = @ - 1]
      /\ avl_thread' = [avl_thread EXCEPT ![q] = @ + 1]
  BY <1>0, Receiver DEF Wake
<1>2. TypeOK'
  <2>1. /\ flag' \in [Pid -> {READY, ASLEEP, RUNNING}]
        /\ receiving' \in [Pid -> Int] /\ avl_thread' \in [Pid -> Int]
        /\ tflag' \in [Pid -> [Tid -> {READY, ASLEEP, RECEIVING}]]
    BY <1>0, <1>1 DEF IInv, TypeOK
  <2>. QED
    BY <2>1 DEF IInv, TypeOK
<1>3. /\ \A p \in procs \ {q} : /\ flag'[p] = flag[p] /\ tflag'[p] = tflag[p]
                                /\ receiving'[p] = receiving[p]
                                /\ avl_thread'[p] = avl_thread[p]
      /\ flag'[q] = READY /\ receiving'[q] = 0 /\ avl_thread'[q] = avl_thread[q] + 1
      /\ \A t \in Tid : tflag'[q][t] = IF t = current[q] THEN READY ELSE tflag[q][t]
  BY <1>0, <1>1 DEF IInv, TypeOK
<1>4. OneRunning'
  BY <1>0, <1>3 DEF IInv, OneRunning, READY, RUNNING
<1>5. SleepsInReceive'
  <2> SUFFICES ASSUME NEW p \in procs
               PROVE  /\ current[p] \in threads[p]
                      /\ receiving'[p] = IF flag'[p] = ASLEEP THEN 1 ELSE 0
                      /\ tflag'[p][current[p]] = IF flag'[p] = ASLEEP THEN RECEIVING ELSE READY
                      /\ flag'[p] = ASLEEP => ax'[p][current[p]] = Ans("RECEIVE", PENDING)
                      /\ \A t \in threads[p] \ {current[p]} : tflag'[p][t] = READY
    BY DEF SleepsInReceive
  <2>1. CASE p = q
    BY <2>1, <1>0, <1>3 DEF IInv, SleepsInReceive, TypeOK, READY, ASLEEP
  <2>2. CASE p = current_proc
    BY <2>2, <1>0, <1>3 DEF IInv, SleepsInReceive, OneRunning, RUNNING, ASLEEP
  <2>3. CASE p # q /\ p # current_proc
    BY <2>3, <1>0, <1>3 DEF IInv, SleepsInReceive
  <2>. QED
    BY <2>1, <2>2, <2>3
<1>6. NoLostWakeup'
  BY <1>3 DEF IInv, NoLostWakeup, READY, ASLEEP
<1>7. AvailableThreads'
  <2> DEFINE S == {t \in threads[q] : tflag[q][t] = READY}
  <2>1. {t \in threads[q] : tflag'[q][t] = READY} = S \cup {current[q]}
    BY <1>0, <1>3 DEF IInv, TypeOK
  <2>2. S \in SUBSET Tid /\ current[q] \notin S
    BY <1>0 DEF IInv, TypeOK, READY, RECEIVING
  <2>3. Cardinality(S \cup {current[q]}) = Cardinality(S) + 1
    BY <2>2, FiniteParts, FS_AddElement
  <2>4. avl_thread'[q] = Cardinality({t \in threads[q] : tflag'[q][t] = READY})
    BY <1>3, <2>1, <2>3 DEF IInv, AvailableThreads
  <2>5. ASSUME NEW p \in procs \ {q}
        PROVE  avl_thread'[p] = Cardinality({t \in threads[p] : tflag'[p][t] = READY})
    <3>1. avl_thread'[p] = avl_thread[p] /\ tflag'[p] = tflag[p]
      BY <1>3
    <3>2. {t \in threads[p] : tflag'[p][t] = READY} = {t \in threads[p] : tflag[p][t] = READY}
      BY <3>1
    <3>. QED
      BY <3>1, <3>2 DEF IInv, AvailableThreads
  <2>. QED
    BY <2>4, <2>5 DEF AvailableThreads
<1>8. TicksBudget'
  BY DEF IInv, TicksBudget
<1>9. Permanent'
  BY <1>3 DEF IInv, Permanent, READY, ASLEEP
<1>. QED
  BY <1>2, <1>4, <1>5, <1>6, <1>7, <1>8, <1>9 DEF IInv

-----------------------------------------------------------------------------
(* The flags after schedule(f), when the process that had the CPU is left   *)
(* with flag "left".                                                        *)
LEMMA FlagsAfter ==
  ASSUME IInv, NEW tk \in [Pid -> Int], \A p \in procs : tk[p] \in 0 .. priority[p],
         NEW f \in {READY, ASLEEP, RUNNING}, NEW left \in {READY, ASLEEP, RUNNING},
         ScheduleTo(f, tk, left)
  PROVE  /\ flag' \in [Pid -> {READY, ASLEEP, RUNNING}]
         /\ \A p \in procs : flag'[p] = IF p = current_proc' THEN RUNNING
                                        ELSE IF p = current_proc THEN left ELSE flag[p]
         /\ \A p \in procs \ {current_proc} : flag'[p] = ASLEEP <=> flag[p] = ASLEEP
<1>1. /\ current_proc' \in procs
      /\ current_proc' # current_proc => flag[current_proc'] = READY
      /\ flag' = [flag EXCEPT ![current_proc] = left, ![current_proc'] = RUNNING]
  BY ScheduleWorks DEF IInv
<1>2. flag \in [Pid -> {READY, ASLEEP, RUNNING}] /\ procs \subseteq Pid /\ current_proc \in procs
  BY DEF IInv, TypeOK
<1>. QED
  BY <1>1, <1>2 DEF READY, ASLEEP, RUNNING

(* irq0_handler and NICE: the process gives the CPU up and stays ready.     *)
LEMMA YieldOnly ==
  ASSUME IInv, NEW tk \in [Pid -> Int], \A p \in procs : tk[p] \in 0 .. priority[p],
         NEW f \in {READY, RUNNING}, ScheduleTo(f, tk, READY),
         ax' \in [Pid -> [Tid -> Answer]],
         \A p \in procs \ {current_proc} : ax'[p] = ax[p],
         UNCHANGED <<table, ipc, creates>>
  PROVE  IInv'
<1> USE DEF table, ipc
<1>1. /\ ticks' \in [Pid -> Int] /\ \A p \in procs : ticks'[p] \in 0 .. priority[p]
      /\ current_proc' \in procs /\ ticks'[current_proc'] > 0
  BY ScheduleWorks DEF IInv
<1>2. /\ flag' \in [Pid -> {READY, ASLEEP, RUNNING}]
      /\ \A p \in procs : flag'[p] = IF p = current_proc' THEN RUNNING
                                     ELSE IF p = current_proc THEN READY ELSE flag[p]
      /\ \A p \in procs \ {current_proc} : flag'[p] = ASLEEP <=> flag[p] = ASLEEP
  BY FlagsAfter
<1>3. /\ \A p \in procs : flag'[p] = ASLEEP <=> flag[p] = ASLEEP
      /\ flag'[current_proc] # ASLEEP
  BY <1>2 DEF IInv, OneRunning, TypeOK, READY, ASLEEP, RUNNING
<1>4. TypeOK'
  BY <1>1, <1>2 DEF IInv, TypeOK
<1>5. OneRunning'
  BY <1>2 DEF IInv, OneRunning, READY, RUNNING
<1>6. SleepsInReceive'
  BY <1>3 DEF IInv, SleepsInReceive
<1>7. NoLostWakeup'
  BY <1>3 DEF IInv, NoLostWakeup
<1>8. AvailableThreads'
  BY DEF IInv, AvailableThreads
<1>9. TicksBudget'
  BY <1>1 DEF TicksBudget
<1>10. Permanent'
  BY <1>3, Constants DEF IInv, Permanent
<1>. QED
  BY <1>4, <1>5, <1>6, <1>7, <1>8, <1>9, <1>10 DEF IInv

LEMMA TimerStep == ASSUME IInv, Timer PROVE IInv'
<1> DEFINE tk == [ticks EXCEPT ![current_proc] = @ - 1]
<1>1. tk \in [Pid -> Int] /\ \A p \in procs : tk[p] \in 0 .. priority[p]
  <2>1. /\ ticks \in [Pid -> Int] /\ procs \subseteq Pid
        /\ \A p \in procs : ticks[p] \in 0 .. priority[p] /\ priority[p] \in Nat
        /\ ticks[current_proc] > 0 /\ current_proc \in procs
    BY DEF IInv, TypeOK, TicksBudget
  <2>2. tk \in [Pid -> Int]
    BY <2>1
  <2>3. ASSUME NEW p \in procs PROVE tk[p] \in 0 .. priority[p]
    <3>1. tk[p] = IF p = current_proc THEN ticks[p] - 1 ELSE ticks[p]
      BY <2>1
    <3>2. ticks[p] \in Int /\ priority[p] \in Int /\ 0 <= ticks[p] /\ ticks[p] <= priority[p]
      BY <2>1
    <3>. QED
      BY <3>1, <3>2, <2>1
  <2>. QED
    BY <2>2, <2>3
<1>2. ScheduleTo(READY, tk, READY) /\ UNCHANGED <<table, ipc, ax, creates>>
  BY DEF Timer
<1>3. ax' \in [Pid -> [Tid -> Answer]] /\ \A p \in procs \ {current_proc} : ax'[p] = ax[p]
  BY <1>2 DEF IInv, TypeOK
<1> HIDE DEF tk
<1>. QED
  BY <1>1, <1>2, <1>3, YieldOnly

LEMMA TicksInRange ==
  ASSUME IInv
  PROVE  ticks \in [Pid -> Int] /\ \A p \in procs : ticks[p] \in 0 .. priority[p]
  BY DEF IInv, TypeOK, TicksBudget

LEMMA NiceStep == ASSUME IInv, Nice PROVE IInv'
<1>1. ScheduleTo(RUNNING, ticks, READY) /\ UNCHANGED <<table, ipc, creates>>
  BY DEF Nice
<1>2. /\ ax' \in [Pid -> [Tid -> Answer]]
      /\ \A p \in procs \ {current_proc} : ax'[p] = ax[p]
  BY DEF Nice, Answered, Ans, Answer, Call, PENDING, IInv, TypeOK
<1>. QED
  BY <1>1, <1>2, TicksInRange, YieldOnly

(* RECEIVE with an empty queue: the only way to fall asleep.                *)
LEMMA SleepStep == ASSUME IInv, ReceiveSleep PROVE IInv'
<1> DEFINE me == current_proc
<1>0. /\ me \in procs /\ me \in Pid /\ procs \subseteq Pid
      /\ current[me] \in threads[me] /\ current[me] \in Tid
      /\ flag[me] = RUNNING /\ me # INIT /\ me # PID_VIDEO /\ queue[me] = <<>>
      /\ receiving[me] = 0 /\ tflag[me][current[me]] = READY
  BY DEF IInv, TypeOK, SleepsInReceive, OneRunning, ReceiveSleep, Caller, RUNNING, ASLEEP
<1>1. /\ ScheduleTo(ASLEEP, ticks, ASLEEP)
      /\ avl_thread' = [avl_thread EXCEPT ![me] = @ - 1]
      /\ tflag' = [tflag EXCEPT ![me][current[me]] = RECEIVING]
      /\ receiving' = [receiving EXCEPT ![me] = @ + 1]
      /\ ax' = [ax EXCEPT ![me][current[me]] = Ans("RECEIVE", PENDING)]
      /\ UNCHANGED <<table, queue, creates>>
  BY DEF ReceiveSleep, Schedule, Answered
<1>2. /\ ticks' \in [Pid -> Int] /\ \A p \in procs : ticks'[p] \in 0 .. priority[p]
      /\ current_proc' \in procs /\ ticks'[current_proc'] > 0 /\ current_proc' # me
  BY <1>1, TicksInRange, ScheduleWorks DEF IInv, READY, ASLEEP
<1>3. /\ flag' \in [Pid -> {READY, ASLEEP, RUNNING}]
      /\ \A p \in procs : flag'[p] = IF p = current_proc' THEN RUNNING
                                     ELSE IF p = me THEN ASLEEP ELSE flag[p]
      /\ \A p \in procs \ {me} : flag'[p] = ASLEEP <=> flag[p] = ASLEEP
  BY <1>1, TicksInRange, FlagsAfter
<1>4. /\ receiving'[me] = 1 /\ avl_thread'[me] = avl_thread[me] - 1 /\ flag'[me] = ASLEEP
      /\ ax'[me][current[me]] = Ans("RECEIVE", PENDING)
      /\ \A t \in Tid : tflag'[me][t] = IF t = current[me] THEN RECEIVING ELSE tflag[me][t]
      /\ \A p \in procs \ {me} : /\ receiving'[p] = receiving[p] /\ ax'[p] = ax[p]
                                 /\ tflag'[p] = tflag[p] /\ avl_thread'[p] = avl_thread[p]
  BY <1>0, <1>1, <1>2, <1>3 DEF IInv, TypeOK
<1>5. TypeOK'
  <2>1. Ans("RECEIVE", PENDING) \in Answer
    BY DEF Ans, Answer, Call, PENDING
  <2>2. ax' \in [Pid -> [Tid -> Answer]]
    BY <1>1, <2>1 DEF IInv, TypeOK
  <2>3. /\ receiving' \in [Pid -> Int] /\ avl_thread' \in [Pid -> Int]
        /\ tflag' \in [Pid -> [Tid -> {READY, ASLEEP, RECEIVING}]]
    BY <1>1 DEF IInv, TypeOK
  <2>. QED
    BY <1>1, <1>2, <1>3, <2>2, <2>3 DEF IInv, TypeOK, table
<1>6. OneRunning'
  BY <1>1, <1>2, <1>3 DEF IInv, OneRunning, ASLEEP, RUNNING, table
<1>7. SleepsInReceive'
  <2> SUFFICES ASSUME NEW p \in procs
               PROVE  /\ current[p] \in threads[p]
                      /\ receiving'[p] = IF flag'[p] = ASLEEP THEN 1 ELSE 0
                      /\ tflag'[p][current[p]] = IF flag'[p] = ASLEEP THEN RECEIVING ELSE READY
                      /\ flag'[p] = ASLEEP => ax'[p][current[p]] = Ans("RECEIVE", PENDING)
                      /\ \A t \in threads[p] \ {current[p]} : tflag'[p][t] = READY
    BY <1>1 DEF SleepsInReceive, table
  <2>1. CASE p = me
    BY <2>1, <1>0, <1>4 DEF IInv, SleepsInReceive, TypeOK
  <2>2. CASE p # me
    BY <2>2, <1>3, <1>4 DEF IInv, SleepsInReceive
  <2>. QED
    BY <2>1, <2>2
<1>8. NoLostWakeup'
  BY <1>0, <1>1, <1>3 DEF IInv, NoLostWakeup, table
<1>9. AvailableThreads'
  <2> DEFINE S == {t \in threads[me] : tflag[me][t] = READY}
  <2>1. {t \in threads[me] : tflag'[me][t] = READY} = S \ {current[me]}
    BY <1>0, <1>4 DEF IInv, TypeOK, READY, RECEIVING
  <2>2. S \in SUBSET Tid /\ current[me] \in S
    BY <1>0 DEF IInv, TypeOK
  <2>3. Cardinality(S \ {current[me]}) = Cardinality(S) - 1
    BY <2>2, FiniteParts, FS_RemoveElement
  <2>4. avl_thread'[me] = Cardinality({t \in threads[me] : tflag'[me][t] = READY})
    BY <1>0, <1>4, <2>1, <2>3 DEF IInv, AvailableThreads
  <2>5. ASSUME NEW p \in procs \ {me}
        PROVE  avl_thread'[p] = Cardinality({t \in threads[p] : tflag'[p][t] = READY})
    <3>1. avl_thread'[p] = avl_thread[p] /\ tflag'[p] = tflag[p]
      BY <1>4
    <3>2. {t \in threads[p] : tflag'[p][t] = READY} = {t \in threads[p] : tflag[p][t] = READY}
      BY <3>1
    <3>. QED
      BY <3>1, <3>2 DEF IInv, AvailableThreads
  <2>. QED
    BY <2>4, <2>5, <1>1 DEF AvailableThreads, table
<1>10. TicksBudget'
  BY <1>1, <1>2 DEF TicksBudget, table
<1>11. Permanent'
  BY <1>0, <1>1, <1>3 DEF IInv, Permanent, table
<1>. QED
  BY <1>5, <1>6, <1>7, <1>8, <1>9, <1>10, <1>11 DEF IInv
-----------------------------------------------------------------------------
(* RECEIVE with a message in the queue.                                     *)
LEMMA ReceiveMessageStep == ASSUME IInv, ReceiveMessage PROVE IInv'
<1> DEFINE me == current_proc
<1>0. /\ me \in Pid /\ procs \subseteq Pid /\ current[me] \in Tid
      /\ queue[me] \in Seq(Source) /\ queue[me] # <<>> /\ flag[me] = RUNNING
  BY DEF IInv, TypeOK, OneRunning, ReceiveMessage
<1>1. /\ ax' = [ax EXCEPT ![me][current[me]] = Ans("RECEIVE", Head(queue[me]))]
      /\ queue' = [queue EXCEPT ![me] = Tail(@)]
      /\ UNCHANGED <<table, receiving, tflag, avl_thread, sched, creates>>
  BY DEF ReceiveMessage, Answered
<1> USE DEF table, sched
<1>2. TypeOK'
  <2>1. Head(queue[me]) \in Source /\ Tail(queue[me]) \in Seq(Source) /\ Source \subseteq Int
    BY <1>0, Constants DEF Source, IRQ
  <2>2. Ans("RECEIVE", Head(queue[me])) \in Answer
    BY <2>1 DEF Ans, Answer, Call
  <2>3. ax' \in [Pid -> [Tid -> Answer]] /\ queue' \in [Pid -> Seq(Source)]
    BY <1>1, <2>1, <2>2 DEF IInv, TypeOK
  <2>. QED
    BY <1>1, <2>3 DEF IInv, TypeOK
<1>3. \A p \in procs \ {me} : ax'[p] = ax[p] /\ queue'[p] = queue[p]
  BY <1>0, <1>1 DEF IInv, TypeOK
<1>4. OneRunning' /\ AvailableThreads' /\ TicksBudget' /\ Permanent'
  BY <1>1 DEF IInv, OneRunning, AvailableThreads, TicksBudget, Permanent
<1>5. SleepsInReceive'
  BY <1>0, <1>1, <1>3 DEF IInv, SleepsInReceive, ASLEEP, RUNNING
<1>6. NoLostWakeup'
  BY <1>0, <1>1, <1>3 DEF IInv, NoLostWakeup, ASLEEP, RUNNING
<1>. QED
  BY <1>2, <1>4, <1>5, <1>6 DEF IInv

(* CREATE_THREAD when a stack is left.                                      *)
LEMMA CreateThreadStep == ASSUME IInv, CreateThread PROVE IInv'
<1> DEFINE me == current_proc
           t  == Least(Tid \ threads[me])
<1>0. /\ me \in procs /\ me \in Pid /\ procs \subseteq Pid /\ current[me] \in Tid
      /\ current[me] \in threads[me] /\ threads[me] \subseteq Tid /\ flag[me] = RUNNING
  BY DEF IInv, TypeOK, OneRunning, SleepsInReceive
<1>1. t \in Tid /\ t \notin threads[me]
  <2>1. Tid \ threads[me] # {} /\ Tid \ threads[me] \subseteq Int
    BY <1>0, Constants DEF CreateThread
  <2>2. IsFiniteSet(Tid \ threads[me])
    BY FiniteParts
  <2>. QED
    BY <2>1, <2>2, LeastIsLeast
<1>2. /\ threads' = [threads EXCEPT ![me] = @ \cup {t}]
      /\ avl_thread' = [avl_thread EXCEPT ![me] = @ + 1]
      /\ tflag' = [tflag EXCEPT ![me][t] = READY]
      /\ ax' = [ax EXCEPT ![me][t] = Ans("START", PENDING),
                          ![me][current[me]] = Ans("CREATE_THREAD", Handle(t))]
      /\ UNCHANGED <<procs, priority, current, receiving, queue, sched, creates>>
  BY DEF CreateThread
<1> HIDE DEF t
<1> USE DEF sched
<1>3. TypeOK'
  <2>1. Ans("START", PENDING) \in Answer /\ Ans("CREATE_THREAD", Handle(t)) \in Answer
    BY <1>1, Constants DEF Ans, Answer, Call, PENDING, Handle
  <2>2. ax' \in [Pid -> [Tid -> Answer]]
    BY <1>0, <1>1, <1>2, <2>1 DEF IInv, TypeOK
  <2>3. /\ threads' \in [Pid -> SUBSET Tid] /\ avl_thread' \in [Pid -> Int]
        /\ tflag' \in [Pid -> [Tid -> {READY, ASLEEP, RECEIVING}]]
    BY <1>0, <1>1, <1>2 DEF IInv, TypeOK
  <2>. QED
    BY <1>2, <2>2, <2>3 DEF IInv, TypeOK
<1>4. /\ threads'[me] = threads[me] \cup {t} /\ avl_thread'[me] = avl_thread[me] + 1
      /\ \A u \in Tid : tflag'[me][u] = IF u = t THEN READY ELSE tflag[me][u]
      /\ \A p \in procs \ {me} : /\ threads'[p] = threads[p] /\ avl_thread'[p] = avl_thread[p]
                                 /\ tflag'[p] = tflag[p] /\ ax'[p] = ax[p]
  BY <1>0, <1>1, <1>2 DEF IInv, TypeOK
<1>5. OneRunning' /\ NoLostWakeup' /\ TicksBudget' /\ Permanent'
  BY <1>2 DEF IInv, OneRunning, NoLostWakeup, TicksBudget, Permanent
<1>6. SleepsInReceive'
  <2> SUFFICES ASSUME NEW p \in procs
               PROVE  /\ current[p] \in threads'[p]
                      /\ receiving[p] = IF flag[p] = ASLEEP THEN 1 ELSE 0
                      /\ tflag'[p][current[p]] = IF flag[p] = ASLEEP THEN RECEIVING ELSE READY
                      /\ flag[p] = ASLEEP => ax'[p][current[p]] = Ans("RECEIVE", PENDING)
                      /\ \A u \in threads'[p] \ {current[p]} : tflag'[p][u] = READY
    BY <1>2 DEF SleepsInReceive
  <2>1. CASE p = me
    BY <2>1, <1>0, <1>1, <1>4 DEF IInv, SleepsInReceive, ASLEEP, RUNNING
  <2>2. CASE p # me
    BY <2>2, <1>4 DEF IInv, SleepsInReceive
  <2>. QED
    BY <2>1, <2>2
<1>7. AvailableThreads'
  <2> DEFINE S == {u \in threads[me] : tflag[me][u] = READY}
  <2>1. {u \in threads'[me] : tflag'[me][u] = READY} = S \cup {t}
    BY <1>0, <1>1, <1>4
  <2>2. S \in SUBSET Tid /\ t \notin S
    BY <1>0, <1>1
  <2>3. Cardinality(S \cup {t}) = Cardinality(S) + 1
    BY <2>2, FiniteParts, FS_AddElement
  <2>4. avl_thread'[me] = Cardinality({u \in threads'[me] : tflag'[me][u] = READY})
    BY <1>0, <1>4, <2>1, <2>3 DEF IInv, AvailableThreads
  <2>5. ASSUME NEW p \in procs \ {me}
        PROVE  avl_thread'[p] = Cardinality({u \in threads'[p] : tflag'[p][u] = READY})
    <3>1. avl_thread'[p] = avl_thread[p] /\ tflag'[p] = tflag[p] /\ threads'[p] = threads[p]
      BY <1>4
    <3>2. {u \in threads'[p] : tflag'[p][u] = READY} = {u \in threads[p] : tflag[p][u] = READY}
      BY <3>1
    <3>. QED
      BY <3>1, <3>2 DEF IInv, AvailableThreads
  <2>. QED
    BY <2>4, <2>5, <1>2 DEF AvailableThreads
<1>. QED
  BY <1>3, <1>5, <1>6, <1>7 DEF IInv
-----------------------------------------------------------------------------
(* The running process has no thread that waits, so disposing of some of    *)
(* its threads takes each of them off avl_thread and leaves receiving.      *)
LEMMA DropWorks ==
  ASSUME IInv, NEW S \in SUBSET threads[current_proc], Drop(current_proc, S)
  PROVE  /\ receiving' = receiving
         /\ threads' \in [Pid -> SUBSET Tid] /\ avl_thread' \in [Pid -> Int]
         /\ threads'[current_proc] = threads[current_proc] \ S
         /\ avl_thread'[current_proc] =
              Cardinality({t \in threads'[current_proc] : tflag[current_proc][t] = READY})
         /\ \A p \in procs \ {current_proc} :
              threads'[p] = threads[p] /\ avl_thread'[p] = avl_thread[p]
<1> DEFINE me == current_proc
<1>0. /\ me \in procs /\ me \in Pid /\ procs \subseteq Pid
      /\ threads[me] \in SUBSET Tid /\ S \in SUBSET Tid
      /\ \A t \in threads[me] : tflag[me][t] = READY
  BY DEF IInv, TypeOK, OneRunning, SleepsInReceive, RUNNING, ASLEEP
<1>1. /\ {t \in S : tflag[me][t] = RECEIVING} = {}
      /\ {t \in S : tflag[me][t] = READY} = S
      /\ {t \in threads[me] : tflag[me][t] = READY} = threads[me]
      /\ {t \in threads[me] \ S : tflag[me][t] = READY} = threads[me] \ S
  BY <1>0 DEF READY, RECEIVING
<1>2. /\ receiving' = [receiving EXCEPT ![me] = @ - 0]
      /\ avl_thread' = [avl_thread EXCEPT ![me] = @ - Cardinality(S)]
      /\ threads' = [threads EXCEPT ![me] = @ \ S]
  BY <1>1, FS_EmptySet DEF Drop
<1>3. receiving' = receiving
  BY <1>0, <1>2 DEF IInv, TypeOK
<1>4. threads[me] \cap S = S
  OBVIOUS
<1>5. Cardinality(threads[me] \ S) = Cardinality(threads[me]) - Cardinality(S)
  <2>1. IsFiniteSet(threads[me]) /\ IsFiniteSet(S)
    BY <1>0, FiniteParts
  <2>2. Cardinality(threads[me] \ S) = Cardinality(threads[me]) - Cardinality(threads[me] \cap S)
    BY <2>1, FS_Difference
  <2>. QED
    BY <2>2, <1>4
<1>6. avl_thread[me] = Cardinality(threads[me])
  BY <1>0, <1>1 DEF IInv, AvailableThreads
<1>7. Cardinality(S) \in Int
  BY <1>0, FiniteParts
<1>8. /\ threads' \in [Pid -> SUBSET Tid] /\ avl_thread' \in [Pid -> Int]
      /\ threads'[me] = threads[me] \ S
      /\ avl_thread'[me] = avl_thread[me] - Cardinality(S)
      /\ \A p \in procs \ {me} : threads'[p] = threads[p] /\ avl_thread'[p] = avl_thread[p]
  BY <1>0, <1>2, <1>7 DEF IInv, TypeOK
<1>. QED
  BY <1>1, <1>3, <1>5, <1>6, <1>8

LEMMA FreshIsTyped ==
  ASSUME NEW a \in [Tid -> Answer], NEW S
  PROVE  Fresh(a, S) \in [Tid -> Answer]
  BY DEF Fresh, Ans, Answer, Call, PENDING

(* Threads of the other processes are untouched by a disposal.              *)
LEMMA OthersAvailable ==
  ASSUME IInv, NEW p \in procs, threads'[p] = threads[p], avl_thread'[p] = avl_thread[p],
         tflag' = tflag
  PROVE  avl_thread'[p] = Cardinality({t \in threads'[p] : tflag'[p][t] = READY})
  BY DEF IInv, AvailableThreads

LEMMA DisposeOtherStep ==
  ASSUME IInv, NEW t \in Tid, DisposeOther(t) PROVE IInv'
<1> DEFINE me == current_proc
<1>0. /\ t \in threads[me] \ {current[me]} /\ Drop(me, {t})
      /\ ax' = [ax EXCEPT ![me] = [Fresh(@, {t}) EXCEPT
                                    ![current[me]] = Ans("DISPOSE_THREAD", PENDING)]]
      /\ UNCHANGED <<procs, priority, current, queue, tflag, sched, creates>>
  BY DEF DisposeOther
<1>1. /\ receiving' = receiving
      /\ threads' \in [Pid -> SUBSET Tid] /\ avl_thread' \in [Pid -> Int]
      /\ threads'[me] = threads[me] \ {t}
      /\ avl_thread'[me] = Cardinality({u \in threads'[me] : tflag[me][u] = READY})
      /\ \A p \in procs \ {me} : threads'[p] = threads[p] /\ avl_thread'[p] = avl_thread[p]
  BY <1>0, DropWorks
<1> USE DEF sched
<1>2. me \in procs /\ me \in Pid /\ flag[me] = RUNNING /\ ax[me] \in [Tid -> Answer]
  BY DEF IInv, TypeOK, OneRunning
<1>3. TypeOK'
  <2>1. Ans("DISPOSE_THREAD", PENDING) \in Answer /\ Fresh(ax[me], {t}) \in [Tid -> Answer]
    BY <1>2, FreshIsTyped DEF Ans, Answer, Call, PENDING
  <2>2. ax' \in [Pid -> [Tid -> Answer]]
    BY <1>0, <1>2, <2>1 DEF IInv, TypeOK
  <2>. QED
    BY <1>0, <1>1, <2>2 DEF IInv, TypeOK
<1>4. OneRunning' /\ NoLostWakeup' /\ TicksBudget' /\ Permanent'
  BY <1>0 DEF IInv, OneRunning, NoLostWakeup, TicksBudget, Permanent
<1>5. \A p \in procs \ {me} : ax'[p] = ax[p]
  BY <1>0, <1>2 DEF IInv, TypeOK
<1>6. SleepsInReceive'
  BY <1>0, <1>1, <1>2, <1>5 DEF IInv, SleepsInReceive, ASLEEP, RUNNING
<1>7. AvailableThreads'
  BY <1>0, <1>1, OthersAvailable DEF AvailableThreads
<1>. QED
  BY <1>3, <1>4, <1>6, <1>7 DEF IInv

LEMMA DisposeSelfStep == ASSUME IInv, DisposeSelf PROVE IInv'
<1> DEFINE me == current_proc
           rest == threads[me] \ {current[me]}
<1>0. /\ rest # {} /\ Drop(me, {current[me]})
      /\ ax' = [ax EXCEPT ![me] = Fresh(@, {current[me]})]
      /\ current' = [current EXCEPT ![me] = Least(rest)]
      /\ ScheduleTo(READY, ticks, READY)
      /\ UNCHANGED <<procs, priority, queue, tflag, creates>>
  BY DEF DisposeSelf, Schedule
<1>1. /\ me \in procs /\ me \in Pid /\ procs \subseteq Pid /\ flag[me] = RUNNING
      /\ current[me] \in threads[me] /\ threads[me] \subseteq Tid
      /\ ax[me] \in [Tid -> Answer] /\ receiving[me] = 0
      /\ \A u \in threads[me] : tflag[me][u] = READY
  BY DEF IInv, TypeOK, OneRunning, SleepsInReceive, RUNNING, ASLEEP
<1>2. /\ receiving' = receiving
      /\ threads' \in [Pid -> SUBSET Tid] /\ avl_thread' \in [Pid -> Int]
      /\ threads'[me] = rest
      /\ avl_thread'[me] = Cardinality({u \in threads'[me] : tflag[me][u] = READY})
      /\ \A p \in procs \ {me} : threads'[p] = threads[p] /\ avl_thread'[p] = avl_thread[p]
  BY <1>0, <1>1, DropWorks
<1>3. Least(rest) \in rest /\ Least(rest) \in Tid
  <2>1. IsFiniteSet(rest) /\ rest \subseteq Int
    BY <1>1, FiniteParts, Constants
  <2> HIDE DEF rest
  <2>2. Least(rest) \in rest
    BY <2>1, <1>0, LeastIsLeast
  <2>. QED
    BY <2>2, <1>1 DEF rest
<1>4. /\ current' \in [Pid -> Tid] /\ current'[me] = Least(rest)
      /\ \A p \in procs \ {me} : current'[p] = current[p] /\ ax'[p] = ax[p]
  BY <1>0, <1>1, <1>3 DEF IInv, TypeOK
<1>5. /\ ticks' \in [Pid -> Int] /\ \A p \in procs : ticks'[p] \in 0 .. priority[p]
      /\ current_proc' \in procs /\ ticks'[current_proc'] > 0
  BY <1>0, TicksInRange, ScheduleWorks DEF IInv
<1>6. /\ flag' \in [Pid -> {READY, ASLEEP, RUNNING}]
      /\ \A p \in procs : flag'[p] = IF p = current_proc' THEN RUNNING
                                     ELSE IF p = me THEN READY ELSE flag[p]
      /\ \A p \in procs \ {me} : flag'[p] = ASLEEP <=> flag[p] = ASLEEP
  BY <1>0, TicksInRange, FlagsAfter
<1>7. flag'[me] # ASLEEP
  BY <1>1, <1>6 DEF READY, ASLEEP, RUNNING
<1>8. TypeOK'
  <2>1. ax' \in [Pid -> [Tid -> Answer]]
    BY <1>0, <1>1, FreshIsTyped DEF IInv, TypeOK
  <2>. QED
    BY <1>0, <1>2, <1>4, <1>5, <1>6, <2>1 DEF IInv, TypeOK
<1>9. OneRunning'
  BY <1>0, <1>6 DEF IInv, OneRunning, READY, RUNNING
<1>10. SleepsInReceive'
  <2>0. procs' = procs /\ receiving' = receiving /\ tflag' = tflag
    BY <1>0, <1>2
  <2> SUFFICES ASSUME NEW p \in procs
               PROVE  /\ current'[p] \in threads'[p]
                      /\ receiving'[p] = IF flag'[p] = ASLEEP THEN 1 ELSE 0
                      /\ tflag'[p][current'[p]] = IF flag'[p] = ASLEEP THEN RECEIVING ELSE READY
                      /\ flag'[p] = ASLEEP => ax'[p][current'[p]] = Ans("RECEIVE", PENDING)
                      /\ \A t \in threads'[p] \ {current'[p]} : tflag'[p][t] = READY
    BY <2>0 DEF SleepsInReceive
  <2>1. CASE p = me
    BY <2>0, <2>1, <1>1, <1>2, <1>3, <1>4, <1>7
  <2>2. CASE p # me
    BY <2>0, <2>2, <1>2, <1>4, <1>6 DEF IInv, SleepsInReceive
  <2>. QED
    BY <2>1, <2>2
<1>11. NoLostWakeup'
  BY <1>0, <1>6, <1>7 DEF IInv, NoLostWakeup
<1>12. AvailableThreads'
  BY <1>0, <1>2, OthersAvailable DEF AvailableThreads
<1>13. TicksBudget'
  BY <1>0, <1>5 DEF TicksBudget
<1>14. Permanent'
  BY <1>0, <1>6, <1>7, Constants DEF IInv, Permanent
<1>. QED
  BY <1>8, <1>9, <1>10, <1>11, <1>12, <1>13, <1>14 DEF IInv
-----------------------------------------------------------------------------
(* EXIT of the last thread and the exceptions.                              *)
LEMMA DisposeStep ==
  ASSUME IInv, Mortal, Dispose(current_proc) PROVE IInv'
<1> DEFINE me == current_proc
<1>0. /\ Drop(me, threads[me])
      /\ ax' = [ax EXCEPT ![me] = Fresh(@, threads[me])]
      /\ ScheduleTo(RUNNING, ticks, RUNNING)
      /\ procs' = procs \ {me}
      /\ queue' = [queue EXCEPT ![me] = <<>>]
      /\ UNCHANGED <<priority, current, tflag, creates>>
  BY DEF Dispose, Schedule
<1>1. /\ me \in procs /\ me \in Pid /\ procs \subseteq Pid
      /\ me # INIT /\ me # PID_VIDEO /\ me \notin IrqTargets
      /\ ax[me] \in [Tid -> Answer]
  BY DEF IInv, TypeOK, Mortal, Caller
<1>2. /\ receiving' = receiving
      /\ threads' \in [Pid -> SUBSET Tid] /\ avl_thread' \in [Pid -> Int]
      /\ \A p \in procs \ {me} : threads'[p] = threads[p] /\ avl_thread'[p] = avl_thread[p]
  BY <1>0, DropWorks
<1>3. /\ ticks' \in [Pid -> Int] /\ \A p \in procs : ticks'[p] \in 0 .. priority[p]
      /\ current_proc' \in procs /\ ticks'[current_proc'] > 0 /\ current_proc' # me
  BY <1>0, TicksInRange, ScheduleWorks DEF IInv, READY, RUNNING
<1>4. /\ flag' \in [Pid -> {READY, ASLEEP, RUNNING}]
      /\ \A p \in procs : flag'[p] = IF p = current_proc' THEN RUNNING
                                     ELSE IF p = me THEN RUNNING ELSE flag[p]
      /\ \A p \in procs \ {me} : flag'[p] = ASLEEP <=> flag[p] = ASLEEP
  BY <1>0, TicksInRange, FlagsAfter
<1>5. \A p \in procs \ {me} : ax'[p] = ax[p] /\ queue'[p] = queue[p]
  BY <1>0, <1>1 DEF IInv, TypeOK
<1>6. TypeOK'
  <2>1. ax' \in [Pid -> [Tid -> Answer]]
    BY <1>0, <1>1, FreshIsTyped DEF IInv, TypeOK
  <2>2. queue' \in [Pid -> Seq(Source)]
    BY <1>0, <1>1 DEF IInv, TypeOK
  <2>. QED
    BY <1>0, <1>1, <1>2, <1>3, <1>4, <2>1, <2>2 DEF IInv, TypeOK
<1>7. OneRunning'
  BY <1>0, <1>3, <1>4 DEF IInv, OneRunning
<1>8. SleepsInReceive'
  BY <1>0, <1>2, <1>4, <1>5 DEF IInv, SleepsInReceive
<1>9. NoLostWakeup'
  BY <1>0, <1>4, <1>5 DEF IInv, NoLostWakeup
<1>10. AvailableThreads'
  BY <1>0, <1>2, OthersAvailable DEF AvailableThreads
<1>11. TicksBudget'
  BY <1>0, <1>3 DEF TicksBudget
<1>12. Permanent'
  <2>1. {INIT, PID_VIDEO} \cup IrqTargets \subseteq procs'
    BY <1>0, <1>1 DEF IInv, Permanent
  <2>2. flag'[INIT] # ASLEEP /\ flag'[PID_VIDEO] # ASLEEP
    BY <1>1, <1>4 DEF IInv, Permanent
  <2>. QED
    BY <2>1, <2>2 DEF Permanent
<1>. QED
  BY <1>6, <1>7, <1>8, <1>9, <1>10, <1>11, <1>12 DEF IInv

(* createProcess.                                                           *)
LEMMA CreateProcessStep == ASSUME IInv, CreateProcess PROVE IInv'
<1> DEFINE new == FreePid
<1>1. new \in Pid /\ new \notin procs
  <2>1. (1 .. MAX_PID) \ procs \subseteq Pid
    BY DEF Pid
  <2>2. IsFiniteSet((1 .. MAX_PID) \ procs) /\ (1 .. MAX_PID) \ procs \subseteq Int
    BY <2>1, FiniteParts, Constants
  <2>3. (1 .. MAX_PID) \ procs # {}
    BY DEF CreateProcess
  <2>4. FreePid \in (1 .. MAX_PID) \ procs
    BY <2>2, <2>3, LeastIsLeast DEF FreePid
  <2>. QED
    BY <2>1, <2>4
<1>2. /\ procs' = procs \cup {new}
      /\ priority' = [priority EXCEPT ![new] = 1]
      /\ ticks' = [ticks EXCEPT ![new] = 1]
      /\ flag' = [flag EXCEPT ![new] = READY]
      /\ threads' = [threads EXCEPT ![new] = {0}]
      /\ current' = [current EXCEPT ![new] = 0]
      /\ avl_thread' = [avl_thread EXCEPT ![new] = 1]
      /\ tflag' = [tflag EXCEPT ![new][0] = READY]
      /\ ax' = [ax EXCEPT ![new][0] = Ans("START", PENDING)]
      /\ receiving' = [receiving EXCEPT ![new] = 0]
      /\ queue' = [queue EXCEPT ![new] = <<>>]
      /\ creates' = creates + 1
      /\ current_proc' = current_proc
  BY DEF CreateProcess
<1> HIDE DEF new
<1>3. \A p \in procs :
        /\ p # new /\ p \in Pid
        /\ priority'[p] = priority[p] /\ ticks'[p] = ticks[p] /\ flag'[p] = flag[p]
        /\ threads'[p] = threads[p] /\ current'[p] = current[p] /\ queue'[p] = queue[p]
        /\ avl_thread'[p] = avl_thread[p] /\ tflag'[p] = tflag[p] /\ ax'[p] = ax[p]
        /\ receiving'[p] = receiving[p]
  BY <1>1, <1>2 DEF IInv, TypeOK
<1>4. /\ priority'[new] = 1 /\ ticks'[new] = 1 /\ flag'[new] = READY /\ threads'[new] = {0}
      /\ current'[new] = 0 /\ queue'[new] = <<>> /\ avl_thread'[new] = 1
      /\ tflag'[new][0] = READY /\ receiving'[new] = 0
  BY <1>1, <1>2, Constants DEF IInv, TypeOK
<1>5. TypeOK'
  <2>1. Ans("START", PENDING) \in Answer
    BY DEF Ans, Answer, Call, PENDING
  <2>2. procs' \subseteq Pid /\ current_proc' \in procs'
    BY <1>1, <1>2 DEF IInv, TypeOK
  <2>3. priority' \in [Pid -> Nat \ {0}] /\ ticks' \in [Pid -> Int]
    BY <1>1, <1>2 DEF IInv, TypeOK
  <2>4. flag' \in [Pid -> {READY, ASLEEP, RUNNING}] /\ current' \in [Pid -> Tid]
    BY <1>1, <1>2, Constants DEF IInv, TypeOK
  <2>5. avl_thread' \in [Pid -> Int] /\ receiving' \in [Pid -> Int] /\ creates' \in Nat
    BY <1>1, <1>2 DEF IInv, TypeOK
  <2>6. queue' \in [Pid -> Seq(Source)]
    BY <1>1, <1>2 DEF IInv, TypeOK
  <2>7. threads' \in [Pid -> SUBSET Tid]
    BY <1>1, <1>2, Constants DEF IInv, TypeOK
  <2>8. /\ tflag' \in [Pid -> [Tid -> {READY, ASLEEP, RECEIVING}]]
        /\ ax' \in [Pid -> [Tid -> Answer]]
    BY <1>1, <1>2, <2>1, Constants DEF IInv, TypeOK
  <2>. QED
    BY <2>2, <2>3, <2>4, <2>5, <2>6, <2>7, <2>8 DEF TypeOK
<1>6. current_proc \in procs
  BY DEF IInv, TypeOK
<1>7. OneRunning'
  BY <1>1, <1>2, <1>3, <1>4, <1>6 DEF IInv, OneRunning, READY, RUNNING
<1>8. SleepsInReceive'
  BY <1>2, <1>3, <1>4 DEF IInv, SleepsInReceive, READY, ASLEEP
<1>9. NoLostWakeup'
  BY <1>2, <1>3, <1>4 DEF IInv, NoLostWakeup, READY, ASLEEP
<1>10. AvailableThreads'
  <2>1. ASSUME NEW p \in procs
        PROVE  avl_thread'[p] = Cardinality({t \in threads'[p] : tflag'[p][t] = READY})
    <3>1. {t \in threads'[p] : tflag'[p][t] = READY} = {t \in threads[p] : tflag[p][t] = READY}
      BY <1>3
    <3>. QED
      BY <3>1, <1>3 DEF IInv, AvailableThreads
  <2>2. avl_thread'[new] = Cardinality({t \in threads'[new] : tflag'[new][t] = READY})
    <3>1. {t \in threads'[new] : tflag'[new][t] = READY} = {0}
      BY <1>4
    <3>. QED
      BY <3>1, <1>4, FS_Singleton
  <2>. QED
    BY <1>2, <2>1, <2>2 DEF AvailableThreads
<1>11. TicksBudget'
  <2>1. \A p \in procs : ticks'[p] \in 0 .. priority'[p]
    BY <1>3 DEF IInv, TicksBudget
  <2>2. ticks'[new] \in 0 .. priority'[new]
    BY <1>4
  <2>3. ticks'[current_proc] > 0
    BY <1>3, <1>6 DEF IInv, TicksBudget
  <2>. QED
    BY <1>2, <2>1, <2>2, <2>3 DEF TicksBudget
<1>12. Permanent'
  BY <1>2, <1>3 DEF IInv, Permanent
<1>. QED
  BY <1>5, <1>7, <1>8, <1>9, <1>10, <1>11, <1>12 DEF IInv
-----------------------------------------------------------------------------
(* SEND to a process that waits, and an interrupt for one.                  *)
LEMMA SendDeliverStep ==
  ASSUME IInv, NEW q \in Pid, NEW src \in Source, SendDeliver(q, src) PROVE IInv'
<1>1. /\ q \in procs /\ receiving[q] > 0 /\ Wake(q)
      /\ UNCHANGED <<table, queue, ticks, current_proc, creates>>
      /\ ax' = [ax EXCEPT ![q][current[q]] = Ans("RECEIVE", src),
                          ![current_proc][current[current_proc]] = Ans("SEND", 1)]
  BY Receiver DEF SendDeliver, Found
<1>2. Ans("RECEIVE", src) \in Answer /\ Ans("SEND", 1) \in Answer
  BY Constants DEF Ans, Answer, Call, Source, IRQ
<1>3. /\ ax' \in [Pid -> [Tid -> Answer]]
      /\ \A p \in procs \ {q, current_proc} : ax'[p] = ax[p]
  BY <1>1, <1>2 DEF IInv, TypeOK
<1>. QED
  BY <1>1, <1>3, WakeOnly

LEMMA InterruptDeliverStep ==
  ASSUME IInv, NEW d \in IrqTargets, InterruptDeliver(d) PROVE IInv'
<1>1. /\ d \in procs /\ receiving[d] > 0 /\ Wake(d)
      /\ UNCHANGED <<table, queue, ticks, current_proc, creates>>
      /\ ax' = [ax EXCEPT ![d][current[d]] = Ans("RECEIVE", IRQ)]
  BY Receiver DEF InterruptDeliver, IInv, Permanent
<1>2. Ans("RECEIVE", IRQ) \in Answer
  BY DEF Ans, Answer, Call, IRQ
<1>3. /\ ax' \in [Pid -> [Tid -> Answer]]
      /\ \A p \in procs \ {d, current_proc} : ax'[p] = ax[p]
  BY <1>1, <1>2 DEF IInv, TypeOK
<1>. QED
  BY <1>1, <1>3, WakeOnly

(* The calls that only answer: every one of their answers is well typed.    *)
LEMMA SimpleAnswers ==
  /\ \A r \in -2 .. 1 : Ans("SEND", r) \in Answer
  /\ Ans("RECEIVE", -2) \in Answer /\ Ans("CREATE_THREAD", NULL) \in Answer
  BY DEF Ans, Answer, Call, NULL

(* Every kernel entry preserves the invariant.                              *)
LEMMA NextIInv == IInv /\ [Next]_vars => IInv'
<1> SUFFICES ASSUME IInv, [Next]_vars PROVE IInv'
  OBVIOUS
<1>1. CASE SendBadAddress
  BY <1>1, SimpleAnswers, AnswerOnly DEF SendBadAddress
<1>2. CASE ReceiveBadAddress
  BY <1>2, SimpleAnswers, AnswerOnly DEF ReceiveBadAddress
<1>3. CASE ReceiveMessage
  BY <1>3, ReceiveMessageStep
<1>4. CASE ReceiveSleep
  BY <1>4, SleepStep
<1>5. ASSUME NEW q \in Pid \ {PID_VIDEO}, NEW src \in Source, SendNoProcess(q, src)
      PROVE  IInv'
  BY <1>5, SimpleAnswers, AnswerOnly DEF SendNoProcess
<1>6. ASSUME NEW q \in Pid \ {PID_VIDEO}, NEW src \in Source, SendDeliver(q, src)
      PROVE  IInv'
  BY <1>6, SendDeliverStep
<1>7. ASSUME NEW q \in Pid \ {PID_VIDEO}, NEW src \in Source, SendQueue(q, src)
      PROVE  IInv'
  <2>1. /\ q \in procs /\ receiving[q] = 0 /\ Enqueue(q, src)
        /\ Answered(current_proc, Ans("SEND", 1)) /\ Ans("SEND", 1) \in Answer
        /\ UNCHANGED <<table, receiving, tflag, avl_thread, sched, creates>>
    BY <1>7, SimpleAnswers DEF SendQueue, Found
  <2>. QED
    BY <2>1, QueueOnly
<1>8. ASSUME NEW q \in Pid \ {PID_VIDEO}, NEW src \in Source, SendFull(q, src)
      PROVE  IInv'
  BY <1>8, SimpleAnswers, AnswerOnly DEF SendFull
<1>9. ASSUME NEW d \in IrqTargets, InterruptDeliver(d) PROVE IInv'
  BY <1>9, InterruptDeliverStep
<1>10. ASSUME NEW d \in IrqTargets, InterruptQueue(d) PROVE IInv'
  <2>1. /\ d \in procs /\ receiving[d] = 0 /\ Enqueue(d, IRQ) /\ IRQ \in Source /\ ax' = ax
        /\ UNCHANGED <<table, receiving, tflag, avl_thread, sched, creates>>
    BY <1>10 DEF InterruptQueue, IInv, Permanent, Source
  <2>. QED
    BY <2>1, QueueOnly
<1>11. CASE Timer
  BY <1>11, TimerStep
<1>12. CASE Nice
  BY <1>12, NiceStep
<1>13. CASE CreateThread
  BY <1>13, CreateThreadStep
<1>14. CASE CreateThreadNoStack
  BY <1>14, SimpleAnswers, AnswerOnly DEF CreateThreadNoStack
<1>15. CASE DisposeSelf
  BY <1>15, DisposeSelfStep
<1>16. ASSUME NEW t \in Tid, DisposeOther(t) PROVE IInv'
  BY <1>16, DisposeOtherStep
<1>17. CASE Exit
  BY <1>17, DisposeStep DEF Exit
<1>18. CASE Exception
  BY <1>18, DisposeStep DEF Exception
<1>19. CASE CreateProcess
  BY <1>19, CreateProcessStep
<1>20. CASE UNCHANGED vars
  BY <1>20 DEF IInv, TypeOK, OneRunning, SleepsInReceive, NoLostWakeup, AvailableThreads,
               TicksBudget, Permanent, vars, table, ipc, sched
<1>. QED
  BY <1>1, <1>2, <1>3, <1>4, <1>5, <1>6, <1>7, <1>8, <1>9, <1>10, <1>11, <1>12, <1>13,
     <1>14, <1>15, <1>16, <1>17, <1>18, <1>19, <1>20 DEF Next

(* Every reachable state of the process table, the scheduler and the        *)
(* message system calls satisfies the inductive invariant.                  *)
THEOREM Invariance == Spec => []IInv
<1>. QED
  BY InitIInv, NextIInv, PTL DEF Spec

(* Every variable keeps its type.                                           *)
THEOREM TypeCorrect == Spec => []TypeOK
<1>1. IInv => TypeOK
  BY DEF IInv
<1>. QED
  BY <1>1, Invariance, PTL

(* A sleeping process never has a message waiting for it in its queue.      *)
THEOREM NoWakeupIsLost == Spec => []NoLostWakeup
<1>1. IInv => NoLostWakeup
  BY DEF IInv
<1>. QED
  BY <1>1, Invariance, PTL

(* A process sleeps exactly when one thread of it, the current one, waits   *)
(* in RECEIVE, and p->receiving says so.                                    *)
THEOREM SleepersReceive == Spec => []SleepsInReceive
<1>1. IInv => SleepsInReceive
  BY DEF IInv
<1>. QED
  BY <1>1, Invariance, PTL

(* avl_thread always counts the threads that do not wait.                   *)
THEOREM AvailableCounts == Spec => []AvailableThreads
<1>1. IInv => AvailableThreads
  BY DEF IInv
<1>. QED
  BY <1>1, Invariance, PTL

(* Exactly one process has the CPU.                                         *)
THEOREM MutualExclusion == Spec => []OneRunning
<1>1. IInv => OneRunning
  BY DEF IInv
<1>. QED
  BY <1>1, Invariance, PTL

(* The running process never exceeds, nor exhausts, its ticks.              *)
THEOREM TicksKept == Spec => []TicksBudget
<1>1. IInv => TicksBudget
  BY DEF IInv
<1>. QED
  BY <1>1, Invariance, PTL

(* schedule never loops for ever: some other process is always ready.       *)
THEOREM SchedulerTerminates == Spec => []SchedulerFindsOne
<1>1. IInv => SchedulerFindsOne
  BY AnotherIsReady DEF IInv
<1>. QED
  BY <1>1, Invariance, PTL

(***************************************************************************)
(* Proc keeps the promise of Mailbox: every kernel entry is, seen through   *)
(* the mapping of Promise, a step of Mailbox or changes nothing there.      *)
(***************************************************************************)
Reply   == [p \in Pid |-> ax[p][current[p]]]
Waiting == {p \in Pid : receiving[p] > 0}
me      == current_proc

(* Facts about the running process the steps share.                         *)
LEMMA Me ==
  ASSUME IInv
  PROVE  /\ me \in Pid /\ me \in procs /\ procs \subseteq Pid /\ receiving[me] = 0
         /\ current[me] \in Tid /\ current[me] \in threads[me]
         /\ Reply[me] = ax[me][current[me]]
         /\ Promise!Idle(me)
<1>1. me \in Pid /\ me \in procs /\ procs \subseteq Pid
  BY DEF IInv, TypeOK, me
<1>2. receiving[me] = 0 /\ current[me] \in Tid /\ current[me] \in threads[me]
  BY <1>1 DEF IInv, OneRunning, SleepsInReceive, RUNNING, ASLEEP, TypeOK, me
<1>3. me \notin Waiting
  BY <1>2 DEF Waiting
<1>. QED
  BY <1>1, <1>2, <1>3 DEF Reply, Promise!Idle, Waiting

(* Answering the running process changes its reply and no other.            *)
LEMMA AnswerIsReply ==
  ASSUME IInv, NEW a, Answered(current_proc, a), current' = current
  PROVE  Reply' = [Reply EXCEPT ![me] = a]
<1>1. ax \in [Pid -> [Tid -> Answer]] /\ current \in [Pid -> Tid]
  BY DEF IInv, TypeOK
<1>2. ax' = [ax EXCEPT ![me][current[me]] = a]
  BY DEF Answered, me
<1>3. \A p \in Pid : ax'[p][current[p]] = IF p = me THEN a ELSE ax[p][current[p]]
  BY <1>1, <1>2, Me
<1>. QED
  BY <1>3 DEF Reply

(* The calls that only answer.                                              *)
LEMMA RefusedStep ==
  ASSUME IInv, NEW c \in {"SEND", "RECEIVE"}, Answered(current_proc, Ans(c, -2)),
         UNCHANGED <<table, ipc>>
  PROVE  Promise!Refused(me, c)
<1>1. Reply' = [Reply EXCEPT ![me] = Ans(c, -2)]
  BY AnswerIsReply DEF table
<1>2. procs' = procs /\ queue' = queue /\ Waiting' = Waiting
  BY DEF table, ipc, Waiting
<1>. QED
  BY <1>1, <1>2, Me DEF Promise!Refused, Promise!Said, Ans, Reply, Waiting

LEMMA SendNoProcessStep ==
  ASSUME IInv, NEW q \in Pid, NEW src \in Source, SendNoProcess(q, src)
  PROVE  Promise!Unreachable(me, q)
<1>1. Reply' = [Reply EXCEPT ![me] = Ans("SEND", -1)]
  BY AnswerIsReply DEF SendNoProcess, table
<1>2. procs' = procs /\ queue' = queue /\ Waiting' = Waiting
  BY DEF SendNoProcess, table, ipc, Waiting
<1>3. q \notin procs \ {INIT}
  BY DEF SendNoProcess, Found
<1>. QED
  BY <1>1, <1>2, <1>3, Me DEF Promise!Unreachable, Promise!Said, Ans, Reply, Waiting

LEMMA SendFullStep ==
  ASSUME IInv, NEW q \in Pid, NEW src \in Source, SendFull(q, src)
  PROVE  Promise!Full(me, q)
<1>1. Reply' = [Reply EXCEPT ![me] = Ans("SEND", 0)]
  BY AnswerIsReply DEF SendFull, table
<1>2. procs' = procs /\ queue' = queue /\ Waiting' = Waiting
  BY DEF SendFull, table, ipc, Waiting
<1>3. q \in procs \ {INIT} /\ q \notin Waiting /\ Len(queue[q]) >= MAX_MESSAGE_COUNT
  BY DEF SendFull, Found, Waiting
<1>. QED
  BY <1>1, <1>2, <1>3, Me DEF Promise!Full, Promise!Said, Ans, Reply, Waiting
-----------------------------------------------------------------------------
(* Waking a process takes it out of the waiting set; queueing leaves it.    *)
LEMMA WakeMaps ==
  ASSUME IInv, NEW q \in procs, receiving[q] > 0, Wake(q)
  PROVE  q \in Waiting /\ Waiting' = Waiting \ {q}
<1>1. q \in Pid /\ receiving[q] = 1 /\ receiving \in [Pid -> Int]
  BY Receiver DEF IInv, TypeOK
<1>2. receiving' = [receiving EXCEPT ![q] = 0]
  BY <1>1 DEF Wake
<1>. QED
  BY <1>1, <1>2 DEF Waiting

LEMMA SendDeliverMaps ==
  ASSUME IInv, NEW q \in Pid, NEW src \in Source, SendDeliver(q, src)
  PROVE  Promise!Send(me, q, src)
<1> DEFINE r == [Reply EXCEPT ![me] = Ans("SEND", 1)]
<1>1. /\ q \in procs \ {INIT} /\ receiving[q] > 0 /\ Wake(q)
      /\ UNCHANGED <<table, queue>>
  BY DEF SendDeliver, Found
<1>2. /\ q # me /\ current[q] \in Tid
      /\ ax' = [ax EXCEPT ![q][current[q]] = Ans("RECEIVE", src),
                          ![me][current[me]] = Ans("SEND", 1)]
  BY <1>1, Receiver DEF SendDeliver, IInv, TypeOK, me
<1>3. Reply' = [r EXCEPT ![q] = Ans("RECEIVE", src)]
  <2>1. ax \in [Pid -> [Tid -> Answer]] /\ current \in [Pid -> Tid] /\ current' = current
    BY <1>1 DEF IInv, TypeOK, table
  <2>2. \A p \in Pid : ax'[p][current[p]] = IF p = q THEN Ans("RECEIVE", src)
                                             ELSE IF p = me THEN Ans("SEND", 1)
                                             ELSE ax[p][current[p]]
    BY <1>2, <2>1, Me
  <2>. QED
    BY <1>2, <2>1, <2>2, Me DEF Reply
<1>4. q \in Waiting /\ Waiting' = Waiting \ {q} /\ procs' = procs /\ queue' = queue
  BY <1>1, WakeMaps DEF table
<1>. QED
  BY <1>1, <1>3, <1>4, Me DEF Promise!Send, Promise!Reach, Promise!Said, Ans, Reply, Waiting

LEMMA SendQueueMaps ==
  ASSUME IInv, NEW q \in Pid, NEW src \in Source, SendQueue(q, src)
  PROVE  Promise!Send(me, q, src)
<1> DEFINE r == [Reply EXCEPT ![me] = Ans("SEND", 1)]
<1>1. /\ q \in procs \ {INIT} /\ receiving[q] = 0 /\ Len(queue[q]) < MAX_MESSAGE_COUNT
      /\ Enqueue(q, src) /\ UNCHANGED <<table, receiving>>
      /\ Answered(current_proc, Ans("SEND", 1))
  BY DEF SendQueue, Found
<1>2. Reply' = r
  BY <1>1, AnswerIsReply DEF table
<1>3. q \notin Waiting /\ Waiting' = Waiting /\ procs' = procs
  BY <1>1 DEF Waiting, table
<1>. QED
  BY <1>1, <1>2, <1>3, Me
  DEF Promise!Send, Promise!Reach, Promise!Said, Ans, Reply, Waiting, Enqueue

LEMMA InterruptMaps ==
  ASSUME IInv, NEW d \in IrqTargets, InterruptDeliver(d) \/ InterruptQueue(d)
  PROVE  Promise!Interrupt(d)
<1>1. d \in procs \ {INIT} /\ d \in Pid
  BY IrqAssumption DEF IInv, TypeOK, Permanent
<1>2. CASE InterruptDeliver(d)
  <2>1. /\ receiving[d] > 0 /\ Wake(d) /\ UNCHANGED <<table, queue>>
        /\ ax' = [ax EXCEPT ![d][current[d]] = Ans("RECEIVE", IRQ)]
    BY <1>1, <1>2, Receiver DEF InterruptDeliver
  <2>2. Reply' = [Reply EXCEPT ![d] = Ans("RECEIVE", IRQ)]
    <3>1. ax \in [Pid -> [Tid -> Answer]] /\ current \in [Pid -> Tid] /\ current' = current
      BY <2>1 DEF IInv, TypeOK, table
    <3>2. \A p \in Pid : ax'[p][current[p]] =
                          IF p = d THEN Ans("RECEIVE", IRQ) ELSE ax[p][current[p]]
      BY <1>1, <2>1, <3>1
    <3>. QED
      BY <1>1, <3>1, <3>2 DEF Reply
  <2>3. d \in Waiting /\ Waiting' = Waiting \ {d} /\ procs' = procs /\ queue' = queue
    BY <1>1, <2>1, WakeMaps DEF table
  <2>. QED
    BY <1>1, <2>2, <2>3
    DEF Promise!Interrupt, Promise!Reach, Promise!Said, Ans, Reply, Waiting
<1>3. CASE InterruptQueue(d)
  <2>1. /\ receiving[d] = 0 /\ Len(queue[d]) < MAX_MESSAGE_COUNT /\ Enqueue(d, IRQ)
        /\ UNCHANGED <<table, receiving>> /\ Reply' = Reply
    BY <1>3 DEF InterruptQueue, Reply, table
  <2>2. d \notin Waiting /\ Waiting' = Waiting /\ procs' = procs
    BY <2>1 DEF Waiting, table
  <2>. QED
    BY <1>1, <2>1, <2>2 DEF Promise!Interrupt, Promise!Reach, Reply, Waiting, Enqueue
<1>. QED
  BY <1>2, <1>3
-----------------------------------------------------------------------------
(* RECEIVE.                                                                 *)
LEMMA ReceiveMessageMaps ==
  ASSUME IInv, ReceiveMessage PROVE Promise!Take(me)
<1>1. /\ queue[me] # <<>> /\ Answered(current_proc, Ans("RECEIVE", Head(queue[me])))
      /\ queue' = [queue EXCEPT ![me] = Tail(@)] /\ UNCHANGED <<table, receiving>>
  BY DEF ReceiveMessage, me
<1>2. Reply' = [Reply EXCEPT ![me] = Ans("RECEIVE", Head(queue[me]))]
  BY <1>1, AnswerIsReply DEF table
<1>3. Waiting' = Waiting /\ procs' = procs
  BY <1>1 DEF Waiting, table
<1>. QED
  BY <1>1, <1>2, <1>3, Me DEF Promise!Take, Promise!Said, Ans, Reply, Waiting

LEMMA ReceiveSleepMaps ==
  ASSUME IInv, ReceiveSleep PROVE Promise!Wait(me)
<1>1. /\ queue[me] = <<>> /\ Answered(current_proc, Ans("RECEIVE", PENDING))
      /\ receiving' = [receiving EXCEPT ![me] = @ + 1] /\ UNCHANGED <<table, queue>>
  BY DEF ReceiveSleep, me
<1>2. Reply' = [Reply EXCEPT ![me] = Ans("RECEIVE", PENDING)]
  BY <1>1, AnswerIsReply DEF table
<1>3. Waiting' = Waiting \cup {me} /\ procs' = procs
  BY <1>1, Me DEF Waiting, table, IInv, TypeOK
<1>. QED
  BY <1>1, <1>2, <1>3, Me DEF Promise!Wait, Promise!Said, Ans, Reply, Waiting

(* NICE, and the thread calls.                                              *)
LEMMA OtherMaps ==
  ASSUME IInv, NEW c \in {"START", "CREATE_THREAD", "DISPOSE_THREAD", "NICE"}, NEW n,
         Reply' = [Reply EXCEPT ![me] = Ans(c, n)],
         UNCHANGED <<procs, queue, receiving>>
  PROVE  Promise!Other(me)
<1>1. Reply'[me] = Ans(c, n) /\ Reply'[me].call = c
  BY Me DEF Reply, Ans
<1>2. Reply' = [Reply EXCEPT ![me] = Reply'[me]]
  BY <1>1
<1>3. Waiting' = Waiting
  BY DEF Waiting
<1>. QED
  BY <1>1, <1>2, <1>3, Me DEF Promise!Other, Reply, Waiting

(* The thread and the process a creation adds are new.                      *)
LEMMA NewThread ==
  ASSUME IInv, CreateThread
  PROVE  Least(Tid \ threads[current_proc]) \in Tid \ threads[current_proc]
<1>1. Tid \ threads[me] # {} /\ Tid \ threads[me] \subseteq Int
  BY Me, Constants DEF CreateThread, IInv, TypeOK, me
<1>2. IsFiniteSet(Tid \ threads[me])
  BY FiniteParts
<1>. QED
  BY <1>1, <1>2, LeastIsLeast DEF me

LEMMA NewPid ==
  ASSUME CreateProcess PROVE FreePid \in Pid \ procs
<1>1. (1 .. MAX_PID) \ procs \subseteq Pid /\ (1 .. MAX_PID) \ procs # {}
  BY DEF Pid, CreateProcess
<1>2. IsFiniteSet((1 .. MAX_PID) \ procs) /\ (1 .. MAX_PID) \ procs \subseteq Int
  BY <1>1, FiniteParts, Constants
<1>3. FreePid \in (1 .. MAX_PID) \ procs
  BY <1>1, <1>2, LeastIsLeast DEF FreePid
<1>. QED
  BY <1>1, <1>3

LEMMA CreateThreadMaps ==
  ASSUME IInv, CreateThread PROVE Promise!Other(me)
<1> DEFINE t == Least(Tid \ threads[me])
<1>1. t \in Tid /\ t \notin threads[me]
  BY NewThread DEF me
<1>2. /\ ax' = [ax EXCEPT ![me][t] = Ans("START", PENDING),
                          ![me][current[me]] = Ans("CREATE_THREAD", Handle(t))]
      /\ UNCHANGED <<procs, current, receiving, queue>>
  BY DEF CreateThread, me
<1> HIDE DEF t
<1>3. Reply' = [Reply EXCEPT ![me] = Ans("CREATE_THREAD", Handle(t))]
  <2>1. ax \in [Pid -> [Tid -> Answer]] /\ current \in [Pid -> Tid] /\ t # current[me]
    BY <1>1, Me DEF IInv, TypeOK
  <2>2. \A p \in Pid : ax'[p][current[p]] = IF p = me THEN Ans("CREATE_THREAD", Handle(t))
                                             ELSE ax[p][current[p]]
    BY <1>1, <1>2, <2>1, Me
  <2>. QED
    BY <1>2, <2>2 DEF Reply
<1>. QED
  BY <1>2, <1>3, OtherMaps

LEMMA DisposeOtherMaps ==
  ASSUME IInv, NEW t \in Tid, DisposeOther(t) PROVE Promise!Other(me)
<1>1. /\ t \in threads[me] \ {current[me]} /\ Drop(me, {t})
      /\ ax' = [ax EXCEPT ![me] = [Fresh(@, {t}) EXCEPT
                                    ![current[me]] = Ans("DISPOSE_THREAD", PENDING)]]
      /\ UNCHANGED <<procs, current, queue>>
  BY DEF DisposeOther, me
<1>2. receiving' = receiving
  BY <1>1, DropWorks DEF me
<1>3. Reply' = [Reply EXCEPT ![me] = Ans("DISPOSE_THREAD", PENDING)]
  <2>1. ax \in [Pid -> [Tid -> Answer]] /\ current \in [Pid -> Tid]
    BY DEF IInv, TypeOK
  <2>2. Fresh(ax[me], {t}) \in [Tid -> Answer]
    BY <2>1, Me, FreshIsTyped
  <2>3. \A p \in Pid : ax'[p][current[p]] = IF p = me THEN Ans("DISPOSE_THREAD", PENDING)
                                             ELSE ax[p][current[p]]
    BY <1>1, <2>1, <2>2, Me
  <2>. QED
    BY <1>1, <2>3 DEF Reply
<1>. QED
  BY <1>1, <1>2, <1>3, OtherMaps

-----------------------------------------------------------------------------
(* OneThreadRuns is inductive relative to IInv.                             *)
LEMMA AnswerKeepsOthers ==
  ASSUME IInv, OneThreadRuns, NEW a, Answered(current_proc, a),
         UNCHANGED <<procs, threads, current>>
  PROVE  OneThreadRuns'
  BY DEF IInv, TypeOK, OneThreadRuns, Answered

LEMMA SameKeepsOthers ==
  ASSUME OneThreadRuns, UNCHANGED <<procs, threads, current, ax>> PROVE OneThreadRuns'
  BY DEF OneThreadRuns

LEMMA WakeKeepsOthers ==
  ASSUME IInv, OneThreadRuns, NEW q \in procs, receiving[q] > 0, UNCHANGED table, NEW a, NEW b,
         \/ ax' = [ax EXCEPT ![q][FirstReceiving(q)] = a]
         \/ ax' = [ax EXCEPT ![q][FirstReceiving(q)] = a, ![me][current[me]] = b]
  PROVE  OneThreadRuns'
<1>1. FirstReceiving(q) = current[q] /\ q \in Pid
  BY Receiver DEF IInv, TypeOK
<1>2. \A p \in Pid : \A t \in Tid \ {current[p]} : ax'[p][t] = ax[p][t]
  <2>1. ax \in [Pid -> [Tid -> Answer]] /\ current \in [Pid -> Tid] /\ me \in Pid
    BY Me DEF IInv, TypeOK
  <2>2. CASE ax' = [ax EXCEPT ![q][current[q]] = a]
    BY <1>1, <2>1, <2>2
  <2>3. CASE ax' = [ax EXCEPT ![q][current[q]] = a, ![me][current[me]] = b]
    BY <1>1, <2>1, <2>3
  <2>. QED
    BY <1>1, <2>2, <2>3
<1>. QED
  BY <1>2 DEF OneThreadRuns, IInv, TypeOK, table

LEMMA ThreadsKeepOthers ==
  ASSUME IInv, OneThreadRuns, CreateThread \/ DisposeSelf \/ \E t \in Tid : DisposeOther(t)
  PROVE  OneThreadRuns'
<1>0. ax \in [Pid -> [Tid -> Answer]] /\ threads \in [Pid -> SUBSET Tid] /\ current \in [Pid -> Tid]
  BY DEF IInv, TypeOK
<1>1. CASE CreateThread
  <2> DEFINE t == Least(Tid \ threads[me])
  <2>1. /\ ax' = [ax EXCEPT ![me][t] = Ans("START", PENDING),
                            ![me][current[me]] = Ans("CREATE_THREAD", Handle(t))]
        /\ threads' = [threads EXCEPT ![me] = @ \cup {t}]
        /\ UNCHANGED <<procs, current>>
    BY <1>1 DEF CreateThread, me
  <2>2. t \in Tid /\ t \notin threads[me]
    BY <1>1, NewThread DEF me
  <2> HIDE DEF t
  <2>3. \A p \in procs : \A u \in Tid \ {current[p]} :
          ax'[p][u] = IF p = me /\ u = t THEN Ans("START", PENDING) ELSE ax[p][u]
    BY <1>0, <2>1, <2>2, Me
  <2>4. \A p \in procs : \A u \in threads'[p] : u \in Tid /\ (u \in threads[p] \/ (p = me /\ u = t))
    BY <1>0, <2>1, <2>2, Me
  <2> SUFFICES ASSUME NEW p \in procs, NEW u \in threads'[p] \ {current[p]}
               PROVE  ax'[p][u] = Ans("START", PENDING)
    BY <2>1 DEF OneThreadRuns, Ans
  <2>5. u \in Tid \ {current[p]} /\ (u \in threads[p] \/ (p = me /\ u = t))
    BY <2>4
  <2>6. ax'[p][u] = IF p = me /\ u = t THEN Ans("START", PENDING) ELSE ax[p][u]
    BY <2>3, <2>5
  <2>. QED
    BY <2>5, <2>6 DEF OneThreadRuns
<1>2. ASSUME NEW t \in Tid, DisposeOther(t) PROVE OneThreadRuns'
  <2>1. /\ ax' = [ax EXCEPT ![me] = [Fresh(@, {t}) EXCEPT
                                      ![current[me]] = Ans("DISPOSE_THREAD", PENDING)]]
        /\ threads' = [threads EXCEPT ![me] = @ \ {t}]
        /\ UNCHANGED <<procs, current>>
    BY <1>2 DEF DisposeOther, Drop, me
  <2>2. \A u \in Tid \ {t} : Fresh(ax[me], {t})[u] = ax[me][u]
    BY DEF Fresh
  <2>3. Fresh(ax[me], {t}) \in [Tid -> Answer]
    BY <1>0, Me, FreshIsTyped
  <2>4. \A p \in procs : \A u \in Tid \ {current[p]} : (p = me /\ u = t) \/ ax'[p][u] = ax[p][u]
    BY <1>0, <2>1, <2>2, <2>3, Me
  <2>5. \A p \in procs : \A u \in threads'[p] : u \in threads[p] /\ u \in Tid /\ ~(p = me /\ u = t)
    BY <1>0, <2>1, Me
  <2> SUFFICES ASSUME NEW p \in procs, NEW u \in threads'[p] \ {current[p]}
               PROVE  ax'[p][u] = Ans("START", PENDING)
    BY <2>1 DEF OneThreadRuns, Ans
  <2>. QED
    BY <2>1, <2>4, <2>5 DEF OneThreadRuns
<1>3. CASE DisposeSelf
  <2> DEFINE next == Least(threads[me] \ {current[me]})
  <2>1. /\ ax' = [ax EXCEPT ![me] = Fresh(@, {current[me]})]
        /\ threads' = [threads EXCEPT ![me] = @ \ {current[me]}]
        /\ current' = [current EXCEPT ![me] = next] /\ procs' = procs
    BY <1>3 DEF DisposeSelf, Drop, me
  <2> HIDE DEF next
  <2>2. \A u \in Tid \ {current[me]} : Fresh(ax[me], {current[me]})[u] = ax[me][u]
    BY DEF Fresh
  <2>3. \A p \in procs : \A u \in threads'[p] \ {current'[p]} :
          u \in threads[p] \ {current[p]} /\ ax'[p][u] = ax[p][u]
    BY <1>0, <2>1, <2>2, Me
  <2>. QED
    BY <2>1, <2>3, SMTT(30) DEF OneThreadRuns, Ans
<1>. QED
  BY <1>1, <1>2, <1>3

LEMMA ProcessesKeepOthers ==
  ASSUME IInv, OneThreadRuns, Dispose(current_proc) \/ CreateProcess
  PROVE  OneThreadRuns'
<1>0. ax \in [Pid -> [Tid -> Answer]] /\ threads \in [Pid -> SUBSET Tid] /\ current \in [Pid -> Tid]
  BY DEF IInv, TypeOK
<1>1. CASE Dispose(current_proc)
  <2>1. /\ ax' = [ax EXCEPT ![me] = Fresh(@, threads[me])]
        /\ threads' = [threads EXCEPT ![me] = @ \ threads[me]]
        /\ procs' = procs \ {me} /\ current' = current
    BY <1>1 DEF Dispose, Drop, me
  <2>2. \A p \in procs' : p \in procs /\ threads'[p] = threads[p] /\ ax'[p] = ax[p]
    BY <1>0, <2>1, Me
  <2>. QED
    BY <2>1, <2>2 DEF OneThreadRuns
<1>2. CASE CreateProcess
  <2> DEFINE new == FreePid
  <2>1. /\ new \in Pid /\ new \notin procs
        /\ procs' = procs \cup {new}
        /\ threads' = [threads EXCEPT ![new] = {0}]
        /\ current' = [current EXCEPT ![new] = 0]
        /\ ax' = [ax EXCEPT ![new][0] = Ans("START", PENDING)]
    BY <1>2, NewPid DEF CreateProcess
  <2> HIDE DEF new
  <2>2. \A p \in procs : /\ threads'[p] = threads[p] /\ current'[p] = current[p]
                         /\ ax'[p] = ax[p] /\ p # new
    BY <1>0, <2>1, Me
  <2>3. threads'[new] \ {current'[new]} = {}
    BY <1>0, <2>1
  <2>. QED
    BY <2>1, <2>2, <2>3 DEF OneThreadRuns
<1>. QED
  BY <1>1, <1>2

LEMMA NextOthers == IInv /\ OneThreadRuns /\ [Next]_vars => OneThreadRuns'
<1> SUFFICES ASSUME IInv, OneThreadRuns, [Next]_vars PROVE OneThreadRuns'
  OBVIOUS
<1> USE DEF table, sched
<1>1. CASE SendBadAddress \/ ReceiveBadAddress \/ ReceiveMessage \/ ReceiveSleep
           \/ Nice \/ CreateThreadNoStack
  BY <1>1, AnswerKeepsOthers
  DEF SendBadAddress, ReceiveBadAddress, ReceiveMessage, ReceiveSleep, Nice, CreateThreadNoStack
<1>2. ASSUME NEW q \in Pid, NEW src \in Source,
             SendNoProcess(q, src) \/ SendQueue(q, src) \/ SendFull(q, src)
      PROVE  OneThreadRuns'
  BY <1>2, AnswerKeepsOthers DEF SendNoProcess, SendQueue, SendFull
<1>3. ASSUME NEW q \in Pid, NEW src \in Source, SendDeliver(q, src) PROVE OneThreadRuns'
  BY <1>3, WakeKeepsOthers DEF SendDeliver, Found, me
<1>4. ASSUME NEW d \in IrqTargets, InterruptDeliver(d) PROVE OneThreadRuns'
  BY <1>4, WakeKeepsOthers DEF InterruptDeliver, IInv, Permanent
<1>5. CASE Timer \/ UNCHANGED vars \/ \E d \in IrqTargets : InterruptQueue(d)
  BY <1>5, SameKeepsOthers DEF Timer, vars, InterruptQueue
<1>6. CASE CreateThread \/ DisposeSelf \/ \E t \in Tid : DisposeOther(t)
  BY <1>6, ThreadsKeepOthers
<1>7. CASE Exit \/ Exception \/ CreateProcess
  BY <1>7, ProcessesKeepOthers DEF Exit, Exception
<1>. QED
  BY <1>1, <1>2, <1>3, <1>4, <1>5, <1>6, <1>7 DEF Next

(* A thread that is not its process's current one has never made a call.    *)
THEOREM OnlyCurrentRuns == Spec => []OneThreadRuns
<1>1. Init => OneThreadRuns
  BY Constants DEF Init, OneThreadRuns
<1>2. IInv /\ OneThreadRuns /\ [Next]_vars => OneThreadRuns'
  BY NextOthers
<1>. QED
  BY <1>1, <1>2, Invariance, PTL DEF Spec
-----------------------------------------------------------------------------
(* The disposals and the creation of a process.                             *)
LEMMA DisposeSelfMaps ==
  ASSUME IInv, OneThreadRuns, DisposeSelf PROVE Promise!Other(me)
<1> DEFINE next == Least(threads[me] \ {current[me]})
<1>1. /\ Drop(me, {current[me]}) /\ threads[me] \ {current[me]} # {}
      /\ ax' = [ax EXCEPT ![me] = Fresh(@, {current[me]})]
      /\ current' = [current EXCEPT ![me] = next]
      /\ UNCHANGED <<procs, queue>>
  BY DEF DisposeSelf, me
<1>2. receiving' = receiving
  BY <1>1, Me, DropWorks DEF me
<1>3. /\ ax \in [Pid -> [Tid -> Answer]] /\ current \in [Pid -> Tid]
      /\ threads[me] \in SUBSET Tid
  BY Me DEF IInv, TypeOK
<1>4. next \in threads[me] \ {current[me]} /\ next \in Tid
  <2>1. threads[me] \ {current[me]} \in SUBSET Tid
    BY <1>3
  <2>2. IsFiniteSet(threads[me] \ {current[me]}) /\ threads[me] \ {current[me]} \subseteq Int
    BY <2>1, FiniteParts, Constants
  <2>. QED
    BY <1>1, <1>3, <2>2, LeastIsLeast
<1> HIDE DEF next
<1>5. ax[me][next] = Ans("START", PENDING)
  BY <1>4, Me DEF OneThreadRuns
<1>6. ax'[me][next] = Ans("START", PENDING)
  BY <1>1, <1>3, <1>4, <1>5, Me DEF Fresh
<1>7. Reply' = [Reply EXCEPT ![me] = Ans("START", PENDING)]
  <2>1. \A p \in Pid : ax'[p][current'[p]] = IF p = me THEN Ans("START", PENDING)
                                              ELSE ax[p][current[p]]
    BY <1>1, <1>3, <1>6, Me
  <2>. QED
    BY <2>1 DEF Reply
<1>. QED
  BY <1>1, <1>2, <1>7, OtherMaps

LEMMA DisposeMaps ==
  ASSUME IInv, Dispose(current_proc) PROVE Promise!Vanish(me)
<1>1. /\ Drop(me, threads[me])
      /\ ax' = [ax EXCEPT ![me] = Fresh(@, threads[me])]
      /\ procs' = procs \ {me} /\ queue' = [queue EXCEPT ![me] = <<>>]
      /\ current' = current
  BY DEF Dispose, me
<1>2. receiving' = receiving
  BY <1>1, Me, DropWorks DEF me
<1>3. Waiting' = Waiting
  BY <1>2 DEF Waiting
<1>4. Reply' = [Reply EXCEPT ![me] = Ans("START", PENDING)]
  <2>1. ax \in [Pid -> [Tid -> Answer]] /\ current \in [Pid -> Tid]
    BY DEF IInv, TypeOK
  <2>2. ax'[me][current[me]] = Ans("START", PENDING)
    BY <1>1, <2>1, Me DEF Fresh
  <2>3. \A p \in Pid : ax'[p][current[p]] = IF p = me THEN Ans("START", PENDING)
                                             ELSE ax[p][current[p]]
    BY <1>1, <2>1, <2>2, Me
  <2>. QED
    BY <1>1, <2>3 DEF Reply
<1>. QED
  BY <1>1, <1>3, <1>4, Me DEF Promise!Vanish, Promise!Said, Ans, Reply, Waiting

LEMMA CreateProcessMaps ==
  ASSUME IInv, CreateProcess PROVE Promise!Appear(FreePid)
<1> DEFINE new == FreePid
<1>1. /\ new \in Pid /\ new \notin procs
      /\ procs' = procs \cup {new}
      /\ current' = [current EXCEPT ![new] = 0]
      /\ ax' = [ax EXCEPT ![new][0] = Ans("START", PENDING)]
      /\ receiving' = [receiving EXCEPT ![new] = 0]
      /\ queue' = [queue EXCEPT ![new] = <<>>]
  BY NewPid DEF CreateProcess
<1> HIDE DEF new
<1>2. /\ ax \in [Pid -> [Tid -> Answer]] /\ current \in [Pid -> Tid]
      /\ receiving \in [Pid -> Int]
  BY DEF IInv, TypeOK
<1>3. Waiting' = Waiting \ {new}
  BY <1>1, <1>2 DEF Waiting
<1>4. Reply' = [Reply EXCEPT ![new] = Ans("START", PENDING)]
  <2>1. \A p \in Pid : ax'[p][current'[p]] = IF p = new THEN Ans("START", PENDING)
                                              ELSE ax[p][current[p]]
    BY <1>1, <1>2, Constants
  <2>. QED
    BY <2>1 DEF Reply
<1>. QED
  BY <1>1, <1>3, <1>4 DEF new, Promise!Appear, Promise!Said, Ans, Reply, Waiting
-----------------------------------------------------------------------------
(* Every kernel entry is a step of Mailbox or changes nothing it sees.      *)
LEMMA StepMaps ==
  ASSUME IInv, OneThreadRuns, [Next]_vars
  PROVE  Promise!MNext \/ UNCHANGED <<procs, queue, Waiting, Reply>>
<1>1. CASE SendBadAddress
  BY <1>1, RefusedStep, Me DEF SendBadAddress, Promise!MNext
<1>2. CASE ReceiveBadAddress
  BY <1>2, RefusedStep, Me DEF ReceiveBadAddress, Promise!MNext
<1>3. CASE ReceiveMessage
  BY <1>3, ReceiveMessageMaps, Me DEF Promise!MNext, Promise!Take
<1>4. CASE ReceiveSleep
  BY <1>4, ReceiveSleepMaps, Me DEF Promise!MNext, Promise!Wait
<1>5. ASSUME NEW q \in Pid, NEW src \in Source,
             \/ SendNoProcess(q, src) \/ SendDeliver(q, src)
             \/ SendQueue(q, src) \/ SendFull(q, src)
      PROVE  Promise!MNext
  <2>1. Promise!Unreachable(me, q) \/ Promise!Full(me, q) \/ Promise!Send(me, q, src)
    BY <1>5, SendNoProcessStep, SendDeliverMaps, SendQueueMaps, SendFullStep
  <2>. QED
    BY <2>1, Me DEF Promise!MNext
<1>6. ASSUME NEW d \in IrqTargets, InterruptDeliver(d) \/ InterruptQueue(d)
      PROVE  Promise!MNext
  BY <1>6, InterruptMaps, Constants DEF Promise!MNext
<1>7. CASE Timer \/ UNCHANGED vars
  BY <1>7 DEF Timer, vars, table, ipc, Waiting, Reply
<1>8. CASE Nice
  <2>1. Reply' = [Reply EXCEPT ![me] = Ans("NICE", PENDING)]
    BY <1>8, AnswerIsReply DEF Nice, table
  <2>2. UNCHANGED <<procs, queue, receiving>>
    BY <1>8 DEF Nice, table, ipc
  <2>. QED
    BY <2>1, <2>2, OtherMaps, Me DEF Promise!MNext, Promise!Other
<1>9. CASE CreateThreadNoStack
  <2>1. Reply' = [Reply EXCEPT ![me] = Ans("CREATE_THREAD", NULL)]
    BY <1>9, AnswerIsReply DEF CreateThreadNoStack, table
  <2>2. UNCHANGED <<procs, queue, receiving>>
    BY <1>9 DEF CreateThreadNoStack, table, ipc
  <2>. QED
    BY <2>1, <2>2, OtherMaps, Me DEF Promise!MNext, Promise!Other
<1>10. CASE CreateThread
  BY <1>10, CreateThreadMaps, Me DEF Promise!MNext, Promise!Other
<1>11. CASE DisposeSelf
  BY <1>11, DisposeSelfMaps, Me DEF Promise!MNext, Promise!Other
<1>12. ASSUME NEW t \in Tid, DisposeOther(t) PROVE Promise!MNext
  BY <1>12, DisposeOtherMaps, Me DEF Promise!MNext, Promise!Other
<1>13. CASE Exit \/ Exception
  BY <1>13, DisposeMaps, Me DEF Exit, Exception, Promise!MNext, Promise!Vanish
<1>14. CASE CreateProcess
  BY <1>14, CreateProcessMaps, NewPid DEF Promise!MNext, Promise!Appear
<1>. QED
  BY <1>1, <1>2, <1>3, <1>4, <1>5, <1>6, <1>7, <1>8, <1>9, <1>10, <1>11, <1>12, <1>13,
     <1>14 DEF Next

(* The kernel's message calls implement the mailboxes: no message is lost,  *)
(* duplicated or reordered on its way to the thread that receives it, and   *)
(* every call gets the answer its comment promises.                         *)
THEOREM ProcImplementsMailbox == Spec => KeepsPromise
<1>1. Init => Promise!MInit
  <2>1. Init => procs = Boot /\ queue = [p \in Pid |-> <<>>]
    BY DEF Init
  <2>2. Init => Waiting = {}
    BY DEF Init, Waiting
  <2>3. Init => Reply = [p \in Pid |-> Ans("START", PENDING)]
    BY Constants DEF Init, Reply
  <2>. QED
    BY <2>1, <2>2, <2>3 DEF Promise!MInit, Promise!Said, Ans, Reply, Waiting
<1>2. IInv /\ OneThreadRuns /\ [Next]_vars
        => [Promise!MNext]_<<procs, queue, Waiting, Reply>>
  BY StepMaps
<1>3. <<procs, queue, Waiting, Reply>> = Promise!mvars
  BY DEF Promise!mvars, Waiting, Reply
<1>4. IInv /\ OneThreadRuns /\ [Next]_vars => [Promise!MNext]_(Promise!mvars)
  BY <1>2 DEF Promise!mvars, Waiting, Reply
<1>. QED
  BY <1>1, <1>4, Invariance, OnlyCurrentRuns, PTL DEF Spec, KeepsPromise, Promise!MSpec
=============================================================================
