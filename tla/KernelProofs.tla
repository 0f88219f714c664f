---------------------------- MODULE KernelProofs ----------------------------
(***************************************************************************)
(* Theorems about the kernel under clients that call anything, and under   *)
(* orderly ones, for every number of tasks, semaphores and mutexes and     *)
(* every base priority that an int8_t can hold.                            *)
(***************************************************************************)
EXTENDS Kernel, WaitQueueProofs

\* A task is queued iff it waits on a semaphore or on a mutex.
LEMMA QueuedIff ==
  \A t : t \in Queued <=> \/ \E s \in Semaphores : t \in SemWaiters(s)
                          \/ \E m \in Mutexes : t \in MutexWaiters(m)
<1> SUFFICES ASSUME NEW t
             PROVE  t \in Queued <=> \/ \E s \in Semaphores : t \in SemWaiters(s)
                                    \/ \E m \in Mutexes : t \in MutexWaiters(m)
  OBVIOUS
<1>1. t \in UNION {SemWaiters(s) : s \in Semaphores} <=> \E s \in Semaphores : t \in SemWaiters(s)
  OBVIOUS
<1>2. t \in UNION {MutexWaiters(m) : m \in Mutexes} <=> \E m \in Mutexes : t \in MutexWaiters(m)
  OBVIOUS
<1> QED BY <1>1, <1>2 DEF Queued

LEMMA QueuedIffNext ==
  \A t : t \in Queued' <=> \/ \E s \in Semaphores : t \in SemWaiters(s)'
                           \/ \E m \in Mutexes : t \in MutexWaiters(m)'
<1> SUFFICES ASSUME NEW t
             PROVE  t \in Queued' <=> \/ \E s \in Semaphores : t \in SemWaiters(s)'
                                     \/ \E m \in Mutexes : t \in MutexWaiters(m)'
  OBVIOUS
<1>1. t \in UNION {SemWaiters(s)' : s \in Semaphores} <=> \E s \in Semaphores : t \in SemWaiters(s)'
  OBVIOUS
<1>2. t \in UNION {MutexWaiters(m)' : m \in Mutexes} <=> \E m \in Mutexes : t \in MutexWaiters(m)'
  OBVIOUS
<1> QED BY <1>1, <1>2 DEF Queued

LEMMA QueuedAreTasks ==
  ASSUME IInv
  PROVE  Queued \subseteq Tasks
BY QueuedIff DEF IInv, WellQueued, WellFormed, SemWaiters, MutexWaiters, Waiters

\* What a step that leaves the semaphores and mutexes alone preserves.
LEMMA QueuesUnchanged ==
  ASSUME IInv, UNCHANGED <<smp, mx>>
  PROVE  /\ (smp \in [Semaphores -> SemaphoreType])' /\ (mx \in [Mutexes -> MutexType])'
         /\ Queued' = Queued
         /\ WellQueued' /\ WaitsOnce' /\ NoWaiterOnFree'
<1>1. (smp \in [Semaphores -> SemaphoreType])' /\ (mx \in [Mutexes -> MutexType])'
  BY DEF IInv, TypeOK
<1>2. Queued' = Queued
  BY DEF Queued, SemWaiters, MutexWaiters
<1>3. WellQueued'
  BY DEF IInv, WellQueued
<1>4. WaitsOnce'
  BY DEF IInv, WaitsOnce, SemWaiters, MutexWaiters
<1>5. NoWaiterOnFree'
  BY DEF IInv, NoWaiterOnFree
<1> QED BY <1>1, <1>2, <1>3, <1>4, <1>5

\* What a step that leaves the core alone and adds no waiter preserves.
LEMMA CoreUnchanged ==
  ASSUME IInv, UNCHANGED coreVars, Queued' \subseteq Queued
  PROVE  CoreTypeOK' /\ OneRunning' /\ BlockedLeavesCPU' /\ SleepersBlocked' /\ WaitersBlocked'
<1> USE DEF coreVars
<1>1. CoreTypeOK'
  BY DEF IInv, TypeOK, CoreTypeOK
<1>2. ThreadMode' = ThreadMode
  BY DEF ThreadMode
<1> QED BY <1>1, <1>2 DEF IInv, OneRunning, BlockedLeavesCPU, SleepersBlocked, WaitersBlocked

\* The initial states satisfy the invariant.
LEMMA InitInv == Init => IInv
<1> SUFFICES ASSUME Init PROVE IInv
  OBVIOUS
<1> USE TasksAssumption
<1>1. TypeOK
  <2>1. CoreTypeOK
    <3>1. CurrentTask \in Tasks /\ priority \in [Tasks -> 0 .. Int8Max]
      BY PriorityAssumption DEF Init, CoreInit, Tasks
    <3> QED BY <3>1 DEF Init, CoreInit, CoreTypeOK, States
  <2>2. smp \in [Semaphores -> SemaphoreType]
    BY DEF Init, OS_SemaphoreInit, SemaphoreType, NoWaiters, Tasks
  <2>3. mx \in [Mutexes -> MutexType]
    BY DEF Init, Mutex_Init, MutexType, NoWaiters, Tasks, Int8Max
  <2> QED BY <2>1, <2>2, <2>3 DEF TypeOK
<1>2. \A s \in Semaphores : SemWaiters(s) = {}
  BY DEF Init, OS_SemaphoreInit, SemWaiters, Waiters
<1>3. \A m \in Mutexes : MutexWaiters(m) = {}
  BY DEF Init, Mutex_Init, MutexWaiters, Waiters
<1>4. OneRunning /\ BlockedLeavesCPU /\ SleepersBlocked
  BY DEF Init, CoreInit, OneRunning, BlockedLeavesCPU, SleepersBlocked, Tasks, Idle
<1>5. WaitersBlocked
  BY <1>2, <1>3, QueuedIff DEF WaitersBlocked
<1>6. WellQueued
  BY DEF Init, OS_SemaphoreInit, Mutex_Init, WellQueued, WellFormed, Distinct, NoWaiters, Tasks
<1>7. WaitsOnce
  BY <1>2, <1>3 DEF Init, OS_SemaphoreInit, Mutex_Init, WaitsOnce, Distinct
<1>8. NoWaiterOnFree
  BY DEF Init, OS_SemaphoreInit, Mutex_Init, NoWaiterOnFree
<1> QED BY <1>1, <1>4, <1>5, <1>6, <1>7, <1>8 DEF IInv

\* A tick only wakes sleepers, and a sleeper is in no queue.
LEMMA TickInv ==
  ASSUME IInv, SysTick_Handler, UNCHANGED <<smp, mx>>
  PROVE  IInv' /\ Queued' = Queued
<1> USE TasksAssumption
<1>1. PICK S \in SUBSET Tasks : Countdown(S)
  BY DEF SysTick_Handler, Overran, Tasks
<1>2. CoreTypeOK'
  <2>1. state' \in [Tasks -> States] /\ ticks' \in [Tasks -> Nat]
    BY <1>1 DEF IInv, TypeOK, CoreTypeOK, Countdown, States
  <2>2. pendsv' \in BOOLEAN /\ fault' \in BOOLEAN
    BY DEF IInv, TypeOK, CoreTypeOK, SysTick_Handler, OS_Fault
  <2> QED BY <2>1, <2>2 DEF IInv, TypeOK, CoreTypeOK, SysTick_Handler
<1>3. ~ThreadMode' /\ CurrentTask' = CurrentTask
  BY DEF SysTick_Handler, ThreadMode, OS_Fault
<1>4. \A t \in Tasks : state[t] # "BLOCKED" => state'[t] = state[t]
  BY <1>1 DEF Countdown
<1>5. OneRunning'
  BY <1>1, <1>3 DEF IInv, OneRunning, Countdown
<1>6. BlockedLeavesCPU'
  BY <1>3, <1>4 DEF IInv, BlockedLeavesCPU, Tasks, Idle
<1>7. SleepersBlocked'
  BY <1>1 DEF IInv, TypeOK, CoreTypeOK, SleepersBlocked, Countdown
<1>8. WaitersBlocked'
  <2> SUFFICES ASSUME NEW t \in Queued PROVE state'[t] = "BLOCKED" /\ ticks'[t] = 0
    BY QueuesUnchanged DEF WaitersBlocked
  <2>1. t \in Tasks
    BY QueuedAreTasks
  <2> QED BY <2>1, <1>1 DEF IInv, WaitersBlocked, Countdown
<1> QED BY <1>2, <1>5, <1>6, <1>7, <1>8, QueuesUnchanged DEF IInv, TypeOK

\* The scheduler neither blocks nor wakes a task, and the one it picks is
\* not BLOCKED: the idle task is always eligible.
LEMMA ScheduleInv ==
  ASSUME IInv, PendSV_Handler, UNCHANGED <<smp, mx>>
  PROVE  /\ IInv' /\ Queued' = Queued
         /\ \A t \in Tasks : state[t] = "BLOCKED" <=> state'[t] = "BLOCKED"
<1> USE TasksAssumption
<1>1. PICK next \in Tasks :
        /\ Selected(next)
        /\ CurrentTask' = next
        /\ state' = [t \in Tasks |-> IF t = next THEN "RUNNING"
                                     ELSE IF t \in Eligible THEN "READY" ELSE state[t]]
  BY DEF PendSV_Handler, OS_Schedule
<1>2. Idle \in Eligible
  <2>1. Idle \in Tasks /\ state[Idle] \in States \ {"BLOCKED"}
    BY DEF IInv, TypeOK, CoreTypeOK, BlockedLeavesCPU, Idle, Tasks
  <2> QED BY <2>1 DEF IInv, OneRunning, Eligible, States
<1>3. next \in Eligible
  BY <1>1, <1>2 DEF Selected
<1>4. \A t \in Tasks : state[t] = "BLOCKED" <=> state'[t] = "BLOCKED"
  BY <1>1, <1>3 DEF Eligible
<1>5. CoreTypeOK'
  <2>1. state' \in [Tasks -> States]
    BY <1>1 DEF IInv, TypeOK, CoreTypeOK, States
  <2> QED BY <1>1, <2>1 DEF IInv, TypeOK, CoreTypeOK, PendSV_Handler
<1>6. OneRunning'
  <2> SUFFICES ASSUME NEW t \in Tasks, t # next, state'[t] = "RUNNING"
               PROVE  FALSE
    BY <1>1 DEF OneRunning
  <2>1. t \notin Eligible /\ state[t] = "RUNNING"
    BY <1>1
  <2> QED BY <2>1 DEF IInv, OneRunning, Eligible
<1>7. BlockedLeavesCPU'
  <2>1. state'[CurrentTask'] = "RUNNING"
    BY <1>1
  <2> QED BY <2>1, <1>4 DEF IInv, BlockedLeavesCPU, Idle, Tasks
<1>8. SleepersBlocked'
  BY <1>4 DEF IInv, SleepersBlocked, PendSV_Handler
<1>9. WaitersBlocked'
  <2> SUFFICES ASSUME NEW t \in Queued PROVE state'[t] = "BLOCKED" /\ ticks'[t] = 0
    BY QueuesUnchanged DEF WaitersBlocked
  <2>1. t \in Tasks
    BY QueuedAreTasks
  <2> QED BY <2>1, <1>4 DEF IInv, WaitersBlocked, PendSV_Handler
<1> QED BY <1>4, <1>5, <1>6, <1>7, <1>8, <1>9, QueuesUnchanged DEF IInv, TypeOK

\* In thread mode the current task is in no queue and has no ticks left.
LEMMA CurrentIsFree ==
  ASSUME IInv, ThreadMode
  PROVE  /\ CurrentTask \in Tasks
         /\ state[CurrentTask] # "BLOCKED" /\ ticks[CurrentTask] = 0
         /\ CurrentTask \notin Queued /\ Idle \notin Queued
<1>1. CurrentTask \in Tasks /\ ticks[CurrentTask] \in Nat
  BY DEF IInv, TypeOK, CoreTypeOK
<1>2. state[CurrentTask] # "BLOCKED" /\ state[Idle] # "BLOCKED"
  BY DEF IInv, BlockedLeavesCPU
<1> QED BY <1>1, <1>2 DEF IInv, SleepersBlocked, WaitersBlocked

\* Going to sleep: the task that blocks is in no queue.
LEMMA SleepInv ==
  ASSUME IInv, NEW n \in SleepTicks, CurrentTask # Idle, OS_Sleep(n), UNCHANGED <<smp, mx>>
  PROVE  IInv' /\ Queued' = Queued
<1> USE TasksAssumption, CurrentIsFree DEF OS_Sleep
<1>1. n \in Nat
  BY ClientAssumption
<1>2. CoreTypeOK'
  <2>1. state' \in [Tasks -> States] /\ ticks' \in [Tasks -> Nat]
    BY <1>1 DEF IInv, TypeOK, CoreTypeOK, States
  <2> QED BY <2>1 DEF IInv, TypeOK, CoreTypeOK
<1>3. OneRunning'
  BY DEF IInv, TypeOK, CoreTypeOK, OneRunning
<1>4. BlockedLeavesCPU'
  BY DEF IInv, TypeOK, CoreTypeOK, BlockedLeavesCPU, ThreadMode, Idle, Tasks
<1>5. SleepersBlocked'
  BY DEF IInv, TypeOK, CoreTypeOK, SleepersBlocked
<1>6. WaitersBlocked'
  <2> SUFFICES ASSUME NEW t \in Queued PROVE state'[t] = "BLOCKED" /\ ticks'[t] = 0
    BY QueuesUnchanged DEF WaitersBlocked
  <2>1. t \in Tasks /\ t # CurrentTask
    BY QueuedAreTasks
  <2> QED BY <2>1 DEF IInv, TypeOK, CoreTypeOK, WaitersBlocked
<1> QED BY <1>2, <1>3, <1>4, <1>5, <1>6, QueuesUnchanged DEF IInv, TypeOK

\* The steps of the core that touch neither states nor ticks.
LEMMA QuietInv ==
  ASSUME IInv, PendSV_Entry \/ StackOverrun, UNCHANGED <<smp, mx>>
  PROVE  IInv' /\ Queued' = Queued
<1> USE QueuesUnchanged
<1>1. UNCHANGED <<CurrentTask, state, priority, ticks, fault>>
  BY DEF PendSV_Entry, StackOverrun
<1>2. CoreTypeOK'
  <2>1. canary' \in [Tasks -> BOOLEAN] /\ pendsv' \in BOOLEAN /\ inPendSV' \in BOOLEAN
    BY DEF IInv, TypeOK, CoreTypeOK, PendSV_Entry, StackOverrun
  <2> QED BY <1>1, <2>1 DEF IInv, TypeOK, CoreTypeOK
<1>3. ThreadMode' => ThreadMode
  BY DEF PendSV_Entry, StackOverrun, ThreadMode
<1>4. OneRunning' /\ BlockedLeavesCPU' /\ SleepersBlocked' /\ WaitersBlocked'
  BY <1>1, <1>3 DEF IInv, OneRunning, BlockedLeavesCPU, SleepersBlocked, WaitersBlocked
<1> QED BY <1>2, <1>4 DEF IInv, TypeOK

\* What blocking the current task on a queue does to the core.
LEMMA BlockCurrent ==
  ASSUME IInv, ThreadMode, CurrentTask # Idle,
         state' = [state EXCEPT ![CurrentTask] = "BLOCKED"], pendsv' = TRUE,
         priority' \in [Tasks -> 0 .. Int8Max],
         UNCHANGED <<CurrentTask, ticks, canary, inPendSV, fault>>,
         Queued' \subseteq Queued \cup {CurrentTask}
  PROVE  CoreTypeOK' /\ OneRunning' /\ BlockedLeavesCPU' /\ SleepersBlocked' /\ WaitersBlocked'
<1> USE CurrentIsFree
<1>1. state \in [Tasks -> States] /\ Idle \in Tasks
  BY TasksAssumption DEF IInv, TypeOK, CoreTypeOK, Idle, Tasks
<1>2. CoreTypeOK'
  <2>1. state' \in [Tasks -> States]
    BY <1>1 DEF States
  <2> QED BY <2>1 DEF IInv, TypeOK, CoreTypeOK
<1>3. OneRunning'
  BY <1>1 DEF IInv, OneRunning
<1>4. BlockedLeavesCPU'
  BY <1>1 DEF IInv, BlockedLeavesCPU, ThreadMode
<1>5. SleepersBlocked'
  BY <1>1 DEF IInv, SleepersBlocked
<1>6. WaitersBlocked'
  BY <1>1, QueuedAreTasks DEF IInv, WaitersBlocked
<1> QED BY <1>2, <1>3, <1>4, <1>5, <1>6

\* What waking a task that leaves its queue does to the core.
LEMMA WakeQueued ==
  ASSUME IInv, ThreadMode, NEW w \in Queued,
         state' = [state EXCEPT ![w] = "READY"], pendsv' = TRUE,
         priority' \in [Tasks -> 0 .. Int8Max],
         UNCHANGED <<CurrentTask, ticks, canary, inPendSV, fault>>,
         Queued' \subseteq Queued \ {w}
  PROVE  CoreTypeOK' /\ OneRunning' /\ BlockedLeavesCPU' /\ SleepersBlocked' /\ WaitersBlocked'
<1>1. state \in [Tasks -> States] /\ Idle \in Tasks /\ w \in Tasks
  BY TasksAssumption, QueuedAreTasks DEF IInv, TypeOK, CoreTypeOK, Idle, Tasks
<1>2. CoreTypeOK'
  <2>1. state' \in [Tasks -> States]
    BY <1>1 DEF States
  <2> QED BY <2>1 DEF IInv, TypeOK, CoreTypeOK
<1>3. OneRunning'
  BY <1>1 DEF IInv, OneRunning
<1>4. BlockedLeavesCPU'
  BY <1>1 DEF IInv, BlockedLeavesCPU, ThreadMode
<1>5. SleepersBlocked'
  <2>1. ticks[w] = 0
    BY DEF IInv, WaitersBlocked
  <2> QED BY <2>1, <1>1 DEF IInv, SleepersBlocked
<1>6. WaitersBlocked'
  BY <1>1, QueuedAreTasks DEF IInv, WaitersBlocked
<1> QED BY <1>2, <1>3, <1>4, <1>5, <1>6

-----------------------------------------------------------------------------
(* Semaphores.  Each step changes the struct of one semaphore.             *)

\* The parts of the invariant about semaphores, from the queue of the one
\* that changed: it lost waiters, or it gained a task that waited nowhere.
LEMMA SemaphoreStep ==
  ASSUME IInv, UNCHANGED mx, NEW s \in Semaphores,
         NEW new \in SemaphoreType, smp' = [smp EXCEPT ![s] = new],
         WellFormed(new.waiting_tasks, new.TaskTracker),
         new.counter # 0 => new.TaskTracker = 0,
         (Waiters(new.waiting_tasks, new.TaskTracker) \ SemWaiters(s)) \cap Queued = {}
  PROVE  /\ (smp \in [Semaphores -> SemaphoreType])' /\ (mx \in [Mutexes -> MutexType])'
         /\ Queued' = (Queued \ SemWaiters(s)) \cup Waiters(new.waiting_tasks, new.TaskTracker)
         /\ WellQueued' /\ WaitsOnce' /\ NoWaiterOnFree'
<1>1. /\ smp'[s] = new
      /\ \A r \in Semaphores \ {s} : smp'[r] = smp[r]
      /\ smp' \in [Semaphores -> SemaphoreType] /\ mx' \in [Mutexes -> MutexType]
  BY DEF IInv, TypeOK
<1>2. /\ SemWaiters(s)' = Waiters(new.waiting_tasks, new.TaskTracker)
      /\ \A r \in Semaphores \ {s} : SemWaiters(r)' = SemWaiters(r)
      /\ \A m \in Mutexes : MutexWaiters(m)' = MutexWaiters(m)
  BY <1>1 DEF SemWaiters, MutexWaiters
<1>3. Queued' = (Queued \ SemWaiters(s)) \cup SemWaiters(s)'
  <2>1. /\ \A r \in Semaphores \ {s} : SemWaiters(r) \cap SemWaiters(s) = {}
        /\ \A m \in Mutexes : MutexWaiters(m) \cap SemWaiters(s) = {}
    BY DEF IInv, WaitsOnce
  <2>2. ASSUME NEW t
        PROVE  t \in Queued' <=> t \in (Queued \ SemWaiters(s)) \cup SemWaiters(s)'
    BY <2>1, <1>2, QueuedIff, QueuedIffNext
  <2> QED BY <2>2
<1>4. WellQueued'
  BY <1>1 DEF IInv, WellQueued
<1>5. WaitsOnce'
  <2>1. /\ \A r \in Semaphores : Distinct(smp'[r].waiting_tasks, smp'[r].TaskTracker)
        /\ \A m \in Mutexes : Distinct(mx'[m].waiting_tasks, mx'[m].TaskTracker)
    BY <1>4 DEF WellQueued, WellFormed
  <2>2. /\ \A r \in Semaphores \ {s} : SemWaiters(r) \cap SemWaiters(s)' = {}
        /\ \A m \in Mutexes : MutexWaiters(m) \cap SemWaiters(s)' = {}
    BY <1>2, QueuedIff DEF IInv, WaitsOnce
  <2>3. \A r, q \in Semaphores : r # q => SemWaiters(r)' \cap SemWaiters(q)' = {}
    BY <1>2, <2>2 DEF IInv, WaitsOnce
  <2>4. \A m, q \in Mutexes : m # q => MutexWaiters(m)' \cap MutexWaiters(q)' = {}
    BY <1>2 DEF IInv, WaitsOnce
  <2>5. \A r \in Semaphores, m \in Mutexes : SemWaiters(r)' \cap MutexWaiters(m)' = {}
    BY <1>2, <2>2 DEF IInv, WaitsOnce
  <2> QED BY <2>1, <2>3, <2>4, <2>5 DEF WaitsOnce
<1>6. NoWaiterOnFree'
  BY <1>1 DEF IInv, NoWaiterOnFree
<1> QED BY <1>1, <1>2, <1>3, <1>4, <1>5, <1>6

\* OS_Wait on a signalled semaphore.
LEMMA WaitTakeInv ==
  ASSUME IInv, NEW s \in Semaphores, WaitTake(s), UNCHANGED mx
  PROVE  IInv' /\ Queued' = Queued
<1> DEFINE new == [smp[s] EXCEPT !.counter = @ - 1]
<1>1. smp[s] \in SemaphoreType /\ WellFormed(smp[s].waiting_tasks, smp[s].TaskTracker)
  BY DEF IInv, TypeOK, WellQueued
<1>2. smp[s].counter = 1 /\ smp' = [smp EXCEPT ![s] = new]
  BY <1>1 DEF WaitTake, SemaphoreType
<1>3. /\ new \in SemaphoreType
      /\ new.waiting_tasks = smp[s].waiting_tasks /\ new.TaskTracker = smp[s].TaskTracker
      /\ new.counter = 0
  BY <1>1, <1>2 DEF SemaphoreType
<1> HIDE DEF new
<1>4. /\ smp' \in [Semaphores -> SemaphoreType] /\ mx' \in [Mutexes -> MutexType]
      /\ Queued' = Queued
      /\ WellQueued' /\ WaitsOnce' /\ NoWaiterOnFree'
  <2>1. Waiters(new.waiting_tasks, new.TaskTracker) = SemWaiters(s)
    BY <1>3 DEF SemWaiters
  <2>2. new.counter # 0 => new.TaskTracker = 0
    BY <1>3
  <2>3. WellFormed(new.waiting_tasks, new.TaskTracker)
    BY <1>1, <1>3
  <2>4. (Queued \ SemWaiters(s)) \cup SemWaiters(s) = Queued
    BY QueuedIff
  <2> QED BY <1>2, <1>3, <2>1, <2>2, <2>3, <2>4, SemaphoreStep
<1>5. UNCHANGED coreVars
  BY DEF WaitTake
<1> QED BY <1>4, <1>5, CoreUnchanged DEF IInv, TypeOK

\* OS_Wait on a semaphore without a signal: the current task is in no queue,
\* so the queue has room for it.
LEMMA WaitBlockInv ==
  ASSUME IInv, NEW s \in Semaphores, CurrentTask # Idle, WaitBlock(s), UNCHANGED mx
  PROVE  IInv' /\ Queued' = Queued \cup {CurrentTask}
<1> DEFINE w == smp[s].waiting_tasks
           n == smp[s].TaskTracker
           new == [counter |-> 0, waiting_tasks |-> Enlist(w, n, CurrentTask), TaskTracker |-> n + 1]
<1>1. ThreadMode /\ smp' = [smp EXCEPT ![s] = new]
  BY DEF WaitBlock
<1>2. WellFormed(w, n) /\ CurrentTask \in Tasks
  BY DEF IInv, TypeOK, CoreTypeOK, WellQueued
<1>3. CurrentTask \notin Waiters(w, n) /\ Idle \notin Waiters(w, n)
  BY <1>1, CurrentIsFree, QueuedIff DEF SemWaiters
<1>4. n + 1 \in Tasks
  BY <1>2, <1>3, QueueHasRoom
<1>5. /\ WellFormed(new.waiting_tasks, new.TaskTracker)
      /\ Waiters(new.waiting_tasks, new.TaskTracker) = SemWaiters(s) \cup {CurrentTask}
  BY <1>2, <1>3, <1>4, EnlistAdds DEF SemWaiters
<1>6. new \in SemaphoreType /\ (new.counter # 0 => new.TaskTracker = 0)
  BY <1>5, <1>4 DEF SemaphoreType, WellFormed
<1> HIDE DEF new, w, n
<1>7. (Waiters(new.waiting_tasks, new.TaskTracker) \ SemWaiters(s)) \cap Queued = {}
  BY <1>1, <1>5, CurrentIsFree
<1>8. /\ smp' \in [Semaphores -> SemaphoreType] /\ mx' \in [Mutexes -> MutexType]
      /\ Queued' = Queued \cup {CurrentTask}
      /\ WellQueued' /\ WaitsOnce' /\ NoWaiterOnFree'
  BY <1>1, <1>5, <1>6, <1>7, SemaphoreStep, QueuedIff
<1>9. priority' \in [Tasks -> 0 .. Int8Max]
  BY DEF WaitBlock, IInv, TypeOK, CoreTypeOK
<1>10. CoreTypeOK' /\ OneRunning' /\ BlockedLeavesCPU' /\ SleepersBlocked' /\ WaitersBlocked'
  BY <1>1, <1>8, <1>9, BlockCurrent DEF WaitBlock
<1> QED BY <1>8, <1>10 DEF IInv, TypeOK

\* OS_Signal with nobody waiting.
LEMMA SignalStoreInv ==
  ASSUME IInv, NEW s \in Semaphores, SignalStore(s), UNCHANGED mx
  PROVE  IInv' /\ Queued' = Queued
<1> DEFINE new == [smp[s] EXCEPT !.counter = 1]
<1>1. smp[s] \in SemaphoreType /\ WellFormed(smp[s].waiting_tasks, smp[s].TaskTracker)
  BY DEF IInv, TypeOK, WellQueued
<1>2. smp[s].TaskTracker = 0 /\ smp' = [smp EXCEPT ![s] = new]
  BY DEF SignalStore
<1>3. /\ new \in SemaphoreType
      /\ new.waiting_tasks = smp[s].waiting_tasks /\ new.TaskTracker = smp[s].TaskTracker
  BY <1>1 DEF SemaphoreType
<1> HIDE DEF new
<1>4. /\ smp' \in [Semaphores -> SemaphoreType] /\ mx' \in [Mutexes -> MutexType]
      /\ Queued' = Queued
      /\ WellQueued' /\ WaitsOnce' /\ NoWaiterOnFree'
  <2>1. Waiters(new.waiting_tasks, new.TaskTracker) = SemWaiters(s)
    BY <1>3 DEF SemWaiters
  <2>2. new.counter # 0 => new.TaskTracker = 0
    BY <1>2, <1>3
  <2>3. WellFormed(new.waiting_tasks, new.TaskTracker)
    BY <1>1, <1>3
  <2>4. (Queued \ SemWaiters(s)) \cup SemWaiters(s) = Queued
    BY QueuedIff
  <2> QED BY <1>2, <1>3, <2>1, <2>2, <2>3, <2>4, SemaphoreStep
<1>5. UNCHANGED coreVars
  BY DEF SignalStore
<1> QED BY <1>4, <1>5, CoreUnchanged DEF IInv, TypeOK

\* OS_Signal with waiters: the task it wakes leaves its only queue.
LEMMA SignalWakeInv ==
  ASSUME IInv, NEW s \in Semaphores, SignalWake(s), UNCHANGED mx
  PROVE  /\ IInv'
         /\ \E out \in Queued : /\ state' = [state EXCEPT ![out] = "READY"]
                              /\ Queued' = Queued \ {out}
<1> DEFINE w == smp[s].waiting_tasks
           n == smp[s].TaskTracker
<1>1. PICK k \in Tasks :
        /\ Winner(w, n, priority, k)
        /\ state' = [state EXCEPT ![w[k]] = "READY"]
        /\ smp' = [smp EXCEPT ![s] = [counter |-> 0, waiting_tasks |-> FillHole(w, n, k),
                                     TaskTracker |-> n - 1]]
  BY DEF SignalWake
<1> DEFINE new == [counter |-> 0, waiting_tasks |-> FillHole(w, n, k), TaskTracker |-> n - 1]
<1>2. WellFormed(w, n) /\ k \in 0 .. n - 1
  BY <1>1 DEF IInv, WellQueued, Winner
<1>3. /\ WellFormed(new.waiting_tasks, new.TaskTracker)
      /\ Waiters(new.waiting_tasks, new.TaskTracker) = SemWaiters(s) \ {w[k]}
  BY <1>2, FillHoleRemoves DEF SemWaiters
<1>4. w[k] \in SemWaiters(s) /\ w[k] \in Queued
  BY <1>2, QueuedIff DEF SemWaiters, Waiters
<1>5. new \in SemaphoreType /\ (new.counter # 0 => new.TaskTracker = 0) /\ smp' = [smp EXCEPT ![s] = new]
  BY <1>3, <1>1 DEF SemaphoreType, WellFormed
<1> HIDE DEF new, w, n
<1>6. /\ smp' \in [Semaphores -> SemaphoreType] /\ mx' \in [Mutexes -> MutexType]
      /\ Queued' = Queued \ {w[k]}
      /\ WellQueued' /\ WaitsOnce' /\ NoWaiterOnFree'
  BY <1>3, <1>4, <1>5, SemaphoreStep, QueuedIff
<1>7. priority' \in [Tasks -> 0 .. Int8Max]
  BY DEF SignalWake, IInv, TypeOK, CoreTypeOK
<1>8. CoreTypeOK' /\ OneRunning' /\ BlockedLeavesCPU' /\ SleepersBlocked' /\ WaitersBlocked'
  BY <1>1, <1>4, <1>6, <1>7, WakeQueued DEF SignalWake
<1> QED BY <1>1, <1>4, <1>6, <1>8 DEF IInv, TypeOK

-----------------------------------------------------------------------------
(* Mutexes.  The same, with the owner and the priorities.                  *)

\* The parts of the invariant about queues, from the mutex that changed.
LEMMA MutexStep ==
  ASSUME IInv, UNCHANGED smp, NEW m \in Mutexes,
         NEW new \in MutexType, mx' = [mx EXCEPT ![m] = new],
         WellFormed(new.waiting_tasks, new.TaskTracker),
         new.counter = 0 <=> new.owner # NULL, new.counter # 0 => new.TaskTracker = 0,
         (Waiters(new.waiting_tasks, new.TaskTracker) \ MutexWaiters(m)) \cap Queued = {}
  PROVE  /\ (smp \in [Semaphores -> SemaphoreType])' /\ (mx \in [Mutexes -> MutexType])'
         /\ Queued' = (Queued \ MutexWaiters(m)) \cup Waiters(new.waiting_tasks, new.TaskTracker)
         /\ WellQueued' /\ WaitsOnce' /\ NoWaiterOnFree'
<1>1. /\ mx'[m] = new
      /\ \A q \in Mutexes \ {m} : mx'[q] = mx[q]
      /\ smp' \in [Semaphores -> SemaphoreType] /\ mx' \in [Mutexes -> MutexType]
  BY DEF IInv, TypeOK
<1>2. /\ MutexWaiters(m)' = Waiters(new.waiting_tasks, new.TaskTracker)
      /\ \A q \in Mutexes \ {m} : MutexWaiters(q)' = MutexWaiters(q)
      /\ \A s \in Semaphores : SemWaiters(s)' = SemWaiters(s)
  BY <1>1 DEF SemWaiters, MutexWaiters
<1>3. Queued' = (Queued \ MutexWaiters(m)) \cup MutexWaiters(m)'
  <2>1. /\ \A q \in Mutexes \ {m} : MutexWaiters(q) \cap MutexWaiters(m) = {}
        /\ \A s \in Semaphores : SemWaiters(s) \cap MutexWaiters(m) = {}
    BY DEF IInv, WaitsOnce
  <2>2. ASSUME NEW t
        PROVE  t \in Queued' <=> t \in (Queued \ MutexWaiters(m)) \cup MutexWaiters(m)'
    BY <2>1, <1>2, QueuedIff, QueuedIffNext
  <2> QED BY <2>2
<1>4. WellQueued'
  BY <1>1 DEF IInv, WellQueued
<1>5. WaitsOnce'
  <2>1. /\ \A r \in Semaphores : Distinct(smp'[r].waiting_tasks, smp'[r].TaskTracker)
        /\ \A q \in Mutexes : Distinct(mx'[q].waiting_tasks, mx'[q].TaskTracker)
    BY <1>4 DEF WellQueued, WellFormed
  <2>2. /\ \A q \in Mutexes \ {m} : MutexWaiters(q) \cap MutexWaiters(m)' = {}
        /\ \A s \in Semaphores : SemWaiters(s) \cap MutexWaiters(m)' = {}
    BY <1>2, QueuedIff DEF IInv, WaitsOnce
  <2>3. \A r, q \in Semaphores : r # q => SemWaiters(r)' \cap SemWaiters(q)' = {}
    BY <1>2 DEF IInv, WaitsOnce
  <2>4. \A p, q \in Mutexes : p # q => MutexWaiters(p)' \cap MutexWaiters(q)' = {}
    BY <1>2, <2>2 DEF IInv, WaitsOnce
  <2>5. \A r \in Semaphores, q \in Mutexes : SemWaiters(r)' \cap MutexWaiters(q)' = {}
    BY <1>2, <2>2 DEF IInv, WaitsOnce
  <2> QED BY <2>1, <2>3, <2>4, <2>5 DEF WaitsOnce
<1>6. NoWaiterOnFree'
  BY <1>1 DEF IInv, NoWaiterOnFree
<1> QED BY <1>1, <1>2, <1>3, <1>4, <1>5, <1>6


\* Mutex_Lock on a free mutex.
LEMMA LockTakeInv ==
  ASSUME IInv, NEW m \in Mutexes, LockTake(m), UNCHANGED smp
  PROVE  IInv' /\ Queued' = Queued
<1> DEFINE new == [owner |-> CurrentTask, counter |-> mx[m].counter - 1,
                   waiting_tasks |-> mx[m].waiting_tasks, TaskTracker |-> mx[m].TaskTracker,
                   OriginalPriority |-> priority[CurrentTask]]
<1>1. /\ mx[m] \in MutexType /\ WellFormed(mx[m].waiting_tasks, mx[m].TaskTracker)
      /\ mx[m].counter # 0 => mx[m].TaskTracker = 0
      /\ CurrentTask \in Tasks /\ CurrentTask # NULL
      /\ priority[CurrentTask] \in 0 .. Int8Max
  BY TasksAssumption DEF IInv, TypeOK, CoreTypeOK, WellQueued, NoWaiterOnFree, Tasks, NULL
<1>2. mx[m].counter = 1 /\ mx' = [mx EXCEPT ![m] = new]
  BY <1>1 DEF LockTake, MutexType
<1>3. /\ new \in MutexType
      /\ new.waiting_tasks = mx[m].waiting_tasks /\ new.TaskTracker = mx[m].TaskTracker
      /\ new.counter = 0 /\ new.owner # NULL
  BY <1>1, <1>2 DEF MutexType
<1> HIDE DEF new
<1>4. /\ smp' \in [Semaphores -> SemaphoreType] /\ mx' \in [Mutexes -> MutexType]
      /\ Queued' = Queued
      /\ WellQueued' /\ WaitsOnce' /\ NoWaiterOnFree'
  <2>1. Waiters(new.waiting_tasks, new.TaskTracker) = MutexWaiters(m)
    BY <1>3 DEF MutexWaiters
  <2>2. (new.counter = 0 <=> new.owner # NULL) /\ (new.counter # 0 => new.TaskTracker = 0)
    BY <1>3
  <2>3. WellFormed(new.waiting_tasks, new.TaskTracker)
    BY <1>1, <1>3
  <2>4. (Queued \ MutexWaiters(m)) \cup MutexWaiters(m) = Queued
    BY QueuedIff
  <2> QED BY <1>2, <1>3, <2>1, <2>2, <2>3, <2>4, MutexStep
<1>5. UNCHANGED coreVars
  BY DEF LockTake
<1> QED BY <1>4, <1>5, CoreUnchanged DEF IInv, TypeOK

\* Mutex_Lock on a held mutex: its owner exists, and the queue has room.
LEMMA LockBlockInv ==
  ASSUME IInv, NEW m \in Mutexes, CurrentTask # Idle, LockBlock(m), UNCHANGED smp
  PROVE  IInv' /\ Queued' = Queued \cup {CurrentTask}
<1> DEFINE w == mx[m].waiting_tasks
           n == mx[m].TaskTracker
           new == [owner |-> mx[m].owner, counter |-> mx[m].counter,
                   waiting_tasks |-> Enlist(w, n, CurrentTask), TaskTracker |-> n + 1,
                   OriginalPriority |-> mx[m].OriginalPriority]
<1>1. ThreadMode /\ mx[m].counter = 0 /\ mx' = [mx EXCEPT ![m] = new]
  BY DEF LockBlock
<1>2. WellFormed(w, n) /\ CurrentTask \in Tasks /\ mx[m] \in MutexType
  BY DEF IInv, TypeOK, CoreTypeOK, WellQueued
<1>3. CurrentTask \notin Waiters(w, n) /\ Idle \notin Waiters(w, n)
  BY <1>1, CurrentIsFree, QueuedIff DEF MutexWaiters
<1>4. n + 1 \in Tasks
  BY <1>2, <1>3, QueueHasRoom
<1>5. /\ WellFormed(new.waiting_tasks, new.TaskTracker)
      /\ Waiters(new.waiting_tasks, new.TaskTracker) = MutexWaiters(m) \cup {CurrentTask}
  BY <1>2, <1>3, <1>4, EnlistAdds DEF MutexWaiters
<1>6. /\ new \in MutexType
      /\ (new.counter = 0 <=> new.owner # NULL) /\ (new.counter # 0 => new.TaskTracker = 0)
  BY <1>1, <1>2, <1>5, <1>4 DEF MutexType, WellFormed, IInv, NoWaiterOnFree
<1> HIDE DEF new, w, n
<1>7. (Waiters(new.waiting_tasks, new.TaskTracker) \ MutexWaiters(m)) \cap Queued = {}
  BY <1>1, <1>5, CurrentIsFree
<1>8. /\ smp' \in [Semaphores -> SemaphoreType] /\ mx' \in [Mutexes -> MutexType]
      /\ Queued' = Queued \cup {CurrentTask}
      /\ WellQueued' /\ WaitsOnce' /\ NoWaiterOnFree'
  BY <1>1, <1>5, <1>6, <1>7, MutexStep, QueuedIff
<1>9. priority' \in [Tasks -> 0 .. Int8Max]
  BY DEF LockBlock, Inherited, IInv, TypeOK, CoreTypeOK
<1>10. CoreTypeOK' /\ OneRunning' /\ BlockedLeavesCPU' /\ SleepersBlocked' /\ WaitersBlocked'
  BY <1>1, <1>8, <1>9, BlockCurrent DEF LockBlock
<1> QED BY <1>8, <1>10 DEF IInv, TypeOK

\* Mutex_Unlock by the owner with nobody waiting.
LEMMA UnlockFreeInv ==
  ASSUME IInv, NEW m \in Mutexes, UnlockFree(m), UNCHANGED smp
  PROVE  IInv' /\ Queued' = Queued
<1> DEFINE new == [owner |-> NULL, counter |-> 1, waiting_tasks |-> mx[m].waiting_tasks,
                   TaskTracker |-> 0, OriginalPriority |-> mx[m].OriginalPriority]
<1>1. mx[m] \in MutexType /\ WellFormed(mx[m].waiting_tasks, mx[m].TaskTracker)
  BY DEF IInv, TypeOK, WellQueued
<1>2. mx[m].TaskTracker = 0 /\ mx' = [mx EXCEPT ![m] = new]
  BY DEF UnlockFree
<1>3. /\ new \in MutexType
      /\ new.waiting_tasks = mx[m].waiting_tasks /\ new.TaskTracker = mx[m].TaskTracker
      /\ new.owner = NULL /\ new.counter = 1
  BY <1>1, <1>2 DEF MutexType
<1> HIDE DEF new
<1>4. /\ smp' \in [Semaphores -> SemaphoreType] /\ mx' \in [Mutexes -> MutexType]
      /\ Queued' = Queued
      /\ WellQueued' /\ WaitsOnce' /\ NoWaiterOnFree'
  <2>1. Waiters(new.waiting_tasks, new.TaskTracker) = MutexWaiters(m)
    BY <1>3 DEF MutexWaiters
  <2>2. (new.counter = 0 <=> new.owner # NULL) /\ (new.counter # 0 => new.TaskTracker = 0)
    BY <1>2, <1>3
  <2>3. WellFormed(new.waiting_tasks, new.TaskTracker)
    BY <1>1, <1>3
  <2>4. (Queued \ MutexWaiters(m)) \cup MutexWaiters(m) = Queued
    BY QueuedIff
  <2> QED BY <1>2, <1>3, <2>1, <2>2, <2>3, <2>4, MutexStep
<1>5. UNCHANGED <<CurrentTask, state, ticks, canary, pendsv, inPendSV, fault>>
  BY DEF UnlockFree
<1>6. priority' \in [Tasks -> 0 .. Int8Max]
  BY <1>1 DEF UnlockFree, Restored, IInv, TypeOK, CoreTypeOK, MutexType
<1>7. CoreTypeOK' /\ OneRunning' /\ BlockedLeavesCPU' /\ SleepersBlocked' /\ WaitersBlocked'
  BY <1>4, <1>5, <1>6 DEF IInv, TypeOK, CoreTypeOK, OneRunning, BlockedLeavesCPU,
                          ThreadMode, SleepersBlocked, WaitersBlocked
<1> QED BY <1>4, <1>7 DEF IInv, TypeOK

\* Mutex_Unlock by the owner with waiters: the winner leaves its only queue.
LEMMA UnlockHandOverInv ==
  ASSUME IInv, NEW m \in Mutexes, UnlockHandOver(m), UNCHANGED smp
  PROVE  /\ IInv'
         /\ \E out \in Queued : /\ state' = [state EXCEPT ![out] = "READY"]
                              /\ Queued' = Queued \ {out}
<1> DEFINE w == mx[m].waiting_tasks
           n == mx[m].TaskTracker
<1>1. PICK k \in Tasks :
        /\ Winner(w, n, Restored(m), k)
        /\ state' = [state EXCEPT ![w[k]] = "READY"]
        /\ mx' = [mx EXCEPT ![m] = [owner |-> w[k], counter |-> 0,
                                   waiting_tasks |-> FillHole(w, n, k), TaskTracker |-> n - 1,
                                   OriginalPriority |-> Restored(m)[w[k]]]]
  BY DEF UnlockHandOver, HandedTo
<1> DEFINE new == [owner |-> w[k], counter |-> 0, waiting_tasks |-> FillHole(w, n, k),
                   TaskTracker |-> n - 1, OriginalPriority |-> Restored(m)[w[k]]]
<1>2. WellFormed(w, n) /\ k \in 0 .. n - 1 /\ w[k] \in Tasks
  BY <1>1 DEF IInv, WellQueued, Winner, WellFormed
<1>3. /\ WellFormed(new.waiting_tasks, new.TaskTracker)
      /\ Waiters(new.waiting_tasks, new.TaskTracker) = MutexWaiters(m) \ {w[k]}
  BY <1>2, FillHoleRemoves DEF MutexWaiters
<1>4. w[k] \in MutexWaiters(m) /\ w[k] \in Queued
  BY <1>2, QueuedIff DEF MutexWaiters, Waiters
<1>5. Restored(m) \in [Tasks -> 0 .. Int8Max]
  BY DEF IInv, TypeOK, CoreTypeOK, MutexType, Restored
<1>6. /\ new \in MutexType /\ mx' = [mx EXCEPT ![m] = new]
      /\ (new.counter = 0 <=> new.owner # NULL) /\ (new.counter # 0 => new.TaskTracker = 0)
  BY <1>1, <1>2, <1>3, <1>5, TasksAssumption DEF MutexType, WellFormed, Tasks, NULL
<1> HIDE DEF new, w, n
<1>7. /\ smp' \in [Semaphores -> SemaphoreType] /\ mx' \in [Mutexes -> MutexType]
      /\ Queued' = Queued \ {w[k]}
      /\ WellQueued' /\ WaitsOnce' /\ NoWaiterOnFree'
  BY <1>3, <1>4, <1>6, MutexStep, QueuedIff
<1>8. priority' \in [Tasks -> 0 .. Int8Max]
  BY <1>5 DEF UnlockHandOver
<1>9. CoreTypeOK' /\ OneRunning' /\ BlockedLeavesCPU' /\ SleepersBlocked' /\ WaitersBlocked'
  BY <1>1, <1>4, <1>7, <1>8, WakeQueued DEF UnlockHandOver
<1> QED BY <1>1, <1>4, <1>7, <1>9 DEF IInv, TypeOK

\* Mutex_Unlock by anybody else only halts the system.
LEMMA UnlockFaultInv ==
  ASSUME IInv, NEW m \in Mutexes, UnlockFault(m), UNCHANGED smp
  PROVE  IInv' /\ Queued' = Queued
<1> USE DEF UnlockFault, OS_Fault
<1>1. CoreTypeOK'
  BY DEF IInv, TypeOK, CoreTypeOK
<1>2. ~ThreadMode'
  BY DEF ThreadMode
<1>3. OneRunning' /\ BlockedLeavesCPU' /\ SleepersBlocked' /\ WaitersBlocked'
  BY <1>2, QueuesUnchanged DEF IInv, OneRunning, BlockedLeavesCPU, SleepersBlocked, WaitersBlocked
<1> QED BY <1>1, <1>3, QueuesUnchanged DEF IInv, TypeOK

-----------------------------------------------------------------------------
(* The four ways a step can change who is blocked, and on what.            *)

\* Nobody is blocked or woken, and no queue changes.
Steady ==
  /\ UNCHANGED ticks /\ Queued' = Queued
  /\ \A t \in Tasks : state[t] = "BLOCKED" <=> state'[t] = "BLOCKED"

\* A tick counts sleepers down.
Ticks == Queued' = Queued /\ \E S \in SUBSET Tasks : Countdown(S)

\* The current task goes to sleep, or joins a queue.
Blocks ==
  /\ CurrentTask \in Tasks /\ ticks[CurrentTask] = 0
  /\ state' = [state EXCEPT ![CurrentTask] = "BLOCKED"]
  /\ \/ \E n \in SleepTicks : ticks' = [ticks EXCEPT ![CurrentTask] = n] /\ Queued' = Queued
     \/ UNCHANGED ticks /\ Queued' = Queued \cup {CurrentTask}

\* A task leaves its queue and is READY.
Wakes ==
  /\ UNCHANGED ticks
  /\ \E out \in Queued : state' = [state EXCEPT ![out] = "READY"] /\ Queued' = Queued \ {out}

\* Every step of the kernel preserves the invariant and has one of the effects.
LEMMA NextEffect ==
  ASSUME IInv, [Next]_vars
  PROVE  IInv' /\ (Steady \/ Ticks \/ Blocks \/ Wakes)
<1>1. CASE Background
  <2>1. CASE SysTick_Handler
    <3>1. IInv' /\ Queued' = Queued
      BY <1>1, <2>1, TickInv DEF Background
    <3>2. \E S \in SUBSET Tasks : Countdown(S)
      BY <2>1, TasksAssumption DEF SysTick_Handler, Overran, Tasks
    <3> QED BY <3>1, <3>2 DEF Ticks
  <2>2. CASE PendSV_Handler
    BY <1>1, <2>2, ScheduleInv DEF Background, PendSV_Handler, Steady
  <2>3. CASE PendSV_Entry \/ StackOverrun
    BY <1>1, <2>3, QuietInv DEF Background, PendSV_Entry, StackOverrun, Steady
  <2> QED BY <1>1, <2>1, <2>2, <2>3 DEF Background
<1>2. CASE SleepOrSignal
  <2>1. ASSUME NEW n \in SleepTicks, CurrentTask # Idle, OS_Sleep(n), UNCHANGED <<smp, mx>>
        PROVE  IInv' /\ Blocks
    BY <2>1, SleepInv, CurrentIsFree DEF OS_Sleep, Blocks
  <2>2. ASSUME NEW s \in Semaphores, CurrentTask # Idle, OS_Wait(s), UNCHANGED mx
        PROVE  IInv' /\ (Steady \/ Blocks)
    <3>1. CASE WaitTake(s)
      BY <2>2, <3>1, WaitTakeInv DEF WaitTake, coreVars, Steady
    <3>2. CASE WaitBlock(s)
      BY <2>2, <3>2, WaitBlockInv, CurrentIsFree DEF WaitBlock, Blocks
    <3> QED BY <2>2, <3>1, <3>2 DEF OS_Wait
  <2>3. ASSUME NEW s \in Semaphores, OS_Signal(s), UNCHANGED mx
        PROVE  IInv' /\ (Steady \/ Wakes)
    <3>1. CASE SignalStore(s)
      BY <2>3, <3>1, SignalStoreInv DEF SignalStore, coreVars, Steady
    <3>2. CASE SignalWake(s)
      BY <2>3, <3>2, SignalWakeInv DEF SignalWake, Wakes
    <3> QED BY <2>3, <3>1, <3>2 DEF OS_Signal
  <2> QED BY <1>2, <2>1, <2>2, <2>3 DEF SleepOrSignal
<1>3. ASSUME NEW m \in Mutexes, MutexCall(m)
      PROVE  IInv' /\ (Steady \/ Blocks \/ Wakes)
  <2>1. CASE LockTake(m)
    BY <1>3, <2>1, LockTakeInv DEF MutexCall, LockTake, coreVars, Steady
  <2>2. CASE LockBlock(m)
    BY <1>3, <2>2, LockBlockInv, CurrentIsFree DEF MutexCall, LockBlock, Blocks
  <2>3. CASE UnlockFree(m)
    BY <1>3, <2>3, UnlockFreeInv DEF MutexCall, UnlockFree, Steady
  <2>4. CASE UnlockHandOver(m)
    BY <1>3, <2>4, UnlockHandOverInv DEF MutexCall, UnlockHandOver, Wakes
  <2>5. CASE UnlockFault(m)
    BY <1>3, <2>5, UnlockFaultInv DEF MutexCall, UnlockFault, Steady
  <2> QED BY <1>3, <2>1, <2>2, <2>3, <2>4, <2>5 DEF MutexCall, Mutex_Lock, Mutex_Unlock
<1>4. CASE UNCHANGED vars
  <2>1. UNCHANGED coreVars /\ UNCHANGED <<smp, mx>>
    BY <1>4 DEF vars
  <2> QED BY <2>1, QueuesUnchanged, CoreUnchanged DEF IInv, TypeOK, Steady, coreVars
<1> QED BY <1>1, <1>2, <1>3, <1>4 DEF Next

-----------------------------------------------------------------------------
\* The counters and queues of all semaphores and mutexes agree with the
\* states and ticks of the tasks, whatever the tasks call.
THEOREM KernelInvariant == Spec => []IInv
<1>1. IInv /\ [Next]_vars => IInv'
  BY NextEffect
<1> QED BY InitInv, <1>1, PTL DEF Spec

\* No field leaves the range of its C type and no waiting_tasks array is
\* written past its end (Kernel/Semaphore.c, Kernel/Mutex.c).
THEOREM TypesCorrect == Spec => []TypeOK
<1>1. IInv => TypeOK
  BY DEF IInv
<1> QED BY KernelInvariant, <1>1, PTL

\* A blocked task executes nothing and the idle task is never blocked.
THEOREM BlockedTasksLeaveCPU == Spec => []BlockedLeavesCPU
<1>1. IInv => BlockedLeavesCPU
  BY DEF IInv
<1> QED BY KernelInvariant, <1>1, PTL

\* A tick never wakes a task that waits in a queue.
THEOREM QueuedTasksBlocked == Spec => []WaitersBlocked
<1>1. IInv => WaitersBlocked
  BY DEF IInv
<1> QED BY KernelInvariant, <1>1, PTL

\* A task waits in one queue at most, and there once.
THEOREM TasksWaitOnce == Spec => []WaitsOnce
<1>1. IInv => WaitsOnce
  BY DEF IInv
<1> QED BY KernelInvariant, <1>1, PTL

\* Nobody waits for a signalled semaphore or a free mutex.
THEOREM NobodyWaitsOnFree == Spec => []NoWaiterOnFree
<1>1. IInv => NoWaiterOnFree
  BY DEF IInv
<1> QED BY KernelInvariant, <1>1, PTL

\* At most one task is RUNNING, the one whose context is loaded.
THEOREM OneTaskRuns == Spec => []OneRunning
<1>1. IInv => OneRunning
  BY DEF IInv
<1> QED BY KernelInvariant, <1>1, PTL

\* If nobody calls OS_Sleep(0), every blocked task is asleep or in a queue:
\* no sequence of calls and ticks strands a task.
THEOREM NoTaskLost ==
  ASSUME 0 \notin SleepTicks
  PROVE  Spec => []NoLostTask
<1>1. Init => NoLostTask
  BY DEF Init, CoreInit, NoLostTask
<1>2. IInv /\ NoLostTask /\ [Next]_vars => NoLostTask'
  <2> SUFFICES ASSUME IInv, NoLostTask, [Next]_vars, NEW t \in Tasks, state'[t] = "BLOCKED"
               PROVE  ticks'[t] > 0 \/ t \in Queued'
    BY DEF NoLostTask
  <2>1. state \in [Tasks -> States] /\ ticks \in [Tasks -> Nat] /\ Queued \subseteq Tasks
    BY QueuedAreTasks DEF IInv, TypeOK, CoreTypeOK
  <2>2. CASE Steady
    BY <2>2 DEF Steady, NoLostTask
  <2>3. CASE Ticks
    BY <2>1, <2>3 DEF Ticks, Countdown, NoLostTask
  <2>4. CASE Blocks
    <3>1. \A n \in SleepTicks : n > 0
      BY ClientAssumption
    <3> QED BY <2>1, <2>4, <3>1 DEF Blocks, NoLostTask
  <2>5. CASE Wakes
    BY <2>1, <2>5 DEF Wakes, NoLostTask
  <2> QED BY <2>2, <2>3, <2>4, <2>5, NextEffect
<1> QED BY <1>1, <1>2, KernelInvariant, PTL DEF Spec

\* A blocked task becomes READY only when its own sleep runs out or when it
\* leaves the queue it waits in.
THEOREM NoSpuriousWakeup == Spec => WokenForAReason
<1>1. IInv /\ [Next]_vars =>
        [\A t \in Tasks : state[t] = "BLOCKED" /\ state'[t] = "READY" =>
           (ticks[t] = 1 /\ ticks'[t] = 0) \/ (t \in Queued /\ t \notin Queued')]_vars
  <2> SUFFICES ASSUME IInv, [Next]_vars, NEW t \in Tasks, state[t] = "BLOCKED", state'[t] = "READY"
               PROVE  (ticks[t] = 1 /\ ticks'[t] = 0) \/ (t \in Queued /\ t \notin Queued')
    OBVIOUS
  <2>1. state \in [Tasks -> States] /\ ticks \in [Tasks -> Nat] /\ Queued \subseteq Tasks
    BY QueuedAreTasks DEF IInv, TypeOK, CoreTypeOK
  <2>2. ~Steady
    BY DEF Steady
  <2>3. CASE Ticks
    BY <2>1, <2>3 DEF Ticks, Countdown
  <2>4. ~Blocks
    BY <2>1 DEF Blocks
  <2>5. CASE Wakes
    BY <2>1, <2>5 DEF Wakes
  <2> QED BY <2>2, <2>3, <2>4, <2>5, NextEffect
<1> QED BY <1>1, KernelInvariant, PTL DEF Spec, WokenForAReason

\* A sleep lasts as many ticks as were asked for, whatever the others call.
THEOREM SleepsLastTheirTicks == Spec => SleepsCountDown
<1>1. IInv /\ [Next]_vars =>
        [\A t \in Tasks : ticks[t] > 0 =>
           \/ ticks'[t] = ticks[t] /\ state'[t] = "BLOCKED"
           \/ ticks'[t] = ticks[t] - 1 /\ state'[t] = IF ticks[t] = 1 THEN "READY" ELSE "BLOCKED"]_vars
  <2> SUFFICES ASSUME IInv, [Next]_vars, NEW t \in Tasks, ticks[t] > 0
               PROVE  \/ ticks'[t] = ticks[t] /\ state'[t] = "BLOCKED"
                      \/ /\ ticks'[t] = ticks[t] - 1
                         /\ state'[t] = IF ticks[t] = 1 THEN "READY" ELSE "BLOCKED"
    OBVIOUS
  <2>1. /\ state \in [Tasks -> States] /\ ticks \in [Tasks -> Nat]
        /\ state[t] = "BLOCKED" /\ t \notin Queued
    BY DEF IInv, TypeOK, CoreTypeOK, SleepersBlocked, WaitersBlocked
  <2>2. CASE Steady
    BY <2>1, <2>2 DEF Steady
  <2>3. CASE Ticks
    BY <2>1, <2>3 DEF Ticks, Countdown
  <2>4. CASE Blocks
    <3>1. t # CurrentTask
      BY <2>4 DEF Blocks
    <3> QED BY <2>1, <2>4, <3>1 DEF Blocks
  <2>5. CASE Wakes
    BY <2>1, <2>5 DEF Wakes
  <2> QED BY <2>2, <2>3, <2>4, <2>5, NextEffect
<1> QED BY <1>1, KernelInvariant, PTL DEF Spec, SleepsCountDown

-----------------------------------------------------------------------------
(* Priorities, and turns among equals.                                     *)

\* A priority that t may have.
Lent(t, p) == BasePriority[t] <= p /\ \E u \in Tasks : p = BasePriority[u]

LentInv == PrioritiesLent /\ SavedLent

LEMMA LentUnchanged ==
  ASSUME LentInv, UNCHANGED <<priority, mx>>
  PROVE  LentInv'
BY DEF LentInv, PrioritiesLent, SavedLent

LEMMA LentInit == Init => LentInv
BY PriorityAssumption DEF Init, CoreInit, Mutex_Init, LentInv, PrioritiesLent, SavedLent, Int8Max

\* The priority that a task saves is one it may have, ...
LEMMA LockTakeLent ==
  ASSUME IInv, LentInv, NEW m \in Mutexes, LockTake(m)
  PROVE  LentInv'
<1>1. /\ CurrentTask \in Tasks /\ mx \in [Mutexes -> MutexType] /\ priority' = priority
      /\ Lent(CurrentTask, priority[CurrentTask])
  BY DEF IInv, TypeOK, CoreTypeOK, LockTake, coreVars, LentInv, PrioritiesLent, Lent
<1>2. /\ mx'[m].owner = CurrentTask /\ mx'[m].OriginalPriority = priority[CurrentTask]
      /\ \A q \in Mutexes \ {m} : mx'[q] = mx[q]
  BY <1>1 DEF LockTake
<1> QED BY <1>1, <1>2 DEF LentInv, PrioritiesLent, SavedLent, Lent

\* ... what the owner inherits is above its own, ...
LEMMA LockBlockLent ==
  ASSUME IInv, LentInv, NEW m \in Mutexes, LockBlock(m)
  PROVE  LentInv'
<1>1. /\ CurrentTask \in Tasks /\ mx \in [Mutexes -> MutexType] /\ mx[m].owner \in Tasks \cup {NULL}
      /\ priority \in [Tasks -> 0 .. Int8Max] /\ BasePriority \in [Tasks -> 0 .. Int8Max]
      /\ Int8Max \in Nat
  BY PriorityAssumption DEF IInv, TypeOK, CoreTypeOK, MutexType, Int8Max
<1>2. mx[m].owner \in Tasks
  BY <1>1 DEF LockBlock, IInv, NoWaiterOnFree
<1>3. \A q \in Mutexes : mx'[q].owner = mx[q].owner /\ mx'[q].OriginalPriority = mx[q].OriginalPriority
  BY <1>1 DEF LockBlock
<1>4. ASSUME NEW t \in Tasks PROVE Lent(t, priority'[t])
  <2>1. Lent(t, priority[t]) /\ Lent(CurrentTask, priority[CurrentTask])
    BY <1>1 DEF LentInv, PrioritiesLent, Lent
  <2>2. CASE t = mx[m].owner /\ priority[CurrentTask] > priority[t]
    <3>1. priority'[t] = priority[CurrentTask]
      BY <2>2, <1>1 DEF LockBlock, Inherited
    <3> QED BY <2>1, <2>2, <3>1, <1>1 DEF Lent
  <2>3. CASE ~(t = mx[m].owner /\ priority[CurrentTask] > priority[t])
    <3>1. priority'[t] = priority[t]
      BY <2>3, <1>1, <1>2 DEF LockBlock, Inherited
    <3> QED BY <2>1, <3>1
  <2> QED BY <2>2, <2>3
<1> QED BY <1>3, <1>4 DEF LentInv, PrioritiesLent, SavedLent, Lent

\* ... and what is given back was saved by the same task.
LEMMA RestoredLent ==
  ASSUME IInv, LentInv, NEW m \in Mutexes, mx[m].owner = CurrentTask, NEW t \in Tasks
  PROVE  Lent(t, Restored(m)[t])
<1>1. CurrentTask \in Tasks /\ CurrentTask # NULL /\ priority \in [Tasks -> 0 .. Int8Max]
  BY TasksAssumption DEF IInv, TypeOK, CoreTypeOK, Tasks, NULL
<1>2. Lent(CurrentTask, mx[m].OriginalPriority) /\ Lent(t, priority[t])
  BY <1>1 DEF LentInv, SavedLent, PrioritiesLent, Lent
<1>3. CASE t = CurrentTask
  BY <1>1, <1>2, <1>3 DEF Restored
<1>4. CASE t # CurrentTask
  BY <1>1, <1>2, <1>4 DEF Restored
<1> QED BY <1>3, <1>4

LEMMA UnlockLent ==
  ASSUME IInv, LentInv, NEW m \in Mutexes, UnlockFree(m) \/ UnlockHandOver(m)
  PROVE  LentInv'
<1>1. mx \in [Mutexes -> MutexType] /\ mx[m].owner = CurrentTask /\ priority' = Restored(m)
  BY DEF IInv, TypeOK, UnlockFree, UnlockHandOver
<1>2. PrioritiesLent'
  BY <1>1, RestoredLent DEF PrioritiesLent, Lent
<1>3. CASE UnlockFree(m)
  <2>1. mx'[m].owner = NULL /\ \A q \in Mutexes \ {m} : mx'[q] = mx[q]
    BY <1>1, <1>3 DEF UnlockFree
  <2> QED BY <1>2, <2>1 DEF LentInv, SavedLent
<1>4. CASE UnlockHandOver(m)
  <2>1. PICK k \in Tasks :
          /\ Winner(mx[m].waiting_tasks, mx[m].TaskTracker, Restored(m), k)
          /\ mx' = [mx EXCEPT ![m] = HandedTo(m, k)]
    BY <1>4 DEF UnlockHandOver
  <2>2. PICK w \in Tasks : w = mx[m].waiting_tasks[k]
    BY <2>1 DEF IInv, WellQueued, WellFormed, Winner
  <2>3. /\ mx'[m].owner = w /\ mx'[m].OriginalPriority = Restored(m)[w]
        /\ \A q \in Mutexes \ {m} : mx'[q] = mx[q]
    BY <1>1, <2>1, <2>2 DEF HandedTo
  <2>4. Lent(w, Restored(m)[w])
    BY <1>1, RestoredLent
  <2> QED BY <1>2, <2>3, <2>4 DEF LentInv, SavedLent, Lent
<1> QED BY <1>3, <1>4

LEMMA LentStep ==
  ASSUME IInv, LentInv, [Next]_vars
  PROVE  LentInv'
<1>1. CASE Background
  BY <1>1, LentUnchanged DEF Background, SysTick_Handler, PendSV_Entry, PendSV_Handler, StackOverrun
<1>2. CASE SleepOrSignal
  BY <1>2, LentUnchanged DEF SleepOrSignal, OS_Sleep, OS_Wait, WaitTake, WaitBlock,
                             OS_Signal, SignalStore, SignalWake, coreVars
<1>3. ASSUME NEW m \in Mutexes, MutexCall(m) PROVE LentInv'
  <2>1. CASE UnlockFault(m)
    BY <2>1, LentUnchanged DEF UnlockFault
  <2> QED BY <1>3, <2>1, LockTakeLent, LockBlockLent, UnlockLent
          DEF MutexCall, Mutex_Lock, Mutex_Unlock
<1>4. CASE UNCHANGED vars
  BY <1>4, LentUnchanged DEF vars, coreVars
<1> QED BY <1>1, <1>2, <1>3, <1>4 DEF Next

\* However calls are mixed, no task falls below the priority it was created
\* with, and a higher one is the base priority of some task (Kernel/Mutex.c).
THEOREM PrioritiesAreLent == Spec => []PrioritiesLent
<1>1. IInv /\ LentInv /\ [Next]_vars => LentInv'
  BY LentStep
<1>2. LentInv => PrioritiesLent
  BY DEF LentInv
<1> QED BY LentInit, <1>1, <1>2, KernelInvariant, PTL DEF Spec

\* The scan starts behind the loaded slot, which is farthest from itself.
LEMMA ScanComesCloser ==
  ASSUME IInv, PrioritiesLent, PendSV_Handler,
         NEW t \in Tasks, state[t] = "READY", t # CurrentTask,
         \A u \in Tasks : BasePriority[u] <= BasePriority[t]
  PROVE  \/ CurrentTask' = t /\ state'[t] = "RUNNING"
         \/ state'[t] = "READY" /\ Distance(CurrentTask', t) < Distance(CurrentTask, t)
<1>1. PICK next \in Tasks :
        /\ Selected(next)
        /\ CurrentTask' = next
        /\ state' = [u \in Tasks |-> IF u = next THEN "RUNNING"
                                     ELSE IF u \in Eligible THEN "READY" ELSE state[u]]
  BY DEF PendSV_Handler, OS_Schedule
<1>2. CASE next = t
  BY <1>1, <1>2
<1>3. CASE next # t
  <2>1. /\ CurrentTask \in Tasks /\ NUMBER_OF_TASKS \in Nat
        /\ priority[next] \in Nat /\ priority[t] \in Nat
    BY TasksAssumption DEF IInv, TypeOK, CoreTypeOK, Int8Max
  <2>2. priority[next] <= priority[t]
    <3>1. PICK u \in Tasks : priority[next] = BasePriority[u]
      BY DEF PrioritiesLent
    <3>2. BasePriority[u] <= BasePriority[t] /\ BasePriority[t] <= priority[t]
      BY DEF PrioritiesLent
    <3>3. BasePriority[u] \in Nat /\ BasePriority[t] \in Nat
      BY PriorityAssumption DEF Int8Max
    <3> QED BY <2>1, <3>1, <3>2, <3>3
  <2>3. t \in Eligible /\ Beats(next, t)
    BY <1>1 DEF Eligible, Selected
  <2>4. Distance(CurrentTask, next) <= Distance(CurrentTask, t)
    BY <2>1, <2>2, <2>3 DEF Beats
  <2>5. Distance(next, t) < Distance(CurrentTask, t)
    BY <2>1, <2>4, <1>3 DEF Distance, Tasks
  <2>6. state'[t] = "READY"
    BY <1>1, <1>3, <2>3
  <2> QED BY <1>1, <2>5, <2>6
<1> QED BY <1>2, <1>3

\* No step but a switch loads a task, and none but its own makes a READY task
\* anything else.
LEMMA ReadyStays ==
  ASSUME IInv, [Next]_vars, NEW t \in Tasks, state[t] = "READY", t # CurrentTask
  PROVE  \/ PendSV_Handler
         \/ state'[t] = "READY" /\ CurrentTask' = CurrentTask /\ ~(inPendSV /\ ~inPendSV')
<1>1. state \in [Tasks -> States] /\ CurrentTask \in Tasks
  BY DEF IInv, TypeOK, CoreTypeOK
<1>2. CASE SysTick_Handler
  <2>1. PICK S \in SUBSET Tasks : Countdown(S)
    BY <1>2, TasksAssumption DEF SysTick_Handler, Overran, Tasks
  <2>2. state'[t] = "READY"
    BY <2>1 DEF Countdown
  <2> QED BY <1>2, <2>2 DEF SysTick_Handler
<1>3. CASE PendSV_Entry \/ StackOverrun \/ UNCHANGED vars
  BY <1>3 DEF PendSV_Entry, StackOverrun, vars, coreVars
<1>4. CASE SleepOrSignal
  BY <1>1, <1>4 DEF SleepOrSignal, OS_Sleep, OS_Wait, WaitTake, WaitBlock,
                    OS_Signal, SignalStore, SignalWake, coreVars
<1>5. ASSUME NEW m \in Mutexes, MutexCall(m)
      PROVE  state'[t] = "READY" /\ CurrentTask' = CurrentTask /\ ~(inPendSV /\ ~inPendSV')
  <2>1. CASE Mutex_Lock(m)
    BY <1>1, <2>1 DEF Mutex_Lock, LockTake, LockBlock, coreVars
  <2>2. CASE Mutex_Unlock(m)
    BY <1>1, <2>2 DEF Mutex_Unlock, UnlockFree, UnlockHandOver, UnlockFault
  <2> QED BY <1>5, <2>1, <2>2 DEF MutexCall
<1> QED BY <1>2, <1>3, <1>4, <1>5 DEF Next, Background

\* Tasks of the highest base priority take turns: at most NUMBER_OF_TASKS - 1
\* switches pass over one of them while it is READY (Kernel/os_core.c).
THEOREM TurnsComeCloser == Spec => TurnComesCloser
<1>1. IInv /\ PrioritiesLent /\ [Next]_vars =>
        [\A t \in Tasks :
           state[t] = "READY" /\ t # CurrentTask
             /\ (\A u \in Tasks : BasePriority[u] <= BasePriority[t]) =>
             \/ CurrentTask' = t /\ state'[t] = "RUNNING"
             \/ /\ state'[t] = "READY"
                /\ IF inPendSV /\ ~inPendSV'
                   THEN Distance(CurrentTask', t) < Distance(CurrentTask, t)
                   ELSE CurrentTask' = CurrentTask]_vars
  <2> SUFFICES ASSUME IInv, PrioritiesLent, [Next]_vars, NEW t \in Tasks,
                      state[t] = "READY", t # CurrentTask,
                      \A u \in Tasks : BasePriority[u] <= BasePriority[t]
               PROVE  \/ CurrentTask' = t /\ state'[t] = "RUNNING"
                      \/ /\ state'[t] = "READY"
                         /\ IF inPendSV /\ ~inPendSV'
                            THEN Distance(CurrentTask', t) < Distance(CurrentTask, t)
                            ELSE CurrentTask' = CurrentTask
    OBVIOUS
  <2>1. CASE PendSV_Handler
    <3>1. inPendSV /\ ~inPendSV'
      BY <2>1 DEF PendSV_Handler
    <3> QED BY <2>1, <3>1, ScanComesCloser
  <2> QED BY <2>1, ReadyStays
<1> QED BY <1>1, KernelInvariant, PrioritiesAreLent, PTL DEF Spec, TurnComesCloser

-----------------------------------------------------------------------------
(* The mutexes implement PriorityLock and the semaphores BinarySemaphore:  *)
(* every step of the kernel is a step of the abstract specification or     *)
(* leaves its variables alone.                                             *)

\* The refinement mapping of the mutexes.
Holder == [m \in Mutexes |-> mx[m].owner]
LockWaiters == [m \in Mutexes |-> MutexWaiters(m)]

LEMMA LockInit == Init => Lock!Init
<1> SUFFICES ASSUME Init PROVE Lock!Init
  OBVIOUS
<1>1. \A m \in Mutexes : mx[m].owner = NULL /\ MutexWaiters(m) = {}
  BY DEF Init, Mutex_Init, MutexWaiters, Waiters
<1> QED BY <1>1 DEF Lock!Init

\* A waiter of the highest priority gets the lock.
LEMMA HandOverStep ==
  ASSUME IInv, NEW m \in Mutexes, UnlockHandOver(m)
  PROVE  Lock!Next
<1> DEFINE w == mx[m].waiting_tasks
           n == mx[m].TaskTracker
<1>1. PICK k \in Tasks :
        /\ Winner(w, n, Restored(m), k)
        /\ mx' = [mx EXCEPT ![m] = [owner |-> w[k], counter |-> 0,
                                   waiting_tasks |-> FillHole(w, n, k), TaskTracker |-> n - 1,
                                   OriginalPriority |-> Restored(m)[w[k]]]]
  BY DEF UnlockHandOver, HandedTo
<1> DEFINE t == w[k]
<1>2. WellFormed(w, n) /\ k \in 0 .. n - 1 /\ mx \in [Mutexes -> MutexType]
  BY <1>1 DEF IInv, TypeOK, WellQueued, Winner
<1>3. t \in Tasks /\ t \in MutexWaiters(m)
  BY <1>2 DEF WellFormed, MutexWaiters, Waiters
<1>4. \A u \in MutexWaiters(m) : priority[u] <= priority[t]
  <2>1. CurrentTask \notin MutexWaiters(m)
    BY CurrentIsFree, QueuedIff DEF UnlockHandOver
  <2>2. \A u \in MutexWaiters(m) : Restored(m)[u] = priority[u]
    BY <2>1, QueuedIff, QueuedAreTasks DEF Restored, IInv, TypeOK, CoreTypeOK
  <2>3. \A i \in 0 .. n - 1 : Restored(m)[w[i]] <= Restored(m)[t]
    BY <1>1 DEF Winner
  <2> QED BY <2>2, <2>3, <1>3 DEF MutexWaiters, Waiters
<1>5. /\ Holder' = [Holder EXCEPT ![m] = t]
      /\ LockWaiters' = [LockWaiters EXCEPT ![m] = MutexWaiters(m) \ {t}]
  <2>1. Waiters(FillHole(w, n, k), n - 1) = Waiters(w, n) \ {t}
    BY <1>2, FillHoleRemoves
  <2> QED BY <2>1, <1>1, <1>2 DEF Holder, LockWaiters, MutexWaiters
<1> HIDE DEF t
<1>6. PICK u \in Tasks : u = t
  BY <1>3
<1>7. Lock!HandOver(m, u)
  BY <1>3, <1>4, <1>5, <1>6 DEF Lock!HandOver, Holder, LockWaiters
<1> QED BY <1>7 DEF Lock!Next

\* Whoever blocks on a held lock waited for none before.
LEMMA QueueStep ==
  ASSUME IInv, NEW m \in Mutexes, CurrentTask # Idle, LockBlock(m)
  PROVE  Lock!Next
<1> DEFINE w == mx[m].waiting_tasks
           n == mx[m].TaskTracker
<1>1. /\ WellFormed(w, n) /\ CurrentTask \in Tasks /\ mx \in [Mutexes -> MutexType]
      /\ mx[m].owner # NULL
      /\ CurrentTask \notin Waiters(w, n) /\ Idle \notin Waiters(w, n)
  BY CurrentIsFree, QueuedIff
     DEF IInv, TypeOK, CoreTypeOK, WellQueued, NoWaiterOnFree, LockBlock, MutexWaiters
<1>2. Waiters(Enlist(w, n, CurrentTask), n + 1) = Waiters(w, n) \cup {CurrentTask}
  BY <1>1, QueueHasRoom, EnlistAdds
<1>3. /\ Holder' = Holder
      /\ LockWaiters' = [LockWaiters EXCEPT ![m] = MutexWaiters(m) \cup {CurrentTask}]
  BY <1>1, <1>2 DEF LockBlock, Holder, LockWaiters, MutexWaiters
<1>4. \A q \in Mutexes : CurrentTask \notin MutexWaiters(q)
  BY CurrentIsFree, QueuedIff DEF LockBlock
<1>5. PICK u \in Tasks : u = CurrentTask
  BY <1>1
<1>6. Lock!Queue(m, u)
  BY <1>1, <1>3, <1>4, <1>5 DEF Lock!Queue, Holder, LockWaiters
<1> QED BY <1>6 DEF Lock!Next

\* A free lock is taken.
LEMMA AcquireStep ==
  ASSUME IInv, NEW m \in Mutexes, LockTake(m)
  PROVE  Lock!Next
<1>1. CurrentTask \in Tasks /\ mx \in [Mutexes -> MutexType] /\ mx[m].owner = NULL
  BY DEF IInv, TypeOK, CoreTypeOK, NoWaiterOnFree, LockTake
<1>2. /\ Holder' = [Holder EXCEPT ![m] = CurrentTask]
      /\ LockWaiters' = LockWaiters
  BY <1>1 DEF LockTake, Holder, LockWaiters, MutexWaiters
<1>3. PICK u \in Tasks : u = CurrentTask
  BY <1>1
<1>4. Lock!Acquire(m, u)
  BY <1>1, <1>2, <1>3 DEF Lock!Acquire, Holder, LockWaiters
<1> QED BY <1>4 DEF Lock!Next

\* A lock nobody waits for is freed.
LEMMA ReleaseStep ==
  ASSUME IInv, NEW m \in Mutexes, UnlockFree(m)
  PROVE  Lock!Next
<1>1. mx \in [Mutexes -> MutexType] /\ mx[m].owner # NULL
  BY TasksAssumption DEF IInv, TypeOK, CoreTypeOK, UnlockFree, Tasks, NULL
<1>2. MutexWaiters(m) = {}
  <2>1. 0 .. mx[m].TaskTracker - 1 = {}
    BY DEF UnlockFree
  <2> QED BY <2>1 DEF MutexWaiters, Waiters
<1>3. /\ Holder' = [Holder EXCEPT ![m] = NULL]
      /\ LockWaiters' = LockWaiters
  BY <1>1 DEF UnlockFree, Holder, LockWaiters, MutexWaiters
<1>4. Lock!Release(m)
  BY <1>1, <1>2, <1>3 DEF Lock!Release, Holder, LockWaiters
<1> QED BY <1>4 DEF Lock!Next

\* The mutexes are locks with priority-ordered hand-over (Kernel/Mutex.c).
THEOREM MutexesAreLocks == Spec => ImplementsLock
<1>1. IInv /\ [Next]_vars => [Lock!Next]_(Lock!lockVars)
  <2> SUFFICES ASSUME IInv, [Next]_vars PROVE Lock!Next \/ UNCHANGED Lock!lockVars
    OBVIOUS
  <2>1. CASE UNCHANGED mx
    BY <2>1 DEF Lock!lockVars, MutexWaiters
  <2>2. ASSUME NEW m \in Mutexes, MutexCall(m)
        PROVE  Lock!Next \/ UNCHANGED mx
    BY <2>2, AcquireStep, QueueStep, ReleaseStep, HandOverStep
       DEF MutexCall, Mutex_Lock, Mutex_Unlock, UnlockFault
  <2> QED BY <2>1, <2>2 DEF Next, Background, SleepOrSignal, vars
<1> QED BY LockInit, <1>1, KernelInvariant, PTL DEF Spec, ImplementsLock, Lock!Spec

-----------------------------------------------------------------------------
\* The refinement mapping of the semaphores.
Signalled == {s \in Semaphores : smp[s].counter = 1}
SignalWaiters == [s \in Semaphores |-> SemWaiters(s)]

LEMMA SemInit == Init => Sem!Init
<1> SUFFICES ASSUME Init PROVE Sem!Init
  OBVIOUS
<1>1. \A s \in Semaphores : smp[s].counter = 0 /\ SemWaiters(s) = {}
  BY DEF Init, OS_SemaphoreInit, SemWaiters, Waiters
<1> QED BY <1>1 DEF Sem!Init

\* A remembered signal is used up.
LEMMA TakeStep ==
  ASSUME IInv, NEW s \in Semaphores, WaitTake(s)
  PROVE  Sem!Next
<1>1. smp \in [Semaphores -> SemaphoreType] /\ smp[s].counter = 1
  BY DEF IInv, TypeOK, SemaphoreType, WaitTake
<1>2. /\ smp'[s].counter = 0 /\ smp'[s].waiting_tasks = smp[s].waiting_tasks
      /\ smp'[s].TaskTracker = smp[s].TaskTracker
      /\ \A r \in Semaphores \ {s} : smp'[r] = smp[r]
  BY <1>1 DEF WaitTake, SemaphoreType
<1>3. Signalled' = Signalled \ {s} /\ SignalWaiters' = SignalWaiters
  BY <1>2 DEF Signalled, SignalWaiters, SemWaiters
<1>4. Sem!Take(s)
  BY <1>1, <1>3 DEF Sem!Take, Signalled, SignalWaiters
<1> QED BY <1>4 DEF Sem!Next

\* Without a signal the caller waits.
LEMMA WaitStep ==
  ASSUME IInv, NEW s \in Semaphores, CurrentTask # Idle, WaitBlock(s)
  PROVE  Sem!Next
<1> DEFINE w == smp[s].waiting_tasks
           n == smp[s].TaskTracker
<1>1. /\ WellFormed(w, n) /\ CurrentTask \in Tasks /\ smp \in [Semaphores -> SemaphoreType]
      /\ smp[s].counter = 0
      /\ CurrentTask \notin Waiters(w, n) /\ Idle \notin Waiters(w, n)
  BY CurrentIsFree, QueuedIff DEF IInv, TypeOK, CoreTypeOK, WellQueued, WaitBlock, SemWaiters
<1>2. Waiters(Enlist(w, n, CurrentTask), n + 1) = Waiters(w, n) \cup {CurrentTask}
  BY <1>1, QueueHasRoom, EnlistAdds
<1>3. /\ Signalled' = Signalled
      /\ SignalWaiters' = [SignalWaiters EXCEPT ![s] = SemWaiters(s) \cup {CurrentTask}]
  BY <1>1, <1>2 DEF WaitBlock, Signalled, SignalWaiters, SemWaiters
<1>4. \A r \in Semaphores : CurrentTask \notin SemWaiters(r)
  BY CurrentIsFree, QueuedIff DEF WaitBlock
<1>5. PICK u \in Tasks : u = CurrentTask
  BY <1>1
<1>6. Sem!Queue(s, u)
  BY <1>1, <1>3, <1>4, <1>5 DEF Sem!Queue, Signalled, SignalWaiters
<1> QED BY <1>6 DEF Sem!Next

\* A signal nobody waits for is remembered.
LEMMA PostStep ==
  ASSUME IInv, NEW s \in Semaphores, SignalStore(s)
  PROVE  Sem!Next
<1>1. smp \in [Semaphores -> SemaphoreType]
  BY DEF IInv, TypeOK
<1>2. SemWaiters(s) = {}
  <2>1. 0 .. smp[s].TaskTracker - 1 = {}
    BY DEF SignalStore
  <2> QED BY <2>1 DEF SemWaiters, Waiters
<1>3. /\ smp'[s].counter = 1 /\ smp'[s].waiting_tasks = smp[s].waiting_tasks
      /\ smp'[s].TaskTracker = smp[s].TaskTracker
      /\ \A r \in Semaphores \ {s} : smp'[r] = smp[r]
  BY <1>1 DEF SignalStore, SemaphoreType
<1>4. Signalled' = Signalled \cup {s} /\ SignalWaiters' = SignalWaiters
  BY <1>3 DEF Signalled, SignalWaiters, SemWaiters
<1>5. Sem!Post(s)
  BY <1>2, <1>4 DEF Sem!Post, Signalled, SignalWaiters
<1> QED BY <1>5 DEF Sem!Next

\* A signal somebody waits for releases a waiter of the highest priority.
LEMMA WakeStep ==
  ASSUME IInv, NEW s \in Semaphores, SignalWake(s)
  PROVE  Sem!Next
<1> DEFINE w == smp[s].waiting_tasks
           n == smp[s].TaskTracker
<1>1. PICK k \in Tasks :
        /\ Winner(w, n, priority, k)
        /\ smp' = [smp EXCEPT ![s] = [counter |-> 0, waiting_tasks |-> FillHole(w, n, k),
                                     TaskTracker |-> n - 1]]
  BY DEF SignalWake
<1> DEFINE t == w[k]
<1>2. /\ WellFormed(w, n) /\ k \in 0 .. n - 1 /\ smp \in [Semaphores -> SemaphoreType]
      /\ smp[s].counter # 1
  BY <1>1 DEF IInv, TypeOK, WellQueued, NoWaiterOnFree, SignalWake, Winner
<1>3. t \in Tasks /\ t \in SemWaiters(s)
  BY <1>2 DEF WellFormed, SemWaiters, Waiters
<1>4. \A u \in SemWaiters(s) : priority[u] <= priority[t]
  <2>1. \A i \in 0 .. n - 1 : priority[w[i]] <= priority[t]
    BY <1>1 DEF Winner
  <2> QED BY <2>1 DEF SemWaiters, Waiters
<1>5. /\ Signalled' = Signalled
      /\ SignalWaiters' = [SignalWaiters EXCEPT ![s] = SemWaiters(s) \ {t}]
  <2>1. Waiters(FillHole(w, n, k), n - 1) = SemWaiters(s) \ {t}
    BY <1>2, FillHoleRemoves DEF SemWaiters
  <2>2. /\ smp'[s].counter = 0 /\ smp'[s].waiting_tasks = FillHole(w, n, k)
        /\ smp'[s].TaskTracker = n - 1
        /\ \A r \in Semaphores \ {s} : smp'[r] = smp[r]
    BY <1>1, <1>2
  <2>3. Signalled' = Signalled
    BY <2>2, <1>2 DEF Signalled
  <2>4. /\ SemWaiters(s)' = SemWaiters(s) \ {t}
        /\ \A r \in Semaphores \ {s} : SemWaiters(r)' = SemWaiters(r)
    BY <2>1, <2>2 DEF SemWaiters
  <2> QED BY <2>3, <2>4 DEF SignalWaiters
<1> HIDE DEF t
<1>6. PICK u \in Tasks : u = t
  BY <1>3
<1>7. Sem!Wake(s, u)
  BY <1>2, <1>3, <1>4, <1>5, <1>6 DEF Sem!Wake, Signalled, SignalWaiters
<1> QED BY <1>7 DEF Sem!Next

\* The semaphores are binary semaphores with priority-ordered wake-up
\* (Kernel/Semaphore.c).
THEOREM SemaphoresAreBinary == Spec => ImplementsSemaphore
<1>1. IInv /\ [Next]_vars => [Sem!Next]_(Sem!semVars)
  <2> SUFFICES ASSUME IInv, [Next]_vars PROVE Sem!Next \/ UNCHANGED Sem!semVars
    OBVIOUS
  <2>1. CASE UNCHANGED smp
    BY <2>1 DEF Sem!semVars, SemWaiters
  <2>2. CASE SleepOrSignal
    BY <2>1, <2>2, TakeStep, WaitStep, PostStep, WakeStep
       DEF SleepOrSignal, OS_Wait, OS_Signal
  <2> QED BY <2>1, <2>2 DEF Next, Background, MutexCall, vars
<1> QED BY SemInit, <1>1, KernelInvariant, PTL DEF Spec, ImplementsSemaphore, Sem!Spec

-----------------------------------------------------------------------------
(* Orderly clients: priority inheritance works, and ends, and the CPU      *)
(* always executes the most important task.                                *)

\* An orderly step is a step of the kernel, so all of KernelProofs applies.
LEMMA OrderlyIsNext == [OrderlyNext]_vars => [Next]_vars
BY DEF OrderlyNext, Next, OrderlyMutexCall, NestingMutexCall, MutexCall

\* The parts of the invariant that are about mutexes and priorities.
MutexInv == OwnsOne /\ BaseRemembered /\ PriorityRestored /\ OwnerInherits

LEMMA OrderlyInitInv == Init => OrderlyInv
<1> SUFFICES ASSUME Init PROVE OrderlyInv
  OBVIOUS
<1>1. \A m \in Mutexes : MutexWaiters(m) = {} /\ mx[m].owner = NULL
  BY DEF Init, Mutex_Init, MutexWaiters, Waiters
<1>2. OwnsOne /\ BaseRemembered /\ OwnerInherits
  BY <1>1 DEF OwnsOne, OwnersNeverWait, BaseRemembered, OwnerInherits
<1>3. PriorityRestored
  BY DEF Init, CoreInit, PriorityRestored
<1>4. HighestRuns
  BY TasksAssumption DEF Init, CoreInit, HighestRuns, Tasks
<1> QED BY <1>2, <1>3, <1>4, InitInv DEF OrderlyInv

\* Nobody waits in an empty queue.
LEMMA NoneWaits ==
  ASSUME NEW m \in Mutexes, mx[m].TaskTracker = 0
  PROVE  MutexWaiters(m) = {}
<1>1. 0 .. mx[m].TaskTracker - 1 = {}
  OBVIOUS
<1> QED BY <1>1 DEF MutexWaiters, Waiters

\* Steps that change neither a mutex nor a priority.
LEMMA MutexesUnchanged ==
  ASSUME MutexInv, UNCHANGED <<mx, priority>>
  PROVE  MutexInv'
BY DEF MutexInv, OwnsOne, OwnersNeverWait, BaseRemembered, PriorityRestored, OwnerInherits, OwnedBy, MutexWaiters

\* Mutex_Lock on a free mutex by a task that owns none.
LEMMA LockTakeOrderly ==
  ASSUME IInv, MutexInv, NEW m \in Mutexes, OwnedBy(CurrentTask) = {}, LockTake(m)
  PROVE  MutexInv'
<1>1. /\ CurrentTask \in Tasks /\ CurrentTask # NULL
      /\ mx \in [Mutexes -> MutexType] /\ UNCHANGED priority
      /\ mx[m].TaskTracker = 0 /\ mx[m].owner = NULL
  BY TasksAssumption DEF IInv, TypeOK, CoreTypeOK, NoWaiterOnFree, LockTake, coreVars, Tasks, NULL
<1>2. /\ mx'[m].owner = CurrentTask /\ mx'[m].OriginalPriority = priority[CurrentTask]
      /\ mx'[m].TaskTracker = 0 /\ mx'[m].waiting_tasks = mx[m].waiting_tasks
      /\ \A q \in Mutexes \ {m} : mx'[q] = mx[q]
  BY <1>1 DEF LockTake
<1>3. MutexWaiters(m)' = {} /\ \A q \in Mutexes : MutexWaiters(q)' = MutexWaiters(q)
  BY <1>1, <1>2 DEF MutexWaiters, Waiters
<1>4. /\ \A q \in Mutexes : mx[q].owner # CurrentTask
      /\ \A q \in Mutexes : CurrentTask \notin MutexWaiters(q)
      /\ priority[CurrentTask] = BasePriority[CurrentTask]
  BY <1>1, CurrentIsFree, QueuedIff DEF OwnedBy, LockTake, MutexInv, PriorityRestored
<1>5. OwnsOne' /\ BaseRemembered' /\ OwnerInherits'
  BY <1>1, <1>2, <1>3, <1>4 DEF MutexInv, OwnsOne, OwnersNeverWait, BaseRemembered, OwnerInherits
<1>6. PriorityRestored'
  <2> SUFFICES ASSUME NEW t \in Tasks, OwnedBy(t)' = {} PROVE priority[t] = BasePriority[t]
    BY <1>1 DEF PriorityRestored
  <2>1. \A q \in Mutexes : mx'[q].owner # t
    BY DEF OwnedBy
  <2>2. \A q \in Mutexes : mx[q].owner # t
    BY <2>1, <1>1, <1>2, TasksAssumption DEF Tasks, NULL
  <2> QED BY <2>2 DEF OwnedBy, MutexInv, PriorityRestored
<1> QED BY <1>5, <1>6 DEF MutexInv

\* Mutex_Lock on a held mutex by a task that owns none: the owner, who waits
\* for no mutex, gets at least the priority of the new waiter.
LEMMA LockBlockOrderly ==
  ASSUME IInv, MutexInv, NEW m \in Mutexes, OwnedBy(CurrentTask) = {}, CurrentTask # Idle,
         LockBlock(m)
  PROVE  MutexInv'
<1> DEFINE o == mx[m].owner
<1>1. /\ CurrentTask \in Tasks /\ mx \in [Mutexes -> MutexType]
      /\ o # NULL /\ o \in Tasks /\ priority \in [Tasks -> 0 .. Int8Max]
  BY DEF IInv, TypeOK, CoreTypeOK, NoWaiterOnFree, LockBlock, MutexType
<1>2. /\ mx'[m].owner = o /\ mx'[m].OriginalPriority = mx[m].OriginalPriority
      /\ mx'[m].TaskTracker = mx[m].TaskTracker + 1
      /\ mx'[m].waiting_tasks = Enlist(mx[m].waiting_tasks, mx[m].TaskTracker, CurrentTask)
      /\ \A q \in Mutexes \ {m} : mx'[q] = mx[q]
  BY <1>1 DEF LockBlock
<1>3. /\ MutexWaiters(m)' = MutexWaiters(m) \cup {CurrentTask}
      /\ \A q \in Mutexes \ {m} : MutexWaiters(q)' = MutexWaiters(q)
  <2>1. WellFormed(mx[m].waiting_tasks, mx[m].TaskTracker)
    BY DEF IInv, WellQueued
  <2>2. CurrentTask \notin MutexWaiters(m) /\ Idle \notin MutexWaiters(m)
    BY CurrentIsFree, QueuedIff DEF LockBlock
  <2>3. mx[m].TaskTracker + 1 \in Tasks
    BY <2>1, <2>2, <1>1, QueueHasRoom DEF MutexWaiters
  <2> QED BY <1>1, <1>2, <2>1, <2>2, <2>3, EnlistAdds DEF MutexWaiters
<1>4. /\ \A q \in Mutexes : mx[q].owner # CurrentTask /\ mx'[q].owner = mx[q].owner
      /\ \A q \in Mutexes \ {m} : mx[q].owner # o
      /\ \A q \in Mutexes : o \notin MutexWaiters(q)
  BY <1>1, <1>2 DEF OwnedBy, MutexInv, OwnsOne, OwnersNeverWait
<1>5. /\ priority'[o] >= priority[CurrentTask] /\ priority'[o] >= priority[o]
      /\ priority' \in [Tasks -> 0 .. Int8Max]
      /\ \A t \in Tasks \ {o} : priority'[t] = priority[t]
  <2>1. CASE priority[CurrentTask] > priority[o]
    <3>1. priority' = [priority EXCEPT ![o] = priority[CurrentTask]]
      BY <2>1 DEF LockBlock, Inherited
    <3> HIDE DEF o
    <3> QED BY <2>1, <3>1, <1>1 DEF Int8Max
  <2>2. CASE ~(priority[CurrentTask] > priority[o])
    <3>1. priority' = priority
      BY <2>2 DEF LockBlock, Inherited
    <3> HIDE DEF o
    <3> QED BY <2>2, <3>1, <1>1 DEF Int8Max
  <2> QED BY <2>1, <2>2
<1>6. OwnsOne'
  BY <1>1, <1>3, <1>4 DEF MutexInv, OwnsOne, OwnersNeverWait
<1>7. BaseRemembered'
  <2>1. mx'[m].TaskTracker # 0
    BY <1>1, <1>2, TasksAssumption DEF MutexType, Tasks
  <2>2. \A q \in Mutexes \ {m} : mx[q].owner # NULL => mx[q].owner \in Tasks \ {o}
    BY <1>1, <1>4 DEF MutexType
  <2> QED BY <1>2, <1>4, <1>5, <2>1, <2>2 DEF MutexInv, BaseRemembered
<1>8. PriorityRestored'
  <2> SUFFICES ASSUME NEW t \in Tasks, OwnedBy(t)' = {} PROVE priority'[t] = BasePriority[t]
    BY DEF PriorityRestored
  <2>1. t # o /\ OwnedBy(t) = {}
    BY <1>4 DEF OwnedBy
  <2> QED BY <2>1, <1>5 DEF MutexInv, PriorityRestored
<1>9. OwnerInherits'
  <2> SUFFICES ASSUME NEW q \in Mutexes, NEW t \in MutexWaiters(q)'
               PROVE  priority'[t] <= priority'[mx'[q].owner]
    BY DEF OwnerInherits
  <2>1. t \in Tasks /\ (t \in MutexWaiters(q) \/ (t = CurrentTask /\ q = m))
    BY <1>1, <1>3, QueuedAreTasks, QueuedIff
  <2>2. t # o /\ priority'[t] = priority[t] /\ priority[t] \in 0 .. Int8Max
    BY <2>1, <1>1, <1>4, <1>5
  <2>3. CASE t = CurrentTask /\ q = m
    BY <2>2, <2>3, <1>2, <1>5
  <2>4. CASE t \in MutexWaiters(q)
    <3>1. priority[t] <= priority[mx[q].owner] /\ mx[q].owner \in Tasks
      <4>1. mx[q].TaskTracker # 0
        BY <2>4, NoneWaits
      <4>2. mx[q].owner # NULL /\ mx[q] \in MutexType
        BY <4>1, <1>1 DEF IInv, NoWaiterOnFree
      <4> QED BY <2>4, <4>2 DEF MutexInv, OwnerInherits, MutexType
    <3>2. /\ priority'[mx[q].owner] >= priority[mx[q].owner]
          /\ priority[mx[q].owner] \in 0 .. Int8Max /\ priority'[mx[q].owner] \in 0 .. Int8Max
      BY <3>1, <1>1, <1>5 DEF Int8Max
    <3>3. mx'[q].owner = mx[q].owner
      BY <1>4
    <3>4. priority[t] <= priority'[mx[q].owner]
      <4> DEFINE p == priority[t]
                 b == priority[mx[q].owner]
                 a == priority'[mx[q].owner]
      <4>1. p \in Nat /\ b \in Nat /\ a \in Nat /\ p <= b /\ a >= b
        BY <3>1, <3>2, <2>2 DEF Int8Max
      <4> HIDE DEF p, b, a
      <4>2. p <= a
        BY <4>1
      <4> QED BY <4>2 DEF p, a
    <3> QED BY <3>3, <3>4, <2>2
  <2> QED BY <2>1, <2>3, <2>4
<1> QED BY <1>6, <1>7, <1>8, <1>9 DEF MutexInv

\* Mutex_Unlock with nobody waiting: the priority was never raised, or the
\* task that raised it is gone, so nothing changes but the ownership.
LEMMA UnlockFreeOrderly ==
  ASSUME IInv, MutexInv, NEW m \in Mutexes, UnlockFree(m)
  PROVE  MutexInv' /\ UNCHANGED priority
<1>1. /\ CurrentTask \in Tasks /\ CurrentTask # NULL /\ mx \in [Mutexes -> MutexType]
      /\ priority \in [Tasks -> 0 .. Int8Max] /\ mx[m].owner = CurrentTask
  BY TasksAssumption DEF IInv, TypeOK, CoreTypeOK, UnlockFree, Tasks, NULL
<1>2. UNCHANGED priority /\ priority[CurrentTask] = BasePriority[CurrentTask]
  <2>1. mx[m].OriginalPriority = priority[CurrentTask] /\ priority[CurrentTask] = BasePriority[CurrentTask]
    BY <1>1 DEF UnlockFree, MutexInv, BaseRemembered
  <2> QED BY <2>1, <1>1 DEF UnlockFree, Restored
<1>3. /\ mx'[m].owner = NULL /\ mx'[m].TaskTracker = mx[m].TaskTracker
      /\ mx'[m].waiting_tasks = mx[m].waiting_tasks
      /\ \A q \in Mutexes \ {m} : mx'[q] = mx[q]
  BY <1>1 DEF UnlockFree
<1>4. MutexWaiters(m)' = {} /\ \A q \in Mutexes : MutexWaiters(q)' = MutexWaiters(q)
  <2>1. MutexWaiters(m) = {}
    BY NoneWaits DEF UnlockFree
  <2> QED BY <2>1, <1>3 DEF MutexWaiters
<1>5. OwnsOne'
  <2>1. NULL \notin Queued
    BY QueuedAreTasks, TasksAssumption DEF Tasks, NULL
  <2>2. \A q \in Mutexes : NULL \notin MutexWaiters(q)
    BY <2>1, QueuedIff
  <2> QED BY <2>2, <1>3, <1>4 DEF MutexInv, OwnsOne, OwnersNeverWait
<1>6. BaseRemembered' /\ OwnerInherits'
  BY <1>2, <1>3, <1>4 DEF MutexInv, BaseRemembered, OwnerInherits
<1>7. PriorityRestored'
  <2> SUFFICES ASSUME NEW t \in Tasks, OwnedBy(t)' = {}, t # CurrentTask
               PROVE  priority[t] = BasePriority[t]
    BY <1>2 DEF PriorityRestored
  <2>1. \A q \in Mutexes : mx'[q].owner # t
    BY DEF OwnedBy
  <2>2. \A q \in Mutexes : mx[q].owner # t
    BY <2>1, <1>1, <1>3
  <2> QED BY <2>2 DEF OwnedBy, MutexInv, PriorityRestored
<1> QED BY <1>2, <1>5, <1>6, <1>7 DEF MutexInv

\* Mutex_Unlock with waiters: the old owner falls back to its base priority,
\* the new one is at least as important as those that still wait.
LEMMA UnlockHandOverOrderly ==
  ASSUME IInv, MutexInv, NEW m \in Mutexes, UnlockHandOver(m)
  PROVE  MutexInv'
<1> DEFINE w == mx[m].waiting_tasks
           n == mx[m].TaskTracker
           c == CurrentTask
<1>1. PICK k \in Tasks :
        /\ Winner(w, n, Restored(m), k)
        /\ mx' = [mx EXCEPT ![m] = [owner |-> w[k], counter |-> 0,
                                   waiting_tasks |-> FillHole(w, n, k), TaskTracker |-> n - 1,
                                   OriginalPriority |-> Restored(m)[w[k]]]]
  BY DEF UnlockHandOver, HandedTo
<1> DEFINE new == w[k]
<1>2. /\ c \in Tasks /\ mx \in [Mutexes -> MutexType] /\ mx[m].owner = c /\ c # NULL
      /\ priority \in [Tasks -> 0 .. Int8Max] /\ WellFormed(w, n) /\ k \in 0 .. n - 1
  BY <1>1, TasksAssumption
     DEF IInv, TypeOK, CoreTypeOK, UnlockHandOver, WellQueued, Winner, Tasks, NULL
<1>3. /\ new \in MutexWaiters(m) /\ new \in Tasks /\ new # NULL
      /\ \A t \in MutexWaiters(m) : Restored(m)[t] <= Restored(m)[new]
  <2>1. new \in MutexWaiters(m) /\ new \in Tasks /\ new # NULL
    BY <1>2, TasksAssumption DEF WellFormed, MutexWaiters, Waiters, Tasks, NULL
  <2>2. \A i \in 0 .. n - 1 : Restored(m)[w[i]] <= Restored(m)[new]
    BY <1>1 DEF Winner
  <2> QED BY <2>1, <2>2 DEF MutexWaiters, Waiters
<1>4. /\ mx'[m].owner = new /\ mx'[m].OriginalPriority = Restored(m)[new]
      /\ \A q \in Mutexes \ {m} : mx'[q] = mx[q]
  BY <1>1, <1>2
<1>5. /\ MutexWaiters(m)' = MutexWaiters(m) \ {new}
      /\ \A q \in Mutexes \ {m} : MutexWaiters(q)' = MutexWaiters(q)
  <2>1. Waiters(FillHole(w, n, k), n - 1) = Waiters(w, n) \ {w[k]}
    BY <1>2, FillHoleRemoves
  <2> QED BY <2>1, <1>1, <1>2 DEF MutexWaiters
<1>6. /\ \A q \in Mutexes : c \notin MutexWaiters(q) /\ mx[q].owner # new
      /\ \A q \in Mutexes \ {m} : mx[q].owner # c /\ new \notin MutexWaiters(q)
  <2>1. \A q \in Mutexes : c \notin MutexWaiters(q)
    BY CurrentIsFree, QueuedIff DEF UnlockHandOver
  <2>2. \A q \in Mutexes : mx[q].owner # new
    BY <1>3 DEF MutexInv, OwnsOne, OwnersNeverWait
  <2>3. \A q \in Mutexes \ {m} : mx[q].owner # c /\ new \notin MutexWaiters(q)
    BY <1>2, <1>3 DEF MutexInv, OwnsOne, OwnersNeverWait, IInv, WaitsOnce
  <2> QED BY <2>1, <2>2, <2>3
<1>7. /\ priority' = Restored(m) /\ priority'[c] = BasePriority[c]
      /\ \A t \in Tasks \ {c} : priority'[t] = priority[t]
  BY <1>2 DEF UnlockHandOver, Restored, MutexInv, BaseRemembered
<1>8. new # c /\ priority'[new] = BasePriority[new]
  <2>1. OwnedBy(new) = {}
    BY <1>6 DEF OwnedBy
  <2> QED BY <2>1, <1>3, <1>6, <1>7 DEF MutexInv, PriorityRestored
<1> HIDE DEF new, c
<1>9. OwnsOne'
  BY <1>4, <1>5, <1>6 DEF MutexInv, OwnsOne, OwnersNeverWait
<1>10. BaseRemembered'
  <2>1. \A q \in Mutexes \ {m} : mx[q].owner # NULL => mx[q].owner \in Tasks \ {c}
    BY <1>2, <1>6 DEF MutexType
  <2> QED BY <2>1, <1>4, <1>7, <1>8 DEF MutexInv, BaseRemembered
<1>11. OwnerInherits'
  <2> SUFFICES ASSUME NEW q \in Mutexes, NEW t \in MutexWaiters(q)'
               PROVE  priority'[t] <= priority'[mx'[q].owner]
    BY DEF OwnerInherits
  <2>1. CASE q = m
    BY <2>1, <1>3, <1>4, <1>5, <1>7
  <2>2. CASE q # m
    <3>1. t \in MutexWaiters(q) /\ mx'[q] = mx[q] /\ t \in Tasks \ {c}
      BY <2>2, <1>4, <1>5, <1>6, QueuedIff, QueuedAreTasks
    <3>2. mx[q].owner \in Tasks \ {c}
      <4>1. mx[q].TaskTracker # 0
        BY <3>1, NoneWaits
      <4>2. mx[q].owner # NULL /\ mx[q] \in MutexType
        BY <4>1, <1>2 DEF IInv, NoWaiterOnFree
      <4> QED BY <4>2, <2>2, <1>6 DEF MutexType
    <3> QED BY <3>1, <3>2, <1>7 DEF MutexInv, OwnerInherits
  <2> QED BY <2>1, <2>2
<1>12. PriorityRestored'
  <2> SUFFICES ASSUME NEW t \in Tasks, OwnedBy(t)' = {}, t # c
               PROVE  priority'[t] = BasePriority[t]
    BY <1>7 DEF PriorityRestored
  <2>1. \A q \in Mutexes : mx'[q].owner # t
    BY DEF OwnedBy
  <2>2. \A q \in Mutexes : mx[q].owner # t
    BY <2>1, <1>2, <1>4
  <2> QED BY <2>2, <1>7 DEF OwnedBy, MutexInv, PriorityRestored
<1> QED BY <1>9, <1>10, <1>11, <1>12 DEF MutexInv

\* Every orderly step preserves the parts about mutexes.
LEMMA OrderlyMutexInv ==
  ASSUME IInv, MutexInv, [OrderlyNext]_vars
  PROVE  MutexInv'
<1>1. CASE Background
  BY <1>1, MutexesUnchanged
     DEF Background, SysTick_Handler, PendSV_Entry, PendSV_Handler, StackOverrun
<1>2. CASE SleepOrSignal
  <2>1. UNCHANGED <<mx, priority>>
    BY <1>2 DEF SleepOrSignal, OS_Sleep, OS_Wait, WaitTake, WaitBlock,
                OS_Signal, SignalStore, SignalWake, coreVars
  <2> QED BY <2>1, MutexesUnchanged
<1>3. ASSUME NEW m \in Mutexes, OrderlyMutexCall(m)
      PROVE  MutexInv'
  <2>1. CASE m \notin OwnedBy(CurrentTask) /\ Mutex_Lock(m)
    <3>1. OwnedBy(CurrentTask) = {} /\ CurrentTask # Idle
      BY <1>3, <2>1 DEF OrderlyMutexCall, NestingMutexCall
    <3> QED BY <2>1, <3>1, LockTakeOrderly, LockBlockOrderly DEF Mutex_Lock
  <2>2. CASE m \in OwnedBy(CurrentTask) /\ Mutex_Unlock(m)
    <3>1. mx[m].owner = CurrentTask
      BY <2>2 DEF OwnedBy
    <3> QED BY <2>2, <3>1, UnlockFreeOrderly, UnlockHandOverOrderly DEF Mutex_Unlock, UnlockFault
  <2> QED BY <1>3, <2>1, <2>2 DEF OrderlyMutexCall, NestingMutexCall
<1>4. CASE UNCHANGED vars
  BY <1>4, MutexesUnchanged DEF vars, coreVars
<1> QED BY <1>1, <1>2, <1>3, <1>4 DEF OrderlyNext

-----------------------------------------------------------------------------
(* Who executes.                                                           *)

\* The scheduler leaves no READY task above the one it picks.
LEMMA ScheduleHighest ==
  ASSUME IInv, PendSV_Handler
  PROVE  \A t \in Tasks : state'[t] = "READY" => priority'[t] <= priority'[CurrentTask']
<1>1. PICK next \in Tasks :
        /\ Selected(next)
        /\ CurrentTask' = next
        /\ state' = [t \in Tasks |-> IF t = next THEN "RUNNING"
                                     ELSE IF t \in Eligible THEN "READY" ELSE state[t]]
  BY DEF PendSV_Handler, OS_Schedule
<1> SUFFICES ASSUME NEW t \in Tasks, state'[t] = "READY"
             PROVE  priority[t] <= priority[next]
  BY <1>1 DEF PendSV_Handler
<1>2. t \in Eligible
  BY <1>1 DEF Eligible
<1>3. Beats(next, t)
  BY <1>1, <1>2 DEF Selected
<1>4. priority[t] \in Nat /\ priority[next] \in Nat
  BY DEF IInv, TypeOK, CoreTypeOK, Int8Max
<1> QED BY <1>3, <1>4 DEF Beats

\* A call that could make another task more important than the running one
\* requests a switch, and until it has happened no task code executes.
LEMMA HighestRunsInv ==
  ASSUME IInv, MutexInv, HighestRuns, [OrderlyNext]_vars
  PROVE  HighestRuns'
<1> USE DEF ThreadMode
<1>1. CASE SysTick_Handler
  BY <1>1 DEF SysTick_Handler, OS_Fault, HighestRuns
<1>2. CASE PendSV_Entry
  BY <1>2 DEF PendSV_Entry, HighestRuns
<1>3. CASE PendSV_Handler
  BY <1>3, ScheduleHighest DEF HighestRuns
<1>4. CASE UNCHANGED <<CurrentTask, state, priority, pendsv, inPendSV, fault>>
  BY <1>4 DEF HighestRuns
<1>5. CASE pendsv' = TRUE \/ fault' = TRUE
  BY <1>5 DEF HighestRuns
<1>6. CASE SleepOrSignal
  BY <1>4, <1>5, <1>6 DEF SleepOrSignal, OS_Sleep, OS_Wait, WaitTake, WaitBlock,
                          OS_Signal, SignalStore, SignalWake, coreVars
<1>7. ASSUME NEW m \in Mutexes, OrderlyMutexCall(m)
      PROVE  HighestRuns'
  <2>1. CASE Mutex_Lock(m)
    BY <2>1, <1>4, <1>5 DEF Mutex_Lock, LockTake, LockBlock, coreVars
  <2>2. CASE UnlockFree(m)
    BY <2>2, <1>4, UnlockFreeOrderly DEF UnlockFree
  <2>3. CASE UnlockHandOver(m) \/ UnlockFault(m)
    BY <2>3, <1>5 DEF UnlockHandOver, UnlockFault, OS_Fault
  <2> QED BY <1>7, <2>1, <2>2, <2>3 DEF OrderlyMutexCall, NestingMutexCall, Mutex_Unlock
<1> QED BY <1>1, <1>2, <1>3, <1>4, <1>6, <1>7
        DEF OrderlyNext, Background, StackOverrun, vars, coreVars

-----------------------------------------------------------------------------
\* The conjunction of everything below is inductive for orderly clients.
THEOREM OrderlyInvariant == OrderlySpec => []OrderlyInv
<1>1. OrderlyInv /\ [OrderlyNext]_vars => OrderlyInv'
  <2> SUFFICES ASSUME OrderlyInv, [OrderlyNext]_vars PROVE OrderlyInv'
    OBVIOUS
  <2>1. IInv /\ MutexInv /\ HighestRuns
    BY DEF OrderlyInv, MutexInv
  <2>2. IInv'
    BY <2>1, OrderlyIsNext, NextEffect
  <2>3. MutexInv' /\ HighestRuns'
    BY <2>1, OrderlyMutexInv, HighestRunsInv
  <2> QED BY <2>2, <2>3 DEF OrderlyInv, MutexInv
<1> QED BY OrderlyInitInv, <1>1, PTL DEF OrderlySpec

\* Priority inheritance (Kernel/Mutex.c, Mutex_Lock): the owner of a mutex
\* is never less important than a task that waits for it.
THEOREM InheritanceWorks == OrderlySpec => []OwnerInherits
<1>1. OrderlyInv => OwnerInherits
  BY DEF OrderlyInv
<1> QED BY OrderlyInvariant, <1>1, PTL

\* ... and its end (Mutex_Unlock): without a mutex a task has the priority
\* it was created with.
THEOREM InheritanceEnds == OrderlySpec => []PriorityRestored
<1>1. OrderlyInv => PriorityRestored
  BY DEF OrderlyInv
<1> QED BY OrderlyInvariant, <1>1, PTL

\* No READY task is more important than the one whose code executes.
THEOREM HighestPriorityRuns == OrderlySpec => []HighestRuns
<1>1. OrderlyInv => HighestRuns
  BY DEF OrderlyInv
<1> QED BY OrderlyInvariant, <1>1, PTL

\* Orderly clients never wait for one another in a circle: no owner waits
\* (Kernel/Mutex.c).
THEOREM NoMutualWait == OrderlySpec => []OwnersNeverWait
<1>1. OrderlyInv => OwnersNeverWait
  BY DEF OrderlyInv, OwnsOne, OwnersNeverWait
<1> QED BY OrderlyInvariant, <1>1, PTL
=============================================================================
