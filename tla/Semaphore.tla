----------------------------- MODULE Semaphore ------------------------------
(***************************************************************************)
(* Binary semaphores (Kernel/Semaphore.c).  A call is one action; the task *)
(* that blocks leaves the CPU through the PendSV it requests.              *)
(***************************************************************************)
EXTENDS OSCore, WaitQueue

CONSTANT Semaphores \* the Semaphore objects of the application

VARIABLE smp        \* the Semaphore struct of each of them

SemaphoreType ==
  [counter : 0 .. 1, waiting_tasks : [Tasks -> Tasks \cup {NULL}], TaskTracker : Tasks]

\* The tasks waiting on semaphore s.
SemWaiters(s) == Waiters(smp[s].waiting_tasks, smp[s].TaskTracker)

\* waiting_tasks has static storage, so OS_SemaphoreInit finds it NULL.
OS_SemaphoreInit ==
  smp = [s \in Semaphores |->
          [counter |-> 0, waiting_tasks |-> NoWaiters, TaskTracker |-> 0]]

\* OS_Wait with the counter at 1: take it and go on.
WaitTake(s) ==
  /\ ThreadMode
  /\ smp[s].counter # 0
  /\ smp' = [smp EXCEPT ![s].counter = @ - 1]
  /\ UNCHANGED coreVars

\* OS_Wait with the counter at 0: block, join the queue, switch.
WaitBlock(s) ==
  /\ ThreadMode
  /\ smp[s].counter = 0
  /\ state' = [state EXCEPT ![CurrentTask] = "BLOCKED"]
  /\ smp' = [smp EXCEPT ![s] =
       [counter       |-> 0,
        waiting_tasks |-> Enlist(smp[s].waiting_tasks, smp[s].TaskTracker, CurrentTask),
        TaskTracker   |-> smp[s].TaskTracker + 1]]
  /\ pendsv' = TRUE
  /\ UNCHANGED <<CurrentTask, priority, ticks, canary, inPendSV, fault>>

OS_Wait(s) == WaitTake(s) \/ WaitBlock(s)

\* Mutants: signals are counted; and one waiter is taken for none.
SignalStoreCounts(s) ==
  /\ ThreadMode
  /\ smp[s].TaskTracker = 0
  /\ smp' = [smp EXCEPT ![s].counter = @ + 1]
  /\ UNCHANGED coreVars
SignalStoreOffByOne(s) ==
  /\ ThreadMode
  /\ smp[s].TaskTracker <= 1
  /\ smp' = [smp EXCEPT ![s].counter = 1]
  /\ UNCHANGED coreVars

\* OS_Signal with nobody waiting: leave the counter at 1, do not switch.
SignalStore(s) ==
  /\ ThreadMode
  /\ smp[s].TaskTracker = 0
  /\ smp' = [smp EXCEPT ![s].counter = 1]
  /\ UNCHANGED coreVars

\* OS_Signal with waiters: hand the signal to the winner and switch.
SignalWake(s) ==
  /\ ThreadMode
  /\ smp[s].TaskTracker > 0
  /\ \E k \in Tasks :
       /\ Winner(smp[s].waiting_tasks, smp[s].TaskTracker, priority, k)
       /\ state' = [state EXCEPT ![smp[s].waiting_tasks[k]] = "READY"]
       /\ smp' = [smp EXCEPT ![s] =
            [counter       |-> 0,
             waiting_tasks |-> FillHole(smp[s].waiting_tasks, smp[s].TaskTracker, k),
             TaskTracker   |-> smp[s].TaskTracker - 1]]
  /\ pendsv' = TRUE
  /\ UNCHANGED <<CurrentTask, priority, ticks, canary, inPendSV, fault>>

OS_Signal(s) == SignalStore(s) \/ SignalWake(s)
=============================================================================
