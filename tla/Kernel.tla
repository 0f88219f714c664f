------------------------------- MODULE Kernel -------------------------------
(***************************************************************************)
(* The kernel as its clients see it: the core, the semaphores and the      *)
(* mutexes over one set of task control blocks.  Tasks call whatever they  *)
(* like whenever they run; only the idle task calls nothing.               *)
(***************************************************************************)
EXTENDS Semaphore, Mutex

vars == <<coreVars, smp, mx>>

Init == CoreInit /\ OS_SemaphoreInit /\ Mutex_Init

\* A tick, a context switch, or a stack overrun: nothing a task asked for.
Background ==
  /\ SysTick_Handler \/ PendSV_Entry \/ PendSV_Handler \/ StackOverrun
  /\ UNCHANGED <<smp, mx>>

\* The calls that leave the mutexes alone.
SleepOrSignal ==
  /\ CurrentTask # Idle
  /\ \/ \E n \in SleepTicks : OS_Sleep(n) /\ UNCHANGED smp
     \/ \E s \in Semaphores : OS_Wait(s) \/ OS_Signal(s)
  /\ UNCHANGED mx

MutexCall(m) ==
  /\ CurrentTask # Idle
  /\ Mutex_Lock(m) \/ Mutex_Unlock(m)
  /\ UNCHANGED smp

Next == Background \/ SleepOrSignal \/ \E m \in Mutexes : MutexCall(m)

Spec == Init /\ [][Next]_vars

-----------------------------------------------------------------------------
(* Clients that lock a mutex they do not own and unlock one they own.      *)
NestingMutexCall(m) ==
  /\ CurrentTask # Idle
  /\ \/ m \notin OwnedBy(CurrentTask) /\ Mutex_Lock(m)
     \/ m \in OwnedBy(CurrentTask) /\ Mutex_Unlock(m)
  /\ UNCHANGED smp

NestingNext ==
  Background \/ SleepOrSignal \/ \E m \in Mutexes : NestingMutexCall(m)

NestingSpec == Init /\ [][NestingNext]_vars

\* The clients that docs/code_snippets.md tests: they never own two mutexes.
OrderlyMutexCall(m) == OwnedBy(CurrentTask) \subseteq {m} /\ NestingMutexCall(m)

OrderlyNext ==
  Background \/ SleepOrSignal \/ \E m \in Mutexes : OrderlyMutexCall(m)

OrderlySpec == Init /\ [][OrderlyNext]_vars

-----------------------------------------------------------------------------
(* The SysTick timer is never stopped and a pending PendSV is served once   *)
(* no other handler runs.  Nothing is assumed of the tasks.                *)
Fairness ==
  /\ WF_vars(SysTick_Handler /\ UNCHANGED <<smp, mx>>)
  /\ WF_vars(PendSV_Entry /\ UNCHANGED <<smp, mx>>)
  /\ WF_vars(PendSV_Handler /\ UNCHANGED <<smp, mx>>)

FairSpec == Spec /\ Fairness

-----------------------------------------------------------------------------
(* Invariants for clients that call anything.                              *)

\* Every field holds a value of its C type, and every wait queue has room
\* for one more entry before waiting_tasks would be written past its end.
TypeOK ==
  /\ CoreTypeOK
  /\ smp \in [Semaphores -> SemaphoreType]
  /\ mx \in [Mutexes -> MutexType]

\* The tasks that some queue of the kernel holds.
Queued ==
  (UNION {SemWaiters(s) : s \in Semaphores}) \cup (UNION {MutexWaiters(m) : m \in Mutexes})

\* Only the task whose context is loaded is RUNNING, so a context switch
\* never leaves a second one behind (OS_Schedule's hand-over of state).
OneRunning == \A t \in Tasks : state[t] = "RUNNING" => t = CurrentTask

\* A task that blocked itself executes nothing more: the switch it asked
\* for is still under way; and the scheduler always has the idle task.
BlockedLeavesCPU ==
  /\ state[CurrentTask] = "BLOCKED" => ~ThreadMode
  /\ state[Idle] # "BLOCKED"

\* A BLOCKED task is asleep or in a queue, so something can still wake it:
\* no sequence of calls strands a task.
NoLostTask ==
  \A t \in Tasks : state[t] = "BLOCKED" => ticks[t] > 0 \/ t \in Queued

\* A queued task is BLOCKED and not also asleep: the tick cannot wake it
\* behind the queue's back and leave a stale entry.
WaitersBlocked == \A t \in Queued : state[t] = "BLOCKED" /\ ticks[t] = 0

\* A task waits in one place only: waking it removes its only entry.
WaitsOnce ==
  /\ \A s \in Semaphores : Distinct(smp[s].waiting_tasks, smp[s].TaskTracker)
  /\ \A m \in Mutexes : Distinct(mx[m].waiting_tasks, mx[m].TaskTracker)
  /\ \A s, r \in Semaphores : s # r => SemWaiters(s) \cap SemWaiters(r) = {}
  /\ \A m, q \in Mutexes : m # q => MutexWaiters(m) \cap MutexWaiters(q) = {}
  /\ \A s \in Semaphores, m \in Mutexes : SemWaiters(s) \cap MutexWaiters(m) = {}

\* Nobody waits for what is free: a remembered signal or an unlocked mutex
\* with a waiter in its queue would be a lost wake-up.
NoWaiterOnFree ==
  /\ \A s \in Semaphores : smp[s].counter # 0 => smp[s].TaskTracker = 0
  /\ \A m \in Mutexes : /\ mx[m].counter = 0 <=> mx[m].owner # NULL
                        /\ mx[m].counter # 0 => mx[m].TaskTracker = 0

\* Priorities are lent: however calls are mixed and mutexes nested, nobody falls
\* below its own priority, not even when Mutex_Unlock drops what it inherited
\* through another mutex, and what a task has above it is the base priority of
\* another.
PrioritiesLent ==
  \A t \in Tasks :
    /\ BasePriority[t] <= priority[t]
    /\ \E u \in Tasks : priority[t] = BasePriority[u]

\* A task stops being BLOCKED only because its own sleep ran out or because
\* it left the queue it waited in: no wake-up is spurious.
WokenForAReason ==
  [][\A t \in Tasks : state[t] = "BLOCKED" /\ state'[t] = "READY" =>
       (ticks[t] = 1 /\ ticks'[t] = 0) \/ (t \in Queued /\ t \notin Queued')]_vars

\* The mutexes implement their abstract specification: one owner each, and an
\* unlock hands ownership straight to a waiter of the highest priority.
Lock == INSTANCE PriorityLock WITH
  Locks <- Mutexes, Clients <- Tasks, Nobody <- NULL, \preceq <- <=,
  holder <- [m \in Mutexes |-> mx[m].owner],
  waiters <- [m \in Mutexes |-> MutexWaiters(m)],
  prio <- priority

ImplementsLock == Lock!Spec

\* The semaphores implement theirs: a signal releases exactly one waiter of
\* the highest priority, and is remembered only when there is none.
Sem == INSTANCE BinarySemaphore WITH
  Sems <- Semaphores, Clients <- Tasks, \preceq <- <=,
  signalled <- {s \in Semaphores : smp[s].counter = 1},
  waiters <- [s \in Semaphores |-> SemWaiters(s)],
  prio <- priority

ImplementsSemaphore == Sem!Spec

-----------------------------------------------------------------------------
(* What the proofs need besides (KernelProofs.tla).                        *)

\* Every queue has as many entries as TaskTracker says, all different tasks.
WellQueued ==
  /\ \A s \in Semaphores : WellFormed(smp[s].waiting_tasks, smp[s].TaskTracker)
  /\ \A m \in Mutexes : WellFormed(mx[m].waiting_tasks, mx[m].TaskTracker)

\* Only a BLOCKED task has ticks left.
SleepersBlocked == \A t \in Tasks : ticks[t] > 0 => state[t] = "BLOCKED"

\* The inductive invariant: the counters and queues of all semaphores and
\* mutexes agree with the states and the ticks of the tasks.
IInv ==
  /\ TypeOK /\ WellQueued
  /\ OneRunning /\ BlockedLeavesCPU
  /\ SleepersBlocked /\ WaitersBlocked
  /\ WaitsOnce /\ NoWaiterOnFree

-----------------------------------------------------------------------------
(* Invariants for orderly clients.                                         *)

\* Priority inheritance: the owner of a mutex is never below a waiter, so
\* no task of a priority in between can keep the owner off the CPU.
OwnerInherits ==
  \A m \in Mutexes : \A t \in MutexWaiters(m) : priority[t] <= priority[mx[m].owner]

\* Inheritance ends: a task that owns no mutex has its own priority back.
PriorityRestored ==
  \A t \in Tasks : OwnedBy(t) = {} => priority[t] = BasePriority[t]

\* Whenever task code executes, after the first switch, no READY task has a
\* higher priority: every call that could change that requests a switch.
HighestRuns ==
  ThreadMode /\ state[CurrentTask] = "RUNNING" =>
    \A t \in Tasks : state[t] = "READY" => priority[t] <= priority[CurrentTask]

\* Orderly clients cannot wait for one another in a circle: the owner of a
\* mutex waits for none, also right after an unlock took it out of a queue and
\* made it the owner.
OwnersNeverWait == \A m, q \in Mutexes : mx[q].owner \notin MutexWaiters(m)

-----------------------------------------------------------------------------
(* What the proofs about orderly clients need besides (KernelProofs.tla).  *)

\* A task owns one mutex at most, and none while it waits for one.
OwnsOne ==
  /\ \A m, q \in Mutexes : mx[m].owner = mx[q].owner /\ mx[m].owner # NULL => m = q
  /\ OwnersNeverWait

\* A held mutex remembers the base priority of its owner, and an owner that
\* nobody waits for still has it.
BaseRemembered ==
  \A m \in Mutexes : mx[m].owner # NULL =>
    /\ mx[m].OriginalPriority = BasePriority[mx[m].owner]
    /\ mx[m].TaskTracker = 0 => priority[mx[m].owner] = BasePriority[mx[m].owner]

OrderlyInv ==
  /\ IInv /\ OwnsOne /\ BaseRemembered
  /\ PriorityRestored /\ OwnerInherits /\ HighestRuns

-----------------------------------------------------------------------------
(* Results of the proofs only (KernelProofs.tla).                          *)

\* What makes PrioritiesLent inductive: what a held mutex will give back to its
\* owner is lent, too.
SavedLent ==
  \A m \in Mutexes : mx[m].owner # NULL =>
    /\ BasePriority[mx[m].owner] <= mx[m].OriginalPriority
    /\ \E u \in Tasks : mx[m].OriginalPriority = BasePriority[u]

\* A sleep is neither cut short nor prolonged by what other tasks do: its
\* count only goes down, one at a time, and the task wakes with the last.
SleepsCountDown ==
  [][\A t \in Tasks : ticks[t] > 0 =>
       \/ ticks'[t] = ticks[t] /\ state'[t] = "BLOCKED"
       \/ ticks'[t] = ticks[t] - 1 /\ state'[t] = IF ticks[t] = 1 THEN "READY" ELSE "BLOCKED"]_vars

\* A task of the highest base priority that is READY is not passed over: each
\* switch loads it or brings the scan closer to its slot.
TurnComesCloser ==
  [][\A t \in Tasks :
       state[t] = "READY" /\ t # CurrentTask /\ (\A u \in Tasks : BasePriority[u] <= BasePriority[t]) =>
         \/ CurrentTask' = t /\ state'[t] = "RUNNING"
         \/ /\ state'[t] = "READY"
            /\ IF inPendSV /\ ~inPendSV'
               THEN Distance(CurrentTask', t) < Distance(CurrentTask, t)
               ELSE CurrentTask' = CurrentTask]_vars

-----------------------------------------------------------------------------
(* Liveness, unless the system halts in OS_Fault.                          *)

\* A task in OS_Sleep becomes READY: it is BLOCKED and in no queue, and the
\* ticks it asked for run out whatever the other tasks do.
SleepersWake ==
  \A t \in Tasks :
    state[t] = "BLOCKED" /\ t \notin Queued ~> state[t] = "READY" \/ fault

\* A stack overrun halts the system: the tick that sees the lost canary comes
\* whatever runs in the meantime.
OverrunHalts == \A t \in Tasks : ~canary[t] ~> fault

\* Tasks that share the highest priority take turns: none of them is passed
\* over for ever, even by one that never sleeps.
TopTasksTakeTurns ==
  \A t \in Tasks :
    state[t] = "READY" /\ (\A u \in Tasks : BasePriority[u] <= BasePriority[t])
      ~> state[t] = "RUNNING" \/ fault
=============================================================================
