------------------------------- MODULE OSCore -------------------------------
(***************************************************************************)
(* The kernel core: the task control blocks, the SysTick and PendSV        *)
(* exceptions, the scheduler and OS_Sleep (Kernel/os_core.c,               *)
(* Kernel/os_asm.s, Drivers/SysTick.c).                                    *)
(*                                                                         *)
(* A task is named by its slot in task_array; a TCB* is such an index, or  *)
(* NULL.  Thread-mode code is one call per action.  The two exceptions     *)
(* interleave with it as the hardware lets them: PendSV has the lowest     *)
(* priority, so it runs when it is pending and no other handler is, and    *)
(* SysTick may still come in between PendSV's entry and its CPSID.         *)
(* OS_Ticks is left out: no code that is compiled in reads it.             *)
(***************************************************************************)
EXTENDS Scheduler

CONSTANTS
  BasePriority,    \* the priority each slot was created with
  SleepTicks,      \* the arguments tasks pass to OS_Sleep
  Overrunning      \* the tasks whose code may overrun their stack

\* A priority above Int8Max is out of the range of the scheduler's int8_t.
ASSUME PriorityAssumption ==
  BasePriority \in [Tasks -> 0 .. Int8Max] /\ BasePriority[Idle] = 0

ASSUME ClientAssumption ==
  SleepTicks \subseteq Nat /\ Overrunning \subseteq Tasks \ {Idle}

VARIABLES
  ticks,       \* TCB.ticks of each slot
  canary,      \* is tcb_array[0] of the slot still 0xDEADBEEF
  pendsv,      \* ICSR.PENDSVSET: a context switch is requested
  inPendSV,    \* PendSV is entered and has not yet executed CPSID
  fault        \* the system halted in OS_Fault

coreVars == <<CurrentTask, state, priority, ticks, canary, pendsv, inPendSV, fault>>

-----------------------------------------------------------------------------
(* The state in which Start_OS's SVC returns to the first task: every slot *)
(* was filled by Create_Task, CurrentTask is slot 0, and nobody has set    *)
(* its state to RUNNING yet.                                               *)
CoreInit ==
  /\ CurrentTask = 0
  /\ state = [t \in Tasks |-> "READY"]
  /\ priority = BasePriority
  /\ ticks = [t \in Tasks |-> 0]
  /\ canary = [t \in Tasks |-> TRUE]
  /\ pendsv = FALSE
  /\ inPendSV = FALSE
  /\ fault = FALSE

\* The CPU executes instructions of task code.
ThreadMode == ~pendsv /\ ~inPendSV /\ ~fault

\* OS_Fault masks every interrupt and never returns.
OS_Fault == fault' = TRUE

-----------------------------------------------------------------------------
(* The exceptions.                                                         *)

\* Mutants: a count of 0 wakes like a count of 1; and the count is compared
\* with 0 before it is decremented.
CountdownWakesAll(S) ==
  /\ ticks' = [t \in Tasks |-> IF t \in S /\ state[t] = "BLOCKED" /\ ticks[t] > 0
                               THEN ticks[t] - 1 ELSE ticks[t]]
  /\ state' = [t \in Tasks |-> IF t \in S /\ state[t] = "BLOCKED" /\ ticks[t] <= 1
                               THEN "READY" ELSE state[t]]
CountdownTestsFirst(S) ==
  /\ ticks' = [t \in Tasks |-> IF t \in S /\ state[t] = "BLOCKED" /\ ticks[t] > 0
                               THEN ticks[t] - 1 ELSE ticks[t]]
  /\ UNCHANGED state

\* The per-task body of SysTick_Handler's loop, for the slots in S.
Countdown(S) ==
  /\ ticks' = [t \in Tasks |-> IF t \in S /\ state[t] = "BLOCKED" /\ ticks[t] > 0
                               THEN ticks[t] - 1 ELSE ticks[t]]
  /\ state' = [t \in Tasks |-> IF t \in S /\ state[t] = "BLOCKED" /\ ticks[t] = 1
                               THEN "READY" ELSE state[t]]

\* Mutants: the loop starts at slot 1; and only the loaded task is checked.
OverranButFirst == {t \in Tasks : t > 0 /\ ~canary[t]}
OverranLoaded == {t \in Tasks : t = CurrentTask /\ ~canary[t]}

\* The slots that fail the canary check.
Overran == {t \in Tasks : ~canary[t]}

\* SysTick_Handler stops at the first slot whose canary is gone.
SysTick_Handler ==
  /\ ~fault
  /\ \/ /\ Overran = {}
        /\ Countdown(Tasks)
        /\ pendsv' = TRUE
        /\ UNCHANGED fault
     \/ \E dead \in Overran :
          /\ \A t \in Overran : dead <= t
          /\ Countdown(0 .. dead - 1)
          /\ OS_Fault
          /\ UNCHANGED pendsv
  /\ UNCHANGED <<CurrentTask, priority, canary, inPendSV>>

\* Exception entry clears the pending bit; interrupts are still enabled.
PendSV_Entry ==
  /\ ~fault /\ pendsv /\ ~inPendSV
  /\ pendsv' = FALSE
  /\ inPendSV' = TRUE
  /\ UNCHANGED <<CurrentTask, state, priority, ticks, canary, fault>>

\* From CPSID to the exception return: nothing can come in between.
PendSV_Handler ==
  /\ ~fault /\ inPendSV
  /\ OS_Schedule
  /\ inPendSV' = FALSE
  /\ UNCHANGED <<priority, ticks, canary, pendsv, fault>>

-----------------------------------------------------------------------------
(* Thread-mode code of the current task.                                   *)

\* Mutant: the switch is left to the next tick.
SleepWithoutSwitch(n) ==
  /\ ThreadMode
  /\ ticks' = [ticks EXCEPT ![CurrentTask] = n]
  /\ state' = [state EXCEPT ![CurrentTask] = "BLOCKED"]
  /\ UNCHANGED <<CurrentTask, priority, canary, pendsv, inPendSV, fault>>

OS_Sleep(n) ==
  /\ ThreadMode
  /\ ticks' = [ticks EXCEPT ![CurrentTask] = n]
  /\ state' = [state EXCEPT ![CurrentTask] = "BLOCKED"]
  /\ pendsv' = TRUE
  /\ UNCHANGED <<CurrentTask, priority, canary, inPendSV, fault>>

\* Task code writes past the low end of its own stack.
StackOverrun ==
  /\ ThreadMode
  /\ CurrentTask \in Overrunning
  /\ canary' = [canary EXCEPT ![CurrentTask] = FALSE]
  /\ UNCHANGED <<CurrentTask, state, priority, ticks, pendsv, inPendSV, fault>>

CoreTypeOK ==
  /\ CurrentTask \in Tasks
  /\ state \in [Tasks -> States]
  /\ priority \in [Tasks -> 0 .. Int8Max]
  /\ ticks \in [Tasks -> Nat]
  /\ canary \in [Tasks -> BOOLEAN]
  /\ pendsv \in BOOLEAN
  /\ inPendSV \in BOOLEAN
  /\ fault \in BOOLEAN
=============================================================================
