----------------------------- MODULE QuietSteps -----------------------------
(***************************************************************************)
(* The kernel calls statement by statement (KernelSteps.tla), with no tick *)
(* inside a call: what a call does as a whole is what Kernel.tla says in   *)
(* one action.                                                             *)
(***************************************************************************)
EXTENDS KernelSteps

VARIABLE before \* history: the kernel's state when the current call began

quietVars == <<stepVars, before>>

\* The current task is between two statements of a call.
MidCall == ~fault /\ ~pendsv /\ ~inPendSV /\ Me.at \notin {"idle", "return", "resume"}

Now ==
  [CurrentTask |-> CurrentTask, state |-> state, priority |-> priority, ticks |-> ticks,
   canary |-> canary, pendsv |-> pendsv, inPendSV |-> inPendSV, fault |-> fault,
   smp |-> smp, mx |-> mx]

QuietInit == StepsInit /\ before = Now

QuietNext ==
  /\ CallStep \/ (~MidCall /\ Exception)
  /\ before' = IF MidCall' THEN before ELSE Now'

QuietSpec == QuietInit /\ [][QuietNext]_quietVars

-----------------------------------------------------------------------------
\* The statements of a call add up to the action by which Kernel.tla models
\* it: guards, order of reads and writes, and the branch that is taken.
Whole == INSTANCE Kernel WITH
  CurrentTask <- before.CurrentTask, state <- before.state, priority <- before.priority,
  ticks <- before.ticks, canary <- before.canary, pendsv <- before.pendsv,
  inPendSV <- before.inPendSV, fault <- before.fault, smp <- before.smp, mx <- before.mx

CallsAreActions == Whole!Spec

-----------------------------------------------------------------------------
(* What a tick inside a call breaks holds of calls without one, at every   *)
(* statement: the tick is the only cause.                                  *)

\* A task that has returned from Mutex_Lock, and from no Mutex_Unlock since, is
\* the owner: no two tasks hold a mutex, and an unlock never ends in OS_Fault.
HoldersOwn == \A t \in Tasks : \A m \in held[t] : mx[m].owner = t

\* No counter is decremented below zero: one signal, or one unlock, lets one
\* task pass.
CountersBinary ==
  /\ \A s \in Semaphores : smp[s].counter \in 0 .. 1
  /\ \A m \in Mutexes : mx[m].counter \in 0 .. 1
=============================================================================
