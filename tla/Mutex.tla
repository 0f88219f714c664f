------------------------------- MODULE Mutex --------------------------------
(***************************************************************************)
(* Mutexes with ownership and priority inheritance (Kernel/Mutex.c).  A    *)
(* call is one action.                                                     *)
(***************************************************************************)
EXTENDS OSCore, WaitQueue

CONSTANT Mutexes \* the Mutex objects of the application

VARIABLE mx      \* the Mutex struct of each of them

MutexType ==
  [owner : Tasks \cup {NULL}, counter : 0 .. 1,
   waiting_tasks : [Tasks -> Tasks \cup {NULL}], TaskTracker : Tasks,
   OriginalPriority : 0 .. Int8Max]

\* The tasks waiting for mutex m, and the mutexes t owns.
MutexWaiters(m) == Waiters(mx[m].waiting_tasks, mx[m].TaskTracker)
OwnedBy(t) == {m \in Mutexes : mx[m].owner = t}

\* Mutex_Init sets counter and TaskTracker; a mutex has static storage, so
\* the fields it does not set are zero.
Mutex_Init ==
  mx = [m \in Mutexes |->
         [owner |-> NULL, counter |-> 1, waiting_tasks |-> NoWaiters,
          TaskTracker |-> 0, OriginalPriority |-> 0]]

\* Mutex_Lock on a free mutex: take it and remember the priority to restore.
LockTake(m) ==
  /\ ThreadMode
  /\ mx[m].counter # 0
  /\ mx' = [mx EXCEPT ![m] =
       [owner            |-> CurrentTask,
        counter          |-> mx[m].counter - 1,
        waiting_tasks    |-> mx[m].waiting_tasks,
        TaskTracker      |-> mx[m].TaskTracker,
        OriginalPriority |-> priority[CurrentTask]]]
  /\ UNCHANGED coreVars

\* Mutant: no inheritance.
NotInherited(m) == priority

\* The priorities once the owner of m has at least that of the caller.
Inherited(m) ==
  IF priority[CurrentTask] > priority[mx[m].owner]
  THEN [priority EXCEPT ![mx[m].owner] = priority[CurrentTask]] ELSE priority

\* Mutex_Lock on a held mutex: raise the owner's priority, block, switch.
LockBlock(m) ==
  /\ ThreadMode
  /\ mx[m].counter = 0
  /\ priority' = Inherited(m)
  /\ state' = [state EXCEPT ![CurrentTask] = "BLOCKED"]
  /\ mx' = [mx EXCEPT ![m] =
       [owner            |-> mx[m].owner,
        counter          |-> mx[m].counter,
        waiting_tasks    |-> Enlist(mx[m].waiting_tasks, mx[m].TaskTracker, CurrentTask),
        TaskTracker      |-> mx[m].TaskTracker + 1,
        OriginalPriority |-> mx[m].OriginalPriority]]
  /\ pendsv' = TRUE
  /\ UNCHANGED <<CurrentTask, ticks, canary, inPendSV, fault>>

Mutex_Lock(m) == LockTake(m) \/ LockBlock(m)

\* Mutant: the owner keeps what it inherited.
NotRestored(m) == priority

\* The priorities once the owner of m has its saved one back.
Restored(m) == [priority EXCEPT ![CurrentTask] = mx[m].OriginalPriority]

\* Mutex_Unlock by the owner with nobody waiting: free it, do not switch.
UnlockFree(m) ==
  /\ ThreadMode
  /\ mx[m].owner = CurrentTask
  /\ mx[m].TaskTracker = 0
  /\ priority' = Restored(m)
  /\ mx' = [mx EXCEPT ![m] =
       [owner            |-> NULL,
        counter          |-> 1,
        waiting_tasks    |-> mx[m].waiting_tasks,
        TaskTracker      |-> 0,
        OriginalPriority |-> mx[m].OriginalPriority]]
  /\ UNCHANGED <<CurrentTask, state, ticks, canary, pendsv, inPendSV, fault>>

\* Mutant: the mutex keeps the owner that unlocked it.
HandedToNobody(m, k) ==
  [mx[m] EXCEPT !.waiting_tasks = FillHole(mx[m].waiting_tasks, mx[m].TaskTracker, k),
                !.TaskTracker = @ - 1]

\* Mutant: the priority saved for the old owner stays for the new one.
HandedToStale(m, k) ==
  [mx[m] EXCEPT !.owner = mx[m].waiting_tasks[k],
                !.waiting_tasks = FillHole(mx[m].waiting_tasks, mx[m].TaskTracker, k),
                !.TaskTracker = @ - 1]

\* The mutex once the waiter in entry k is its owner.
HandedTo(m, k) ==
  [owner            |-> mx[m].waiting_tasks[k],
   counter          |-> 0,
   waiting_tasks    |-> FillHole(mx[m].waiting_tasks, mx[m].TaskTracker, k),
   TaskTracker      |-> mx[m].TaskTracker - 1,
   OriginalPriority |-> Restored(m)[mx[m].waiting_tasks[k]]]

\* Mutex_Unlock by the owner with waiters: the winner becomes the owner.
UnlockHandOver(m) ==
  /\ ThreadMode
  /\ mx[m].owner = CurrentTask
  /\ mx[m].TaskTracker > 0
  /\ priority' = Restored(m)
  /\ \E k \in Tasks :
       /\ Winner(mx[m].waiting_tasks, mx[m].TaskTracker, Restored(m), k)
       /\ state' = [state EXCEPT ![mx[m].waiting_tasks[k]] = "READY"]
       /\ mx' = [mx EXCEPT ![m] = HandedTo(m, k)]
  /\ pendsv' = TRUE
  /\ UNCHANGED <<CurrentTask, ticks, canary, inPendSV, fault>>

\* Mutex_Unlock by anybody else halts the system.
UnlockFault(m) ==
  /\ ThreadMode
  /\ mx[m].owner # CurrentTask
  /\ OS_Fault
  /\ UNCHANGED <<CurrentTask, state, priority, ticks, canary, pendsv, inPendSV, mx>>

Mutex_Unlock(m) == UnlockFree(m) \/ UnlockHandOver(m) \/ UnlockFault(m)
=============================================================================
