------------------------------ MODULE WakeLoop ------------------------------
(***************************************************************************)
(* The two loops OS_Signal and Mutex_Unlock share, statement by statement: *)
(* the scan for the waiter of the highest priority and the shift that        *)
(* closes the hole it leaves.  Here they run without interruption.         *)
(***************************************************************************)
EXTENDS WaitQueue, Widths

VARIABLES
  pc,            \* which loop runs
  waiting_tasks, \* the array of the semaphore or mutex
  TaskTracker,   \* its length
  priorityOf,    \* the priority of every task
  scanned, j,    \* the loop counters: entries scanned, entry to fill
  best,          \* MaxPriority, an int8_t
  MaxPIndex,     \* an int8_t
  entered        \* history: the array and its length when the call began

wakeVars == <<pc, waiting_tasks, TaskTracker, priorityOf, scanned, j, best, MaxPIndex, entered>>

\* The call found at least one waiter.
WakeInit ==
  /\ pc = "scan"
  /\ TaskTracker \in 1 .. NUMBER_OF_TASKS
  /\ waiting_tasks \in [Tasks -> Tasks \cup {NULL}]
  /\ \A k \in Tasks : waiting_tasks[k] = NULL <=> k >= TaskTracker
  /\ priorityOf \in [Tasks -> Priorities]
  /\ scanned = 0 /\ j = 0 /\ best = -1 /\ MaxPIndex = -1
  /\ entered = [w |-> waiting_tasks, n |-> TaskTracker]

\* Mutant: of equals the last one wins.
LaterWaiter == priorityOf[waiting_tasks[scanned]] >= best

BetterWaiter == priorityOf[waiting_tasks[scanned]] > best

\* One iteration of the scan.
Scan ==
  /\ pc = "scan" /\ scanned < TaskTracker
  /\ \/ /\ BetterWaiter
        /\ best' = Int8(priorityOf[waiting_tasks[scanned]])
        /\ MaxPIndex' = scanned
     \/ ~BetterWaiter /\ UNCHANGED <<best, MaxPIndex>>
  /\ scanned' = scanned + 1
  /\ UNCHANGED <<pc, waiting_tasks, TaskTracker, priorityOf, j, entered>>

\* The scan is over and the winner made READY; the shift starts at its entry.
StartShift ==
  /\ pc = "scan" /\ scanned = TaskTracker
  /\ pc' = "shift"
  /\ j' = MaxPIndex
  /\ UNCHANGED <<waiting_tasks, TaskTracker, priorityOf, scanned, best, MaxPIndex, entered>>

MovedDown == [waiting_tasks EXCEPT ![j] = waiting_tasks[j + 1]]

\* One iteration of the shift.
Shift ==
  /\ pc = "shift" /\ j < TaskTracker - 1
  /\ waiting_tasks' = MovedDown
  /\ j' = j + 1
  /\ UNCHANGED <<pc, TaskTracker, priorityOf, scanned, best, MaxPIndex, entered>>

\* The last entry becomes NULL and the queue is one shorter.
CloseHole ==
  /\ pc = "shift" /\ j >= TaskTracker - 1
  /\ waiting_tasks' = [waiting_tasks EXCEPT ![TaskTracker - 1] = NULL]
  /\ TaskTracker' = TaskTracker - 1
  /\ pc' = "done"
  /\ UNCHANGED <<priorityOf, scanned, j, best, MaxPIndex, entered>>

WakeNext == Scan \/ StartShift \/ Shift \/ CloseHole

WakeSpec == WakeInit /\ [][WakeNext]_wakeVars

\* The loop invariant: while the scan runs, MaxPIndex is the winner of the
\* entries seen so far; while the shift runs, the entries below j are those
\* of the result and the others still those of the beginning.
WakeInv ==
  /\ waiting_tasks \in [Tasks -> Tasks \cup {NULL}]
  /\ priorityOf \in [Tasks -> Priorities]
  /\ entered.w \in [Tasks -> Tasks \cup {NULL}]
  /\ entered.n \in 1 .. NUMBER_OF_TASKS
  /\ \A k \in 0 .. entered.n - 1 : entered.w[k] \in Tasks
  /\ pc = "scan" =>
       /\ waiting_tasks = entered.w /\ TaskTracker = entered.n
       /\ scanned \in 0 .. TaskTracker
       /\ IF scanned = 0 THEN best = -1
          ELSE /\ Winner(entered.w, scanned, priorityOf, MaxPIndex)
               /\ best = priorityOf[entered.w[MaxPIndex]]
  /\ pc \in {"shift", "done"} =>
       Winner(entered.w, entered.n, priorityOf, MaxPIndex)
  /\ pc = "shift" =>
       /\ TaskTracker = entered.n
       /\ j \in MaxPIndex .. TaskTracker - 1
       /\ waiting_tasks = [k \in Tasks |->
            IF MaxPIndex <= k /\ k < j THEN entered.w[k + 1] ELSE entered.w[k]]

\* The scan stops at the first waiter of the highest priority, and the shift
\* removes exactly that entry and keeps the others in order.
WakesWinner ==
  pc = "done" =>
    /\ Winner(entered.w, entered.n, priorityOf, MaxPIndex)
    /\ waiting_tasks = FillHole(entered.w, entered.n, MaxPIndex)
    /\ TaskTracker = entered.n - 1
=============================================================================
