----------------------------- MODULE WaitQueue ------------------------------
(***************************************************************************)
(* The array of waiting tasks that Semaphore and Mutex both embed:         *)
(* waiting_tasks[0 .. TaskTracker - 1] are the waiters in arrival order,   *)
(* the slots above hold NULL (Kernel/Semaphore.c, Kernel/Mutex.c).         *)
(* WakeLoop.tla derives Winner and FillHole from the loops of the code.    *)
(***************************************************************************)
EXTENDS TaskTable

NoWaiters == [i \in Tasks |-> NULL]

\* The tasks recorded in the first n entries of the array w.
Waiters(w, n) == {w[i] : i \in 0 .. n - 1}

\* No task is recorded twice.
Distinct(w, n) == \A i, j \in 0 .. n - 1 : w[i] = w[j] => i = j

\* A well-formed queue: n entries that name different tasks.
WellFormed(w, n) ==
  /\ w \in [Tasks -> Tasks \cup {NULL}]
  /\ n \in Tasks
  /\ \A i \in 0 .. n - 1 : w[i] \in Tasks
  /\ Distinct(w, n)

\* Mutant: TaskTracker is incremented before the entry is written.
EnlistPastEnd(w, n, t) == [w EXCEPT ![n + 1] = t]

\* waiting_tasks[TaskTracker] = CurrentTask
Enlist(w, n, t) == [w EXCEPT ![n] = t]

\* Mutants: first come first served; and last come first served.
OldestWins(w, n, prio, k) == k = 0 /\ n > 0
NewestWins(w, n, prio, k) == k \in 0 .. n - 1 /\ k = n - 1

\* MaxPIndex after the scan: the first of the waiters of highest priority.
Winner(w, n, prio, k) ==
  /\ k \in 0 .. n - 1
  /\ \A i \in 0 .. n - 1 : prio[w[i]] <= prio[w[k]]
  /\ \A i \in 0 .. k - 1 : prio[w[i]] < prio[w[k]]

\* Mutant: the last move down is missing.
FillHoleShort(w, n, k) ==
  [i \in Tasks |-> IF i = n - 1 THEN NULL
                   ELSE IF i >= k /\ i < n - 2 THEN w[i + 1] ELSE w[i]]

\* Entry k is taken out, the later ones move down, the last becomes NULL.
FillHole(w, n, k) ==
  [i \in Tasks |-> IF i = n - 1 THEN NULL
                   ELSE IF i >= k /\ i < n - 1 THEN w[i + 1] ELSE w[i]]
=============================================================================
