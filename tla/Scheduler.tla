----------------------------- MODULE Scheduler ------------------------------
(***************************************************************************)
(* The choice OS_Schedule makes (Kernel/os_core.c): of the READY slots the *)
(* first one of the highest priority, in the order CurrentTask + 1, ...,   *)
(* CurrentTask.  ScheduleLoop.tla derives it from the loop of the code.    *)
(***************************************************************************)
EXTENDS TaskTable

VARIABLES
  CurrentTask, \* the task whose context is loaded
  state,       \* TCB.state of each slot
  priority     \* TCB.priority of each slot

\* Mutant: the scan starts at slot 0, whoever runs.
DistanceFromZero(c, t) == t + 1

\* How many iterations the loop needs to reach slot t from slot c.
Distance(c, t) == IF t > c THEN t - c ELSE t - c + NUMBER_OF_TASKS

\* Mutant: the outgoing task becomes READY whatever its state is.
EligibleWithCurrent == {t \in Tasks : state[t] = "READY" \/ t = CurrentTask}

\* The slots that are READY once the outgoing task has given up RUNNING.
Eligible ==
  {t \in Tasks : state[t] = "READY" \/ (t = CurrentTask /\ state[t] = "RUNNING")}

\* Mutant: plain round-robin.
BeatsByTurn(t, u) == Distance(CurrentTask, t) <= Distance(CurrentTask, u)

\* t wins over slot u.
Beats(t, u) ==
  \/ priority[u] < priority[t]
  \/ priority[u] = priority[t] /\ Distance(CurrentTask, t) <= Distance(CurrentTask, u)

\* The value of indexTracker after the loop: CurrentTask if nothing is READY.
Selected(t) ==
  \/ t \in Eligible /\ \A u \in Eligible : Beats(t, u)
  \/ Eligible = {} /\ t = CurrentTask

\* Mutant: the outgoing task stays RUNNING.
ScheduleKeepsRunning ==
  \E next \in Tasks :
    /\ Selected(next)
    /\ CurrentTask' = next
    /\ state' = [state EXCEPT ![next] = "RUNNING"]

\* The whole of OS_Schedule.
OS_Schedule ==
  \E next \in Tasks :
    /\ Selected(next)
    /\ CurrentTask' = next
    /\ state' = [t \in Tasks |-> IF t = next THEN "RUNNING"
                                 ELSE IF t \in Eligible THEN "READY" ELSE state[t]]
=============================================================================
