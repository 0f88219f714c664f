---------------------------- MODULE ScheduleLoop ----------------------------
(***************************************************************************)
(* OS_Schedule statement by statement, with the widths of its variables:   *)
(* priority is a uint8_t, highest_priority_yet an int8_t.  PendSV calls it *)
(* with interrupts disabled, so the loop alone is the whole system.        *)
(***************************************************************************)
EXTENDS Scheduler, Widths

VARIABLES
  i,                    \* the loop counter; 0 before the loop
  highest_priority_yet, \* an int8_t
  indexTracker

vars == <<CurrentTask, state, priority, i, highest_priority_yet, indexTracker>>

Init ==
  /\ CurrentTask \in Tasks
  /\ state \in [Tasks -> States]
  /\ priority \in [Tasks -> Priorities]
  /\ i = 0
  /\ highest_priority_yet = -1
  /\ indexTracker = CurrentTask

\* The outgoing task gives up RUNNING; the locals get their first values.
Begin ==
  /\ i = 0
  /\ state' = [t \in Tasks |->
       IF t = CurrentTask /\ state[t] = "RUNNING" THEN "READY" ELSE state[t]]
  /\ i' = 1
  /\ UNCHANGED <<CurrentTask, priority, highest_priority_yet, indexTracker>>

nextIndex == (CurrentTask + i) % NUMBER_OF_TASKS

\* Mutant: of equals the last one wins.
BetterOrEqual == state[nextIndex] = "READY" /\ priority[nextIndex] >= highest_priority_yet

Better == state[nextIndex] = "READY" /\ priority[nextIndex] > highest_priority_yet

\* One iteration: slot nextIndex is looked at.
Iterate ==
  /\ i \in 1 .. NUMBER_OF_TASKS
  /\ \/ /\ Better
        /\ highest_priority_yet' = Int8(priority[nextIndex])
        /\ indexTracker' = nextIndex
     \/ ~Better /\ UNCHANGED <<highest_priority_yet, indexTracker>>
  /\ i' = i + 1
  /\ UNCHANGED <<CurrentTask, state, priority>>

\* The loop is over: the tracked slot becomes the running task.
Switch ==
  /\ i = NUMBER_OF_TASKS + 1
  /\ CurrentTask' = indexTracker
  /\ state' = [state EXCEPT ![indexTracker] = "RUNNING"]
  /\ i' = NUMBER_OF_TASKS + 2
  /\ UNCHANGED <<priority, highest_priority_yet, indexTracker>>

Next == Begin \/ Iterate \/ Switch

Spec == Init /\ [][Next]_vars

\* Every local variable stays within its C type.
LoopTypeOK ==
  /\ CurrentTask \in Tasks
  /\ state \in [Tasks -> States]
  /\ priority \in [Tasks -> Priorities]
  /\ i \in 0 .. NUMBER_OF_TASKS + 2
  /\ highest_priority_yet \in -128 .. 127
  /\ indexTracker \in Tasks

\* The loop invariant: the slots at a distance below i have been looked at,
\* and the tracked slot beats the READY ones among them; before the first
\* READY slot is met nothing is tracked but the current one.
LoopInv ==
  /\ LoopTypeOK
  /\ i = 0 => highest_priority_yet = -1 /\ indexTracker = CurrentTask
  /\ i \in 1 .. NUMBER_OF_TASKS + 1 =>
       LET seen == {t \in Eligible : Distance(CurrentTask, t) < i} IN
       /\ state[CurrentTask] # "RUNNING"
       /\ seen = {} => highest_priority_yet = -1 /\ indexTracker = CurrentTask
       /\ seen # {} => /\ indexTracker \in seen
                       /\ highest_priority_yet = priority[indexTracker]
                       /\ \A u \in seen : Beats(indexTracker, u)

\* The switch at the end of the loop is the step OS_Schedule of Scheduler:
\* it picks the highest-priority READY task and rotates among equals.
LoopSelects == [][i = NUMBER_OF_TASKS + 1 => OS_Schedule]_vars

\* No READY task outranks the one the loop switches to.
SwitchesToHighest ==
  [][i = NUMBER_OF_TASKS + 1 =>
       \A t \in Tasks : state[t] = "READY" => priority[t] <= priority[CurrentTask']]_vars
=============================================================================
