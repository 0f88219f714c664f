----------------------------- MODULE TaskTable ------------------------------
(***************************************************************************)
(* The constants of task_array that every part of the kernel uses.         *)
(***************************************************************************)
EXTENDS Integers

CONSTANT NUMBER_OF_TASKS \* slots of task_array

ASSUME TasksAssumption == NUMBER_OF_TASKS \in Nat /\ NUMBER_OF_TASKS > 1

\* A task is named by its slot; a TCB* is a slot or NULL.
Tasks == 0 .. NUMBER_OF_TASKS - 1
NULL == -1

\* Init_OS puts the idle task into the last slot.
Idle == NUMBER_OF_TASKS - 1

States == {"READY", "RUNNING", "BLOCKED"}

\* The scheduler and the wake-up loops keep the best priority seen so far in
\* an int8_t, while a priority is a uint8_t.  The conversion on this target:
Int8Max == 127
Int8(x) == IF x <= Int8Max THEN x ELSE x - 256
=============================================================================
