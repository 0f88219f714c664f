------------------------------- MODULE Widths -------------------------------
(* The priorities over which the loops with int8_t variables are run.      *)
EXTENDS TaskTable

CONSTANT Priorities \* the uint8_t priorities passed to Create_Task

ASSUME PrioritiesAssumption == Priorities \subseteq 0 .. 255
=============================================================================
