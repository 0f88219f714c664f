------------------------------- MODULE MCSteps ------------------------------
(* A small instance of the kernel's statements for TLC.                    *)
EXTENDS KernelSteps

\* Two user tasks and the idle task.
Pair == [t \in 0 .. 2 |-> IF t = 2 THEN 0 ELSE t + 1]
=============================================================================
