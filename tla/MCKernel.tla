------------------------------ MODULE MCKernel ------------------------------
(* Small instances of the kernel for TLC: priorities by slot, idle last.   *)
EXTENDS Kernel

\* Three user tasks of distinct priorities.
Ladder == [t \in 0 .. 3 |-> IF t = 3 THEN 0 ELSE t + 1]

\* The five slots as main.c fills them: priorities 1 to 4 and the idle task.
MainPriorities == [t \in 0 .. 4 |-> IF t = 4 THEN 0 ELSE t + 1]

\* Three user tasks, the last two of the same priority.
Tie == [t \in 0 .. 3 |-> IF t = 3 THEN 0 ELSE IF t = 0 THEN 1 ELSE 2]
=============================================================================
