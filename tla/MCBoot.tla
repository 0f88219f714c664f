------------------------------- MODULE MCBoot -------------------------------
(* A small instance of the boot for TLC: three user tasks, two of the same *)
(* priority, and the idle task.                                            *)
EXTENDS Boot

ThreeTasks == [t \in 0 .. 3 |-> IF t = 3 THEN 0 ELSE IF t = 0 THEN 1 ELSE 2]

\* All slots filled, and one of them forgotten.
TwoPrograms == {{0, 1, 2}, {0, 2}}
=============================================================================
