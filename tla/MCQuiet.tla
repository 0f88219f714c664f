------------------------------- MODULE MCQuiet ------------------------------
(* A small instance of the uninterrupted calls for TLC.                    *)
EXTENDS QuietSteps

\* Three user tasks, the last two of the same priority.
Tie == [t \in 0 .. 3 |-> IF t = 3 THEN 0 ELSE IF t = 0 THEN 1 ELSE 2]
=============================================================================
