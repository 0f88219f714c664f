------------------------------- MODULE MCLoops ------------------------------
(***************************************************************************)
(* The three routines of the kernel that loop over a table, each run alone *)
(* on small instances for TLC: OS_Schedule, the scan and shift of          *)
(* OS_Signal and Mutex_Unlock, and os_malloc over any heap its callers can *)
(* have made.  The initial state picks the routine; the others stay in an  *)
(* initial state of theirs.                                                *)
(***************************************************************************)
EXTENDS ScheduleLoop, WakeLoop, HeapWalk

VARIABLE routine \* which one runs

loopVars == <<routine, vars, wakeVars, walkVars>>

ScheduleIdle ==
  /\ CurrentTask = 0 /\ state = [t \in Tasks |-> "READY"] /\ priority = [t \in Tasks |-> 0]
  /\ Init
WakeIdle ==
  /\ TaskTracker = 1 /\ waiting_tasks = [k \in Tasks |-> IF k = 0 THEN 0 ELSE NULL]
  /\ priorityOf = [t \in Tasks |-> 0]
  /\ WakeInit
WalkIdle == sizes = Requests /\ WalkInit

LoopsInit ==
  \/ routine = "OS_Schedule" /\ Init /\ WakeIdle /\ WalkIdle
  \/ routine = "OS_Signal" /\ ScheduleIdle /\ WakeInit /\ WalkIdle
  \/ routine = "os_malloc" /\ ScheduleIdle /\ WakeIdle /\ WalkInit

LoopsNext ==
  /\ \/ routine = "OS_Schedule" /\ Next /\ UNCHANGED <<wakeVars, walkVars>>
     \/ routine = "OS_Signal" /\ WakeNext /\ UNCHANGED <<vars, walkVars>>
     \/ routine = "os_malloc" /\ WalkNext /\ UNCHANGED <<vars, wakeVars>>
  /\ UNCHANGED routine

LoopsSpec ==
  LoopsInit /\ [][LoopsNext]_loopVars /\ WF_walkVars(ReturnNull \/ ReturnBlock \/ Advance)
=============================================================================
