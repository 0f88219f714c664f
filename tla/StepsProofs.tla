----------------------------- MODULE StepsProofs ----------------------------
(***************************************************************************)
(* Theorems about the kernel calls with ticks between their statements,    *)
(* for every number of tasks, semaphores and mutexes.                      *)
(***************************************************************************)
EXTENDS KernelSteps, TLAPS

USE TasksAssumption

\* The conjuncts of StepsInv that speak of all tasks, for a single one.
Fine(t) ==
  /\ {"at", "call"} \subseteq DOMAIN pc[t]
  /\ state[t] = "RUNNING" => t = CurrentTask
  /\ state[t] = "BLOCKED" => pc[t].at \in Blocking
  /\ pc[t].call = "sleep" =>
       /\ pc[t].at \in {"set_ticks", "block", "pend", "resume"}
       /\ state[t] = "BLOCKED" \/ pc[t].at = "block" => ticks[t] > 0

LEMMA FineForAll ==
  StepsInv <=>
    /\ CurrentTask \in Tasks /\ state \in [Tasks -> States] /\ ticks \in [Tasks -> Nat]
    /\ DOMAIN pc = Tasks /\ state[Idle] # "BLOCKED"
    /\ ThreadMode /\ state[CurrentTask] = "BLOCKED" => Me.at # "resume"
    /\ \A t \in Tasks : Fine(t)
BY DEF StepsInv, Fine, OneRunning

\* Half of it in the next state: how the lemmas below prove StepsInv'.
LEMMA FineNext ==
  ASSUME CurrentTask' \in Tasks, state' \in [Tasks -> States], ticks' \in [Tasks -> Nat],
         DOMAIN pc' = Tasks, state'[Idle] # "BLOCKED",
         ThreadMode' /\ state'[CurrentTask'] = "BLOCKED" => Me'.at # "resume",
         \A t \in Tasks : Fine(t)'
  PROVE  StepsInv'
BY DEF StepsInv, Fine, OneRunning

\* What Goto does to the place of the current task.
LEMMA GotoMoves ==
  ASSUME StepsInv, NEW next, Goto(next)
  PROVE  /\ DOMAIN pc' = Tasks /\ \A t \in Tasks \ {CurrentTask} : pc'[t] = pc[t]
         /\ {"at", "call"} \subseteq DOMAIN pc'[CurrentTask]
         /\ pc'[CurrentTask].at = next /\ pc'[CurrentTask].call = Me.call
BY DEF StepsInv, Goto, Me

\* A step of the current task that changes nothing but its place in the call
\* and its locals, and does not take it out of a call in which it blocks.
LEMMA MoveOn ==
  ASSUME StepsInv, ThreadMode, CurrentTask # Idle,
         UNCHANGED <<CurrentTask, state, ticks>>,
         DOMAIN pc' = Tasks,
         \A t \in Tasks \ {CurrentTask} : pc'[t] = pc[t],
         {"at", "call"} \subseteq DOMAIN pc'[CurrentTask],
         Me.at \in Blocking => pc'[CurrentTask].at \in Blocking,
         pc'[CurrentTask].at = "resume" => ~ThreadMode',
         pc'[CurrentTask].call = "sleep" =>
           \/ pc'[CurrentTask].at = "set_ticks"
           \/ Me.call = "sleep" /\ Me.at = "pend" /\ pc'[CurrentTask].at = "resume"
  PROVE  StepsInv'
<1>1. ASSUME NEW t \in Tasks PROVE Fine(t)'
  <2>1. Fine(t)
    BY FineForAll
  <2> QED BY <2>1 DEF Fine, Me, Blocking
<1> QED BY <1>1, FineNext DEF StepsInv, Me

\* A statement that ends in Goto and leaves states and ticks alone, in a call
\* other than OS_Sleep.
LEMMA PlainStep ==
  ASSUME StepsInv, NEW statement, At(statement), NEW next, Goto(next),
         UNCHANGED <<CurrentTask, state, ticks>>,
         statement \notin {"set_ticks", "block", "pend", "resume"},
         statement \in Blocking => next \in Blocking,
         next # "resume"
  PROVE  StepsInv'
<1>1. Fine(CurrentTask) /\ CurrentTask \in Tasks
  BY FineForAll
<1>2. pc'[CurrentTask].call # "sleep"
  BY <1>1, GotoMoves DEF Fine, At, Me
<1> QED BY <1>1, <1>2, GotoMoves, MoveOn DEF At

LEMMA AssignStep ==
  ASSUME StepsInv, NEW statement, NEW new, NEW next, Assign(statement, new, next),
         statement \notin {"set_ticks", "block", "pend", "resume"},
         statement \in Blocking => next \in Blocking,
         next # "resume"
  PROVE  StepsInv'
BY PlainStep DEF Assign, coreVars

LEMMA HaltStep ==
  ASSUME StepsInv, Halt
  PROVE  StepsInv'
<1>1. ASSUME NEW t \in Tasks PROVE Fine(t)'
  <2>1. Fine(t)
    BY FineForAll
  <2> QED BY <2>1 DEF Fine, Halt
<1> QED BY <1>1, FineNext DEF Halt, OS_Fault, StepsInv, ThreadMode

LEMMA InitFine ==
  ASSUME StepsInit
  PROVE  StepsInv
<1> USE DEF StepsInit, Init, CoreInit, NoCall
<1>1. ASSUME NEW t \in Tasks PROVE Fine(t)
  BY DEF Fine
<1>2. Idle \in Tasks /\ 0 \in Tasks
  BY DEF Idle, Tasks
<1> QED BY <1>1, <1>2, FineForAll DEF States

-----------------------------------------------------------------------------
LEMMA BeginReturn ==
  ASSUME StepsInv, Begin \/ Return
  PROVE  StepsInv'
<1>1. Fine(CurrentTask) /\ CurrentTask \in Tasks
  BY FineForAll
<1>2. ASSUME NEW call, NEW obj, NEW first, Enter(call, obj, first), first # "resume",
             call = "sleep" => first = "set_ticks"
      PROVE  StepsInv'
  <2>1. pc'[CurrentTask].at = first /\ pc'[CurrentTask].call = call
        /\ {"at", "call"} \subseteq DOMAIN pc'[CurrentTask]
    BY <1>1, <1>2 DEF Enter, NoCall, StepsInv
  <2>2. UNCHANGED <<CurrentTask, state, ticks>> /\ ThreadMode /\ CurrentTask # Idle
    BY <1>2 DEF Enter, vars, coreVars
  <2>3. Me.at \notin Blocking
    BY <1>2 DEF Enter, Blocking
  <2>4. DOMAIN pc' = Tasks /\ \A t \in Tasks \ {CurrentTask} : pc'[t] = pc[t]
    BY <1>1, <1>2 DEF Enter, StepsInv
  <2> QED BY <1>2, <2>1, <2>2, <2>3, <2>4, MoveOn
<1>3. CASE Begin
  BY <1>2, <1>3 DEF Begin
<1>4. CASE Return
  <2>1. Me.at \in {"return", "resume"} /\ ThreadMode /\ CurrentTask # Idle
    BY <1>4 DEF Return, At
  <2>2. state[CurrentTask] # "BLOCKED"
    BY <1>1, <2>1 DEF Fine, StepsInv, Me, Blocking
  <2>3. UNCHANGED <<CurrentTask, state, ticks>>
    BY <1>4 DEF Return, vars, coreVars
  <2>4. DOMAIN pc' = Tasks /\ pc'[CurrentTask] = NoCall
        /\ \A t \in Tasks \ {CurrentTask} : pc'[t] = pc[t]
    BY <1>1, <1>4 DEF Return, StepsInv
  <2>5. ASSUME NEW t \in Tasks PROVE Fine(t)'
    <3>1. Fine(t)
      BY FineForAll
    <3>2. CASE t = CurrentTask
      <4>1. pc'[t].call = "none" /\ {"at", "call"} \subseteq DOMAIN pc'[t]
        BY <2>4, <3>2 DEF NoCall
      <4> QED BY <2>2, <2>3, <3>2, <4>1 DEF Fine
    <3>3. CASE t # CurrentTask
      BY <2>3, <2>4, <3>1, <3>3 DEF Fine
    <3> QED BY <3>2, <3>3
  <2> QED BY <2>2, <2>3, <2>4, <2>5, FineNext DEF StepsInv
<1> QED BY <1>3, <1>4

\* The statements of OS_Sleep, which the other blocking calls share.
LEMMA SleepStep ==
  ASSUME StepsInv, 0 \notin SleepTicks, SetTicks \/ Block \/ Pend
  PROVE  StepsInv'
<1>1. /\ CurrentTask \in Tasks /\ CurrentTask # Idle /\ ThreadMode
      /\ DOMAIN pc = Tasks /\ state \in [Tasks -> States] /\ ticks \in [Tasks -> Nat]
      /\ state[Idle] # "BLOCKED" /\ \A t \in Tasks : Fine(t)
  BY FineForAll DEF SetTicks, Block, Pend, At
<1>2. CASE SetTicks
  <2>1. Me.at = "set_ticks" /\ Goto("block") /\ UNCHANGED <<CurrentTask, state>>
    BY <1>2 DEF SetTicks, At, OnlyTicks, Others
  <2>2. PICK n \in SleepTicks : ticks' = [ticks EXCEPT ![CurrentTask] = n]
    BY <1>2 DEF SetTicks
  <2>3. n \in Nat /\ n > 0
    BY ClientAssumption
  <2>4. ASSUME NEW t \in Tasks PROVE Fine(t)'
    BY <1>1, <2>1, <2>2, <2>3, GotoMoves DEF Fine, Me, Blocking
  <2>5. /\ DOMAIN pc' = Tasks /\ pc'[CurrentTask].at = "block"
        /\ ticks' \in [Tasks -> Nat]
    BY <1>1, <2>1, <2>2, <2>3, GotoMoves
  <2> QED BY <1>1, <2>1, <2>4, <2>5, FineNext DEF Me
<1>3. CASE Block
  <2>1. /\ Me.at = "block" /\ Goto(IF Me.call = "sleep" THEN "pend" ELSE "enlist")
        /\ state' = [state EXCEPT ![CurrentTask] = "BLOCKED"]
        /\ UNCHANGED <<CurrentTask, ticks>>
    BY <1>3 DEF Block, At, OnlyState, Others
  <2>2. ASSUME NEW t \in Tasks PROVE Fine(t)'
    BY <1>1, <2>1, GotoMoves DEF Fine, Me, Blocking
  <2>3. DOMAIN pc' = Tasks /\ Me'.at # "resume"
    BY <1>1, <2>1, GotoMoves DEF Me
  <2>4. state' \in [Tasks -> States] /\ state'[Idle] # "BLOCKED"
    BY <1>1, <2>1 DEF States
  <2> QED BY <1>1, <2>1, <2>2, <2>3, <2>4, FineNext
<1>4. CASE Pend
  <2>1. /\ Me.at = "pend" /\ Goto("resume") /\ ~ThreadMode'
        /\ UNCHANGED <<CurrentTask, state, ticks>>
    BY <1>4 DEF Pend, At, OnlyPendsv, Others, ThreadMode
  <2> QED BY <1>1, <2>1, GotoMoves, MoveOn DEF Blocking
<1> QED BY <1>2, <1>3, <1>4

LEMMA WakeStep ==
  ASSUME StepsInv, Wake
  PROVE  StepsInv'
<1>1. /\ CurrentTask \in Tasks /\ CurrentTask # Idle /\ ThreadMode /\ Me.at = "wake"
      /\ DOMAIN pc = Tasks /\ state \in [Tasks -> States] /\ ticks \in [Tasks -> Nat]
      /\ state[Idle] # "BLOCKED" /\ \A t \in Tasks : Fine(t)
  BY FineForAll DEF Wake, At
<1>2. CASE Halt
  BY <1>2, HaltStep
<1>3. CASE state' = [state EXCEPT ![ToWake] = "READY"] /\ OnlyState /\ Goto("shift")
  <2>1. UNCHANGED <<CurrentTask, ticks>>
    BY <1>3 DEF OnlyState, Others
  <2>2. pc'[CurrentTask].at = "shift" /\ pc'[CurrentTask].call = Me.call
        /\ {"at", "call"} \subseteq DOMAIN pc'[CurrentTask]
    BY <1>1, <1>3, GotoMoves DEF Fine, Me
  <2>3. DOMAIN pc' = Tasks /\ \A t \in Tasks \ {CurrentTask} : pc'[t] = pc[t]
    BY <1>1, <1>3, GotoMoves
  <2>4. \A t \in Tasks : state'[t] = state[t] \/ state'[t] = "READY"
    BY <1>1, <1>3
  <2>5. state' \in [Tasks -> States]
    BY <1>1, <1>3 DEF States
  <2>7. Idle \in Tasks
    BY DEF Idle, Tasks
  <2>6. ASSUME NEW t \in Tasks PROVE Fine(t)'
    BY <1>1, <2>1, <2>2, <2>3, <2>4 DEF Fine, Me, Blocking
  <2> QED BY <1>1, <2>1, <2>2, <2>3, <2>4, <2>5, <2>6, <2>7, FineNext DEF Me
<1> QED BY <1>2, <1>3 DEF Wake

\* All other statements: they move on, or halt.
LEMMA OtherSteps ==
  ASSUME StepsInv, CallStep, ~Begin, ~Return, ~SetTicks, ~Block, ~Pend, ~Wake
  PROVE  StepsInv'
<1> USE DEF Blocking
<1>1. CASE TestCounter
  <2>1. At("test_counter") /\ UNCHANGED <<CurrentTask, state, ticks>>
    BY <1>1 DEF TestCounter, vars, coreVars
  <2>2. PICK next \in {"decrement", "own", "block", "compare_owner"} : Goto(next)
    BY <1>1 DEF TestCounter, Depending
  <2> QED BY <2>1, <2>2, PlainStep DEF At, Goto
<1>2. CASE Own \/ SavePriority \/ Decrement
  BY <1>2, AssignStep DEF Own, SavePriority, Decrement
<1>3. CASE CompareOwner
  <2>1. At("compare_owner") /\ UNCHANGED <<CurrentTask, state, ticks>>
    BY <1>3 DEF CompareOwner, vars, coreVars
  <2>2. PICK next \in {"elevate", "block"} : Goto(next)
    BY <1>3 DEF CompareOwner
  <2> QED BY <2>1, <2>2, PlainStep DEF At, Goto
<1>12. CASE Elevate
  <2>1. At("elevate")
    BY <1>12 DEF Elevate
  <2>2. Halt \/ (Goto("block") /\ UNCHANGED <<CurrentTask, state, ticks>>)
    BY <1>12 DEF Elevate, OnlyPriority, Others
  <2> QED BY <2>1, <2>2, PlainStep, HaltStep DEF At, Goto
<1>4. CASE EnlistMe \/ Count
  BY <1>4, AssignStep DEF EnlistMe, Count
<1>5. CASE SetCounter \/ Free \/ Disown
  BY <1>5, AssignStep DEF SetCounter, Free, Disown
<1>6. CASE TestOwner
  <2>1. At("test_owner")
    BY <1>6 DEF TestOwner
  <2>2. Halt \/ (Goto("restore") /\ UNCHANGED <<CurrentTask, state, ticks>>)
    BY <1>6 DEF TestOwner, vars, coreVars
  <2> QED BY <2>1, <2>2, PlainStep, HaltStep DEF At, Goto
<1>7. CASE Restore
  <2>1. At("restore")
    BY <1>7 DEF Restore
  <2>2. Halt \/ (Goto("test_queue") /\ UNCHANGED <<CurrentTask, state, ticks>>)
    BY <1>7 DEF Restore, OnlyPriority, Others
  <2> QED BY <2>1, <2>2, PlainStep, HaltStep DEF At, Goto
<1>8. CASE TestQueue
  <2>1. At("test_queue") /\ UNCHANGED <<CurrentTask, state, ticks>>
    BY <1>8 DEF TestQueue, vars, coreVars
  <2>2. PICK next \in {"scan", "return", "free"} : Goto(next)
    BY <1>8 DEF TestQueue, Depending
  <2> QED BY <2>1, <2>2, PlainStep DEF At, Goto
<1>9. CASE Scan
  <2>1. /\ CurrentTask \in Tasks /\ CurrentTask # Idle /\ ThreadMode /\ Me.at = "scan"
        /\ DOMAIN pc = Tasks /\ Fine(CurrentTask)
        /\ UNCHANGED <<CurrentTask, state, ticks>>
    BY <1>9, FineForAll DEF Scan, At, vars, coreVars
  <2>2. PICK byte \in VectorBytes :
          pc' = [pc EXCEPT ![CurrentTask].at = Depending("wake", "pick_winner"),
                           ![CurrentTask].MaxPIndex = Best(byte).MaxPIndex]
    BY <1>9 DEF Scan
  <2>3. /\ DOMAIN pc' = Tasks /\ \A t \in Tasks \ {CurrentTask} : pc'[t] = pc[t]
        /\ {"at", "call"} \subseteq DOMAIN pc'[CurrentTask]
        /\ pc'[CurrentTask].at \in {"wake", "pick_winner"} /\ pc'[CurrentTask].call = Me.call
    BY <2>1, <2>2 DEF Fine, Me, Depending
  <2>4. Me.call # "sleep"
    BY <2>1 DEF Fine, Me
  <2> QED BY <2>1, <2>3, <2>4, MoveOn
<1>10. CASE Shift \/ HandOver \/ SaveWinnersPriority \/ Uncount \/ ResetCounter
  BY <1>10, AssignStep DEF Shift, HandOver, SaveWinnersPriority, Uncount, ResetCounter
<1>11. CASE Clear
  BY <1>11, AssignStep DEF Clear, Depending
<1>13. CASE PickWinner
  <2>1. /\ CurrentTask \in Tasks /\ CurrentTask # Idle /\ ThreadMode /\ Me.at = "pick_winner"
        /\ DOMAIN pc = Tasks /\ Fine(CurrentTask)
        /\ UNCHANGED <<CurrentTask, state, ticks>>
    BY <1>13, FineForAll DEF PickWinner, At, vars, coreVars
  <2>2. pc' = [pc EXCEPT ![CurrentTask].at = "wake", ![CurrentTask].WinnerTask = Chosen]
    BY <1>13 DEF PickWinner
  <2>3. /\ DOMAIN pc' = Tasks /\ \A t \in Tasks \ {CurrentTask} : pc'[t] = pc[t]
        /\ {"at", "call"} \subseteq DOMAIN pc'[CurrentTask]
        /\ pc'[CurrentTask].at = "wake" /\ pc'[CurrentTask].call = Me.call
    BY <2>1, <2>2 DEF Fine, Me
  <2>4. Me.call # "sleep"
    BY <2>1 DEF Fine, Me
  <2> QED BY <2>1, <2>3, <2>4, MoveOn
<1> QED BY <1>1, <1>2, <1>3, <1>4, <1>5, <1>6, <1>7, <1>8, <1>9, <1>10, <1>11, <1>12, <1>13 DEF CallStep

-----------------------------------------------------------------------------
\* The exceptions, whatever statement they interrupt.
LEMMA ExceptionStep ==
  ASSUME StepsInv, Exception
  PROVE  StepsInv'
<1> USE DEF Exception, Background
<1>1. /\ CurrentTask \in Tasks /\ DOMAIN pc = Tasks /\ pc' = pc /\ Idle \in Tasks
      /\ state \in [Tasks -> States] /\ ticks \in [Tasks -> Nat]
      /\ state[Idle] # "BLOCKED" /\ \A t \in Tasks : Fine(t)
  BY FineForAll DEF Idle, Tasks
<1>2. ASSUME NEW S, Countdown(S)
      PROVE  /\ state' \in [Tasks -> States] /\ ticks' \in [Tasks -> Nat]
             /\ \A t \in Tasks :
                  \/ state'[t] = state[t] /\ ticks'[t] = ticks[t]
                  \/ state'[t] = "READY"
                  \/ state[t] = "BLOCKED" /\ ticks[t] > 1 /\ ticks'[t] = ticks[t] - 1
                     /\ state'[t] = state[t]
             /\ \A t \in Tasks : state[t] # "BLOCKED" =>
                  state'[t] = state[t] /\ ticks'[t] = ticks[t]
  BY <1>1, <1>2 DEF Countdown, States
<1>3. CASE SysTick_Handler
  <2>1. PICK S : Countdown(S)
    BY <1>3 DEF SysTick_Handler
  <2>2. ~ThreadMode' /\ CurrentTask' = CurrentTask
    BY <1>3 DEF SysTick_Handler, ThreadMode, OS_Fault
  <2>3. ASSUME NEW t \in Tasks PROVE Fine(t)'
    <3>1. Fine(t) /\ pc'[t] = pc[t]
      BY <1>1
    <3>2. CASE state'[t] = state[t] /\ ticks'[t] = ticks[t]
      BY <2>2, <3>1, <3>2 DEF Fine
    <3>3. CASE state[t] = "BLOCKED" /\ state'[t] = "READY"
      BY <1>1, <2>2, <3>1, <3>3 DEF Fine, Blocking
    <3>4. CASE state[t] = "BLOCKED" /\ ticks[t] > 1 /\ ticks'[t] = ticks[t] - 1
               /\ state'[t] = state[t]
      <4>1. ticks'[t] > 0
        BY <1>1, <3>4
      <4> QED BY <2>2, <3>1, <3>4, <4>1 DEF Fine
    <3> QED BY <1>2, <2>1, <3>2, <3>3, <3>4
  <2> QED BY <1>1, <1>2, <2>1, <2>2, <2>3, FineNext
<1>4. CASE PendSV_Entry \/ StackOverrun
  <2>1. UNCHANGED <<CurrentTask, state, ticks>> /\ (ThreadMode' => ThreadMode)
    BY <1>4 DEF PendSV_Entry, StackOverrun, ThreadMode
  <2>2. ASSUME NEW t \in Tasks PROVE Fine(t)'
    BY <1>1, <2>1 DEF Fine
  <2> QED BY <1>1, <2>1, <2>2, FineNext DEF StepsInv, Me
<1>5. CASE PendSV_Handler
  <2>1. Idle \in Eligible
    BY <1>1 DEF Eligible, States, Fine
  <2>2. PICK next \in Tasks :
          /\ Selected(next) /\ CurrentTask' = next
          /\ state' = [t \in Tasks |-> IF t = next THEN "RUNNING"
                                       ELSE IF t \in Eligible THEN "READY" ELSE state[t]]
    BY <1>5 DEF PendSV_Handler, OS_Schedule
  <2>3. next \in Eligible /\ ticks' = ticks
    BY <1>5, <2>1, <2>2 DEF Selected, PendSV_Handler
  <2>4. state' \in [Tasks -> States] /\ state'[next] = "RUNNING" /\ state'[Idle] # "BLOCKED"
    BY <1>1, <2>1, <2>2 DEF States
  <2>5. ASSUME NEW t \in Tasks PROVE Fine(t)'
    <3>1. state'[t] = "RUNNING" => t = next
      BY <1>1, <2>2 DEF Eligible, Fine
    <3>2. state'[t] = "BLOCKED" => state[t] = "BLOCKED"
      BY <2>2
    <3> QED BY <1>1, <2>2, <2>3, <3>1, <3>2 DEF Fine
  <2> QED BY <1>1, <2>2, <2>3, <2>4, <2>5, FineNext
<1> QED BY <1>3, <1>4, <1>5

-----------------------------------------------------------------------------
LEMMA StepsInvariantStep ==
  ASSUME 0 \notin SleepTicks, StepsInv, [StepsNext]_stepVars
  PROVE  StepsInv'
<1>1. CASE UNCHANGED stepVars
  <2>1. ASSUME NEW t \in Tasks PROVE Fine(t)'
    <3>1. Fine(t)
      BY FineForAll
    <3> QED BY <1>1, <3>1 DEF Fine, stepVars, vars, coreVars
  <2> QED BY <1>1, <2>1, FineNext DEF StepsInv, stepVars, vars, coreVars, ThreadMode, Me
<1>2. CASE CallStep
  BY <1>2, BeginReturn, SleepStep, WakeStep, OtherSteps
<1>3. CASE Exception
  BY <1>3, ExceptionStep
<1> QED BY <1>1, <1>2, <1>3 DEF StepsNext

\* If nobody calls OS_Sleep(0), StepsInv holds whenever the tick comes.
THEOREM StepsInvariant ==
  ASSUME 0 \notin SleepTicks
  PROVE  StepsSpec => []StepsInv
<1>1. StepsInit => StepsInv
  BY InitFine
<1>2. StepsInv /\ [StepsNext]_stepVars => StepsInv'
  BY StepsInvariantStep
<1> QED BY <1>1, <1>2, PTL DEF StepsSpec

\* OS_Sleep needs no protection from the tick: no place at which the tick
\* interrupts it leaves a task BLOCKED without a count.
THEOREM SleepIsSafe ==
  ASSUME 0 \notin SleepTicks
  PROVE  StepsSpec => []SleepersCount
<1>1. StepsInv => SleepersCount
  BY DEF StepsInv, SleepersCount
<1> QED BY <1>1, StepsInvariant, PTL

\* Only the loaded task is RUNNING, although a call may be interrupted
\* between two of its writes to the states.
THEOREM StepsOneRunning ==
  ASSUME 0 \notin SleepTicks
  PROVE  StepsSpec => []OneRunning
<1>1. StepsInv => OneRunning
  BY DEF StepsInv
<1> QED BY <1>1, StepsInvariant, PTL
=============================================================================
