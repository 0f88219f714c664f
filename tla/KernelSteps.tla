---------------------------- MODULE KernelSteps -----------------------------
(***************************************************************************)
(* The kernel calls one statement at a time (Kernel/os_core.c,             *)
(* Kernel/Semaphore.c, Kernel/Mutex.c).  Nothing masks interrupts in       *)
(* thread mode, so the tick can come between any two statements, and the   *)
(* switch it requests suspends the call where it is.  The project is       *)
(* compiled without optimisation: statements take effect in the order of   *)
(* the source.  A statement reads what it needs and writes in one step,    *)
(* also a ++ or --; a loop over the waiters is one step, and WakeLoop.tla  *)
(* looks inside.                                                           *)
(***************************************************************************)
EXTENDS Kernel

\* A Semaphore and a Mutex are different objects in memory.
ASSUME ObjectsAssumption == Semaphores \cap Mutexes = {}

\* An index into waiting_tasks fits the int8_t MaxPIndex, and a length TaskTracker.
ASSUME WidthAssumption == NUMBER_OF_TASKS <= Int8Max + 1

VARIABLES
  pc,   \* for each task: at which statement of which call on which object
        \* it is, and its locals MaxPIndex and WinnerTask
  held  \* for each task the mutexes it has locked, as its own code sees it

stepVars == <<vars, pc, held>>

NoCall ==
  [at |-> "idle", call |-> "none", obj |-> NULL, MaxPIndex |-> NULL, WinnerTask |-> NULL]

StepsInit ==
  /\ Init
  /\ pc = [t \in Tasks |-> NoCall]
  /\ held = [t \in Tasks |-> {}]

-----------------------------------------------------------------------------
(* Where the current task is, and the object its call works on.            *)

Me == pc[CurrentTask]
Obj == IF Me.obj \in Semaphores THEN smp[Me.obj] ELSE mx[Me.obj]
Queue == Obj.waiting_tasks
Length == Obj.TaskTracker

\* Bound: an object is followed until its counter has been decremented below
\* zero twice or its length does not fit waiting_tasks.
Intact ==
  Me.obj \in Semaphores \cup Mutexes =>
    Obj.counter \in {0, 1, 255} /\ Length \in Tasks

At(statement) ==
  ThreadMode /\ CurrentTask # Idle /\ Me.at = statement /\ Intact

Goto(statement) ==
  /\ pc' = [pc EXCEPT ![CurrentTask].at = statement]
  /\ UNCHANGED held

\* The statement that follows in the two files with a similar call.
Depending(inSemaphore, inMutex) ==
  IF Me.obj \in Semaphores THEN inSemaphore ELSE inMutex

\* What a statement leaves alone if it writes the one variable named.
Others == <<CurrentTask, canary, inPendSV, fault, smp, mx>>
OnlyState == UNCHANGED <<Others, priority, ticks, pendsv>>
OnlyPriority == UNCHANGED <<Others, state, ticks, pendsv>>
OnlyTicks == UNCHANGED <<Others, state, priority, pendsv>>
OnlyPendsv == UNCHANGED <<Others, state, priority, ticks>>

\* A statement that writes fields of the object.
Assign(statement, new, next) ==
  /\ At(statement)
  /\ \/ Me.obj \in Semaphores /\ smp' = [smp EXCEPT ![Me.obj] = new] /\ UNCHANGED mx
     \/ Me.obj \in Mutexes /\ mx' = [mx EXCEPT ![Me.obj] = new] /\ UNCHANGED smp
  /\ Goto(next)
  /\ UNCHANGED coreVars

\* An access through a bad pointer, or OS_Fault.
Halt ==
  /\ OS_Fault
  /\ UNCHANGED <<CurrentTask, state, priority, ticks, canary, pendsv, inPendSV>>
  /\ UNCHANGED <<smp, mx, pc, held>>

-----------------------------------------------------------------------------
(* Task code: it locks what it does not hold and unlocks what it holds.    *)

Enter(call, obj, first) ==
  /\ ThreadMode /\ CurrentTask # Idle /\ Me.at = "idle"
  /\ pc' = [pc EXCEPT ![CurrentTask] =
       [NoCall EXCEPT !.at = first, !.call = call, !.obj = obj]]
  /\ held' = [held EXCEPT ![CurrentTask] = IF call = "unlock" THEN @ \ {obj} ELSE @]
  /\ UNCHANGED vars

Begin ==
  \/ SleepTicks # {} /\ Enter("sleep", NULL, "set_ticks")
  \/ \E s \in Semaphores :
       Enter("wait", s, "test_counter") \/ Enter("signal", s, "set_counter")
  \/ \E m \in Mutexes \ held[CurrentTask] : Enter("lock", m, "test_counter")
  \/ \E m \in held[CurrentTask] : Enter("unlock", m, "test_owner")

Return ==
  /\ \E last \in {"return", "resume"} : At(last)
  /\ pc' = [pc EXCEPT ![CurrentTask] = NoCall]
  /\ held' = [held EXCEPT ![CurrentTask] = IF Me.call = "lock" THEN @ \cup {Me.obj} ELSE @]
  /\ UNCHANGED vars

-----------------------------------------------------------------------------
(* Taking a semaphore or a mutex.                                          *)

\* Mutant: an empty queue is taken for a free object.
TestLength ==
  /\ At("test_counter")
  /\ \/ Length = 0 /\ Goto(Depending("decrement", "own"))
     \/ Length > 0 /\ Goto(Depending("block", "compare_owner"))
  /\ UNCHANGED vars

TestCounter ==
  /\ At("test_counter")
  /\ \/ Obj.counter # 0 /\ Goto(Depending("decrement", "own"))
     \/ Obj.counter = 0 /\ Goto(Depending("block", "compare_owner"))
  /\ UNCHANGED vars

Own == Assign("own", [Obj EXCEPT !.owner = CurrentTask], "save_priority")

SavePriority ==
  Assign("save_priority", [Obj EXCEPT !.OriginalPriority = priority[CurrentTask]], "decrement")

Decrement == Assign("decrement", [Obj EXCEPT !.counter = (@ - 1) % 256], "return")

-----------------------------------------------------------------------------
(* Blocking: in OS_Sleep, OS_Wait and Mutex_Lock.                          *)

\* Mutant: OS_Sleep marks the task first, and sets the ticks afterwards.
MarkThenSetTicks ==
  \/ /\ At("set_ticks") /\ Goto("set_ticks_late")
     /\ state' = [state EXCEPT ![CurrentTask] = "BLOCKED"] /\ OnlyState
  \/ /\ At("set_ticks_late") /\ Goto("pend")
     /\ \E n \in SleepTicks : ticks' = [ticks EXCEPT ![CurrentTask] = n]
     /\ OnlyTicks

SetTicks ==
  /\ At("set_ticks") /\ Goto("block")
  /\ \E n \in SleepTicks : ticks' = [ticks EXCEPT ![CurrentTask] = n]
  /\ OnlyTicks

\* The bytes that a read of NULL->priority may find in the vector table.
VectorBytes == {0, Int8Max, 255}

\* The owner may have unlocked since the counter was tested, and be NULL.
CompareOwner ==
  /\ At("compare_owner")
  /\ \E byte \in VectorBytes :
       LET prio == IF Obj.owner = NULL THEN byte ELSE priority[Obj.owner]
       IN Goto(IF priority[CurrentTask] > prio THEN "elevate" ELSE "block")
  /\ UNCHANGED vars

\* The owner is read once more and may have changed; writing through NULL halts.
Elevate ==
  /\ At("elevate")
  /\ \/ /\ Obj.owner # NULL
        /\ priority' = [priority EXCEPT ![Obj.owner] = priority[CurrentTask]]
        /\ OnlyPriority /\ Goto("block")
     \/ Obj.owner = NULL /\ Halt

Block ==
  /\ At("block") /\ Goto(IF Me.call = "sleep" THEN "pend" ELSE "enlist")
  /\ state' = [state EXCEPT ![CurrentTask] = "BLOCKED"]
  /\ OnlyState

EnlistMe == Assign("enlist", [Obj EXCEPT !.waiting_tasks[Length] = CurrentTask], "count")

\* Mutant: the queue does not get longer.
CountForgotten == At("count") /\ Goto("pend") /\ UNCHANGED vars

Count == Assign("count", [Obj EXCEPT !.TaskTracker = @ + 1], "pend")

\* The switch takes a blocked caller off the CPU before its next statement.
Pend ==
  /\ At("pend") /\ Goto("resume")
  /\ pendsv' = TRUE
  /\ OnlyPendsv

-----------------------------------------------------------------------------
(* Releasing: OS_Signal and Mutex_Unlock.                                  *)

SetCounter == Assign("set_counter", [Obj EXCEPT !.counter = 1], "test_queue")

TestOwner ==
  /\ At("test_owner")
  /\ \/ Obj.owner = CurrentTask /\ UNCHANGED vars /\ Goto("restore")
     \/ Obj.owner # CurrentTask /\ Halt

Restore ==
  /\ At("restore")
  /\ \/ /\ Obj.owner # NULL
        /\ priority' = [priority EXCEPT ![Obj.owner] = Obj.OriginalPriority]
        /\ OnlyPriority /\ Goto("test_queue")
     \/ Obj.owner = NULL /\ Halt

TestQueue ==
  /\ At("test_queue")
  /\ Goto(IF Length > 0 THEN "scan" ELSE Depending("return", "free"))
  /\ UNCHANGED vars

\* MaxPriority and MaxPIndex after n rounds of the scan.
Best(byte) ==
  LET best[n \in 0 .. Length] ==
        IF n = 0 THEN [MaxPriority |-> -1, MaxPIndex |-> -1]
        ELSE LET t == Queue[n - 1]
                 prio == IF t = NULL THEN byte ELSE priority[t]
             IN IF prio > best[n - 1].MaxPriority
                THEN [MaxPriority |-> Int8(prio), MaxPIndex |-> n - 1]
                ELSE best[n - 1]
  IN best[Length]

\* The queue may have become empty since the test, and entries may be NULL.
Scan ==
  /\ At("scan")
  /\ \E byte \in VectorBytes :
       pc' = [pc EXCEPT ![CurrentTask].at = Depending("wake", "pick_winner"),
                        ![CurrentTask].MaxPIndex = Best(byte).MaxPIndex]
  /\ UNCHANGED <<vars, held>>

\* waiting_tasks[-1] is the word with the counter: no better than NULL.
Chosen == IF Me.MaxPIndex = -1 THEN NULL ELSE Queue[Me.MaxPIndex]

PickWinner ==
  /\ At("pick_winner")
  /\ pc' = [pc EXCEPT ![CurrentTask].at = "wake", ![CurrentTask].WinnerTask = Chosen]
  /\ UNCHANGED <<vars, held>>

\* OS_Signal wakes the task in the queue, Mutex_Unlock its local WinnerTask.
ToWake == IF Me.obj \in Semaphores THEN Chosen ELSE Me.WinnerTask

Wake ==
  /\ At("wake")
  /\ \/ ToWake # NULL /\ state' = [state EXCEPT ![ToWake] = "READY"] /\ OnlyState /\ Goto("shift")
     \/ ToWake = NULL /\ Halt

Shift ==
  Assign("shift",
    [Obj EXCEPT !.waiting_tasks =
       [i \in Tasks |-> IF Me.MaxPIndex <= i /\ i < Length - 1 THEN @[i + 1] ELSE @[i]]],
    "clear")

\* Bound: an empty queue, whose entry -1 is the counter, is not cleared.
Clear ==
  /\ At("clear") /\ Length > 0
  /\ Assign("clear", [Obj EXCEPT !.waiting_tasks[Length - 1] = NULL],
            Depending("uncount", "hand_over"))

\* Mutant: the winner is only made READY.
HandOverForgotten == At("hand_over") /\ Goto("save_winners_priority") /\ UNCHANGED vars

HandOver == Assign("hand_over", [Obj EXCEPT !.owner = Me.WinnerTask], "save_winners_priority")

SaveWinnersPriority ==
  Assign("save_winners_priority",
         [Obj EXCEPT !.OriginalPriority = priority[Me.WinnerTask]], "uncount")

Uncount == Assign("uncount", [Obj EXCEPT !.TaskTracker = (@ - 1) % 256], "reset_counter")

\* Mutant: a signal that was handed to a waiter is also remembered.
ResetCounterForgotten == At("reset_counter") /\ Goto("pend") /\ UNCHANGED vars

ResetCounter == Assign("reset_counter", [Obj EXCEPT !.counter = 0], "pend")

Free == Assign("free", [Obj EXCEPT !.counter = 1], "disown")

Disown == Assign("disown", [Obj EXCEPT !.owner = NULL], "return")

-----------------------------------------------------------------------------
CallStep ==
  \/ Begin \/ Return
  \/ TestCounter \/ Own \/ SavePriority \/ Decrement
  \/ SetTicks \/ CompareOwner \/ Elevate \/ Block \/ EnlistMe \/ Count \/ Pend
  \/ SetCounter \/ TestOwner \/ Restore \/ TestQueue \/ Scan \/ PickWinner \/ Wake \/ Shift \/ Clear
  \/ HandOver \/ SaveWinnersPriority \/ Uncount \/ ResetCounter \/ Free \/ Disown

Exception == Background /\ UNCHANGED <<pc, held>>

StepsNext == CallStep \/ Exception

StepsSpec == StepsInit /\ [][StepsNext]_stepVars

-----------------------------------------------------------------------------
(* What survives ticks inside calls.                                       *)

\* OS_Sleep is safe against the tick: whenever it comes between two of its
\* statements, a task that is BLOCKED in OS_Sleep has a count that the tick
\* handler will count down, so it cannot stay there.
SleepersCount ==
  \A t \in Tasks : pc[t].call = "sleep" /\ state[t] = "BLOCKED" => ticks[t] > 0

\* The inductive invariant behind it (StepsProofs.tla): a BLOCKED task is past
\* the statement that marks it, does not leave its call, and has its ticks.
Blocking == {"enlist", "count", "pend", "resume"}

StepsInv ==
  /\ CurrentTask \in Tasks
  /\ state \in [Tasks -> States]
  /\ ticks \in [Tasks -> Nat]
  /\ DOMAIN pc = Tasks /\ \A t \in Tasks : {"at", "call"} \subseteq DOMAIN pc[t]
  /\ OneRunning
  /\ state[Idle] # "BLOCKED"
  /\ \A t \in Tasks : state[t] = "BLOCKED" => pc[t].at \in Blocking
  /\ ThreadMode /\ state[CurrentTask] = "BLOCKED" => Me.at # "resume"
  /\ \A t \in Tasks : pc[t].call = "sleep" =>
       /\ pc[t].at \in {"set_ticks", "block", "pend", "resume"}
       /\ state[t] = "BLOCKED" \/ pc[t].at = "block" => ticks[t] > 0

-----------------------------------------------------------------------------
(* What the documentation says of the calls, which does not survive.       *)

\* "`OS_Signal()` wakes the highest-priority waiting task" (README.md): a
\* task that OS_Wait or Mutex_Lock took off the CPU can be found in a queue.
NoTaskStranded ==
  \A t \in Tasks :
    state[t] = "BLOCKED" /\ t # CurrentTask => ticks[t] > 0 \/ t \in Queued

\* Context switches come "only after all data structures are fully
\* consistent" (README.md, PendSV ordering): a task that waited in Mutex_Lock
\* is the owner once it executes again.
OwnsWhenResumed ==
  ThreadMode /\ Me.at = "resume" /\ Me.call = "lock" => Obj.owner = CurrentTask
=============================================================================
