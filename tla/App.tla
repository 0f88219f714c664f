-------------------------------- MODULE App ---------------------------------
(***************************************************************************)
(* The kernel, the heap and the UART under given task functions            *)
(* (App/tasks.c and the test tasks of docs/code_snippets.md).  A task      *)
(* function is a script of calls and of work between them; at its end it   *)
(* loops back.  Unlike in Kernel, the code a task runs is fixed, so what   *)
(* it waits for can be promised.  Calls of the heap are atomic here: in    *)
(* every application one task at most makes them.                          *)
(***************************************************************************)
EXTENDS Kernel, Heap, Uart

\* The applications, each a record of
\*   Script    for each task the sequence of its calls, [call, arg]
\*   LoopFrom  for each task where its while (1) starts
\* and, for the proofs, of what each call of a script finds:
\*   Holds     the mutexes the task has locked by then
\*   Needs     bytes of heap for all it still asks for, headers included
CONSTANT Applications

\* The call after call i of task t.
After(a, t, i) == IF i = Len(a.Script[t]) THEN a.LoopFrom[t] ELSE i + 1

Positions(a, t) == 1 .. Len(a.Script[t])

\* A call is made with an object or a number it can be made with.
GoodArgument(c) ==
  /\ c.call \in {"wait", "signal"} => c.arg \in Semaphores
  /\ c.call \in {"lock", "unlock"} => c.arg \in Mutexes
  /\ c.call = "sleep" => c.arg \in SleepTicks
  /\ c.call \in {"malloc", "exhaust"} => c.arg \in Requests

ASSUME ScriptAssumption ==
  \A a \in Applications : \A t \in Tasks \ {Idle} :
    /\ Len(a.Script[t]) \in Nat
    /\ a.LoopFrom[t] \in Positions(a, t)
    /\ \A i \in Positions(a, t) : GoodArgument(a.Script[t][i])

\* A task locks a mutex only while it does not hold it and unlocks it only
\* while it does.
HeldAfter(a, t, i) ==
  LET c == a.Script[t][i] IN
  CASE c.call = "lock"   -> a.Holds[t][i] \cup {c.arg}
    [] c.call = "unlock" -> a.Holds[t][i] \ {c.arg}
    [] OTHER             -> a.Holds[t][i]

ASSUME LockingAssumption ==
  \A a \in Applications : \A t \in Tasks \ {Idle} :
    /\ a.Holds[t][1] = {}
    /\ \A i \in Positions(a, t) :
         LET c == a.Script[t][i] IN
         /\ a.Holds[t][i] \subseteq Mutexes
         /\ c.call = "lock" => c.arg \notin a.Holds[t][i]
         /\ c.call = "unlock" => c.arg \in a.Holds[t][i]
         /\ a.Holds[t][After(a, t, i)] = HeldAfter(a, t, i)

\* Inside a critical section the tests only work, and each test has one mutex.
ASSUME CriticalSectionAssumption ==
  \A a \in Applications : \A t, u \in Tasks \ {Idle} :
    \A i \in Positions(a, t), k \in Positions(a, u) :
      /\ a.Holds[t][i] # {} => a.Script[t][i].call \in {"work", "unlock"}
      /\ \A m \in a.Holds[t][i], q \in a.Holds[u][k] : m = q

\* What a task asks os_malloc for fits the heap, and while it still has to
\* ask, no other task takes memory.
ASSUME HeapUseAssumption ==
  \A a \in Applications : \A t \in Tasks \ {Idle} :
    /\ a.Needs[t][1] <= HEAP_SIZE
    /\ \A i \in Positions(a, t) :
         LET c == a.Script[t][i]
             left == a.Needs[t][After(a, t, i)]
         IN /\ a.Needs[t][i] \in Nat /\ left <= a.Needs[t][i]
            /\ c.call = "malloc" => c.arg > 0 /\ left + c.arg + SIZEOF_HEADER <= a.Needs[t][i]
            /\ c.call = "exhaust" => a.Needs[t][i] = 0
            /\ c.call \in {"malloc", "exhaust"} =>
                 \A u \in Tasks \ {Idle, t} : \A k \in Positions(a, u) : a.Needs[u][k] = 0

\* One task of an application prints.
ASSUME PrintAssumption ==
  \A a \in Applications : \A t, u \in Tasks \ {Idle} :
    \A i \in Positions(a, t), k \in Positions(a, u) :
      a.Script[t][i].call = "print" /\ a.Script[u][k].call = "print" =>
        t = u /\ t \in Printers

VARIABLES
  app,          \* the application that is flashed
  pc,           \* for each task the call it makes next
  ranSinceTick  \* history: has the CPU been in thread mode since the last tick

scriptVars == <<app, pc>>
appVars == <<vars, heapVars, uartVars, scriptVars, ranSinceTick>>

AppInit ==
  /\ Init /\ HeapInit /\ UartInit
  /\ sizes = Requests
  /\ app \in Applications
  /\ pc = [t \in Tasks |-> 1]
  /\ ranSinceTick = TRUE

NextCall(t) == app.Script[t][pc[t]]
Made(t, name) == ThreadMode /\ CurrentTask = t /\ NextCall(t).call = name

Advance(t) ==
  pc' = [pc EXCEPT ![t] = After(app, t, pc[t])]

\* The current task makes its next kernel call, or works for any number of
\* ticks and then goes on.
KernelStep(t) ==
  LET arg == NextCall(t).arg IN
  /\ \/ Made(t, "work") /\ UNCHANGED vars
     \/ Made(t, "sleep") /\ OS_Sleep(arg) /\ UNCHANGED <<smp, mx>>
     \/ Made(t, "wait") /\ OS_Wait(arg) /\ UNCHANGED mx
     \/ Made(t, "signal") /\ OS_Signal(arg) /\ UNCHANGED mx
     \/ Made(t, "lock") /\ Mutex_Lock(arg) /\ UNCHANGED smp
     \/ Made(t, "unlock") /\ Mutex_Unlock(arg) /\ UNCHANGED smp
  /\ Advance(t)
  /\ UNCHANGED <<heap, owned, uartVars>>

\* "malloc" ends in OS_Fault (or a write to address 0) when it gets NULL,
\* "exhaust" allocates until it does, "free" gives back the only block.
HeapStep(t) ==
  LET arg == NextCall(t).arg IN
  /\ \/ /\ Made(t, "malloc") /\ os_malloc(arg) /\ Advance(t)
        /\ fault' = Refused(arg)
        /\ UNCHANGED <<CurrentTask, state, priority, ticks, canary, pendsv, inPendSV, smp, mx>>
     \/ Made(t, "exhaust") /\ Grant(arg) /\ UNCHANGED <<vars, pc>>
     \/ Made(t, "exhaust") /\ Refuse(arg) /\ Advance(t) /\ UNCHANGED vars
     \/ Made(t, "free") /\ (\E b \in owned : os_free(b)) /\ Advance(t) /\ UNCHANGED vars
  /\ UNCHANGED uartVars

PrintStep(t) ==
  /\ Made(t, "print")
  /\ \/ (Format(t) \/ Put(t)) /\ UNCHANGED pc
     \/ PrintReturns(t) /\ Advance(t)
  /\ UNCHANGED <<vars, heap, owned>>

Step(t) ==
  /\ KernelStep(t) \/ HeapStep(t) \/ PrintStep(t)
  /\ UNCHANGED <<app, sizes, ranSinceTick>>

\* A tick lasts 120000 cycles and a switch a few hundred, so between two
\* ticks the CPU gets back to thread mode, if only for an instruction.
Tick ==
  /\ ranSinceTick
  /\ SysTick_Handler
  /\ ranSinceTick' = FALSE
  /\ UNCHANGED <<smp, mx, heapVars, uartVars, scriptVars>>

SwitchEntry ==
  PendSV_Entry /\ UNCHANGED <<smp, mx, heapVars, uartVars, scriptVars, ranSinceTick>>

SwitchBody ==
  /\ PendSV_Handler
  /\ ranSinceTick' = (ranSinceTick \/ ~pendsv)
  /\ UNCHANGED <<smp, mx, heapVars, uartVars, scriptVars>>

Sending == Transmit /\ UNCHANGED <<vars, heapVars, scriptVars, ranSinceTick>>

AppNext ==
  Tick \/ SwitchEntry \/ SwitchBody \/ Sending \/ \E t \in Tasks \ {Idle} : Step(t)

\* The timer runs, a pending switch happens, the UART sends, and a task that
\* keeps getting the CPU gets on with its code.
AppFairness ==
  /\ WF_appVars(Tick)
  /\ WF_appVars(SwitchEntry)
  /\ WF_appVars(SwitchBody)
  /\ WF_appVars(Sending)
  /\ \A t \in Tasks \ {Idle} : SF_appVars(Step(t))

AppSpec == AppInit /\ [][AppNext]_appVars /\ AppFairness

-----------------------------------------------------------------------------
\* No script ends in OS_Fault, as long as no tick lands inside a call: nobody
\* reaches an unlock before a hand-over has made it the owner, whichever calls
\* the ticks fall between, and the heap tests get the memory they ask for.
\* (A tick inside Mutex_Lock or Mutex_Unlock can break this: StepsResumed.cfg.)
NeverFaults == ~fault

\* Priority inversion is bounded: while a task waits for a mutex, the CPU
\* executes the owner or tasks at least as important as the one that waits.
NoInversion ==
  ThreadMode /\ state[CurrentTask] = "RUNNING" =>
    \A m \in Mutexes : \A t \in MutexWaiters(m) :
      CurrentTask = mx[m].owner \/ BasePriority[CurrentTask] >= BasePriority[t]

\* A task that waits for a mutex gets it, even while a task of a priority
\* in between never gives up the CPU.
WaiterGetsLock ==
  \A m \in Mutexes, t \in Tasks : t \in MutexWaiters(m) ~> mx[m].owner = t

\* A task that waits for a signal is released again and again.
WaiterGetsSignal ==
  \A s \in Semaphores, t \in Tasks : t \in SemWaiters(s) ~> t \notin SemWaiters(s)

-----------------------------------------------------------------------------
(* What the proofs need besides (AppProofs.tla).                           *)

AppTypeOK ==
  /\ app \in Applications
  /\ pc \in [Tasks -> Nat]
  /\ \A t \in Tasks \ {Idle} : pc[t] \in Positions(app, t)

\* The tasks that have called Mutex_Lock and not yet Mutex_Unlock.
Engaged(m) == {t \in Tasks : mx[m].owner = t} \cup MutexWaiters(m)

\* They are those whose scripts say so; the idle task has none.
ScriptsHold ==
  \A m \in Mutexes :
    /\ \A t \in Tasks \ {Idle} : m \in app.Holds[t][pc[t]] <=> t \in Engaged(m)
    /\ Idle \notin Engaged(m)

\* Some free block and its header have n bytes together.
RoomFor(n) == \E h \in DOMAIN heap : heap[h].is_free /\ n <= heap[h].size + SIZEOF_HEADER

\* One free block has room for all that a task still asks for.
RoomLeft ==
  \A t \in Tasks \ {Idle} :
    LET needed == app.Needs[t][pc[t]]
    IN needed > SIZEOF_HEADER => RoomFor(needed)

\* A task inside UART_printf is at a call that prints.
PrintersPrint ==
  \A t \in Printers : ptr[t] # 0 => t \in Tasks \ {Idle} /\ NextCall(t).call = "print"

\* The inductive invariant: each script is where the kernel, the heap and the
\* UART are.
AppInv ==
  /\ AppTypeOK /\ IInv /\ HeapInv /\ UartInv
  /\ sizes = Requests /\ canary = [t \in Tasks |-> TRUE] /\ NeverFaults
  /\ ScriptsHold /\ RoomLeft /\ PrintersPrint

\* A critical section does not block.
OwnersAwake == \A m \in Mutexes : mx[m].owner # NULL => state[mx[m].owner] # "BLOCKED"
=============================================================================
