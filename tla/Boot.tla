-------------------------------- MODULE Boot --------------------------------
(***************************************************************************)
(* From reset to the running system: main (App/main.c), the waits for the  *)
(* clocks of the peripherals, Init_OS and Create_Task, and the launch of   *)
(* the first task.  Everything else assumes that this ends in Kernel!Init. *)
(*                                                                         *)
(* SysTick_Init clears the counter, so the first tick comes 120000 cycles  *)
(* later, when Start_OS has long launched the first task.                  *)
(***************************************************************************)
EXTENDS Clock, ContextSwitch, Kernel

CONSTANTS Programs \* the sets of slots that main may fill with Create_Task

\* Every main fills slot 0.
ASSUME ProgramsAssumption ==
  \A filled \in Programs : filled \subseteq Tasks \ {Idle} /\ 0 \in filled

VARIABLES
  main,    \* the position of main in its calls
  program, \* the slots that this main fills
  enabled, \* the peripherals whose clock gate is open
  ready    \* those among them that can be accessed

bootVars == <<vars, contextVars, clockVars, main, program, enabled, ready>>

\* Mutant: Mutex_Init is forgotten.
CallsWithoutMutex ==
  <<"PLL_Init", "DWT_Init", "UART_Init", "PortN_Init", "PortF_Init", "OS_HeapInit",
    "Init_OS", "OS_SemaphoreInit", "Create_Tasks", "SysTick_Init", "Start_OS">>

Calls ==
  <<"PLL_Init", "DWT_Init", "UART_Init", "PortN_Init", "PortF_Init", "OS_HeapInit",
    "Init_OS", "Mutex_Init", "OS_SemaphoreInit", "Create_Tasks", "SysTick_Init", "Start_OS">>

RELOAD == 119999
PSYSDIV == 3

Peripherals == {"UART_Init", "PortN_Init", "PortF_Init"}

At(call) == main <= Len(Calls) /\ Calls[main] = call
Return == main' = main + 1
Launched == main > Len(Calls)

\* Static data are zero, the registers and stacks not set up.
BootInit ==
  /\ ClockInit
  /\ main = 1 /\ enabled = {} /\ ready = {}
  /\ program \in Programs
  /\ CurrentTask = NULL
  /\ state = [t \in Tasks |-> "READY"]
  /\ priority = [t \in Tasks |-> 0] /\ ticks = [t \in Tasks |-> 0]
  /\ canary = [t \in Tasks |-> FALSE]
  /\ pendsv = FALSE /\ inPendSV = FALSE /\ fault = FALSE
  /\ smp = [s \in Semaphores |->
       [counter |-> 0, waiting_tasks |-> NoWaiters, TaskTracker |-> 0]]
  /\ mx = [m \in Mutexes |->
       [owner |-> NULL, counter |-> 0, waiting_tasks |-> NoWaiters,
        TaskTracker |-> 0, OriginalPriority |-> 0]]
  /\ psp = [t \in Tasks |-> NullPsp] /\ stack = [t \in Tasks |-> <<>>]
  /\ PSP = NullPsp /\ cpu = RegistersOf(NULL, 1)
  /\ stacked = FALSE
  /\ left = [t \in Tasks |-> NotLeft]

-----------------------------------------------------------------------------
InitClock ==
  /\ At("PLL_Init")
  /\ \/ PLL_Init /\ UNCHANGED main
     \/ step = "return" /\ Return /\ UNCHANGED clockVars
  /\ UNCHANGED <<vars, contextVars, program, enabled, ready>>

EnablePeripheral(p) ==
  /\ At(p) /\ p \notin enabled
  /\ enabled' = enabled \cup {p}
  /\ UNCHANGED <<vars, contextVars, clockVars, main, program, ready>>

\* The wait for the peripheral is over: configure it.
InitPeripheral(p) ==
  /\ At(p) /\ p \in ready
  /\ Return
  /\ UNCHANGED <<vars, contextVars, clockVars, program, enabled, ready>>

\* Calls that set up nothing that is modelled here.
OtherCall ==
  /\ At("DWT_Init") \/ At("OS_HeapInit") \/ At("SysTick_Init")
  /\ Return
  /\ UNCHANGED <<vars, contextVars, clockVars, program, enabled, ready>>

\* Every slot is cleared, then the idle task is created.
Init_OS ==
  /\ At("Init_OS") /\ Return
  /\ CurrentTask' = NULL
  /\ state' = [t \in Tasks |-> "READY"]
  /\ ticks' = [t \in Tasks |-> 0]
  /\ priority' = [t \in Tasks |-> 0]
  /\ psp' = [t \in Tasks |-> IF t = Idle THEN [task |-> Idle, depth |-> 16] ELSE NullPsp]
  /\ stack' = [stack EXCEPT ![Idle] = Forged(Idle)]
  /\ canary' = [canary EXCEPT ![Idle] = TRUE]
  /\ left' = [left EXCEPT ![Idle] = AtEntry(Idle)]
  /\ UNCHANGED <<pendsv, inPendSV, fault, smp, mx, PSP, cpu, stacked, clockVars,
                 program, enabled, ready>>

InitObjects ==
  /\ \/ At("Mutex_Init") /\ mx' = [m \in Mutexes |-> [mx[m] EXCEPT !.counter = 1, !.TaskTracker = 0]]
        /\ UNCHANGED smp
     \/ At("OS_SemaphoreInit")
        /\ smp' = [s \in Semaphores |-> [smp[s] EXCEPT !.counter = 0, !.TaskTracker = 0]]
        /\ UNCHANGED mx
  /\ Return
  /\ UNCHANGED <<coreVars, contextVars, clockVars, program, enabled, ready>>

Create_Tasks ==
  /\ At("Create_Tasks")
  /\ \/ \E t \in program :
          /\ psp[t] = NullPsp
          /\ \A u \in program : u < t => psp[u] # NullPsp
          /\ Create_Task(t, BasePriority[t])
          /\ UNCHANGED main
     \/ /\ \A t \in program : psp[t] # NullPsp
        /\ Return
        /\ UNCHANGED <<coreVars, contextVars>>
  /\ UNCHANGED <<smp, mx, clockVars, program, enabled, ready>>

Launch ==
  /\ At("Start_OS") /\ Start_OS /\ Return
  /\ UNCHANGED <<smp, mx, clockVars, program, enabled, ready>>

Main ==
  \/ InitClock \/ OtherCall \/ Init_OS \/ InitObjects \/ Create_Tasks \/ Launch
  \/ \E p \in Peripherals : EnablePeripheral(p) \/ InitPeripheral(p)

-----------------------------------------------------------------------------
(* The hardware, and the launched system.                                  *)
OscillatorStarts ==
  /\ CrystalStarts \/ PLLLocks
  /\ UNCHANGED <<vars, contextVars, main, program, enabled, ready>>

PeripheralReady ==
  /\ ready' = enabled /\ ready # enabled
  /\ UNCHANGED <<vars, contextVars, clockVars, main, program, enabled>>

Run ==
  /\ Launched /\ ContextNext
  /\ UNCHANGED <<smp, mx, clockVars, main, program, enabled, ready>>

BootNext == Main \/ OscillatorStarts \/ PeripheralReady \/ Run

LaunchedTick ==
  /\ Launched /\ Tick
  /\ UNCHANGED <<smp, mx, clockVars, main, program, enabled, ready>>

\* main gets on, what it waits for without a limit happens, and the timer
\* runs.  The PLL need not lock.
BootSpec ==
  /\ BootInit /\ [][BootNext]_bootVars
  /\ WF_bootVars(Main) /\ WF_bootVars(PeripheralReady)
  /\ WF_bootVars(CrystalStarts /\ OscillatorStarts)
  /\ WF_bootVars(LaunchedTick)

-----------------------------------------------------------------------------
\* A task goes on with the registers, the stack and the stack pointer that it
\* was interrupted with, whatever ran in between, however many ticks came
\* during the switch and whether or not its stack was aligned; a new task
\* starts with what Create_Task forged.
ContextKept ==
  [][stacked /\ ~stacked' =>
       /\ cpu' = left[CurrentTask].cpu
       /\ stack'[CurrentTask] = left[CurrentTask].stack
       /\ PSP' = [task |-> CurrentTask, depth |-> Len(left[CurrentTask].stack)]]_bootVars

\* If main fills all slots, the boot ends in the state in which the models of
\* the kernel begin.
BootsIntoKernel ==
  [][~Launched /\ Launched' /\ program = Tasks \ {Idle} => Init']_bootVars

\* The reload value of SysTick and the PLL settings, which are in different
\* files, make the tick a millisecond, if the PLL locks before PLL_Init has
\* counted to its limit.  (If not, the tick lasts 4.8 ms.)
TickIsMillisecond ==
  Launched /\ psysdiv = PSYSDIV /\ lockedAt < LockTimeout => SysClk = 1000 * (RELOAD + 1)

\* The boot ends, whether or not the PLL locks.
BootCompletes == <>Launched

\* A program that leaves a slot unfilled stops with the first tick, at the
\* latest: the slot has no canary.
UnfilledHalts == [](Launched /\ program # Tasks \ {Idle} => <>fault)

-----------------------------------------------------------------------------
(* Results of the proofs only (BootProofs.tla).                            *)

\* The slots that no Create_Task fills.
Forgotten == Tasks \ (program \cup {Idle})

\* They stay as Init_OS leaves them, and when a switch loads one, the CPU has
\* no stack to return to.
ForgottenBlank ==
  Launched =>
    \A t \in Forgotten :
      psp[t] = NullPsp /\ ~canary[t] /\ (t = CurrentTask => PSP = NullPsp)

\* The scheduler may choose a slot that nobody filled, but no instruction is
\* executed there.
ForgottenNeverRun == Launched /\ ~stacked => CurrentTask \notin Forgotten

\* The first tick after the launch finds the missing canary.
FirstTickHalts == [][LaunchedTick /\ Forgotten # {} => fault']_bootVars

-----------------------------------------------------------------------------
(* The inductive invariant of the boot (BootProofs.tla).                   *)

\* A slot before and after Create_Task.
Blank(t) ==
  psp[t] = NullPsp /\ stack[t] = <<>> /\ priority[t] = 0 /\ ~canary[t]
Created(t) ==
  /\ psp[t] = [task |-> t, depth |-> 16] /\ stack[t] = Forged(t)
  /\ priority[t] = BasePriority[t] /\ canary[t]
  /\ left[t] = AtEntry(t)

\* Nothing runs beside main, and each of its calls leaves what it should.
Booting ==
  /\ ~pendsv /\ ~inPendSV /\ ~fault /\ ~stacked
  /\ cpu = RegistersOf(NULL, 1)
  /\ state = [t \in Tasks |-> "READY"] /\ ticks = [t \in Tasks |-> 0]
  /\ priority \in [Tasks -> 0 .. Int8Max] /\ canary \in [Tasks -> BOOLEAN]
  /\ psp \in [Tasks -> StackPointers] /\ stack \in [Tasks -> Seq(AnyWord)]
  /\ DOMAIN left = Tasks
  /\ \A t \in Tasks : left[t] \in {NotLeft, AtEntry(t)}
  /\ \A t \in Tasks :
       \/ Blank(t) /\ (t = Idle => main <= 7) /\ (t \in program => main <= 10)
       \/ Created(t) /\ main > 7 /\ t \in program \cup {Idle}
  /\ smp = [s \in Semaphores |->
       [counter |-> 0, waiting_tasks |-> NoWaiters, TaskTracker |-> 0]]
  /\ mx = [m \in Mutexes |->
       [owner |-> NULL, counter |-> IF main <= 8 THEN 0 ELSE 1, waiting_tasks |-> NoWaiters,
        TaskTracker |-> 0, OriginalPriority |-> 0]]

BootInv ==
  /\ ClockInv
  /\ program \in Programs
  /\ main \in 1 .. 13
  /\ main > 1 => step = "return"
  /\ IF Launched THEN ContextInv ELSE Booting
=============================================================================
