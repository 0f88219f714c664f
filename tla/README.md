# TLA+ models of the Cortex-M4 RTOS kernel

This directory models the kernel under `Kernel/` with the drivers and the
application code it depends on. The models are checked with TLC and the
main results are proved with TLAPS for every number of tasks, semaphores
and mutexes. Paths are relative to the repository's root.

## The system

| Component | State | Operations | Talks to |
|---|---|---|---|
| Scheduler (`Kernel/os_core.c`, `OS_Schedule`) | `CurrentTask`, `task_array[].state`, `.priority` | choose the next task | called by PendSV only |
| Kernel core (`os_core.c`, `os_asm.s`, `Drivers/SysTick.c`, `os_error.c`) | `ticks`, canaries, PENDSVSET, interrupt masking | `OS_Sleep`, `SysTick_Handler`, `PendSV_Handler`, `OS_Fault` | the tick and every blocking call pend PendSV |
| Semaphores (`Kernel/Semaphore.c`) | `counter`, `waiting_tasks[]`, `TaskTracker` | `OS_Wait`, `OS_Signal` | sets task states, pends PendSV |
| Mutexes (`Kernel/Mutex.c`) | the same, `owner`, `OriginalPriority` | `Mutex_Lock`, `Mutex_Unlock` | sets task states and priorities, pends PendSV, halts in `OS_Fault` |
| Heap (`Kernel/os_malloc.c`) | headers inside `heap_array` | `os_malloc`, `os_free` | called by tasks |
| Boot (`App/main.c`, `Init_OS`, `Create_Task`, `Start_OS`) | the position of `main`, clock gates, forged stack frames | runs once | starts the timer, then the first task |
| System clock (`Drivers/PLL.c`) | oscillator, PLL lock, divisor | `PLL_Init` | called by `main`; decides how long a tick lasts |
| UART (`Drivers/uart.c`) | one print buffer, the transmit FIFO | `UART_numeric_print`, `UART_Trace` | called by tasks; the trace calls are commented out |
| Tasks (`App/tasks.c`, `docs/code_snippets.md`) | their position in their code | calls of all of the above | |
| Cycle counter, device files | registers | | |

What makes it hard is that all of it shares the task control blocks. The
tick changes states under every call. A blocking call only *requests* the
switch that takes the caller off the CPU. A wake-up writes the state, the
queue and, for a mutex, the owner and two priorities. A context is saved half
by the CPU and half by PendSV, with ticks in between. No test looks at more
than one schedule.

What each part must guarantee:

* scheduler: the most important READY task, rotating among equals, and never
  a task that has blocked itself;
* core: sleepers wake and nobody else does; one RUNNING task; an overrun
  stack halts the system;
* semaphores: one signal is remembered, each signal releases at most one
  waiter, the most important one; nobody waits for a stored signal;
* mutexes: one owner, hand-over to the most important waiter, bounded
  priority inversion, priorities restored afterwards;
* context switch: a task goes on with the registers and the stack it was
  interrupted with;
* heap: the headers tile the array, blocks in use never overlap, and with one
  block size nothing is lost however often blocks are freed;
* clock: it ends up at 120 MHz if the PLL locks in time, and then a tick is
  a millisecond;
* boot: it ends, in the state the kernel starts from, or halts if a slot was
  forgotten;
* UART: a printed number arrives whole.

`PROJECT.json` lists the hazards, each at its line, with the properties that
address it.

## The modules

| Module | Stands for |
|---|---|
| `TaskTable` | the constants of `task_array`: slots, states, the idle slot, the int8_t conversion |
| `Scheduler` | the choice `OS_Schedule` makes, declaratively |
| `OSCore` | task control blocks, `SysTick_Handler`, PendSV, `OS_Sleep`, the canary check |
| `WaitQueue` | the array of waiters both kinds of object embed: enlist, winner, close the hole |
| `Semaphore`, `Mutex` | one action per path of each call |
| `Kernel` | core, semaphores and mutexes over one task table; the clients; the properties |
| `PriorityLock`, `BinarySemaphore` | what mutexes and semaphores promise, without queues or task states |
| `KernelSteps` | the same calls with every C statement a step, so that ticks come in between |
| `QuietSteps` | those steps without a tick inside a call, mapped to `Kernel` |
| `Allocator` | what a heap promises: blocks in use inside the heap, disjoint |
| `Heap` | `OS_HeapInit`, `os_malloc`, `os_free` on the headers, a call one action |
| `HeapWalk` | the loop of `os_malloc`, one header a step |
| `Clock` | `PLL_Init`, with the crystal and the PLL as the environment |
| `ContextSwitch` | `OSCore` with the registers and stacks: `Create_Task`, `Start_OS`, exception entry and return, PendSV's half |
| `Boot` | `main` from reset, over `Clock`, `ContextSwitch` and `Kernel`, and the launched system |
| `Uart` | `UART_numeric_print` down to the FIFO |
| `App` | kernel, heap and UART under fixed task functions: `App/tasks.c` and the tests of `docs/code_snippets.md` |
| `ScheduleLoop` | the loop of `OS_Schedule`, one iteration a step, with C widths |
| `WakeLoop` | the scan and shift loops of `OS_Signal` and `Mutex_Unlock`, likewise |
| `Widths` | the priorities both are run for |
| `WaitQueueProofs`, `KernelProofs`, `AppProofs`, `LoopProofs`, `StepsProofs`, `QuietProofs`, `HeapProofs`, `BootProofs` | the proofs |
| `MCKernel`, `MCSteps`, `MCQuiet`, `MCApp`, `MCBoot`, `MCLoops` | small instances for TLC |

**Names.** A task is its slot in `task_array`, a `TCB*` a slot or `NULL`.
Fields and functions keep their C names. An operator under a comment that
begins with *Mutant* is a deliberately wrong version of the definition
below it; no specification uses it. `PROJECT.json` says which property
notices it.

**Thread mode and exceptions.** Kernel code that tasks call is one action
per path: `OS_Wait` is `WaitTake` or `WaitBlock`. An action needs
`ThreadMode`: no PendSV is pending or active, because the pended exception is
taken before the next instruction of the caller that matters (PendSV has the
lowest priority, but still a higher one than thread mode). `SysTick_Handler`
can happen in any state, also while PendSV is pending and between PendSV's
entry and its `CPSID`; that is why `PendSV_Entry` and `PendSV_Handler`
are two actions. From `CPSID` to the return nothing interferes, so the second
one is a single step with all of `OS_Schedule` in it.

**Ticks inside calls.** `Kernel` takes each call as one action. The code does
not ensure that: nothing masks interrupts in thread mode. `KernelSteps`
therefore has one action per statement, a program counter per task (`pc.at` names
the statement that comes next) and the locals `MaxPIndex` and `WinnerTask`. The
statements the semaphore and mutex files share are one action; `Depending`
says where they part. `QuietSteps` keeps the exceptions
out of the calls and records in `before` the state in which the current call
began; under that mapping the statements of each call are a stutter or the
one `Kernel` action (`CallsAreActions`). So `Kernel` is right about what each
call does, its properties hold of the code whenever no tick lands inside a
call, and the `steps_` runs show what becomes of them otherwise. `QuietSteps` also
states what tasks rely on at every statement (`HoldersOwn`, `CountersBinary`, `NoTaskStranded`):
all of it holds, so the tick alone is what breaks it in `KernelSteps`. It does not
cover the races themselves, which need a tick inside a call: only `steps_stranded` and
`steps_resumed` do. All of this is checked for a small instance and
proved for every one (`QuietProofs`). What the C
language leaves undefined is a choice: the byte that a read of
`NULL->priority` finds in the vector table, and whether the comparison with
it makes the code write to flash.

Two simplifications remain. Each statement reads what it needs and writes in one step, also
a `++`, a `--` or the test of an `if`; `Mutex.c:20` and `:51-52`, which read the
owner or the winner twice, are two statements each. And a scan or shift loop is not
interrupted in the middle. Both only remove interleavings.

**Choices instead of loops.** `Selected`, `Winner` and `FillHole` state what
the loops compute. `ScheduleLoop` and `WakeLoop` run the loops as written,
and it is proved that they compute exactly that when every priority is at
most 127. `OSCore` therefore assumes priorities in `0 .. Int8Max`.

**Abstractions.** `OS_Ticks` is left out (only the commented-out trace reads
it). A stack is its canary; an overrun is an action of tasks listed in
`Overrunning` and damages nothing but the canary, although on the chip the
words below are the previous slot's fields. `OS_Fault` stops everything.
`Kernel` and the modules over it leave registers, frames and the boot out and
begin in `CoreInit`: all slots filled, `CurrentTask` slot 0 and, as `Start_OS`
leaves it, still READY. `Boot` shows that this is where `main` ends
(`BootsIntoKernel`).

**Registers and stacks.** In `ContextSwitch` a stack is the sequence of words in
use and a word says whose register it holds and which of its values. The
16 integer registers and `PSP` are modelled; what a task computes is replaced by
`Work`, which changes all of them and the depth of its stack. `Interrupt` is
the CPU: it pushes half of the registers, aligned to eight bytes. A `TCB` has
412 bytes, so every other slot begins at an odd multiple of four (`OddSlots`) and
a frame may be padded. Exceptions that follow one another without returning
to a task (tail-chaining) push once. `SVC` is part of `Start_OS` and
`ExceptionReturn`. `left` records what a task was left with; `ContextKept`
compares when it goes on. `README.md:69-76` draws the forged frames at words 84
to 99 of `tcb_array`; `psp` is `stackTop - 16`, so they are at 83 to 98 and word 99
is never used, which is harmless. The floating-point registers and
`EXC_RETURN`, which PendSV does not save, are not modelled: no code in the
repository uses floating point.

**Clock.** `PLL_Init` runs against an oscillator that starts some time and a PLL
that may lock at any count of `timeout` or never; `LockTimeout` stands for
0xFFFF. Frequencies are computed as the macros do. The flash timing that
`PLL.c:130-150` writes to `MEMTIM0` is left out: what the flash needs is a table of the
datasheet, and a model that took it from the code would compare the code with itself. If the PLL
does not lock, `main` goes on at 25 MHz: nothing in the code notices, and each tick
lasts 4.8 ms (`TickIsMillisecond` names the premise).

**Boot.** Each call of `main` is an action or, where it waits, several.
`Init_OS` is one action: nothing runs beside it. `SysTick_Init` starts the
timer before `Start_OS`; the first tick comes 120000 cycles later and so
never inside `main`.

**Heap.** An address is an offset into `heap_array`, a header is the pair of its
fields, payloads are left out. Callers free what they own, once: `os_free`
checks nothing. Two tasks inside `os_malloc` at once could be given the same
block; in every application of the repository one task at most uses the heap,
and `HeapWalk` has one caller. Alignment is left out.

**UART.** A number is three characters, tagged with the number and the
position; the FIFO holds two instead of 16. `task2` alone prints.

**Clients.** `Spec` lets every task except idle make any call at any time,
also wrong ones: unlocking what it does not own (`OS_Fault`), locking what it
owns. `NestingSpec` restricts the mutex calls to locking what one does not
own and unlocking what one owns. `OrderlySpec` further restricts tasks to
own one mutex at a time, as all the test code does. `App` fixes the
code of each task instead.

## The runs

| Run | Shows | Bounds |
|---|---|---|
| `kernel_any` | with arbitrary calls: no lost task, consistent queues, no spurious wake-up, priorities that are lent and never lost, and the refinement of `PriorityLock` and `BinarySemaphore` | 3 user tasks, two of them of equal priority, 1 semaphore, 2 mutexes, sleeps of 1 and 2 ticks |
| `kernel_orderly` | inheritance, its end, no owner that waits for another mutex, and that the most important READY task executes, with overruns possible | the 5 slots of `main.c`, 1 semaphore, 2 mutexes |
| `kernel_fair` | sleepers wake, overruns halt the system, equals take turns | 3 user tasks, 1 semaphore, 1 mutex |
| `applications` | the priority inversion test: the waiter gets the mutex although a medium task hogs the CPU, and no unlock faults as long as no tick lands inside a call; the producer-consumer test: the consumer is released again and again; the heap tests get their memory; the shipped tasks: every printed number arrives whole | the 5 slots of `main.c`, one tick = 125 ms, 100 ms or 250 ms of the code; a heap of 1024 bytes; the initial state picks the application |
| `boot` | the clock, the boot, context switching, and what a forgotten slot does | 4 slots, two of equal priority, slots 1 and 3 odd, slot 1 forgotten or not, 1 semaphore, 1 mutex, 1 word of task stack, two register values, a lock timeout of 2, a valid and a too fast divisor |
| `steps_quiet` | uninterrupted, the statements of each call are the action of `Kernel`, holders own, no counter leaves 0 and 1, and no task is stranded | 3 user tasks, 1 semaphore, 1 mutex |
| `steps_any` | with ticks between all statements, `OS_Sleep` never strands its caller | 2 user tasks, 1 semaphore, 1 mutex |
| `loops` | the loops of `OS_Schedule` and of the wake-up compute the choices; the walk of `os_malloc` returns, is first fit and implements `Allocator`; one block size loses nothing | 4 slots, priorities 0, 1, 127, every initial table and queue; a heap of 41 bytes, headers of 8, every set of the sizes 0, 1, 12, 24; the initial state picks the loop |

Three user tasks are the least with which a queue of two and a third task
that wakes them exist, so that arrival order and priority can disagree, and
the least with a task of medium priority. Two mutexes are the least with which
ownership can be nested. Sleeps of two ticks separate "counting" from "the
last count". Two user tasks are the least that can interrupt each other inside
a call. In 41 bytes there is room for two blocks of 12 with a byte over, for
one of 24 whose remainder is exactly a header and a byte, and for blocks of 0
and 1, so that both sides of the test for the remainder and a full heap occur.
A lock timeout of 2 separates locking at once, in time and with the last count.
One word of task stack is enough to have aligned and misaligned stacks in even
and odd slots. Nothing grows without bound, except that a race in `KernelSteps` can
take `counter` and `TaskTracker` below zero: its bound `Intact` follows an object
until `counter` has wrapped once or `TaskTracker` does not fit the array, and
`Clear` does not write entry -1.

`kernel_any`, `kernel_orderly`, `kernel_fair`, `boot` and the `steps_` runs switch
deadlock checking off because the system really stops, in `OS_Fault` or a
HardFault; `loops` and `schedule_loop_wide` because a loop ends. `applications`
and `nested_restore` check for deadlock.

### Where the code differs from its documentation

Four runs are expected to fail. Each checks one claim of the documentation.

| Run | Claim | What happens |
|---|---|---|
| `schedule_loop_wide` | `README.md:29`, the scheduler selects the highest priority | `priority` is a `uint8_t`, the best value so far an `int8_t`: 200 becomes -56, and a task of priority 1 that is met later wins. The wake-up loops have the same conversion |
| `nested_restore` | `README.md:33`, priority is restored on unlock | a task takes a second mutex while it has an inherited priority, and is given that back when it unlocks the second one last |
| `steps_stranded` | `README.md:31`, `OS_Signal` wakes a waiting task | a tick between `Semaphore.c:23` and `:25` switches the caller out, BLOCKED and in no queue: it never runs again |
| `steps_resumed` | `README.md:133`, switches only after the data are consistent | the winner is READY at `Mutex.c:52` and owner at `:61`; a tick in between resumes it as a non-owner. `README.md:133` tells how the explicit request was moved behind the hand-over; the tick's own request was not |

Interrupts that stay enabled during a call are the cause of the last two, and
of more that `KernelSteps` contains: two tasks that both find `counter` at 1
before either decrements it, so that a semaphore's counter wraps to 255 and
a mutex gets two holders. The remedy is the same for all: masking.
Nested locking also lets an owner fall below its waiter, which
`OwnerInherits` forbids and orderly clients avoid; `PrioritiesLent` says how far it can
fall, to its own priority. `OS_Sleep(0)` blocks for
ever, because the handler only looks at counts above zero; the properties
about sleepers therefore exclude 0 from `SleepTicks`.

Three descriptions of the boot are inaccurate without consequence. `README.md:58` says that
`Init_OS` writes the canaries: it writes that of the idle task, and `Create_Task` writes
the others, which is why a slot that is left out halts the system. `README.md:65` says
that `Start_OS` switches to PSP through the CONTROL register: it stays on MSP and
`EXC_RETURN` switches, as `README.md:131` explains. `README.md:69-76` draws the forged frame
a word too high (see *Registers and stacks*).

### Fairness

`FairSpec` assumes weak fairness of `SysTick_Handler` (the timer is never
stopped), of PendSV's entry and of its body (a pending exception is taken once no
other handler runs). It assumes nothing of tasks: they may do nothing for
ever. `AppSpec` adds that between two ticks the CPU gets back to thread mode
(a tick lasts 120000 cycles, a switch 479, `README.md:148`), expressed by
`ranSinceTick`, and strong fairness of each task's next step, because a task
that keeps getting the CPU executes its code. Strong rather than weak,
because a preempted task is not continuously able to step. The UART sends
what is in its FIFO. The lowest-priority
tasks of the inversion test starve by design, and no property claims otherwise: `task2`'s print is not
shown to end, since a step may take any number of ticks.

`BootSpec` assumes that `main` gets on, that the crystal starts and that a
peripheral becomes ready, because the code waits for these without a limit, and
that the timer runs once the system is launched. It does not assume that the
PLL locks: `BootCompletes` holds because `timeout` is counted. `WalkReturns`
needs only that `os_malloc` continues.

## The proofs

All proofs are for arbitrary `NUMBER_OF_TASKS > 1`, `Semaphores`, `Mutexes`,
`BasePriority`, `SleepTicks` and `Overrunning`, under the named assumptions
of `TaskTable` and `OSCore` (priorities at most 127, idle has priority 0). What is
proved of the statements also needs those of `KernelSteps`: a semaphore is not a mutex
(`ObjectsAssumption`), and `NUMBER_OF_TASKS` is at most 128 (`WidthAssumption`), so
that the `int8_t` `MaxPIndex` holds every index and `TaskTracker` every length.

* `WaitQueueProofs`: enlisting adds exactly the task, closing the hole
  removes exactly the winner, and, by the pigeonhole principle, a queue that
  lacks the idle task and the caller has room for the caller.
* `KernelProofs`: `Spec => []IInv` and its parts. `IInv` is the type invariant with
  `OneRunning`, `BlockedLeavesCPU`, `WaitersBlocked`, `WaitsOnce`,
  `NoWaiterOnFree`, and two strengthenings: `WellQueued` (the array agrees
  with `TaskTracker`) and `SleepersBlocked` (only a BLOCKED task has ticks
  left). The parts need each other. The queue has room because whoever blocks
  is in no queue; it is in no queue because queued tasks are BLOCKED and the
  caller is not; queued tasks stay BLOCKED because the tick wakes only tasks
  with ticks left. `NoTaskLost` is proved from it when 0 is not in
  `SleepTicks`; `WokenForAReason` is an action property. A further part shows
  `Spec => ImplementsLock` and `Spec => ImplementsSemaphore`.
  `PrioritiesLent`, that arbitrary, even nested, locking only ever passes base
  priorities around and never puts a task below its own, needs the same of the saved
  priorities (`SavedLent`). Two results are in no run: `SleepsCountDown` and
  `TurnComesCloser` are the safety parts of `SleepersWake` and `TopTasksTakeTurns`. A count only
  goes down, and every switch loads a READY task of the highest base priority or takes the
  scan closer to its slot.

  The rest is `OrderlySpec => []OrderlyInv`. Inheritance needs that an
  owner never waits for a mutex (`OwnersNeverWait`) and has no other (`OwnsOne`), that the saved priority is the
  base priority and that an owner nobody waits for is not elevated
  (`BaseRemembered`). These are what nested locking breaks. `OwnersNeverWait` also
  means that there is no ring of tasks that wait for one another.
* `AppProofs`: `AppSpec => []AppInv`, for any `Applications` whose scripts are
  like those of `App/tasks.c` and `docs/code_snippets.md`. What they
  have in common is stated as assumptions of `App`, in terms of two annotations of each
  script (`Holds`, the mutexes locked before each call; `Needs`, the memory still to be asked
  for): calls have good arguments (`ScriptAssumption`); a task locks what it does not
  hold and unlocks what it holds (`LockingAssumption`); a critical section only works, and
  all of an application's are of one mutex (`CriticalSectionAssumption`); what a task insists
  on getting from `os_malloc` fits an empty heap, and no one else takes memory meanwhile
  (`HeapUseAssumption`); one task prints (`PrintAssumption`). TLC evaluates
  them for the repository's applications in `applications`.

  `AppInv` joins the invariants of the kernel, the heap and the UART with what ties
  them to the scripts. `ScriptsHold`: the mutexes that a task's
  position says it holds are those it owns or waits for. `RoomLeft`: one free block has room
  for all that a task will still ask for, because first fit may take from
  it, but then only what was accounted for. `PrintersPrint`: who is inside `UART_printf` is at
  a call that prints. `UartInv`, of the UART alone, says that what was sent, what is in the FIFO
  and what is still to be put continue one another.
  - `NeverFaults`, with ticks between the calls but none inside one: a task at an unlock is engaged with the mutex, and it executes, so it
    does not wait for it but owns it; and `RoomLeft` finds the block.
  - `LinesWhole` follows from `UartInv`.
  - Every step of an application is a step of `OrderlySpec` and of `HeapSpec`
    (`ApplicationsAreOrderly`), so `OrderlyInv`, `HighestRuns` and all that is proved of
    the heap hold of them.
  - `OwnersAwake`: an owner is in its critical section and does not block there.
  - `NoInversion`: the owner is READY or RUNNING, has inherited at least the waiter's
    priority (`OwnerInherits`), and the CPU executes nothing less important
    (`HighestRuns`). As all critical sections are of one mutex, nobody else has
    inherited anything: whoever else executes has the waiter's rank by its own base priority.
* `LoopProofs`: the invariants of the loops of `OS_Schedule` and of the wake-up and their
  results, under the additional assumption that every priority fits an int8_t; and
  the loop of `os_malloc`. `WalkInv` adds to `HeapInv` that all blocks behind `Current` are
  unfit, which makes the walk first fit. `WalkProgresses` is the safety part of
  `WalkReturns`: every step returns or goes up, at most to the end.
* `StepsProofs`: with ticks between all statements, `OS_Sleep` is safe
  (`SleepIsSafe`) and only the loaded task is RUNNING. `StepsInv` is the
  inductive invariant: a BLOCKED task is past the statement that marks it, does
  not get to the end of its call while BLOCKED, and, in `OS_Sleep`, has its
  count from before it is marked, because the tick counts down BLOCKED tasks only.
* `QuietProofs`: with no tick inside a call, `QuietSpec => CallsAreActions`, and
  `HoldersOwn`, `CountersBinary` and, when 0 is not in `SleepTicks`,
  `NoTaskStranded`. `QuietInv` has three parts.
  - The state in which the current call began, `before`, satisfies `IInv`. It only
    changes by actions of `Kernel`, so the theorems of `KernelProofs`, instantiated
    for `before` (`K`), apply to it.
  - `SoFar`: inside a call, the present state is `before` with exactly what the
    statements up to this one have written. There is one formula per call, with a line
    for each of its statements, and one lemma per call (`SleepStep`, `WaitStep`,
    `SignalStep`, `LockStep`, `UnlockStep`): a statement leads from its line to the
    next one, which is a stutter of `before`, and the last one makes the present state
    the outcome of the action. These lemmas also exclude the paths that only an
    interrupted call can take: a scan of an empty queue, a NULL winner, a NULL owner.
  - `Claims`: who holds a mutex was its owner in `before`; who comes back from a wait in
    `Mutex_Lock` is the owner or is still queued, and who executes is not queued.

  The scan is a recursive function in `KernelSteps`. That it chooses the `Winner`
  (`ScanFindsWinner`) is proved from its defining equation, along a least counterexample.
  `NoTaskStranded` follows from `NoTaskLost` for `before`, because in each of the
  lines the array still holds everyone it held in `before`, except the winner once it is
  READY.
* `HeapProofs`: for every `HEAP_SIZE`, header size and requests.
  `HeapInv` says that the headers tile the array (`Tiled`) and agree with the
  callers' pointers (`OwnersAgree`); neither is inductive alone, because
  `os_free` must find a header and a split must not reach into a neighbour. From
  it follow `HeadersSafe`, `BoundariesStay` and the refinement of `Allocator`,
  where two blocks are disjoint because one header lies at or behind the end of the
  other's block. `UniformHeapFills` is about programs with one block
  size `n`. What makes it inductive is `UniformInv`: the headers are the multiples
  of `n + SIZEOF_HEADER` up to a last one, all blocks before it have `n` bytes, and
  it is free or of `n` up to `n + SIZEOF_HEADER` bytes, the remainder that no
  split can use. So a refusal
  means that every one of them is in use, and there are as many as fit.
* `BootProofs`: everything from reset to the launched system, for every number of
  slots, stack depth and peripherals that keep it waiting. `BootInv` consists of
  - `ClockInv`: the count stands still once the PLL is locked, and `PLL_Init` returns
    without it only if the time has run out or the divisor is too small;
  - `Booting`: what each slot, stack and canary holds at each statement of `main`;
    a slot is blank or as `Create_Task` leaves it;
  - `ContextInv`, once launched: the stack of a task that is not loaded is its stack
    when it was left, then the frame of the hardware (with or without the
    aligning word), then R4 to R11, and `psp` points at the end; the stack of the
    loaded one lacks both halves, or the second while PendSV is under way. The
    exception is a slot that no `Create_Task` filled. It has no canary, so
    the invariant must also say that the tick that loads it finds this before
    another switch can save through its null `psp`.

  `ContextKept`, `BootsIntoKernel` and `TickIsMillisecond` follow. With
  `ForgottenBlank`, that such a slot keeps its null `psp` and never gets a canary, so does the
  safety part of `UnfilledHalts`: no instruction is ever executed there
  (`ForgottenNeverRun`), and the first tick halts the system (`FirstTickHalts`).

The inductive invariants themselves (`IInv`, `OrderlyInv`, `StepsInv`, `LoopInv`,
`WakeInv`, `WalkInv`, `BootInv`, `QuietInv`, `AppInv`) are proved and imply the properties the
runs check.

Only model-checked: liveness (`SleepersWake`, `OverrunHalts`, `TopTasksTakeTurns`,
`WaiterGetsLock`, `WaiterGetsSignal`, `WalkReturns`, `BootCompletes`, `UnfilledHalts`). It rests
on fairness, that is on ENABLED, which the prover does not handle. Of four of them the
safety part is proved, as told above; what is left to TLC is that the ticks, switches
and steps they count do happen. Every safety property that a passing run checks is proved.

## Not modelled

* `UART_Trace`: every call is a comment (`README.md:45` describes it as active).
  `UART_InChar` and `Status_Check`: no caller. Of `UART_Init`, only the wait for
  the UART; port A, whose registers it writes, is never waited for.
* `Drivers/dwt.c` and the cycle counts in PendSV: the difference is only printed,
  and any number can be printed in the model.
* Vendor files: `Device/`, `SystemInit`, the vector table except where a NULL
  `psp` or owner makes the kernel read it. `SystemCoreClock` is set to 16 MHz
  and read by nobody.
* The flash timing that `PLL_Init` writes, and the deep-sleep clock.
* LEDs, payloads of heap blocks, alignment of heap blocks, floating point.
* Two tasks inside `os_malloc`, and two that print.

## Plan

Every component that decides anything is modelled, and every safety property is proved. What could
be added:

* `UART_Trace` and the cycle counter, once the calls that are comments now are active:
  several tasks would then print through one buffer, and `PrintAssumption` would not hold.
* The remedy for the races of `KernelSteps`: with interrupts masked inside the calls, `QuietSteps`
  is the model of the code, and its proofs apply as they are.
* A heap used by several tasks at once, and one that merges free blocks.
