--------------------------- MODULE ContextSwitch ----------------------------
(***************************************************************************)
(* The registers and stacks behind OSCore: what Create_Task forges, the    *)
(* frame the CPU pushes when an exception interrupts a task, what PendSV   *)
(* adds to it, and the exception return (Kernel/os_core.c, os_asm.s).      *)
(*                                                                         *)
(* A stack is the sequence of the words in use, from the last word but one *)
(* of tcb_array downwards; a stack pointer is a slot and the number of     *)
(* words in use there.  A word tells whose register it holds, which one    *)
(* and which of its values; value 0 is what Create_Task stores.  No task   *)
(* uses the floating-point registers.                                      *)
(***************************************************************************)
EXTENDS OSCore, Sequences

CONSTANTS
  OddSlots, \* the slots whose TCB does not start at a multiple of eight bytes
  MaxDepth  \* bound: the words a task itself keeps on its stack

ASSUME StackAssumption == OddSlots \subseteq Tasks /\ MaxDepth \in Nat

VARIABLES
  psp,     \* TCB.psp of each slot
  stack,   \* the words on the stack of each slot
  PSP,     \* the process stack pointer
  cpu,     \* the registers
  stacked, \* an exception interrupted a task and has not returned to one yet
  left     \* history: the registers and the stack each task was left with

contextVars == <<psp, stack, PSP, cpu, stacked, left>>

NullPsp == [task |-> NULL, depth |-> 0]

Word(t, r, value) == [of |-> t, register |-> r, value |-> value]

\* The order in which they are pushed.
HardwareFrame == <<"xPSR", "PC", "LR", "R12", "R3", "R2", "R1", "R0">>
SoftwareFrame == <<"R11", "R10", "R9", "R8", "R7", "R6", "R5", "R4">>
InFrame(frame, r) == \E k \in DOMAIN frame : frame[k] = r

Registers == {(HardwareFrame \o SoftwareFrame)[k] : k \in 1 .. 16}
RegistersOf(t, value) == [r \in Registers |-> Word(t, r, value)]

Words(frame, file) == [k \in DOMAIN frame |-> file[frame[k]]]

\* The registers once the words of the frame at the end of s are loaded.
Loaded(frame, s, file) ==
  [r \in Registers |->
     IF InFrame(frame, r)
     THEN LET k == CHOOSE n \in DOMAIN frame : frame[n] = r
          IN s[Len(s) - Len(frame) + k]
     ELSE file[r]]

Below(sp, s) == SubSeq(s[sp.task], 1, sp.depth)

\* Bit 9 of a stacked xPSR says that a word of padding lies above the frame.
Bit9(word) == [word EXCEPT !.register = "xPSR with bit 9"]
Padded(word) == word.register = "xPSR with bit 9"

-----------------------------------------------------------------------------
\* The frame Create_Task writes below stackTop.
Forged(t) ==
  Words(HardwareFrame, RegistersOf(t, 0)) \o Words(SoftwareFrame, RegistersOf(t, 0))

NotLeft == [cpu |-> RegistersOf(NULL, 0), stack |-> <<>>]
AtEntry(t) == [cpu |-> RegistersOf(t, 0), stack |-> <<>>]

Create_Task(t, prio) ==
  /\ stack' = [stack EXCEPT ![t] = Forged(t)]
  /\ psp' = [psp EXCEPT ![t] = [task |-> t, depth |-> 16]]
  /\ state' = [state EXCEPT ![t] = "READY"]
  /\ priority' = [priority EXCEPT ![t] = prio]
  /\ canary' = [canary EXCEPT ![t] = TRUE]
  /\ left' = [left EXCEPT ![t] = AtEntry(t)]
  /\ UNCHANGED <<CurrentTask, ticks, pendsv, inPendSV, fault, PSP, cpu, stacked>>

\* The first task starts with R4 to R11 as main leaves them: the SVC handler
\* returns to the upper half of its frame.
Start_OS ==
  /\ CurrentTask' = 0
  /\ PSP' = [psp[0] EXCEPT !.depth = @ - 8]
  /\ stack' = [stack EXCEPT ![0] = Below(PSP', stack)]
  /\ stacked' = TRUE
  /\ left' = [left EXCEPT ![0].cpu =
       [r \in Registers |-> IF InFrame(HardwareFrame, r) THEN @[r] ELSE cpu[r]]]
  /\ UNCHANGED <<state, priority, ticks, canary, pendsv, inPendSV, fault, psp, cpu>>

-----------------------------------------------------------------------------
Misaligned(sp) == (sp.depth % 2 = 1) # (sp.task \in OddSlots)

\* The CPU takes an exception: if that interrupts a task, it pushes half of the
\* registers there, at a multiple of eight bytes.
Interrupt ==
  \/ stacked /\ UNCHANGED contextVars
  \/ /\ ~stacked
     /\ LET frame == Words(HardwareFrame, cpu)
            pushed == IF Misaligned(PSP)
                      THEN <<Word(NULL, "padding", 0)>> \o [frame EXCEPT ![1] = Bit9(@)]
                      ELSE frame
        IN /\ stack' = [stack EXCEPT ![PSP.task] = Below(PSP, stack) \o pushed]
           /\ PSP' = [PSP EXCEPT !.depth = @ + Len(pushed)]
     /\ stacked' = TRUE
     /\ left' = [left EXCEPT ![CurrentTask] = [cpu |-> cpu, stack |-> Below(PSP, stack)]]
     /\ UNCHANGED <<psp, cpu>>

Tick == SysTick_Handler /\ Interrupt

SwitchEntry == PendSV_Entry /\ Interrupt

StoredPsp == [psp EXCEPT ![CurrentTask] = [PSP EXCEPT !.depth = @ + 8]]

\* Mutant: the pointer moves past R4 to R11, but they are not loaded.
NotReloaded(sp, s) == cpu

\* R4 to R11 from the stack of the new task; the scheduler has used the others.
Reloaded(sp, s) == Loaded(SoftwareFrame, Below(sp, s), RegistersOf(NULL, 0))

\* R4 to R11 go to the stack of the old task and come from that of the new
\* one; a NULL psp reads the vector table instead.
SwitchBody ==
  /\ PendSV_Handler
  /\ psp' = StoredPsp
  /\ LET kept == [stack EXCEPT ![PSP.task] = Below(PSP, stack) \o Words(SoftwareFrame, cpu)]
         new == psp'[CurrentTask']
     IN \/ /\ new # NullPsp
           /\ cpu' = Reloaded(new, kept)
           /\ PSP' = [new EXCEPT !.depth = @ - 8]
           /\ stack' = [kept EXCEPT ![new.task] = SubSeq(@, 1, new.depth - 8)]
        \/ /\ new = NullPsp
           /\ cpu' = RegistersOf(NULL, 0) /\ PSP' = NullPsp /\ stack' = kept
  /\ UNCHANGED <<stacked, left>>

\* No exception is pending any more: the CPU pops the rest.
ExceptionReturn ==
  /\ ~fault /\ stacked /\ ~pendsv /\ ~inPendSV
  /\ PSP # NullPsp
  /\ LET s == Below(PSP, stack)
         xPSR == s[Len(s) - 7]
         size == IF Padded(xPSR) THEN 9 ELSE 8
     IN /\ cpu' = [Loaded(HardwareFrame, s, cpu) EXCEPT !["xPSR"].register = "xPSR"]
        /\ PSP' = [PSP EXCEPT !.depth = @ - size]
        /\ stack' = [stack EXCEPT ![PSP.task] = SubSeq(s, 1, Len(s) - size)]
  /\ stacked' = FALSE
  /\ left' = [left EXCEPT ![CurrentTask] = NotLeft]
  /\ UNCHANGED <<coreVars, psp>>

\* There is no task at the addresses the vector table was read as: the CPU
\* faults, and HardFault_Handler loops for ever, as OS_Fault does.
HardFault ==
  /\ ~fault /\ stacked /\ ~pendsv /\ ~inPendSV
  /\ PSP = NullPsp
  /\ OS_Fault
  /\ UNCHANGED <<CurrentTask, state, priority, ticks, canary, pendsv, inPendSV, contextVars>>

\* Task code changes all its registers and what it keeps on its stack.
Work ==
  /\ ThreadMode /\ ~stacked
  /\ \E value \in 1 .. 2, depth \in 0 .. MaxDepth :
       /\ cpu' = RegistersOf(CurrentTask, value)
       /\ PSP' = [PSP EXCEPT !.depth = depth]
       /\ stack' = [stack EXCEPT ![PSP.task] =
            [k \in 1 .. depth |-> Word(CurrentTask, "local", k)]]
  /\ UNCHANGED <<coreVars, psp, stacked, left>>

Sleep ==
  /\ CurrentTask # Idle /\ ~stacked
  /\ \E n \in SleepTicks : OS_Sleep(n)
  /\ UNCHANGED contextVars

ContextNext ==
  Tick \/ SwitchEntry \/ SwitchBody \/ ExceptionReturn \/ HardFault \/ Work \/ Sleep

-----------------------------------------------------------------------------
(* The inductive invariant behind ContextKept (Boot.tla, BootProofs.tla).  *)

StackPointers == [task : Tasks \cup {NULL}, depth : Nat]
AnyWord ==
  [of : Tasks \cup {NULL}, register : Registers \cup {"xPSR with bit 9", "padding", "local"},
   value : Nat]
IsFile(file) ==
  /\ file \in [Registers -> AnyWord]
  /\ \A r \in Registers : file[r].register = r

\* What the CPU may have pushed of a register file.
Frames(file) ==
  LET frame == Words(HardwareFrame, file)
  IN {frame, <<Word(NULL, "padding", 0)>> \o [frame EXCEPT ![1] = Bit9(@)]}

\* Half of the context that t was left with is on its stack, or all of it.
HalfSaved(t) ==
  \E frame \in Frames(left[t].cpu) : stack[t] = left[t].stack \o frame

Saved(t) ==
  /\ \E frame \in Frames(left[t].cpu) :
       stack[t] = (left[t].stack \o frame) \o Words(SoftwareFrame, left[t].cpu)
  /\ psp[t] = [task |-> t, depth |-> Len(stack[t])]

\* R4 to R11 are those that t was left with.
InRegisters(t) ==
  \A r \in Registers : InFrame(SoftwareFrame, r) => cpu[r] = left[t].cpu[r]

\* A slot without a psp has no canary either, so the tick that finds it comes
\* before any further switch.
ContextInv ==
  /\ CurrentTask \in Tasks
  /\ IsFile(cpu)
  /\ psp \in [Tasks -> StackPointers]
  /\ stack \in [Tasks -> Seq(AnyWord)]
  /\ DOMAIN left = Tasks
  /\ \A t \in Tasks : left[t] = [cpu |-> left[t].cpu, stack |-> left[t].stack]
                      /\ IsFile(left[t].cpu) /\ left[t].stack \in Seq(AnyWord)
  /\ \A t \in Tasks \ {CurrentTask} : Saved(t) \/ (psp[t] = NullPsp /\ ~canary[t])
  /\ inPendSV => stacked
  /\ Overran # {} => ~(pendsv /\ inPendSV)
  /\ \/ /\ PSP = [task |-> CurrentTask, depth |-> Len(stack[CurrentTask])]
        /\ stacked => HalfSaved(CurrentTask) /\ InRegisters(CurrentTask)
     \/ PSP = NullPsp /\ stacked /\ ~canary[CurrentTask] /\ ~pendsv /\ ~inPendSV
=============================================================================
