---------------------------- MODULE QuietProofs -----------------------------
(***************************************************************************)
(* Theorems about the kernel calls statement by statement: with no tick    *)
(* inside a call, the statements add up to the actions of Kernel.tla.      *)
(*                                                                         *)
(* While a call is under way, QuietInv says of every statement what those   *)
(* before it have done to the state in which the call began (SoFar); that   *)
(* state itself satisfies the invariant of KernelProofs.tla.  There is one  *)
(* lemma per call: each of its statements leads from SoFar to SoFar, and   *)
(* the last one to the action of Kernel.tla.                               *)
(***************************************************************************)
EXTENDS QuietSteps, WaitQueueProofs, WellFoundedInduction

\* What is proved about the kernel holds of the states between the calls.
K == INSTANCE KernelProofs WITH
  CurrentTask <- before.CurrentTask, state <- before.state, priority <- before.priority,
  ticks <- before.ticks, canary <- before.canary, pendsv <- before.pendsv,
  inPendSV <- before.inPendSV, fault <- before.fault, smp <- before.smp, mx <- before.mx

-----------------------------------------------------------------------------
(* The inductive invariant: what the statements of the current call have   *)
(* done so far, in terms of the state in which it began.                   *)

\* Of the core a call changes these three only, before it requests the switch.
CoreIs(states, priorities, counts) ==
  /\ state = states /\ priority = priorities /\ ticks = counts
  /\ <<CurrentTask, canary, pendsv, inPendSV, fault>> =
       <<before.CurrentTask, before.canary, before.pendsv, before.inPendSV, before.fault>>

Blocked == [before.state EXCEPT ![CurrentTask] = "BLOCKED"]
Woken(t) == [before.state EXCEPT ![t] = "READY"]

\* The one object that the call works on.
SemaphoreIs(counter, w, n) ==
  /\ smp = [before.smp EXCEPT ![Me.obj] =
              [counter |-> counter, waiting_tasks |-> w, TaskTracker |-> n]]
  /\ mx = before.mx
MutexOf(owner, counter, w, n, original) ==
  [owner |-> owner, counter |-> counter, waiting_tasks |-> w, TaskTracker |-> n,
   OriginalPriority |-> original]
MutexIs(owner, counter, w, n, original) ==
  /\ mx = [before.mx EXCEPT ![Me.obj] = MutexOf(owner, counter, w, n, original)]
  /\ smp = before.smp

\* The array between the loop that moves the entries down and the statement
\* that clears the last one.
MovedDown(w, n, k) == [i \in Tasks |-> IF k <= i /\ i < n - 1 THEN w[i + 1] ELSE w[i]]

SleepSoFar ==
  /\ smp = before.smp /\ mx = before.mx
  /\ \/ Me.at = "set_ticks" /\ CoreIs(before.state, before.priority, before.ticks)
     \/ \E n \in SleepTicks :
          LET counts == [before.ticks EXCEPT ![CurrentTask] = n]
          IN \/ Me.at = "block" /\ CoreIs(before.state, before.priority, counts)
             \/ Me.at = "pend" /\ CoreIs(Blocked, before.priority, counts)

WaitSoFar ==
  LET s == before.smp[Me.obj]
      w == s.waiting_tasks
      n == s.TaskTracker
      joined == Enlist(w, n, CurrentTask)
  IN \/ /\ CoreIs(before.state, before.priority, before.ticks)
        /\ SemaphoreIs(s.counter, w, n)
        /\ \/ Me.at = "test_counter"
           \/ Me.at = "decrement" /\ s.counter # 0
           \/ Me.at = "block" /\ s.counter = 0
     \/ /\ s.counter = 0
        /\ CoreIs(Blocked, before.priority, before.ticks)
        /\ \/ Me.at = "enlist" /\ SemaphoreIs(0, w, n)
           \/ Me.at = "count" /\ SemaphoreIs(0, joined, n)
           \/ Me.at = "pend" /\ SemaphoreIs(0, joined, n + 1)

SignalSoFar ==
  LET s == before.smp[Me.obj]
      w == s.waiting_tasks
      n == s.TaskTracker
      k == Me.MaxPIndex
  IN \/ /\ CoreIs(before.state, before.priority, before.ticks)
        /\ \/ Me.at = "set_counter" /\ SemaphoreIs(s.counter, w, n)
           \/ Me.at = "test_queue" /\ SemaphoreIs(1, w, n)
           \/ Me.at = "scan" /\ SemaphoreIs(1, w, n) /\ n > 0
           \/ Me.at = "wake" /\ SemaphoreIs(1, w, n) /\ Winner(w, n, before.priority, k)
     \/ /\ Winner(w, n, before.priority, k)
        /\ CoreIs(Woken(w[k]), before.priority, before.ticks)
        /\ \/ Me.at = "shift" /\ SemaphoreIs(1, w, n)
           \/ Me.at = "clear" /\ SemaphoreIs(1, MovedDown(w, n, k), n)
           \/ Me.at = "uncount" /\ SemaphoreIs(1, FillHole(w, n, k), n)
           \/ Me.at = "reset_counter" /\ SemaphoreIs(1, FillHole(w, n, k), n - 1)
           \/ Me.at = "pend" /\ SemaphoreIs(0, FillHole(w, n, k), n - 1)

LockSoFar ==
  LET m == before.mx[Me.obj]
      w == m.waiting_tasks
      n == m.TaskTracker
      joined == Enlist(w, n, CurrentTask)
      mine == before.priority[CurrentTask]
      inherited == K!Inherited(Me.obj)
  IN \/ /\ CoreIs(before.state, before.priority, before.ticks)
        /\ \/ Me.at = "test_counter" /\ MutexIs(m.owner, m.counter, w, n, m.OriginalPriority)
           \/ /\ m.counter # 0
              /\ \/ Me.at = "own" /\ MutexIs(m.owner, m.counter, w, n, m.OriginalPriority)
                 \/ /\ Me.at = "save_priority"
                    /\ MutexIs(CurrentTask, m.counter, w, n, m.OriginalPriority)
                 \/ Me.at = "decrement" /\ MutexIs(CurrentTask, m.counter, w, n, mine)
           \/ /\ m.counter = 0
              /\ MutexIs(m.owner, 0, w, n, m.OriginalPriority)
              /\ \/ Me.at = "compare_owner"
                 \/ Me.at = "elevate" /\ mine > before.priority[m.owner]
     \/ /\ m.counter = 0
        /\ CoreIs(before.state, inherited, before.ticks)
        /\ Me.at = "block" /\ MutexIs(m.owner, 0, w, n, m.OriginalPriority)
     \/ /\ m.counter = 0
        /\ CoreIs(Blocked, inherited, before.ticks)
        /\ \/ Me.at = "enlist" /\ MutexIs(m.owner, 0, w, n, m.OriginalPriority)
           \/ Me.at = "count" /\ MutexIs(m.owner, 0, joined, n, m.OriginalPriority)
           \/ Me.at = "pend" /\ MutexIs(m.owner, 0, joined, n + 1, m.OriginalPriority)

\* Here r are the priorities once the caller has its own back, and k is the entry
\* of the winner.
HandOverSoFar(w, n, original, r, k) ==
  /\ Winner(w, n, r, k) /\ Me.WinnerTask = w[k]
  /\ CoreIs(Woken(w[k]), r, before.ticks)
  /\ \/ Me.at = "shift" /\ MutexIs(CurrentTask, 0, w, n, original)
     \/ Me.at = "clear" /\ MutexIs(CurrentTask, 0, MovedDown(w, n, k), n, original)
     \/ Me.at = "hand_over" /\ MutexIs(CurrentTask, 0, FillHole(w, n, k), n, original)
     \/ Me.at = "save_winners_priority" /\ MutexIs(w[k], 0, FillHole(w, n, k), n, original)
     \/ Me.at = "uncount" /\ MutexIs(w[k], 0, FillHole(w, n, k), n, r[w[k]])
     \/ /\ Me.at \in {"reset_counter", "pend"}
        /\ MutexIs(w[k], 0, FillHole(w, n, k), n - 1, r[w[k]])

ReleaseSoFar(w, n, original, r) ==
  \/ /\ Me.at \in {"test_owner", "restore"}
     /\ CoreIs(before.state, before.priority, before.ticks)
     /\ MutexIs(CurrentTask, 0, w, n, original)
  \/ /\ CoreIs(before.state, r, before.ticks)
     /\ \/ Me.at = "disown" /\ n = 0 /\ MutexIs(CurrentTask, 1, w, n, original)
        \/ /\ MutexIs(CurrentTask, 0, w, n, original)
           /\ \/ Me.at = "test_queue"
              \/ Me.at = "free" /\ n = 0
              \/ Me.at = "scan" /\ n > 0
              \/ Me.at = "pick_winner" /\ Winner(w, n, r, Me.MaxPIndex)
              \/ /\ Me.at = "wake" /\ Winner(w, n, r, Me.MaxPIndex)
                 /\ Me.WinnerTask = w[Me.MaxPIndex]
  \/ HandOverSoFar(w, n, original, r, Me.MaxPIndex)

UnlockSoFar ==
  LET m == before.mx[Me.obj]
  IN /\ m.owner = CurrentTask /\ Me.obj \notin held[CurrentTask]
     /\ ReleaseSoFar(m.waiting_tasks, m.TaskTracker, m.OriginalPriority, K!Restored(Me.obj))

SoFar ==
  \/ Me.call = "sleep" /\ SleepSoFar
  \/ Me.obj \in Semaphores /\ Me.call = "wait" /\ WaitSoFar
  \/ Me.obj \in Semaphores /\ Me.call = "signal" /\ SignalSoFar
  \/ Me.obj \in Mutexes /\ Me.call = "lock" /\ LockSoFar
  \/ Me.obj \in Mutexes /\ Me.call = "unlock" /\ UnlockSoFar

\* Who holds a mutex was its owner when the current call began; who has
\* returned from Mutex_Lock, or comes back from it, is the owner or still waits.
Claims(t) ==
  /\ held[t] \subseteq Mutexes
  /\ \A m \in held[t] : before.mx[m].owner = t
  /\ pc[t].call = "lock" /\ pc[t].at \in {"return", "resume"} =>
       /\ pc[t].obj \in Mutexes
       /\ before.mx[pc[t].obj].owner = t
          \/ (pc[t].at = "resume" /\ t \in K!MutexWaiters(pc[t].obj))

QuietInv ==
  /\ DOMAIN pc = Tasks /\ \A t \in Tasks : DOMAIN pc[t] = DOMAIN NoCall
  /\ DOMAIN held = Tasks
  /\ K!IInv
  /\ IF MidCall THEN SoFar ELSE before = Now
  /\ ~fault => \A t \in Tasks :
       pc[t].at \in {"idle", "return", "resume"} \/ (t = CurrentTask /\ ThreadMode)
  /\ \A t \in Tasks : Claims(t)

-----------------------------------------------------------------------------
(* K and Whole are instances of the same definitions.                      *)

LEMMA SameBackground == K!Background <=> Whole!Background
BY DEF
       K!Background, Whole!Background, K!SysTick_Handler, Whole!SysTick_Handler,
       K!PendSV_Entry, Whole!PendSV_Entry, K!PendSV_Handler, Whole!PendSV_Handler,
       K!StackOverrun, Whole!StackOverrun, K!OS_Schedule, Whole!OS_Schedule, K!Countdown,
       Whole!Countdown, K!Overran, Whole!Overran, K!OS_Fault, Whole!OS_Fault, K!ThreadMode,
       Whole!ThreadMode, K!Selected, Whole!Selected, K!Eligible, Whole!Eligible, K!Beats,
       Whole!Beats, K!Distance, Whole!Distance, K!Tasks, Whole!Tasks

LEMMA SameSleepOrSignal == K!SleepOrSignal <=> Whole!SleepOrSignal
BY DEF
       K!SleepOrSignal, Whole!SleepOrSignal, K!OS_Sleep, Whole!OS_Sleep, K!OS_Wait,
       Whole!OS_Wait, K!WaitTake, Whole!WaitTake, K!WaitBlock, Whole!WaitBlock, K!OS_Signal,
       Whole!OS_Signal, K!SignalStore, Whole!SignalStore, K!SignalWake, Whole!SignalWake,
       K!Enlist, Whole!Enlist, K!Winner, Whole!Winner, K!FillHole, Whole!FillHole,
       K!coreVars, Whole!coreVars, K!ThreadMode, Whole!ThreadMode, K!Tasks, Whole!Tasks,
       K!NULL, Whole!NULL, K!Idle, Whole!Idle

LEMMA SameMutexCall == \A m \in Mutexes : K!MutexCall(m) <=> Whole!MutexCall(m)
BY DEF
       K!MutexCall, Whole!MutexCall, K!Mutex_Lock, Whole!Mutex_Lock, K!LockTake,
       Whole!LockTake, K!LockBlock, Whole!LockBlock, K!Inherited, Whole!Inherited,
       K!Mutex_Unlock, Whole!Mutex_Unlock, K!UnlockFree, Whole!UnlockFree, K!UnlockHandOver,
       Whole!UnlockHandOver, K!UnlockFault, Whole!UnlockFault, K!Restored, Whole!Restored,
       K!HandedTo, Whole!HandedTo, K!OS_Fault, Whole!OS_Fault, K!Enlist, Whole!Enlist,
       K!Winner, Whole!Winner, K!FillHole, Whole!FillHole, K!coreVars, Whole!coreVars,
       K!ThreadMode, Whole!ThreadMode, K!Tasks, Whole!Tasks, K!NULL, Whole!NULL, K!Idle,
       Whole!Idle

LEMMA SameNext == [K!Next]_(K!vars) => [Whole!Next]_(Whole!vars)
BY SameBackground, SameSleepOrSignal, SameMutexCall
   DEF K!Next, Whole!Next, K!vars, Whole!vars, K!coreVars, Whole!coreVars

LEMMA SameInit == K!Init => Whole!Init
BY DEF
       K!Init, Whole!Init, K!CoreInit, Whole!CoreInit, K!OS_SemaphoreInit,
       Whole!OS_SemaphoreInit, K!Mutex_Init, Whole!Mutex_Init, K!NoWaiters, Whole!NoWaiters,
       K!Tasks, Whole!Tasks, K!NULL, Whole!NULL

LEMMA SameConstants ==
  /\ K!Tasks = Tasks /\ K!NULL = NULL /\ K!Idle = Idle
  /\ \A w, n : K!Waiters(w, n) = Waiters(w, n) /\ (K!WellFormed(w, n) <=> WellFormed(w, n))
  /\ \A w, n, t : K!Enlist(w, n, t) = Enlist(w, n, t)
  /\ \A w, n, k : K!FillHole(w, n, k) = FillHole(w, n, k)
  /\ \A w, n, p, k : K!Winner(w, n, p, k) <=> Winner(w, n, p, k)
  /\ K!SemaphoreType = SemaphoreType /\ K!MutexType = MutexType
BY DEF K!Tasks, Tasks, K!NULL, NULL, K!Idle, Idle, K!Waiters, Waiters, K!WellFormed, WellFormed,
       K!Distinct, Distinct, K!Enlist, Enlist, K!FillHole, FillHole, K!Winner, Winner,
       K!SemaphoreType, SemaphoreType, K!MutexType, MutexType, K!Int8Max, Int8Max

-----------------------------------------------------------------------------
(* The kernel between the calls.                                           *)

LEMMA KernelInit == K!Init => K!IInv
BY K!InitInv, TasksAssumption, PriorityAssumption, ClientAssumption
   DEF Tasks, K!Tasks, Int8Max, K!Int8Max, Idle, K!Idle

LEMMA KernelStep ==
  ASSUME K!IInv, [K!Next]_(K!vars)
  PROVE  K!IInv'
BY K!NextEffect, TasksAssumption, PriorityAssumption, ClientAssumption
   DEF Tasks, K!Tasks, Int8Max, K!Int8Max, Idle, K!Idle

\* What the steps of a call need of the state in which it began.
LEMMA BeforeSemaphores ==
  ASSUME K!IInv, NEW s \in Semaphores
  PROVE  /\ before.smp \in [Semaphores -> SemaphoreType]
         /\ WellFormed(before.smp[s].waiting_tasks, before.smp[s].TaskTracker)
         /\ before.smp[s].counter # 0 =>
              before.smp[s].counter = 1 /\ before.smp[s].TaskTracker = 0
<1>1. before.smp \in [Semaphores -> SemaphoreType]
  BY SameConstants DEF K!IInv, K!TypeOK
<1>2. WellFormed(before.smp[s].waiting_tasks, before.smp[s].TaskTracker)
  BY SameConstants DEF K!IInv, K!WellQueued
<1>3. before.smp[s].counter # 0 => before.smp[s].TaskTracker = 0
  BY DEF K!IInv, K!NoWaiterOnFree
<1> QED BY <1>1, <1>2, <1>3 DEF SemaphoreType

LEMMA BeforeMutexes ==
  ASSUME K!IInv, NEW m \in Mutexes
  PROVE  /\ before.mx \in [Mutexes -> MutexType]
         /\ WellFormed(before.mx[m].waiting_tasks, before.mx[m].TaskTracker)
         /\ before.mx[m].counter = 0 <=> before.mx[m].owner # NULL
         /\ before.mx[m].counter # 0 =>
              before.mx[m].counter = 1 /\ before.mx[m].TaskTracker = 0
<1>1. before.mx \in [Mutexes -> MutexType]
  BY SameConstants DEF K!IInv, K!TypeOK
<1>2. WellFormed(before.mx[m].waiting_tasks, before.mx[m].TaskTracker)
  BY SameConstants DEF K!IInv, K!WellQueued
<1>3. /\ before.mx[m].counter = 0 <=> before.mx[m].owner # NULL
      /\ before.mx[m].counter # 0 => before.mx[m].TaskTracker = 0
  BY SameConstants DEF K!IInv, K!NoWaiterOnFree
<1> QED BY <1>1, <1>2, <1>3 DEF MutexType

LEMMA BeforeCore ==
  ASSUME K!IInv
  PROVE  /\ before.CurrentTask \in Tasks
         /\ before.state \in [Tasks -> States]
         /\ before.priority \in [Tasks -> 0 .. Int8Max]
         /\ before.ticks \in [Tasks -> Nat]
         /\ \A t \in K!Queued : before.state[t] = "BLOCKED"
BY SameConstants DEF K!IInv, K!TypeOK, K!CoreTypeOK, K!States, States, K!Int8Max, Int8Max,
                     K!WaitersBlocked

-----------------------------------------------------------------------------
(* The scan computes the winner, by induction along its rounds.            *)

LEMMA LeastElement ==
  ASSUME NEW S \in SUBSET Nat, S # {}
  PROVE  \E n \in S : \A m \in S : n <= m
<1> DEFINE R == {ss \in Nat \X Nat : ss[1] < ss[2]}
<1>1. IsWellFoundedOn(R, Nat)
  BY NatLessThanWellFounded DEF OpToRel
<1>2. \E n \in S : \A m \in S : <<m, n>> \notin R
  <2> HIDE DEF R
  <2> QED BY <1>1, WFMin
<1>3. PICK n \in S : \A m \in S : <<m, n>> \notin R
  BY <1>2
<1>4. ASSUME NEW m \in S PROVE n <= m
  <2>1. <<m, n>> \in Nat \X Nat /\ ~(<<m, n>>[1] < <<m, n>>[2])
    BY <1>3
  <2> QED BY <2>1
<1> QED BY <1>4

\* Induction along the rounds of a loop.
LEMMA Rounds ==
  ASSUME NEW N \in Nat, NEW S, 0 \in S, \A r \in 1 .. N : r - 1 \in S => r \in S
  PROVE  0 .. N \subseteq S
<1> SUFFICES ASSUME NEW n \in 0 .. N, n \notin S PROVE FALSE
  OBVIOUS
<1> DEFINE T == (0 .. N) \ S
<1>1. PICK r \in T : \A k \in T : r <= k
  <2>1. T \in SUBSET Nat /\ T # {}
    OBVIOUS
  <2> HIDE DEF T
  <2> QED BY <2>1, LeastElement
<1>2. r \in 1 .. N /\ r - 1 \in 0 .. N
  BY <1>1
<1>3. r - 1 \in S
  BY <1>1, <1>2
<1> QED BY <1>1, <1>2, <1>3

\* The first waiter of the highest priority among the first r + 1, given the one
\* among the first r.
LEMMA NextWinner ==
  ASSUME NEW w, NEW p, NEW r \in Nat, NEW k, Winner(w, r, p, k),
         \A i \in 0 .. r : p[w[i]] \in Nat
  PROVE  Winner(w, r + 1, p, IF p[w[r]] > p[w[k]] THEN r ELSE k)
<1>1. k \in 0 .. r - 1 /\ p[w[k]] \in Nat /\ p[w[r]] \in Nat
  BY DEF Winner
<1>2. CASE p[w[r]] > p[w[k]]
  <2>1. \A i \in 0 .. r - 1 : p[w[i]] < p[w[r]]
    BY <1>1, <1>2 DEF Winner
  <2> QED BY <1>1, <1>2, <2>1 DEF Winner
<1>3. CASE ~(p[w[r]] > p[w[k]])
  BY <1>1, <1>3 DEF Winner
<1> QED BY <1>2, <1>3

LEMMA WinnerIsUnique ==
  ASSUME NEW w, NEW p, NEW r, NEW k, NEW j, Winner(w, r, p, k), Winner(w, r, p, j), r \in Nat,
         \A i \in 0 .. r - 1 : p[w[i]] \in Nat
  PROVE  k = j
<1>1. k \in 0 .. r - 1 /\ j \in 0 .. r - 1 /\ p[w[k]] \in Nat /\ p[w[j]] \in Nat
  BY DEF Winner
<1>2. p[w[k]] <= p[w[j]] /\ p[w[j]] <= p[w[k]]
  BY <1>1 DEF Winner
<1>3. ~(k < j) /\ ~(j < k)
  BY <1>1, <1>2 DEF Winner
<1> QED BY <1>1, <1>3

LEMMA WinnerExists ==
  ASSUME NEW w, NEW p, NEW n \in Nat, \A i \in 0 .. n - 1 : p[w[i]] \in Nat
  PROVE  \A r \in 1 .. n : \E k : Winner(w, r, p, k)
<1> DEFINE S == {r \in 0 .. n : r = 0 \/ \E k : Winner(w, r, p, k)}
<1>1. ASSUME NEW r \in 1 .. n, r - 1 \in S PROVE r \in S
  <2>1. CASE r = 1
    <3>1. Winner(w, 1, p, 0)
      BY DEF Winner
    <3> QED BY <2>1, <3>1
  <2>2. CASE r # 1
    <3>1. r - 1 \in Nat /\ (r - 1) + 1 = r
      BY <2>2
    <3>2. PICK k : Winner(w, r - 1, p, k)
      BY <1>1, <2>2
    <3>3. \A i \in 0 .. r - 1 : p[w[i]] \in Nat
      OBVIOUS
    <3>4. \E j : Winner(w, (r - 1) + 1, p, j)
      BY <3>1, <3>2, <3>3, NextWinner
    <3> QED BY <3>1, <3>4
  <2> QED BY <2>1, <2>2
<1>2. 0 .. n \subseteq S
  <2>1. 0 \in S
    OBVIOUS
  <2> HIDE DEF S
  <2> QED BY <1>1, <2>1, Rounds
<1> QED BY <1>2

LEMMA ChoosesWinner ==
  ASSUME NEW w, NEW p, NEW n \in Nat, \A i \in 0 .. n - 1 : p[w[i]] \in Nat, NEW r \in 1 .. n
  PROVE  Winner(w, r, p, CHOOSE k : Winner(w, r, p, k))
BY WinnerExists

\* One round of the scan.
Round(byte, f, r) ==
  LET t == Queue[r - 1]
      prio == IF t = NULL THEN byte ELSE priority[t]
  IN IF prio > f[r - 1].MaxPriority
     THEN [MaxPriority |-> Int8(prio), MaxPIndex |-> r - 1]
     ELSE f[r - 1]
Scanned(byte, f) ==
  f = [r \in 0 .. Length |->
         IF r = 0 THEN [MaxPriority |-> -1, MaxPIndex |-> -1] ELSE Round(byte, f, r)]

LEMMA WaitersHavePriorities ==
  ASSUME WellFormed(Queue, Length), priority \in [Tasks -> 0 .. Int8Max]
  PROVE  Length \in Nat /\ \A i \in 0 .. Length - 1 : priority[Queue[i]] \in Nat
<1>1. Length \in Nat
  BY TasksAssumption DEF WellFormed, Tasks
<1>2. ASSUME NEW i \in 0 .. Length - 1 PROVE priority[Queue[i]] \in Nat
  <2>1. Queue[i] \in Tasks
    BY DEF WellFormed
  <2>2. priority[Queue[i]] \in 0 .. Int8Max
    BY <2>1
  <2> QED BY <2>2 DEF Int8Max
<1> QED BY <1>1, <1>2

\* Without NULL among the waiters a round is a comparison of two of them.
LEMMA RoundCompares ==
  ASSUME NEW byte, NEW f, WellFormed(Queue, Length), priority \in [Tasks -> 0 .. Int8Max],
         NEW r \in 1 .. Length
  PROVE  Round(byte, f, r) = IF priority[Queue[r - 1]] > f[r - 1].MaxPriority
                             THEN [MaxPriority |-> priority[Queue[r - 1]], MaxPIndex |-> r - 1]
                             ELSE f[r - 1]
<1>1. Length \in Nat /\ r - 1 \in 0 .. Length - 1
  BY TasksAssumption DEF WellFormed, Tasks
<1>2. Queue[r - 1] \in Tasks /\ Queue[r - 1] # NULL
  BY <1>1, TasksAssumption DEF WellFormed, Tasks, NULL
<1>3. Int8(priority[Queue[r - 1]]) = priority[Queue[r - 1]]
  BY <1>2 DEF Int8, Int8Max
<1> QED BY <1>2, <1>3 DEF Round

\* MaxPriority and MaxPIndex are those of the best of the first r waiters.
BestOf(f, r) ==
  IF r = 0 THEN f[r] = [MaxPriority |-> -1, MaxPIndex |-> -1]
  ELSE /\ Winner(Queue, r, priority, f[r].MaxPIndex)
       /\ f[r].MaxPriority = priority[Queue[f[r].MaxPIndex]]

LEMMA RoundKeepsBest ==
  ASSUME NEW byte, NEW f, WellFormed(Queue, Length), priority \in [Tasks -> 0 .. Int8Max],
         NEW r \in 1 .. Length, BestOf(f, r - 1), f[r] = Round(byte, f, r)
  PROVE  BestOf(f, r)
<1>1. Length \in Nat /\ r - 1 \in 0 .. Length - 1 /\ r - 1 \in Nat
  BY TasksAssumption DEF WellFormed, Tasks
<1>2. \A i \in 0 .. r - 1 : priority[Queue[i]] \in Nat
  BY <1>1, WaitersHavePriorities
<1>3. f[r] = IF priority[Queue[r - 1]] > f[r - 1].MaxPriority
             THEN [MaxPriority |-> priority[Queue[r - 1]], MaxPIndex |-> r - 1]
             ELSE f[r - 1]
  BY RoundCompares
<1>4. CASE r = 1
  <2>1. f[r] = [MaxPriority |-> priority[Queue[0]], MaxPIndex |-> 0]
    BY <1>2, <1>3, <1>4 DEF BestOf
  <2>2. Winner(Queue, 1, priority, 0)
    BY <1>2, <1>4 DEF Winner
  <2> QED BY <1>4, <2>1, <2>2 DEF BestOf
<1>5. CASE r # 1
  <2>1. PICK k : k = f[r - 1].MaxPIndex
    OBVIOUS
  <2>2. Winner(Queue, r - 1, priority, k) /\ f[r - 1].MaxPriority = priority[Queue[k]]
    BY <1>1, <1>5, <2>1 DEF BestOf
  <2>3. Winner(Queue, (r - 1) + 1, priority,
               IF priority[Queue[r - 1]] > priority[Queue[k]] THEN r - 1 ELSE k)
    BY <1>1, <1>2, <2>2, NextWinner
  <2>4. (r - 1) + 1 = r
    OBVIOUS
  <2>5. f[r].MaxPIndex = (IF priority[Queue[r - 1]] > priority[Queue[k]] THEN r - 1 ELSE k)
        /\ f[r].MaxPriority = priority[Queue[f[r].MaxPIndex]]
    BY <1>3, <2>1, <2>2
  <2>6. Winner(Queue, r, priority, f[r].MaxPIndex)
    BY ONLY <2>3, <2>4, <2>5
  <2> QED BY <2>5, <2>6 DEF BestOf
<1> QED BY <1>4, <1>5

\* A function that satisfies the equation of the scan exists: the rounds find
\* one winner after the other.
LEMMA ScanExists ==
  ASSUME NEW byte, WellFormed(Queue, Length), priority \in [Tasks -> 0 .. Int8Max]
  PROVE  \E f : Scanned(byte, f)
<1> DEFINE First(r) == CHOOSE k : Winner(Queue, r, priority, k)
           f == [r \in 0 .. Length |->
                   IF r = 0 THEN [MaxPriority |-> -1, MaxPIndex |-> -1]
                   ELSE [MaxPriority |-> priority[Queue[First(r)]], MaxPIndex |-> First(r)]]
<1>1. Length \in Nat /\ \A i \in 0 .. Length - 1 : priority[Queue[i]] \in Nat
  BY WaitersHavePriorities
<1>2. \A r \in 1 .. Length : Winner(Queue, r, priority, First(r))
  BY <1>1, ChoosesWinner
<1> HIDE DEF First
<1>3. ASSUME NEW r \in 1 .. Length PROVE f[r] = Round(byte, f, r)
  <2>1. Round(byte, f, r) = IF priority[Queue[r - 1]] > f[r - 1].MaxPriority
                            THEN [MaxPriority |-> priority[Queue[r - 1]], MaxPIndex |-> r - 1]
                            ELSE f[r - 1]
    <3> HIDE DEF f
    <3> QED BY RoundCompares
  <2>2. r - 1 \in 0 .. Length /\ r - 1 \in 0 .. Length - 1
    BY <1>1
  <2>3. Winner(Queue, r, priority, First(r))
    BY <1>2
  <2>4. PICK k : k = First(r) /\ f[r] = [MaxPriority |-> priority[Queue[k]], MaxPIndex |-> k]
    BY <1>1
  <2>5. CASE r = 1
    <3>1. f[r - 1] = [MaxPriority |-> -1, MaxPIndex |-> -1]
      BY <2>2, <2>5
    <3>2. k = 0
      BY <2>3, <2>4, <2>5 DEF Winner
    <3>3. priority[Queue[0]] \in Nat
      BY <1>1, <2>2, <2>5
    <3> HIDE DEF f
    <3> QED BY ONLY <2>1, <2>4, <2>5, <3>1, <3>2, <3>3
  <2>6. CASE r # 1
    <3>1. PICK j : j = First(r - 1)
                   /\ f[r - 1] = [MaxPriority |-> priority[Queue[j]], MaxPIndex |-> j]
      BY <2>2, <2>6
    <3>2. r - 1 \in 1 .. Length /\ r - 1 \in Nat /\ (r - 1) + 1 = r
      BY <2>2, <2>6
    <3> DEFINE next == IF priority[Queue[r - 1]] > priority[Queue[j]] THEN r - 1 ELSE j
    <3>3. Winner(Queue, r - 1, priority, j)
      BY <1>2, <3>1, <3>2
    <3>4. Winner(Queue, (r - 1) + 1, priority, next)
      <4>1. \A i \in 0 .. r - 1 : priority[Queue[i]] \in Nat
        BY <1>1
      <4> HIDE DEF f
      <4> QED BY <3>2, <3>3, <4>1, NextWinner
    <3>5. k = next
      <4>1. Winner(Queue, r, priority, k) /\ Winner(Queue, r, priority, next)
        BY ONLY <2>3, <2>4, <3>2, <3>4
      <4>2. r \in Nat /\ \A i \in 0 .. r - 1 : priority[Queue[i]] \in Nat
        BY <1>1
      <4> HIDE DEF f, next
      <4> QED BY <4>1, <4>2, WinnerIsUnique
    <3> HIDE DEF f
    <3> QED BY ONLY <2>1, <2>4, <3>1, <3>5
  <2> QED BY <2>5, <2>6
<1>4. f = [r \in 0 .. Length |->
             IF r = 0 THEN [MaxPriority |-> -1, MaxPIndex |-> -1] ELSE Round(byte, f, r)]
  <2>1. \A r \in 0 .. Length : r # 0 => r \in 1 .. Length
    BY <1>1
  <2> QED BY <1>3, <2>1
<1> HIDE DEF f
<1> QED BY <1>4 DEF Scanned

\* Whatever byte stands for a NULL entry: the scan of a queue of tasks finds the
\* first waiter of the highest priority.
LEMMA ScanFindsWinner ==
  ASSUME NEW byte, WellFormed(Queue, Length), Length > 0,
         priority \in [Tasks -> 0 .. Int8Max]
  PROVE  Winner(Queue, Length, priority, Best(byte).MaxPIndex)
<1>1. PICK f : Scanned(byte, f) /\ Best(byte) = f[Length]
  <2>1. Best(byte) = (CHOOSE f : Scanned(byte, f))[Length]
    BY DEF Best, Scanned, Round
  <2> QED BY <2>1, ScanExists
<1>2. Length \in Nat
  BY TasksAssumption DEF WellFormed, Tasks
<1>3. f[0] = [MaxPriority |-> -1, MaxPIndex |-> -1]
      /\ \A r \in 1 .. Length : f[r] = Round(byte, f, r)
  BY <1>1, <1>2 DEF Scanned
<1> DEFINE S == {r \in 0 .. Length : BestOf(f, r)}
<1>4. 0 \in S
  BY <1>2, <1>3 DEF BestOf
<1>5. ASSUME NEW r \in 1 .. Length, r - 1 \in S PROVE r \in S
  BY <1>3, <1>5, RoundKeepsBest
<1>6. 0 .. Length \subseteq S
  <2> HIDE DEF S
  <2> QED BY <1>2, <1>4, <1>5, Rounds
<1>7. BestOf(f, Length)
  BY <1>2, <1>6
<1> QED BY <1>1, <1>2, <1>7 DEF BestOf

-----------------------------------------------------------------------------
(* A call proceeds: the step belongs to the statement that pc names.       *)

LEMMA Statements ==
  ASSUME CallStep, ~Begin, ~Return
  PROVE  /\ ThreadMode /\ CurrentTask # Idle /\ Intact
         /\ Me.at \in {"test_counter", "own", "save_priority", "decrement", "set_ticks",
              "compare_owner", "elevate", "block", "enlist", "count", "pend", "set_counter", "test_owner",
              "restore", "test_queue", "scan", "pick_winner", "wake", "shift", "clear", "hand_over",
              "save_winners_priority", "uncount", "reset_counter", "free", "disown"}
         /\ Me.at = "test_counter" => TestCounter
         /\ Me.at = "own" => Own
         /\ Me.at = "save_priority" => SavePriority
         /\ Me.at = "decrement" => Decrement
         /\ Me.at = "set_ticks" => SetTicks
         /\ Me.at = "compare_owner" => CompareOwner
         /\ Me.at = "elevate" => Elevate
         /\ Me.at = "block" => Block
         /\ Me.at = "enlist" => EnlistMe
         /\ Me.at = "count" => Count
         /\ Me.at = "pend" => Pend
         /\ Me.at = "set_counter" => SetCounter
         /\ Me.at = "test_owner" => TestOwner
         /\ Me.at = "restore" => Restore
         /\ Me.at = "test_queue" => TestQueue
         /\ Me.at = "scan" => Scan
         /\ Me.at = "pick_winner" => PickWinner
         /\ Me.at = "wake" => Wake
         /\ Me.at = "shift" => Shift
         /\ Me.at = "clear" => Clear
         /\ Me.at = "hand_over" => HandOver
         /\ Me.at = "save_winners_priority" => SaveWinnersPriority
         /\ Me.at = "uncount" => Uncount
         /\ Me.at = "reset_counter" => ResetCounter
         /\ Me.at = "free" => Free
         /\ Me.at = "disown" => Disown
<1>1. /\ TestCounter => At("test_counter")
      /\ SetTicks => At("set_ticks")
      /\ CompareOwner => At("compare_owner")
      /\ Elevate => At("elevate")
      /\ Block => At("block")
      /\ Pend => At("pend")
      /\ TestOwner => At("test_owner")
      /\ Restore => At("restore")
      /\ TestQueue => At("test_queue")
      /\ Scan => At("scan")
      /\ PickWinner => At("pick_winner")
      /\ Wake => At("wake")
      /\ Clear => At("clear")
  BY DEF TestCounter, SetTicks, CompareOwner, Elevate, Block, Pend, TestOwner, Restore, TestQueue,
         Scan, PickWinner, Wake, Clear
<1>2. /\ Own => At("own")
      /\ SavePriority => At("save_priority")
      /\ Decrement => At("decrement")
      /\ EnlistMe => At("enlist")
      /\ Count => At("count")
      /\ SetCounter => At("set_counter")
      /\ Shift => At("shift")
      /\ HandOver => At("hand_over")
      /\ SaveWinnersPriority => At("save_winners_priority")
      /\ Uncount => At("uncount")
      /\ ResetCounter => At("reset_counter")
      /\ Free => At("free")
      /\ Disown => At("disown")
  BY DEF Own, SavePriority, Decrement, EnlistMe, Count, SetCounter, Shift, HandOver,
         SaveWinnersPriority, Uncount, ResetCounter, Free, Disown, Assign
<1> QED BY <1>1, <1>2 DEF CallStep, At

-----------------------------------------------------------------------------
(* What an assignment to a field of an object, or to the object, results in. *)

LEMMA SemaphoreFields ==
  ASSUME NEW c, NEW w, NEW n, NEW r, r = [counter |-> c, waiting_tasks |-> w, TaskTracker |-> n],
         NEW x, NEW i
  PROVE  /\ [r EXCEPT !.counter = x] = [counter |-> x, waiting_tasks |-> w, TaskTracker |-> n]
         /\ [r EXCEPT !.waiting_tasks = x] = [counter |-> c, waiting_tasks |-> x, TaskTracker |-> n]
         /\ [r EXCEPT !.waiting_tasks[i] = x] =
              [counter |-> c, waiting_tasks |-> [w EXCEPT ![i] = x], TaskTracker |-> n]
         /\ [r EXCEPT !.TaskTracker = x] = [counter |-> c, waiting_tasks |-> w, TaskTracker |-> x]
OBVIOUS
LEMMA MutexFields ==
  ASSUME NEW o, NEW c, NEW w, NEW n, NEW p, NEW r,
         r = [owner |-> o, counter |-> c, waiting_tasks |-> w, TaskTracker |-> n,
              OriginalPriority |-> p],
         NEW x, NEW i
  PROVE  /\ [r EXCEPT !.owner = x] =
              [owner |-> x, counter |-> c, waiting_tasks |-> w, TaskTracker |-> n,
               OriginalPriority |-> p]
         /\ [r EXCEPT !.counter = x] =
              [owner |-> o, counter |-> x, waiting_tasks |-> w, TaskTracker |-> n,
               OriginalPriority |-> p]
         /\ [r EXCEPT !.waiting_tasks = x] =
              [owner |-> o, counter |-> c, waiting_tasks |-> x, TaskTracker |-> n,
               OriginalPriority |-> p]
         /\ [r EXCEPT !.waiting_tasks[i] = x] =
              [owner |-> o, counter |-> c, waiting_tasks |-> [w EXCEPT ![i] = x], TaskTracker |-> n,
               OriginalPriority |-> p]
         /\ [r EXCEPT !.TaskTracker = x] =
              [owner |-> o, counter |-> c, waiting_tasks |-> w, TaskTracker |-> x,
               OriginalPriority |-> p]
         /\ [r EXCEPT !.OriginalPriority = x] =
              [owner |-> o, counter |-> c, waiting_tasks |-> w, TaskTracker |-> n,
               OriginalPriority |-> x]
OBVIOUS
LEMMA Overwritten ==
  ASSUME NEW D, NEW R, NEW f \in [D -> R], NEW o \in D, NEW a, NEW b
  PROVE  /\ [f EXCEPT ![o] = a][o] = a
         /\ [[f EXCEPT ![o] = a] EXCEPT ![o] = b] = [f EXCEPT ![o] = b]
OBVIOUS

-----------------------------------------------------------------------------
(* The two ways a call proceeds: it goes on, or it is complete.            *)

\* Only the place of the current task changes, and perhaps its locals.
Proceeds(next) ==
  /\ CurrentTask' = CurrentTask /\ held' = held
  /\ DOMAIN pc' = Tasks /\ \A t \in Tasks \ {CurrentTask} : pc'[t] = pc[t]
  /\ DOMAIN pc'[CurrentTask] = DOMAIN NoCall
  /\ Me'.at = next /\ Me'.call = Me.call /\ Me'.obj = Me.obj

Rest == {"idle", "return", "resume"}

LEMMA GotoProceeds ==
  ASSUME QuietInv, CurrentTask \in Tasks, CurrentTask' = CurrentTask, NEW next, Goto(next)
  PROVE  Proceeds(next) /\ Me'.MaxPIndex = Me.MaxPIndex /\ Me'.WinnerTask = Me.WinnerTask
BY DEF QuietInv, Goto, Proceeds, Me, NoCall

LEMMA MidCallFacts ==
  ASSUME QuietInv, MidCall
  PROVE  /\ SoFar /\ K!IInv /\ CurrentTask \in Tasks /\ ThreadMode /\ K!ThreadMode
         /\ CurrentTask = before.CurrentTask /\ canary = before.canary
         /\ pendsv = before.pendsv /\ inPendSV = before.inPendSV /\ fault = before.fault
<1>1. SoFar /\ K!IInv
  BY DEF QuietInv
<1>2. <<CurrentTask, canary, pendsv, inPendSV, fault>> =
        <<before.CurrentTask, before.canary, before.pendsv, before.inPendSV, before.fault>>
  BY <1>1, Zenon DEF SoFar, SleepSoFar, WaitSoFar, SignalSoFar, LockSoFar, UnlockSoFar, ReleaseSoFar,
         HandOverSoFar, CoreIs
<1>3. CurrentTask \in Tasks
  BY <1>1, <1>2, BeforeCore
<1> QED BY <1>1, <1>2, <1>3 DEF MidCall, ThreadMode, K!ThreadMode

\* The call is not over after this step.
LEMMA Stays ==
  ASSUME QuietInv, MidCall, QuietNext, NEW next, Proceeds(next), next \notin Rest,
         UNCHANGED <<pendsv, inPendSV, fault>>
  PROVE  MidCall' /\ before' = before
BY DEF MidCall, QuietNext, Proceeds, Rest, Me

LEMMA Advance ==
  ASSUME QuietInv, MidCall, QuietNext, NEW next, Proceeds(next), next \notin Rest,
         UNCHANGED <<pendsv, inPendSV, fault>>, SoFar'
  PROVE  [K!Next]_(K!vars) /\ QuietInv'
<1>1. MidCall' /\ before' = before
  BY Stays
<1>2. UNCHANGED K!vars
  BY <1>1 DEF K!vars, K!coreVars
<1>3. K!IInv'
  BY <1>2, KernelStep DEF QuietInv
<1>4. CurrentTask \in Tasks /\ ThreadMode
  BY MidCallFacts
<1>5. ASSUME NEW t \in Tasks
      PROVE  DOMAIN pc'[t] = DOMAIN NoCall /\ (pc'[t].at \in Rest \/ (t = CurrentTask' /\ ThreadMode'))
  <2>1. DOMAIN pc[t] = DOMAIN NoCall /\ (pc[t].at \in Rest \/ t = CurrentTask)
    BY <1>4 DEF QuietInv, Rest, ThreadMode
  <2> QED BY <1>4, <2>1 DEF Proceeds, ThreadMode
<1>6. ASSUME NEW t \in Tasks PROVE Claims(t)'
  <2>1. Claims(t)
    BY DEF QuietInv
  <2>2. CASE t = CurrentTask
    BY <1>1, <2>1, <2>2 DEF Claims, Proceeds, Rest, Me
  <2>3. CASE t # CurrentTask
    <3>1. pc'[t] = pc[t]
      BY <2>3 DEF Proceeds
    <3> QED BY <1>1, <2>1, <3>1 DEF Claims, Proceeds, K!MutexWaiters, K!Waiters
  <2> QED BY <2>2, <2>3
<1> QED BY <1>1, <1>2, <1>3, <1>5, <1>6 DEF QuietInv, Rest, Proceeds

LEMMA BeforeIsNow ==
  /\ before = Now =>
       /\ before.CurrentTask = CurrentTask /\ before.state = state
       /\ before.priority = priority /\ before.ticks = ticks /\ before.canary = canary
       /\ before.pendsv = pendsv /\ before.inPendSV = inPendSV /\ before.fault = fault
       /\ before.smp = smp /\ before.mx = mx
  /\ before' = Now' =>
       /\ before'.CurrentTask = CurrentTask' /\ before'.state = state'
       /\ before'.priority = priority' /\ before'.ticks = ticks' /\ before'.canary = canary'
       /\ before'.pendsv = pendsv' /\ before'.inPendSV = inPendSV' /\ before'.fault = fault'
       /\ before'.smp = smp' /\ before'.mx = mx'
BY DEF Now

\* The call is over after this step.
LEMMA Ends ==
  ASSUME QuietInv, MidCall, QuietNext, NEW next \in Rest, Proceeds(next)
  PROVE  ~MidCall' /\ before' = Now'
BY DEF MidCall, QuietNext, Proceeds, Rest, Me

LEMMA ClaimsRemain ==
  ASSUME QuietInv, NEW next, Proceeds(next), CurrentTask \in Tasks,
         before'.mx = before.mx, Me.call # "lock"
  PROVE  \A t \in Tasks : Claims(t)'
<1> SUFFICES ASSUME NEW t \in Tasks PROVE Claims(t)'
  OBVIOUS
<1>1. Claims(t)
  BY DEF QuietInv
<1>2. held' = held /\ (pc'[t] = pc[t] \/ pc'[t].call # "lock")
  BY DEF Proceeds, Me
<1> QED BY <1>1, <1>2 DEF Claims, K!MutexWaiters, K!Waiters

LEMMA Finish ==
  ASSUME QuietInv, MidCall, QuietNext, NEW next \in {"return", "resume"}, Proceeds(next),
         K!Next, \A t \in Tasks : Claims(t)'
  PROVE  [K!Next]_(K!vars) /\ QuietInv'
<1>1. ~MidCall' /\ before' = Now'
  BY Ends DEF Rest
<1>2. K!IInv'
  BY KernelStep DEF QuietInv
<1>3. ASSUME NEW t \in Tasks
      PROVE  DOMAIN pc'[t] = DOMAIN NoCall /\ pc'[t].at \in Rest
  <2>1. DOMAIN pc[t] = DOMAIN NoCall /\ (pc[t].at \in Rest \/ t = CurrentTask)
    BY MidCallFacts DEF QuietInv, Rest, ThreadMode
  <2> QED BY <2>1 DEF Proceeds, Me, Rest
<1> QED BY <1>1, <1>2, <1>3 DEF QuietInv, Rest, Proceeds

-----------------------------------------------------------------------------
(* OS_Sleep.                                                               *)

LEMMA SleepStep ==
  ASSUME QuietInv, MidCall, QuietNext, Me.call = "sleep", CallStep, ~Begin, ~Return
  PROVE  [K!Next]_(K!vars) /\ QuietInv'
<1>1. SleepSoFar /\ CurrentTask \in Tasks /\ CurrentTask # Idle /\ K!IInv
  BY MidCallFacts, Statements DEF SoFar
<1>2. CASE Me.at = "set_ticks"
  <2>1. SetTicks
    BY <1>2, Statements
  <2>2. Goto("block") /\ UNCHANGED <<CurrentTask, state, priority, canary, pendsv, inPendSV, fault, smp, mx>>
    BY <2>1 DEF SetTicks, OnlyTicks, Others
  <2>3. Proceeds("block") /\ before' = before
    BY <1>1, <2>2, GotoProceeds, Stays DEF Rest
  <2>4. CoreIs(before.state, before.priority, before.ticks)
    BY <1>1, <1>2 DEF SleepSoFar
  <2>5. PICK n \in SleepTicks : ticks' = [ticks EXCEPT ![CurrentTask] = n]
    BY <2>1 DEF SetTicks
  <2>6. CoreIs(before.state, before.priority, [before.ticks EXCEPT ![CurrentTask] = n])'
    BY <2>2, <2>3, <2>4, <2>5 DEF CoreIs
  <2>7. SoFar'
    BY <1>1, <2>2, <2>3, <2>6 DEF SoFar, SleepSoFar, Proceeds
  <2> QED BY <2>2, <2>3, <2>7, Advance DEF Rest
<1>3. CASE Me.at = "block"
  <2>1. Block
    BY <1>3, Statements
  <2>2. /\ Goto("pend") /\ state' = [state EXCEPT ![CurrentTask] = "BLOCKED"]
        /\ UNCHANGED <<CurrentTask, priority, ticks, canary, pendsv, inPendSV, fault, smp, mx>>
    BY <2>1 DEF Block, OnlyState, Others
  <2>3. Proceeds("pend") /\ before' = before
    BY <1>1, <2>2, GotoProceeds, Stays DEF Rest
  <2>4. PICK n \in SleepTicks :
          CoreIs(before.state, before.priority, [before.ticks EXCEPT ![CurrentTask] = n])
    BY <1>1, <1>3 DEF SleepSoFar
  <2>5. CoreIs(Blocked, before.priority, [before.ticks EXCEPT ![CurrentTask] = n])'
    BY <2>2, <2>3, <2>4 DEF CoreIs, Blocked
  <2>6. SoFar'
    BY <1>1, <2>2, <2>3, <2>5 DEF SoFar, SleepSoFar, Proceeds
  <2> QED BY <2>2, <2>3, <2>6, Advance DEF Rest
<1>4. CASE Me.at = "pend"
  <2>1. Pend
    BY <1>4, Statements
  <2>2. /\ Goto("resume") /\ pendsv' = TRUE
        /\ UNCHANGED <<CurrentTask, state, priority, ticks, canary, inPendSV, fault, smp, mx>>
    BY <2>1 DEF Pend, OnlyPendsv, Others
  <2>3. Proceeds("resume") /\ before' = Now'
    BY <1>1, <2>2, GotoProceeds, Ends DEF Rest
  <2>4. PICK n \in SleepTicks :
          CoreIs(Blocked, before.priority, [before.ticks EXCEPT ![CurrentTask] = n])
    BY <1>1, <1>4 DEF SleepSoFar
  <2>5. K!OS_Sleep(n)
    BY <2>2, <2>3, <2>4, BeforeIsNow, MidCallFacts DEF K!OS_Sleep, CoreIs, Blocked
  <2>6. before'.smp = before.smp /\ before'.mx = before.mx
    BY <1>1, <2>2, <2>3, BeforeIsNow DEF SleepSoFar
  <2>7. K!Next
    BY <1>1, <2>5, <2>6, MidCallFacts, SameConstants DEF K!Next, K!SleepOrSignal
  <2>8. \A t \in Tasks : Claims(t)'
    BY <1>1, <2>3, <2>6, ClaimsRemain
  <2> QED BY <2>3, <2>7, <2>8, Finish
<1> QED BY <1>1, <1>2, <1>3, <1>4 DEF SleepSoFar

-----------------------------------------------------------------------------
(* OS_Wait and OS_Signal.                                                  *)

\* An assignment to the semaphore of the call.
LEMMA SemaphoreAssigned ==
  ASSUME QuietInv, MidCall, QuietNext, Me.obj \in Semaphores,
         NEW c, NEW w, NEW n, SemaphoreIs(c, w, n),
         NEW statement, NEW new, NEW next, Assign(statement, new, next)
  PROVE  /\ Proceeds(next) /\ UNCHANGED coreVars
         /\ Me'.MaxPIndex = Me.MaxPIndex /\ Me'.WinnerTask = Me.WinnerTask
         /\ smp' = [before.smp EXCEPT ![Me.obj] = new] /\ mx' = before.mx
<1>1. Me.obj \notin Mutexes /\ CurrentTask \in Tasks /\ K!IInv
  BY ObjectsAssumption, MidCallFacts
<1>2. smp' = [smp EXCEPT ![Me.obj] = new] /\ UNCHANGED mx /\ Goto(next) /\ UNCHANGED coreVars
  BY <1>1 DEF Assign
<1>3. CurrentTask' = CurrentTask
  BY <1>2 DEF coreVars
<1>4. before.smp \in [Semaphores -> SemaphoreType]
  BY <1>1, BeforeSemaphores
<1>5. smp' = [before.smp EXCEPT ![Me.obj] = new]
  BY <1>2, <1>4, Overwritten DEF SemaphoreIs
<1> QED BY <1>1, <1>2, <1>3, <1>5, GotoProceeds DEF SemaphoreIs

LEMMA SemaphoreObject ==
  ASSUME K!IInv, Me.obj \in Semaphores, NEW c, NEW w, NEW n, SemaphoreIs(c, w, n)
  PROVE  Obj = [counter |-> c, waiting_tasks |-> w, TaskTracker |-> n]
         /\ Obj.counter = c /\ Queue = w /\ Length = n
<1>1. before.smp \in [Semaphores -> SemaphoreType]
  BY BeforeSemaphores
<1>2. Obj = [counter |-> c, waiting_tasks |-> w, TaskTracker |-> n]
  BY <1>1 DEF SemaphoreIs, Obj
<1> QED BY <1>2 DEF Queue, Length

LEMMA WaitStep ==
  ASSUME QuietInv, MidCall, QuietNext, Me.obj \in Semaphores, Me.call = "wait",
         CallStep, ~Begin, ~Return
  PROVE  [K!Next]_(K!vars) /\ QuietInv'
<1> DEFINE s == before.smp[Me.obj]
           w == s.waiting_tasks
           n == s.TaskTracker
           joined == Enlist(w, n, CurrentTask)
<1>1. WaitSoFar /\ CurrentTask \in Tasks /\ CurrentTask # Idle /\ K!IInv
  BY ObjectsAssumption, MidCallFacts, Statements DEF SoFar
<1>2. CASE Me.at = "test_counter"
  <2>1. /\ CoreIs(before.state, before.priority, before.ticks)
        /\ SemaphoreIs(s.counter, w, n)
    BY <1>1, <1>2 DEF WaitSoFar
  <2>2. PICK next :
          /\ Goto(next) /\ UNCHANGED vars
          /\ \/ s.counter # 0 /\ next = "decrement"
             \/ s.counter = 0 /\ next = "block"
    <3>1. TestCounter
      BY <1>2, Statements
    <3> QED BY <1>1, <2>1, <3>1, SemaphoreObject DEF TestCounter, Depending
  <2>3. Proceeds(next) /\ before' = before /\ UNCHANGED <<pendsv, inPendSV, fault>>
    BY <1>1, <2>2, GotoProceeds, Stays DEF Rest, vars, coreVars
  <2>4. SoFar'
    <3>1. Me'.obj \in Semaphores /\ Me'.call = "wait" /\ Me'.at = next
      BY <2>3 DEF Proceeds
    <3>2. (CoreIs(before.state, before.priority, before.ticks))'
      BY <2>1, <2>2, <2>3 DEF CoreIs, vars, coreVars
    <3>3. SemaphoreIs(s.counter, w, n)'
      BY <2>1, <2>2, <2>3 DEF SemaphoreIs, vars, Proceeds
    <3>4. WaitSoFar'
      BY <2>2, <2>3, <3>1, <3>2, <3>3 DEF WaitSoFar, Proceeds
    <3> QED BY <3>1, <3>4 DEF SoFar
  <2> QED BY <2>2, <2>3, <2>4, Advance DEF Rest
<1>3. CASE Me.at = "decrement"
  <2>1. /\ s.counter = 1
        /\ CoreIs(before.state, before.priority, before.ticks)
        /\ SemaphoreIs(s.counter, w, n)
    BY <1>1, <1>3, BeforeSemaphores DEF WaitSoFar
  <2>2. Assign("decrement", [counter |-> 0, waiting_tasks |-> w, TaskTracker |-> n], "return")
    <3>1. Decrement
      BY <1>3, Statements
    <3>2. [Obj EXCEPT !.counter = (@ - 1) % 256]
            = [counter |-> 0, waiting_tasks |-> w, TaskTracker |-> n]
      BY <1>1, <2>1, SemaphoreObject
    <3> QED BY <3>1, <3>2 DEF Decrement
  <2>3. /\ Proceeds("return") /\ before' = Now' /\ UNCHANGED coreVars
        /\ smp' = [before.smp EXCEPT ![Me.obj] =
                     [counter |-> 0, waiting_tasks |-> w, TaskTracker |-> n]]
        /\ mx' = before.mx
    BY <2>1, <2>2, SemaphoreAssigned, Ends DEF Rest
  <2>4. before'.smp = smp' /\ before'.mx = before.mx /\ UNCHANGED K!coreVars
    BY <2>1, <2>3, BeforeIsNow, MidCallFacts DEF K!coreVars, coreVars, CoreIs
  <2>5. before'.smp = [before.smp EXCEPT ![Me.obj].counter = @ - 1]
    <3>1. [s EXCEPT !.counter = @ - 1] = [counter |-> 0, waiting_tasks |-> w, TaskTracker |-> n]
      BY <1>1, <2>1, BeforeSemaphores DEF SemaphoreType
    <3> QED BY <2>3, <2>4, <3>1
  <2>6. K!WaitTake(Me.obj)
    BY <2>1, <2>4, <2>5, MidCallFacts DEF K!WaitTake
  <2>7. K!Next
    BY <1>1, <2>4, <2>6, MidCallFacts, SameConstants DEF K!Next, K!SleepOrSignal, K!OS_Wait
  <2>8. \A t \in Tasks : Claims(t)'
    BY <1>1, <2>3, <2>4, ClaimsRemain
  <2> QED BY <2>3, <2>7, <2>8, Finish
<1>4. CASE Me.at = "block"
  <2>1. /\ s.counter = 0
        /\ CoreIs(before.state, before.priority, before.ticks)
        /\ SemaphoreIs(0, w, n)
    BY <1>1, <1>4 DEF WaitSoFar
  <2>2. /\ Goto("enlist") /\ state' = [state EXCEPT ![CurrentTask] = "BLOCKED"]
        /\ UNCHANGED <<CurrentTask, priority, ticks, canary, pendsv, inPendSV, fault, smp, mx>>
    BY <1>4, Statements DEF Block, OnlyState, Others
  <2>3. Proceeds("enlist") /\ before' = before
    BY <1>1, <2>2, GotoProceeds, Stays DEF Rest
  <2>4. SoFar'
    <3>1. Me'.obj \in Semaphores /\ Me'.call = "wait" /\ Me'.at = "enlist"
      BY <2>3 DEF Proceeds
    <3>2. CoreIs(Blocked, before.priority, before.ticks)'
      BY <2>1, <2>2, <2>3 DEF CoreIs, Blocked
    <3>3. SemaphoreIs(0, w, n)'
      BY <2>1, <2>2, <2>3 DEF SemaphoreIs, Proceeds
    <3>4. WaitSoFar'
      BY <2>1, <2>3, <3>1, <3>2, <3>3 DEF WaitSoFar, Proceeds
    <3> QED BY <3>1, <3>4 DEF SoFar
  <2> QED BY <2>2, <2>3, <2>4, Advance DEF Rest
<1>5. CASE Me.at = "enlist"
  <2>1. /\ s.counter = 0
        /\ CoreIs(Blocked, before.priority, before.ticks)
        /\ SemaphoreIs(0, w, n)
    BY <1>1, <1>5 DEF WaitSoFar
  <2>2. Assign("enlist", [counter |-> 0, waiting_tasks |-> joined, TaskTracker |-> n], "count")
    <3>1. EnlistMe
      BY <1>5, Statements
    <3>2. [Obj EXCEPT !.waiting_tasks[Length] = CurrentTask]
            = [counter |-> 0, waiting_tasks |-> joined, TaskTracker |-> n]
      BY <1>1, <2>1, SemaphoreObject DEF Enlist
    <3> QED BY <3>1, <3>2 DEF EnlistMe
  <2>3. /\ Proceeds("count") /\ before' = before /\ UNCHANGED coreVars
        /\ smp' = [before.smp EXCEPT ![Me.obj] =
                     [counter |-> 0, waiting_tasks |-> joined, TaskTracker |-> n]]
        /\ mx' = before.mx
    BY <2>1, <2>2, SemaphoreAssigned, Stays DEF Rest, coreVars
  <2>4. SoFar'
    <3>1. Me'.obj = Me.obj /\ Me'.call = "wait" /\ Me'.at = "count" /\ CurrentTask' = CurrentTask
      BY <2>3 DEF Proceeds
    <3>2. CoreIs(Blocked, before.priority, before.ticks)'
      BY <2>1, <2>3, <3>1 DEF CoreIs, Blocked, coreVars
    <3>3. SemaphoreIs(0, joined, n)'
      BY <2>3, <3>1 DEF SemaphoreIs, Enlist
    <3>4. WaitSoFar'
      BY <2>1, <2>3, <3>1, <3>2, <3>3 DEF WaitSoFar
    <3> QED BY <3>1, <3>4 DEF SoFar
  <2> QED BY <2>3, <2>4, Advance DEF Rest, coreVars
<1>6. CASE Me.at = "count"
  <2>1. /\ s.counter = 0
        /\ CoreIs(Blocked, before.priority, before.ticks)
        /\ SemaphoreIs(0, joined, n)
    BY <1>1, <1>6 DEF WaitSoFar
  <2>2. Assign("count", [counter |-> 0, waiting_tasks |-> joined, TaskTracker |-> n + 1], "pend")
    <3>1. Count
      BY <1>6, Statements
    <3>2. [Obj EXCEPT !.TaskTracker = @ + 1]
            = [counter |-> 0, waiting_tasks |-> joined, TaskTracker |-> n + 1]
      BY <1>1, <2>1, SemaphoreObject
    <3> QED BY <3>1, <3>2 DEF Count
  <2>3. /\ Proceeds("pend") /\ before' = before /\ UNCHANGED coreVars
        /\ smp' = [before.smp EXCEPT ![Me.obj] =
                     [counter |-> 0, waiting_tasks |-> joined, TaskTracker |-> n + 1]]
        /\ mx' = before.mx
    BY <2>1, <2>2, SemaphoreAssigned, Stays DEF Rest, coreVars
  <2>4. SoFar'
    <3>1. Me'.obj = Me.obj /\ Me'.call = "wait" /\ Me'.at = "pend" /\ CurrentTask' = CurrentTask
      BY <2>3 DEF Proceeds
    <3>2. CoreIs(Blocked, before.priority, before.ticks)'
      BY <2>1, <2>3, <3>1 DEF CoreIs, Blocked, coreVars
    <3>3. SemaphoreIs(0, joined, n + 1)'
      BY <2>3, <3>1 DEF SemaphoreIs, Enlist
    <3>4. WaitSoFar'
      BY <2>1, <2>3, <3>1, <3>2, <3>3 DEF WaitSoFar
    <3> QED BY <3>1, <3>4 DEF SoFar
  <2> QED BY <2>3, <2>4, Advance DEF Rest, coreVars
<1>7. CASE Me.at = "pend"
  <2>1. /\ s.counter = 0
        /\ CoreIs(Blocked, before.priority, before.ticks)
        /\ SemaphoreIs(0, joined, n + 1)
    BY <1>1, <1>7 DEF WaitSoFar
  <2>2. /\ Goto("resume") /\ pendsv' = TRUE
        /\ UNCHANGED <<CurrentTask, state, priority, ticks, canary, inPendSV, fault, smp, mx>>
    BY <1>7, Statements DEF Pend, OnlyPendsv, Others
  <2>3. Proceeds("resume") /\ before' = Now'
    BY <1>1, <2>2, GotoProceeds, Ends DEF Rest
  <2>4. before'.mx = before.mx
    BY <2>1, <2>2, <2>3, BeforeIsNow DEF SemaphoreIs
  <2>5. K!WaitBlock(Me.obj)
    BY <2>1, <2>2, <2>3, BeforeIsNow, MidCallFacts, SameConstants
       DEF K!WaitBlock, CoreIs, Blocked, SemaphoreIs
  <2>6. K!Next
    BY <1>1, <2>4, <2>5, MidCallFacts, SameConstants DEF K!Next, K!SleepOrSignal, K!OS_Wait
  <2>7. \A t \in Tasks : Claims(t)'
    BY <1>1, <2>3, <2>4, ClaimsRemain
  <2> QED BY <2>3, <2>6, <2>7, Finish
<1> QED BY <1>1, <1>2, <1>3, <1>4, <1>5, <1>6, <1>7 DEF WaitSoFar

LEMMA WinnerBounds ==
  ASSUME NEW w, NEW p, NEW n \in Tasks, NEW k, Winner(w, n, p, k)
  PROVE  k \in Nat /\ k \in Tasks /\ n > 0
BY TasksAssumption DEF Winner, Tasks

\* What the loop that moves the entries down assigns.
LEMMA ShiftMoves ==
  ASSUME NEW w, NEW n, NEW k, w = Queue, n = Length, k = Me.MaxPIndex
  PROVE  [Obj EXCEPT !.waiting_tasks =
            [i \in Tasks |-> IF Me.MaxPIndex <= i /\ i < Length - 1 THEN @[i + 1] ELSE @[i]]]
           = [Obj EXCEPT !.waiting_tasks = MovedDown(w, n, k)]
BY DEF MovedDown, Queue

LEMMA MovedDownCleared ==
  ASSUME NEW w, NEW n \in Tasks, n > 0, NEW k \in Nat
  PROVE  [MovedDown(w, n, k) EXCEPT ![n - 1] = NULL] = FillHole(w, n, k)
BY TasksAssumption DEF MovedDown, FillHole, Tasks

\* TaskTracker never wraps around.
LEMMA LengthFits ==
  ASSUME NEW n \in Tasks, n > 0
  PROVE  (n - 1) % 256 = n - 1
BY TasksAssumption, WidthAssumption DEF Tasks, Int8Max

\* The scan leaves the winner in MaxPIndex.
LEMMA ScanProceeds ==
  ASSUME QuietInv, MidCall, Scan, NEW w, NEW n, NEW p, w = Queue, n = Length, p = priority,
         WellFormed(w, n), n > 0, p \in [Tasks -> 0 .. Int8Max]
  PROVE  /\ Proceeds(Depending("wake", "pick_winner")) /\ UNCHANGED vars
         /\ Winner(w, n, p, Me'.MaxPIndex)
<1>0. PICK next : next = Depending("wake", "pick_winner")
  OBVIOUS
<1>1. PICK byte \in VectorBytes :
        pc' = [pc EXCEPT ![CurrentTask].at = next,
                         ![CurrentTask].MaxPIndex = Best(byte).MaxPIndex]
  BY <1>0 DEF Scan
<1>2. Winner(w, n, p, Best(byte).MaxPIndex)
  BY ScanFindsWinner
<1>3. UNCHANGED vars /\ held' = held
  BY DEF Scan
<1>4. CurrentTask' = CurrentTask /\ CurrentTask \in Tasks
  BY <1>3, MidCallFacts DEF vars, coreVars
<1>5. PICK k : k = Best(byte).MaxPIndex
  OBVIOUS
<1>6. Proceeds(next) /\ Me'.MaxPIndex = k
  BY <1>1, <1>3, <1>4, <1>5 DEF QuietInv, Proceeds, Me, NoCall
<1> QED BY <1>0, <1>2, <1>3, <1>5, <1>6

\* The winner of the scan is a task, so MaxPIndex is a proper index.
LEMMA WinnerIsChosen ==
  ASSUME NEW w, NEW n, NEW p, NEW k, w = Queue, k = Me.MaxPIndex,
         WellFormed(w, n), Winner(w, n, p, k)
  PROVE  Chosen = w[k] /\ w[k] \in Tasks /\ w[k] # NULL
<1>1. k \in 0 .. n - 1 /\ w[k] \in Tasks
  BY DEF Winner, WellFormed
<1> QED BY <1>1, TasksAssumption DEF Chosen, WellFormed, Tasks, NULL

\* It is made READY.
LEMMA WakeProceeds ==
  ASSUME QuietInv, MidCall, Wake, NEW u, u = ToWake, u # NULL
  PROVE  /\ Proceeds("shift") /\ Me'.MaxPIndex = Me.MaxPIndex /\ Me'.WinnerTask = Me.WinnerTask
         /\ state' = [state EXCEPT ![u] = "READY"] /\ OnlyState
<1>1. state' = [state EXCEPT ![u] = "READY"] /\ OnlyState /\ Goto("shift")
  BY DEF Wake
<1>2. CurrentTask' = CurrentTask /\ CurrentTask \in Tasks
  BY <1>1, MidCallFacts DEF OnlyState, Others
<1> QED BY <1>1, <1>2, GotoProceeds

LEMMA SignalStep ==
  ASSUME QuietInv, MidCall, QuietNext, Me.obj \in Semaphores, Me.call = "signal",
         CallStep, ~Begin, ~Return
  PROVE  [K!Next]_(K!vars) /\ QuietInv'
<1> DEFINE s == before.smp[Me.obj]
           w == s.waiting_tasks
           n == s.TaskTracker
           k == Me.MaxPIndex
<1>1. SignalSoFar /\ CurrentTask \in Tasks /\ CurrentTask # Idle /\ K!IInv
  BY ObjectsAssumption, MidCallFacts, Statements DEF SoFar
<1>2. /\ WellFormed(w, n) /\ n \in Tasks
      /\ before.priority \in [Tasks -> 0 .. Int8Max]
  BY <1>1, BeforeSemaphores, BeforeCore DEF WellFormed
<1>3. CASE Me.at = "set_counter"
  <2>1. /\ CoreIs(before.state, before.priority, before.ticks)
        /\ SemaphoreIs(s.counter, w, n)
    BY <1>1, <1>3 DEF SignalSoFar
  <2>2. Assign("set_counter", [counter |-> 1, waiting_tasks |-> w, TaskTracker |-> n],
               "test_queue")
    <3>1. SetCounter
      BY <1>3, Statements
    <3>2. [Obj EXCEPT !.counter = 1] = [counter |-> 1, waiting_tasks |-> w, TaskTracker |-> n]
      BY <1>1, <2>1, SemaphoreObject
    <3> QED BY <3>1, <3>2 DEF SetCounter
  <2>3. /\ Proceeds("test_queue") /\ before' = before /\ UNCHANGED coreVars
        /\ smp' = [before.smp EXCEPT ![Me.obj] =
                     [counter |-> 1, waiting_tasks |-> w, TaskTracker |-> n]]
        /\ mx' = before.mx
    BY <2>1, <2>2, SemaphoreAssigned, Stays DEF Rest, coreVars
  <2>4. SoFar'
    <3>1. Me'.obj = Me.obj /\ Me'.call = "signal" /\ Me'.at = "test_queue"
      BY <2>3 DEF Proceeds
    <3>2. CoreIs(before.state, before.priority, before.ticks)'
      BY <2>1, <2>3 DEF CoreIs, coreVars
    <3>3. SemaphoreIs(1, w, n)'
      BY <2>3, <3>1 DEF SemaphoreIs
    <3>4. SignalSoFar'
      BY <2>3, <3>1, <3>2, <3>3 DEF SignalSoFar
    <3> QED BY <3>1, <3>4 DEF SoFar
  <2> QED BY <2>3, <2>4, Advance DEF Rest, coreVars
<1>4. CASE Me.at = "test_queue"
  <2>1. /\ CoreIs(before.state, before.priority, before.ticks)
        /\ SemaphoreIs(1, w, n)
    BY <1>1, <1>4 DEF SignalSoFar
  <2>2. Goto(IF n > 0 THEN "scan" ELSE "return") /\ UNCHANGED vars
    <3>1. TestQueue
      BY <1>4, Statements
    <3> QED BY <1>1, <2>1, <3>1, SemaphoreObject DEF TestQueue, Depending
  <2>3. UNCHANGED <<CurrentTask, state, priority, ticks, canary, pendsv, inPendSV, fault, smp, mx>>
    BY <2>2 DEF vars, coreVars
  <2>4. CASE n > 0
    <3>1. Proceeds("scan") /\ before' = before
      BY <1>1, <2>2, <2>3, <2>4, GotoProceeds, Stays DEF Rest
    <3>2. SoFar'
      <4>1. Me'.obj = Me.obj /\ Me'.call = "signal" /\ Me'.at = "scan"
        BY <3>1 DEF Proceeds
      <4>2. CoreIs(before.state, before.priority, before.ticks)'
        BY <2>1, <2>3, <3>1 DEF CoreIs
      <4>3. SemaphoreIs(1, w, n)'
        BY <2>1, <2>3, <3>1, <4>1 DEF SemaphoreIs
      <4>4. SignalSoFar'
        BY <2>4, <3>1, <4>1, <4>2, <4>3 DEF SignalSoFar
      <4> QED BY <4>1, <4>4 DEF SoFar
    <3> QED BY <2>3, <3>1, <3>2, Advance DEF Rest
  <2>5. CASE ~(n > 0)
    <3>1. Proceeds("return") /\ before' = Now'
      BY <1>1, <2>2, <2>3, <2>5, GotoProceeds, Ends DEF Rest
    <3>2. n = 0
      BY <1>2, <2>5, TasksAssumption DEF Tasks
    <3>3. before'.mx = before.mx /\ UNCHANGED K!coreVars
      BY <2>1, <2>3, <3>1, BeforeIsNow DEF SemaphoreIs, CoreIs, K!coreVars
    <3>4. before'.smp = [before.smp EXCEPT ![Me.obj].counter = 1]
      <4>1. [s EXCEPT !.counter = 1] = [counter |-> 1, waiting_tasks |-> w, TaskTracker |-> n]
        BY <1>1, BeforeSemaphores DEF SemaphoreType
      <4> QED BY <2>1, <2>3, <3>1, <4>1, BeforeIsNow DEF SemaphoreIs
    <3>5. K!SignalStore(Me.obj)
      BY <3>2, <3>3, <3>4, MidCallFacts DEF K!SignalStore
    <3>6. K!Next
      BY <1>1, <3>3, <3>5, MidCallFacts, SameConstants DEF K!Next, K!SleepOrSignal, K!OS_Signal
    <3>7. \A t \in Tasks : Claims(t)'
      BY <1>1, <3>1, <3>3, ClaimsRemain
    <3> QED BY <3>1, <3>6, <3>7, Finish
  <2> QED BY <2>4, <2>5
<1>5. CASE Me.at = "scan"
  <2>1. /\ CoreIs(before.state, before.priority, before.ticks)
        /\ SemaphoreIs(1, w, n) /\ n > 0
    BY <1>1, <1>5 DEF SignalSoFar
  <2>2. Queue = w /\ Length = n /\ priority = before.priority
    BY <1>1, <2>1, SemaphoreObject DEF CoreIs
  <2>3. /\ Proceeds("wake") /\ UNCHANGED vars
        /\ Winner(w, n, before.priority, Me'.MaxPIndex)
    <3>1. Scan
      BY <1>5, Statements
    <3>2. Depending("wake", "pick_winner") = "wake"
      BY DEF Depending
    <3> QED BY <1>2, <2>1, <2>2, <3>1, <3>2, ScanProceeds
  <2>4. UNCHANGED <<CurrentTask, state, priority, ticks, canary, pendsv, inPendSV, fault, smp, mx>>
    BY <2>3 DEF vars, coreVars
  <2>5. before' = before
    BY <2>3, <2>4, Stays DEF Rest
  <2>6. SoFar'
    <3>1. Me'.obj = Me.obj /\ Me'.call = "signal" /\ Me'.at = "wake"
      BY <2>3 DEF Proceeds
    <3>2. CoreIs(before.state, before.priority, before.ticks)'
      BY <2>1, <2>4, <2>5 DEF CoreIs
    <3>3. SemaphoreIs(1, w, n)'
      BY <2>1, <2>4, <2>5, <3>1 DEF SemaphoreIs
    <3>4. SignalSoFar'
      BY <2>3, <2>5, <3>1, <3>2, <3>3 DEF SignalSoFar
    <3> QED BY <3>1, <3>4 DEF SoFar
  <2> QED BY <2>3, <2>4, <2>6, Advance DEF Rest
<1>6. CASE Me.at = "wake"
  <2>1. /\ CoreIs(before.state, before.priority, before.ticks)
        /\ SemaphoreIs(1, w, n) /\ Winner(w, n, before.priority, k)
    BY <1>1, <1>6 DEF SignalSoFar
  <2>2. Queue = w
    BY <1>1, <2>1, SemaphoreObject
  <2>3. /\ Proceeds("shift") /\ Me'.MaxPIndex = k
        /\ state' = [state EXCEPT ![w[k]] = "READY"]
        /\ UNCHANGED <<CurrentTask, priority, ticks, canary, pendsv, inPendSV, fault, smp, mx>>
    <3>1. Wake
      BY <1>6, Statements
    <3>2. ToWake = w[k] /\ w[k] # NULL
      BY <1>2, <2>1, <2>2, WinnerIsChosen DEF ToWake
    <3> QED BY <3>1, <3>2, WakeProceeds DEF OnlyState, Others
  <2>4. before' = before
    BY <2>3, Stays DEF Rest
  <2>5. SoFar'
    <3>1. Me'.obj = Me.obj /\ Me'.call = "signal" /\ Me'.at = "shift"
      BY <2>3 DEF Proceeds
    <3>2. CoreIs(Woken(w[k]), before.priority, before.ticks)'
      BY ONLY <2>1, <2>3, <2>4, <3>1 DEF CoreIs, Woken
    <3>3. SemaphoreIs(1, w, n)'
      BY ONLY <2>1, <2>3, <2>4, <3>1 DEF SemaphoreIs
    <3>4. SignalSoFar'
      BY <2>1, <2>3, <2>4, <3>1, <3>2, <3>3 DEF SignalSoFar
    <3> QED BY <3>1, <3>4 DEF SoFar
  <2> QED BY <2>3, <2>5, Advance DEF Rest
<1>7. CASE Me.at = "shift"
  <2>1. /\ Winner(w, n, before.priority, k)
        /\ CoreIs(Woken(w[k]), before.priority, before.ticks)
        /\ SemaphoreIs(1, w, n)
    BY <1>1, <1>7 DEF SignalSoFar
  <2>2. /\ k \in Nat /\ n > 0
        /\ Obj = [counter |-> 1, waiting_tasks |-> w, TaskTracker |-> n]
        /\ Queue = w /\ Length = n
    BY <1>1, <1>2, <2>1, WinnerBounds, SemaphoreObject
  <2>3. Assign("shift", [counter |-> 1, waiting_tasks |-> MovedDown(w, n, k), TaskTracker |-> n],
               "clear")
    <3>1. Shift
      BY <1>7, Statements
    <3>2. [Obj EXCEPT !.waiting_tasks =
             [i \in Tasks |-> IF Me.MaxPIndex <= i /\ i < Length - 1 THEN @[i + 1] ELSE @[i]]]
            = [counter |-> 1, waiting_tasks |-> MovedDown(w, n, k), TaskTracker |-> n]
      <4>1. [Obj EXCEPT !.waiting_tasks = MovedDown(w, n, k)]
              = [counter |-> 1, waiting_tasks |-> MovedDown(w, n, k), TaskTracker |-> n]
        BY <2>2
      <4>2. [Obj EXCEPT !.waiting_tasks =
               [i \in Tasks |-> IF Me.MaxPIndex <= i /\ i < Length - 1 THEN @[i + 1] ELSE @[i]]]
              = [Obj EXCEPT !.waiting_tasks = MovedDown(w, n, k)]
        BY ONLY <2>2 DEF MovedDown, Queue
      <4> QED BY ONLY <4>1, <4>2
    <3> QED BY <3>1, <3>2 DEF Shift
  <2>4. /\ Proceeds("clear") /\ before' = before /\ UNCHANGED coreVars
        /\ Me'.MaxPIndex = k
        /\ smp' = [before.smp EXCEPT ![Me.obj] =
                     [counter |-> 1, waiting_tasks |-> MovedDown(w, n, k), TaskTracker |-> n]]
        /\ mx' = before.mx
    BY <2>1, <2>3, SemaphoreAssigned, Stays DEF Rest, coreVars
  <2>5. SoFar'
    <3>1. Me'.obj = Me.obj /\ Me'.call = "signal" /\ Me'.at = "clear"
      BY <2>4 DEF Proceeds
    <3>2. CoreIs(Woken(w[k]), before.priority, before.ticks)'
      BY ONLY <2>1, <2>4, <3>1 DEF CoreIs, Woken, coreVars
    <3>3. SemaphoreIs(1, MovedDown(w, n, k), n)'
      BY <2>4, <3>1 DEF SemaphoreIs, MovedDown
    <3>4. SignalSoFar'
      BY <2>1, <2>4, <3>1, <3>2, <3>3 DEF SignalSoFar
    <3> QED BY <3>1, <3>4 DEF SoFar
  <2> QED BY <2>4, <2>5, Advance DEF Rest, coreVars
<1>8. CASE Me.at = "clear"
  <2>1. /\ Winner(w, n, before.priority, k)
        /\ CoreIs(Woken(w[k]), before.priority, before.ticks)
        /\ SemaphoreIs(1, MovedDown(w, n, k), n)
    BY <1>1, <1>8 DEF SignalSoFar
  <2>2. /\ k \in Nat /\ n > 0
        /\ Obj = [counter |-> 1, waiting_tasks |-> MovedDown(w, n, k), TaskTracker |-> n]
        /\ Queue = MovedDown(w, n, k) /\ Length = n
    BY <1>1, <1>2, <2>1, WinnerBounds, SemaphoreObject
  <2>3. Assign("clear", [counter |-> 1, waiting_tasks |-> FillHole(w, n, k), TaskTracker |-> n],
               "uncount")
    <3>1. Clear
      BY <1>8, Statements
    <3>2. [Obj EXCEPT !.waiting_tasks[Length - 1] = NULL]
            = [counter |-> 1, waiting_tasks |-> FillHole(w, n, k), TaskTracker |-> n]
      <4>1. [Obj EXCEPT !.waiting_tasks[Length - 1] = NULL]
              = [counter |-> 1, waiting_tasks |-> [MovedDown(w, n, k) EXCEPT ![n - 1] = NULL],
                 TaskTracker |-> n]
        BY <2>2
      <4>2. [MovedDown(w, n, k) EXCEPT ![n - 1] = NULL] = FillHole(w, n, k)
        BY <1>2, <2>2, MovedDownCleared
      <4> QED BY ONLY <4>1, <4>2
    <3> QED BY <3>1, <3>2 DEF Clear, Depending
  <2>4. /\ Proceeds("uncount") /\ before' = before /\ UNCHANGED coreVars
        /\ Me'.MaxPIndex = k
        /\ smp' = [before.smp EXCEPT ![Me.obj] =
                     [counter |-> 1, waiting_tasks |-> FillHole(w, n, k), TaskTracker |-> n]]
        /\ mx' = before.mx
    BY <2>1, <2>3, SemaphoreAssigned, Stays DEF Rest, coreVars
  <2>5. SoFar'
    <3>1. Me'.obj = Me.obj /\ Me'.call = "signal" /\ Me'.at = "uncount"
      BY <2>4 DEF Proceeds
    <3>2. CoreIs(Woken(w[k]), before.priority, before.ticks)'
      BY ONLY <2>1, <2>4, <3>1 DEF CoreIs, Woken, coreVars
    <3>3. SemaphoreIs(1, FillHole(w, n, k), n)'
      BY <2>4, <3>1 DEF SemaphoreIs, FillHole
    <3>4. SignalSoFar'
      BY <2>1, <2>4, <3>1, <3>2, <3>3 DEF SignalSoFar
    <3> QED BY <3>1, <3>4 DEF SoFar
  <2> QED BY <2>4, <2>5, Advance DEF Rest, coreVars
<1>9. CASE Me.at = "uncount"
  <2>1. /\ Winner(w, n, before.priority, k)
        /\ CoreIs(Woken(w[k]), before.priority, before.ticks)
        /\ SemaphoreIs(1, FillHole(w, n, k), n)
    BY <1>1, <1>9 DEF SignalSoFar
  <2>2. /\ k \in Nat /\ n > 0
        /\ Obj = [counter |-> 1, waiting_tasks |-> FillHole(w, n, k), TaskTracker |-> n]
        /\ Queue = FillHole(w, n, k) /\ Length = n
    BY <1>1, <1>2, <2>1, WinnerBounds, SemaphoreObject
  <2>3. Assign("uncount", [counter |-> 1, waiting_tasks |-> FillHole(w, n, k), TaskTracker |-> n - 1],
               "reset_counter")
    <3>1. Uncount
      BY <1>9, Statements
    <3>2. [Obj EXCEPT !.TaskTracker = (@ - 1) % 256]
            = [counter |-> 1, waiting_tasks |-> FillHole(w, n, k), TaskTracker |-> n - 1]
      <4>1. (n - 1) % 256 = n - 1
        BY <1>2, <2>2, LengthFits
      <4>2. [Obj EXCEPT !.TaskTracker = (@ - 1) % 256]
              = [counter |-> 1, waiting_tasks |-> FillHole(w, n, k), TaskTracker |-> (n - 1) % 256]
        BY ONLY <2>2
      <4> QED BY ONLY <4>1, <4>2
    <3> QED BY <3>1, <3>2 DEF Uncount
  <2>4. /\ Proceeds("reset_counter") /\ before' = before /\ UNCHANGED coreVars
        /\ Me'.MaxPIndex = k
        /\ smp' = [before.smp EXCEPT ![Me.obj] =
                     [counter |-> 1, waiting_tasks |-> FillHole(w, n, k), TaskTracker |-> n - 1]]
        /\ mx' = before.mx
    BY <2>1, <2>3, SemaphoreAssigned, Stays DEF Rest, coreVars
  <2>5. SoFar'
    <3>1. Me'.obj = Me.obj /\ Me'.call = "signal" /\ Me'.at = "reset_counter"
      BY <2>4 DEF Proceeds
    <3>2. CoreIs(Woken(w[k]), before.priority, before.ticks)'
      BY ONLY <2>1, <2>4, <3>1 DEF CoreIs, Woken, coreVars
    <3>3. SemaphoreIs(1, FillHole(w, n, k), n - 1)'
      BY <2>4, <3>1 DEF SemaphoreIs, FillHole
    <3>4. SignalSoFar'
      BY <2>1, <2>4, <3>1, <3>2, <3>3 DEF SignalSoFar
    <3> QED BY <3>1, <3>4 DEF SoFar
  <2> QED BY <2>4, <2>5, Advance DEF Rest, coreVars
<1>10. CASE Me.at = "reset_counter"
  <2>1. /\ Winner(w, n, before.priority, k)
        /\ CoreIs(Woken(w[k]), before.priority, before.ticks)
        /\ SemaphoreIs(1, FillHole(w, n, k), n - 1)
    BY <1>1, <1>10 DEF SignalSoFar
  <2>2. /\ k \in Nat /\ n > 0
        /\ Obj = [counter |-> 1, waiting_tasks |-> FillHole(w, n, k), TaskTracker |-> n - 1]
        /\ Queue = FillHole(w, n, k) /\ Length = n - 1
    BY <1>1, <1>2, <2>1, WinnerBounds, SemaphoreObject
  <2>3. Assign("reset_counter", [counter |-> 0, waiting_tasks |-> FillHole(w, n, k), TaskTracker |-> n - 1],
               "pend")
    <3>1. ResetCounter
      BY <1>10, Statements
    <3>2. [Obj EXCEPT !.counter = 0]
            = [counter |-> 0, waiting_tasks |-> FillHole(w, n, k), TaskTracker |-> n - 1]
      BY ONLY <2>2
    <3> QED BY <3>1, <3>2 DEF ResetCounter
  <2>4. /\ Proceeds("pend") /\ before' = before /\ UNCHANGED coreVars
        /\ Me'.MaxPIndex = k
        /\ smp' = [before.smp EXCEPT ![Me.obj] =
                     [counter |-> 0, waiting_tasks |-> FillHole(w, n, k), TaskTracker |-> n - 1]]
        /\ mx' = before.mx
    BY <2>1, <2>3, SemaphoreAssigned, Stays DEF Rest, coreVars
  <2>5. SoFar'
    <3>1. Me'.obj = Me.obj /\ Me'.call = "signal" /\ Me'.at = "pend"
      BY <2>4 DEF Proceeds
    <3>2. CoreIs(Woken(w[k]), before.priority, before.ticks)'
      BY ONLY <2>1, <2>4, <3>1 DEF CoreIs, Woken, coreVars
    <3>3. SemaphoreIs(0, FillHole(w, n, k), n - 1)'
      BY <2>4, <3>1 DEF SemaphoreIs, FillHole
    <3>4. SignalSoFar'
      BY <2>1, <2>4, <3>1, <3>2, <3>3 DEF SignalSoFar
    <3> QED BY <3>1, <3>4 DEF SoFar
  <2> QED BY <2>4, <2>5, Advance DEF Rest, coreVars
<1>11. CASE Me.at = "pend"
  <2>1. /\ Winner(w, n, before.priority, k)
        /\ CoreIs(Woken(w[k]), before.priority, before.ticks)
        /\ SemaphoreIs(0, FillHole(w, n, k), n - 1)
    BY <1>1, <1>11 DEF SignalSoFar
  <2>2. /\ Goto("resume") /\ pendsv' = TRUE
        /\ UNCHANGED <<CurrentTask, state, priority, ticks, canary, inPendSV, fault, smp, mx>>
    BY <1>11, Statements DEF Pend, OnlyPendsv, Others
  <2>3. Proceeds("resume") /\ before' = Now'
    BY <1>1, <2>2, GotoProceeds, Ends DEF Rest
  <2>4. before'.mx = before.mx
    BY <2>1, <2>2, <2>3, BeforeIsNow DEF SemaphoreIs
  <2>5. k \in Tasks /\ n > 0
    BY <1>2, <2>1, WinnerBounds
  <2>6. K!SignalWake(Me.obj)
    <3>1. /\ before'.state = [before.state EXCEPT ![w[k]] = "READY"]
          /\ before'.smp = [before.smp EXCEPT ![Me.obj] =
               [counter |-> 0, waiting_tasks |-> FillHole(w, n, k), TaskTracker |-> n - 1]]
          /\ before'.pendsv = TRUE
          /\ before'.CurrentTask = before.CurrentTask /\ before'.priority = before.priority
          /\ before'.ticks = before.ticks /\ before'.canary = before.canary
          /\ before'.inPendSV = before.inPendSV /\ before'.fault = before.fault
      BY <2>1, <2>2, <2>3, BeforeIsNow DEF CoreIs, Woken, SemaphoreIs
    <3>2. K!Winner(w, n, before.priority, k) /\ K!FillHole(w, n, k) = FillHole(w, n, k)
      BY <2>1, SameConstants
    <3>3. k \in K!Tasks /\ n > 0 /\ K!ThreadMode
      BY <2>5, MidCallFacts, SameConstants
    <3> QED BY ONLY <3>1, <3>2, <3>3 DEF K!SignalWake
  <2>7. K!Next
    BY <1>1, <2>4, <2>6, MidCallFacts, SameConstants DEF K!Next, K!SleepOrSignal, K!OS_Signal
  <2>8. \A t \in Tasks : Claims(t)'
    BY <1>1, <2>3, <2>4, ClaimsRemain
  <2> QED BY <2>3, <2>7, <2>8, Finish
<1> QED BY <1>1, <1>3, <1>4, <1>5, <1>6, <1>7, <1>8, <1>9, <1>10, <1>11 DEF SignalSoFar

-----------------------------------------------------------------------------
(* Mutex_Lock and Mutex_Unlock.                                            *)

\* An assignment to the mutex of the call.
LEMMA MutexAssigned ==
  ASSUME QuietInv, MidCall, QuietNext, Me.obj \in Mutexes,
         NEW o, NEW c, NEW w, NEW n, NEW p, MutexIs(o, c, w, n, p),
         NEW statement, NEW new, NEW next, Assign(statement, new, next)
  PROVE  /\ Proceeds(next) /\ UNCHANGED coreVars
         /\ Me'.MaxPIndex = Me.MaxPIndex /\ Me'.WinnerTask = Me.WinnerTask
         /\ mx' = [before.mx EXCEPT ![Me.obj] = new] /\ smp' = before.smp
<1>1. Me.obj \notin Semaphores /\ CurrentTask \in Tasks /\ K!IInv
  BY ObjectsAssumption, MidCallFacts
<1>2. mx' = [mx EXCEPT ![Me.obj] = new] /\ UNCHANGED smp /\ Goto(next) /\ UNCHANGED coreVars
  BY <1>1 DEF Assign
<1>3. CurrentTask' = CurrentTask
  BY <1>2 DEF coreVars
<1>4. before.mx \in [Mutexes -> MutexType]
  BY <1>1, BeforeMutexes
<1>5. mx' = [before.mx EXCEPT ![Me.obj] = new]
  BY <1>2, <1>4, Overwritten DEF MutexIs
<1> QED BY <1>1, <1>2, <1>3, <1>5, GotoProceeds DEF MutexIs

LEMMA MutexObject ==
  ASSUME K!IInv, Me.obj \in Mutexes, NEW o, NEW c, NEW w, NEW n, NEW p, MutexIs(o, c, w, n, p)
  PROVE  /\ Obj = MutexOf(o, c, w, n, p) /\ mx[Me.obj] = Obj
         /\ Obj.owner = o /\ Obj.counter = c /\ Queue = w /\ Length = n
         /\ Obj.OriginalPriority = p
<1>1. before.mx \in [Mutexes -> MutexType] /\ Me.obj \notin Semaphores
  BY BeforeMutexes, ObjectsAssumption
<1>2. Obj = MutexOf(o, c, w, n, p) /\ mx[Me.obj] = Obj
  BY <1>1 DEF MutexIs, Obj
<1> QED BY <1>2 DEF Queue, Length, MutexOf

\* The mutex that a call began with.
LEMMA MutexBefore ==
  ASSUME K!IInv, NEW o \in Mutexes, NEW m, m = before.mx[o]
  PROVE  /\ m = MutexOf(m.owner, m.counter, m.waiting_tasks, m.TaskTracker, m.OriginalPriority)
         /\ m.owner \in Tasks \cup {NULL} /\ m.TaskTracker \in Tasks
         /\ m.OriginalPriority \in 0 .. Int8Max
         /\ before.mx = [before.mx EXCEPT ![o] = m]
<1>1. before.mx \in [Mutexes -> MutexType]
  BY BeforeMutexes
<1> QED BY <1>1 DEF MutexType, MutexOf

\* Who joins a queue is in it, and the others still are.
LEMMA EnlistKeeps ==
  ASSUME NEW w, NEW n, WellFormed(w, n), NEW t
  PROVE  Waiters(w, n) \cup {t} \subseteq Waiters(Enlist(w, n, t), n + 1)
<1>1. n \in Tasks /\ n \in Nat /\ w \in [Tasks -> Tasks \cup {NULL}]
  BY TasksAssumption DEF WellFormed, Tasks
<1>2. Enlist(w, n, t)[n] = t /\ \A i \in 0 .. n - 1 : Enlist(w, n, t)[i] = w[i]
  BY <1>1, TasksAssumption DEF Enlist, Tasks
<1>3. \A i \in 0 .. n - 1 : i \in 0 .. (n + 1) - 1
  BY <1>1
<1>4. n \in 0 .. (n + 1) - 1
  BY <1>1
<1> QED BY <1>2, <1>3, <1>4 DEF Waiters

LEMMA LockStep ==
  ASSUME QuietInv, MidCall, QuietNext, Me.obj \in Mutexes, Me.call = "lock",
         CallStep, ~Begin, ~Return
  PROVE  [K!Next]_(K!vars) /\ QuietInv'
<1> DEFINE m == before.mx[Me.obj]
           w == m.waiting_tasks
           n == m.TaskTracker
           joined == Enlist(w, n, CurrentTask)
           mine == before.priority[CurrentTask]
           inherited == K!Inherited(Me.obj)
<1>1. LockSoFar /\ CurrentTask \in Tasks /\ CurrentTask # Idle /\ K!IInv
  BY ObjectsAssumption, MidCallFacts, Statements DEF SoFar
<1>2. CASE Me.at = "test_counter"
  <2>1. /\ CoreIs(before.state, before.priority, before.ticks)
        /\ MutexIs(m.owner, m.counter, w, n, m.OriginalPriority)
    BY <1>1, <1>2 DEF LockSoFar
  <2>2. PICK next :
          /\ Goto(next) /\ UNCHANGED vars
          /\ \/ m.counter # 0 /\ next = "own"
             \/ m.counter = 0 /\ next = "compare_owner"
    <3>1. TestCounter /\ Me.obj \notin Semaphores
      BY <1>2, Statements, ObjectsAssumption
    <3> QED BY <1>1, <2>1, <3>1, MutexObject DEF TestCounter, Depending
  <2>3. Proceeds(next) /\ before' = before /\ UNCHANGED <<pendsv, inPendSV, fault>>
    BY <1>1, <2>2, GotoProceeds, Stays DEF Rest, vars, coreVars
  <2>4. SoFar'
    <3>1. Me'.obj = Me.obj /\ Me'.call = "lock" /\ Me'.at = next
      BY <2>3 DEF Proceeds
    <3>2. CoreIs(before.state, before.priority, before.ticks)'
      BY <2>1, <2>2, <2>3 DEF CoreIs, vars, coreVars
    <3>3. MutexIs(m.owner, m.counter, w, n, m.OriginalPriority)'
      BY <2>1, <2>2, <2>3, <3>1 DEF MutexIs, vars
    <3>4. LockSoFar'
      BY <2>2, <2>3, <3>1, <3>2, <3>3 DEF LockSoFar
    <3> QED BY <3>1, <3>4 DEF SoFar
  <2> QED BY <2>2, <2>3, <2>4, Advance DEF Rest
<1>3. CASE Me.at = "own"
  <2>1. /\ m.counter # 0
        /\ CoreIs(before.state, before.priority, before.ticks)
        /\ MutexIs(m.owner, m.counter, w, n, m.OriginalPriority)
    BY <1>1, <1>3 DEF LockSoFar
  <2>2. /\ Obj = MutexOf(m.owner, m.counter, w, n, m.OriginalPriority)
        /\ Queue = w /\ Length = n /\ priority = before.priority
    BY <1>1, <2>1, MutexObject DEF CoreIs
  <2>3. Assign("own", MutexOf(CurrentTask, m.counter, w, n, m.OriginalPriority), "save_priority")
    <3>1. Own
      BY <1>3, Statements
    <3>2. [Obj EXCEPT !.owner = CurrentTask]
            = MutexOf(CurrentTask, m.counter, w, n, m.OriginalPriority)
      BY <2>2 DEF MutexOf
    <3> QED BY <3>1, <3>2 DEF Own
  <2>4. /\ Proceeds("save_priority") /\ before' = before /\ UNCHANGED coreVars
        /\ Me'.MaxPIndex = Me.MaxPIndex /\ Me'.WinnerTask = Me.WinnerTask
        /\ mx' = [before.mx EXCEPT ![Me.obj] = MutexOf(CurrentTask, m.counter, w, n, m.OriginalPriority)] /\ smp' = before.smp
    BY <2>1, <2>3, MutexAssigned, Stays DEF Rest, coreVars
  <2>5. SoFar'
    <3>1. /\ Me'.obj = Me.obj /\ Me'.call = "lock" /\ Me'.at = "save_priority"
          /\ CurrentTask' = CurrentTask /\ held' = held
      BY <2>4 DEF Proceeds
    <3>2. CoreIs(before.state, before.priority, before.ticks)'
      BY <2>1, <2>4, <3>1 DEF CoreIs, coreVars
    <3>3. MutexIs(CurrentTask, m.counter, w, n, m.OriginalPriority)'
      BY ONLY <2>4, <3>1 DEF MutexIs, MutexOf
    <3>4. LockSoFar'
      BY <1>1, <2>1, <2>4, <3>1, <3>2, <3>3 DEF LockSoFar
    <3> QED BY <3>1, <3>4 DEF SoFar
  <2> QED BY <2>4, <2>5, Advance DEF Rest, coreVars
<1>4. CASE Me.at = "save_priority"
  <2>1. /\ m.counter # 0
        /\ CoreIs(before.state, before.priority, before.ticks)
        /\ MutexIs(CurrentTask, m.counter, w, n, m.OriginalPriority)
    BY <1>1, <1>4 DEF LockSoFar
  <2>2. /\ Obj = MutexOf(CurrentTask, m.counter, w, n, m.OriginalPriority)
        /\ Queue = w /\ Length = n /\ priority = before.priority
    BY <1>1, <2>1, MutexObject DEF CoreIs
  <2>3. Assign("save_priority", MutexOf(CurrentTask, m.counter, w, n, mine), "decrement")
    <3>1. SavePriority
      BY <1>4, Statements
    <3>2. [Obj EXCEPT !.OriginalPriority = priority[CurrentTask]]
            = MutexOf(CurrentTask, m.counter, w, n, mine)
      BY <2>2 DEF MutexOf
    <3> QED BY <3>1, <3>2 DEF SavePriority
  <2>4. /\ Proceeds("decrement") /\ before' = before /\ UNCHANGED coreVars
        /\ Me'.MaxPIndex = Me.MaxPIndex /\ Me'.WinnerTask = Me.WinnerTask
        /\ mx' = [before.mx EXCEPT ![Me.obj] = MutexOf(CurrentTask, m.counter, w, n, mine)] /\ smp' = before.smp
    BY <2>1, <2>3, MutexAssigned, Stays DEF Rest, coreVars
  <2>5. SoFar'
    <3>1. /\ Me'.obj = Me.obj /\ Me'.call = "lock" /\ Me'.at = "decrement"
          /\ CurrentTask' = CurrentTask /\ held' = held
      BY <2>4 DEF Proceeds
    <3>2. CoreIs(before.state, before.priority, before.ticks)'
      BY <2>1, <2>4, <3>1 DEF CoreIs, coreVars
    <3>3. MutexIs(CurrentTask, m.counter, w, n, mine)'
      BY ONLY <2>4, <3>1 DEF MutexIs, MutexOf
    <3>4. LockSoFar'
      BY <1>1, <2>1, <2>4, <3>1, <3>2, <3>3 DEF LockSoFar
    <3> QED BY <3>1, <3>4 DEF SoFar
  <2> QED BY <2>4, <2>5, Advance DEF Rest, coreVars
<1>5. CASE Me.at = "decrement"
  <2>1. /\ m.counter # 0 /\ CoreIs(before.state, before.priority, before.ticks)
        /\ MutexIs(CurrentTask, m.counter, w, n, mine)
    BY <1>1, <1>5 DEF LockSoFar
  <2>2. m.counter = 1 /\ n = 0 /\ m.owner = NULL
    BY <1>1, <2>1, BeforeMutexes
  <2>3. Assign("decrement", MutexOf(CurrentTask, 0, w, n, mine), "return")
    <3>1. Decrement
      BY <1>5, Statements
    <3>2. [Obj EXCEPT !.counter = (@ - 1) % 256] = MutexOf(CurrentTask, 0, w, n, mine)
      <4>1. Obj = MutexOf(CurrentTask, 1, w, n, mine)
        BY <1>1, <2>1, <2>2, MutexObject
      <4> QED BY <4>1 DEF MutexOf
    <3> QED BY <3>1, <3>2 DEF Decrement
  <2>4. /\ Proceeds("return") /\ before' = Now' /\ UNCHANGED coreVars
        /\ mx' = [before.mx EXCEPT ![Me.obj] = MutexOf(CurrentTask, 0, w, n, mine)]
        /\ smp' = before.smp
    BY <2>1, <2>3, MutexAssigned, Ends DEF Rest
  <2>5. /\ before'.mx = [before.mx EXCEPT ![Me.obj] = MutexOf(CurrentTask, 0, w, n, mine)]
        /\ before'.smp = before.smp /\ UNCHANGED K!coreVars
    BY <2>1, <2>4, BeforeIsNow, MidCallFacts DEF K!coreVars, coreVars, CoreIs
  <2>6. K!LockTake(Me.obj)
    <3>1. MutexOf(CurrentTask, 0, w, n, mine) = MutexOf(before.CurrentTask, m.counter - 1, w, n, mine)
      BY <2>2, MidCallFacts
    <3> QED BY <2>1, <2>5, <3>1, MidCallFacts DEF K!LockTake, MutexOf
  <2>7. K!Next
    BY <1>1, <2>5, <2>6, MidCallFacts, SameConstants DEF K!Next, K!MutexCall, K!Mutex_Lock
  <2>8. \A t \in Tasks : Claims(t)'
    <3> SUFFICES ASSUME NEW t \in Tasks PROVE Claims(t)'
      OBVIOUS
    <3>1. Claims(t) /\ t # NULL
      BY TasksAssumption DEF QuietInv, Tasks, NULL
    <3>2. /\ before'.mx[Me.obj].owner = CurrentTask
          /\ \A q \in Mutexes \ {Me.obj} : before'.mx[q] = before.mx[q]
      BY <1>1, <2>5, BeforeMutexes DEF MutexOf
    <3>3. \A q \in Mutexes : before.mx[q].owner = t => before'.mx[q].owner = t
      BY <2>2, <3>1, <3>2
    <3>4. Me.obj \in Mutexes /\ t \notin K!MutexWaiters(Me.obj)
      BY <2>2 DEF K!MutexWaiters, K!Waiters
    <3>5. \A q \in Mutexes \ {Me.obj} : K!MutexWaiters(q)' = K!MutexWaiters(q)
      BY <3>2 DEF K!MutexWaiters, K!Waiters
    <3>6. CASE t = CurrentTask
      BY <2>4, <3>1, <3>2, <3>3, <3>6 DEF Claims, Proceeds, Me
    <3>7. CASE t # CurrentTask
      <4>1. pc'[t] = pc[t] /\ held' = held
        BY <2>4, <3>7 DEF Proceeds
      <4> QED BY <3>1, <3>3, <3>4, <3>5, <4>1 DEF Claims
    <3> QED BY <3>6, <3>7
  <2> QED BY <2>4, <2>7, <2>8, Finish
<1>6. CASE Me.at = "compare_owner"
  <2>1. /\ m.counter = 0 /\ CoreIs(before.state, before.priority, before.ticks)
        /\ MutexIs(m.owner, 0, w, n, m.OriginalPriority)
    BY <1>1, <1>6 DEF LockSoFar
  <2>2. Obj.owner = m.owner /\ m.owner # NULL
    BY <1>1, <2>1, BeforeMutexes, MutexObject
  <2>3. PICK next :
          /\ Goto(next) /\ UNCHANGED vars
          /\ \/ mine > before.priority[m.owner] /\ next = "elevate"
             \/ ~(mine > before.priority[m.owner]) /\ next = "block"
    <3>1. PICK byte \in VectorBytes :
            Goto(IF priority[CurrentTask] > (IF Obj.owner = NULL THEN byte ELSE priority[Obj.owner])
                 THEN "elevate" ELSE "block")
      BY <1>6, Statements DEF CompareOwner
    <3>2. UNCHANGED vars
      BY <1>6, Statements DEF CompareOwner
    <3>3. priority = before.priority
      BY <2>1 DEF CoreIs
    <3> QED BY <2>2, <3>1, <3>2, <3>3
  <2>4. Proceeds(next) /\ before' = before /\ UNCHANGED <<pendsv, inPendSV, fault>>
    BY <1>1, <2>3, GotoProceeds, Stays DEF Rest, vars, coreVars
  <2>5. next = "block" => inherited = before.priority
    BY <2>3, MidCallFacts DEF K!Inherited
  <2>6. SoFar'
    <3>1. Me'.obj = Me.obj /\ Me'.call = "lock" /\ Me'.at = next /\ CurrentTask' = CurrentTask
      BY <2>4 DEF Proceeds
    <3>2. CoreIs(before.state, before.priority, before.ticks)'
      BY <2>1, <2>3, <2>4 DEF CoreIs, vars, coreVars
    <3>3. MutexIs(m.owner, 0, w, n, m.OriginalPriority)'
      BY <2>1, <2>3, <2>4, <3>1 DEF MutexIs, vars
    <3>4. CASE next = "elevate"
      <4>1. LockSoFar'
        BY <2>1, <2>3, <2>4, <3>1, <3>2, <3>3, <3>4 DEF LockSoFar
      <4> QED BY <3>1, <4>1 DEF SoFar
    <3>5. CASE next = "block"
      <4>1. inherited' = before'.priority
        BY <2>4, <2>5, <3>1, <3>5 DEF K!Inherited
      <4>2. LockSoFar'
        BY <2>1, <2>4, <3>1, <3>2, <3>3, <3>5, <4>1 DEF LockSoFar
      <4> QED BY <3>1, <4>2 DEF SoFar
    <3> QED BY <2>3, <3>4, <3>5
  <2> QED BY <2>3, <2>4, <2>6, Advance DEF Rest
<1>11. CASE Me.at = "elevate"
  <2>1. /\ m.counter = 0 /\ CoreIs(before.state, before.priority, before.ticks)
        /\ MutexIs(m.owner, 0, w, n, m.OriginalPriority) /\ mine > before.priority[m.owner]
    BY <1>1, <1>11 DEF LockSoFar
  <2>2. Obj.owner = m.owner /\ m.owner # NULL
    BY <1>1, <2>1, BeforeMutexes, MutexObject
  <2>3. /\ Goto("block") /\ priority' = inherited
        /\ UNCHANGED <<CurrentTask, state, ticks, canary, pendsv, inPendSV, fault, smp, mx>>
    <3>1. /\ priority' = [priority EXCEPT ![m.owner] = priority[CurrentTask]]
          /\ OnlyPriority /\ Goto("block")
      BY <1>11, <2>2, Statements DEF Elevate
    <3>2. inherited = [before.priority EXCEPT ![m.owner] = mine]
      BY <2>1, MidCallFacts DEF K!Inherited
    <3>3. priority = before.priority
      BY <2>1 DEF CoreIs
    <3> QED BY <3>1, <3>2, <3>3 DEF OnlyPriority, Others
  <2>4. Proceeds("block") /\ before' = before
    BY <1>1, <2>3, GotoProceeds, Stays DEF Rest
  <2>5. SoFar'
    <3>1. Me'.obj = Me.obj /\ Me'.call = "lock" /\ Me'.at = "block"
      BY <2>4 DEF Proceeds
    <3>2. CoreIs(before.state, inherited, before.ticks)'
      BY <2>1, <2>3, <2>4, <3>1 DEF CoreIs, K!Inherited
    <3>3. MutexIs(m.owner, 0, w, n, m.OriginalPriority)'
      BY ONLY <2>1, <2>3, <2>4, <3>1 DEF MutexIs
    <3>4. LockSoFar'
      BY <2>1, <2>4, <3>1, <3>2, <3>3 DEF LockSoFar
    <3> QED BY <3>1, <3>4 DEF SoFar
  <2> QED BY <2>3, <2>4, <2>5, Advance DEF Rest
<1>7. CASE Me.at = "block"
  <2>1. /\ m.counter = 0 /\ CoreIs(before.state, inherited, before.ticks)
        /\ MutexIs(m.owner, 0, w, n, m.OriginalPriority)
    BY <1>1, <1>7 DEF LockSoFar
  <2>2. /\ Goto("enlist") /\ state' = [state EXCEPT ![CurrentTask] = "BLOCKED"]
        /\ UNCHANGED <<CurrentTask, priority, ticks, canary, pendsv, inPendSV, fault, smp, mx>>
    BY <1>7, Statements DEF Block, OnlyState, Others
  <2>3. Proceeds("enlist") /\ before' = before
    BY <1>1, <2>2, GotoProceeds, Stays DEF Rest
  <2>4. SoFar'
    <3>1. Me'.obj = Me.obj /\ Me'.call = "lock" /\ Me'.at = "enlist"
      BY <2>3 DEF Proceeds
    <3>2. CoreIs(Blocked, inherited, before.ticks)'
      BY <2>1, <2>2, <2>3, <3>1 DEF CoreIs, Blocked, K!Inherited
    <3>3. MutexIs(m.owner, 0, w, n, m.OriginalPriority)'
      BY <2>1, <2>2, <2>3, <3>1 DEF MutexIs
    <3>4. LockSoFar'
      BY <2>1, <2>3, <3>1, <3>2, <3>3 DEF LockSoFar
    <3> QED BY <3>1, <3>4 DEF SoFar
  <2> QED BY <2>2, <2>3, <2>4, Advance DEF Rest
<1>8. CASE Me.at = "enlist"
  <2>1. /\ m.counter = 0
        /\ CoreIs(Blocked, inherited, before.ticks)
        /\ MutexIs(m.owner, 0, w, n, m.OriginalPriority)
    BY <1>1, <1>8 DEF LockSoFar
  <2>2. /\ Obj = MutexOf(m.owner, 0, w, n, m.OriginalPriority)
        /\ Queue = w /\ Length = n /\ priority = inherited
    BY <1>1, <2>1, MutexObject DEF CoreIs
  <2>3. Assign("enlist", MutexOf(m.owner, 0, joined, n, m.OriginalPriority), "count")
    <3>1. EnlistMe
      BY <1>8, Statements
    <3>2. [Obj EXCEPT !.waiting_tasks[Length] = CurrentTask]
            = MutexOf(m.owner, 0, joined, n, m.OriginalPriority)
      BY <2>2 DEF MutexOf, Enlist
    <3> QED BY <3>1, <3>2 DEF EnlistMe
  <2>4. /\ Proceeds("count") /\ before' = before /\ UNCHANGED coreVars
        /\ Me'.MaxPIndex = Me.MaxPIndex /\ Me'.WinnerTask = Me.WinnerTask
        /\ mx' = [before.mx EXCEPT ![Me.obj] = MutexOf(m.owner, 0, joined, n, m.OriginalPriority)] /\ smp' = before.smp
    BY <2>1, <2>3, MutexAssigned, Stays DEF Rest, coreVars
  <2>5. SoFar'
    <3>1. /\ Me'.obj = Me.obj /\ Me'.call = "lock" /\ Me'.at = "count"
          /\ CurrentTask' = CurrentTask /\ held' = held
      BY <2>4 DEF Proceeds
    <3>2. CoreIs(Blocked, inherited, before.ticks)'
      BY <2>1, <2>4, <3>1 DEF CoreIs, Blocked, K!Inherited, coreVars
    <3>3. MutexIs(m.owner, 0, joined, n, m.OriginalPriority)'
      BY ONLY <2>4, <3>1 DEF MutexIs, MutexOf, Enlist
    <3>4. LockSoFar'
      BY <1>1, <2>1, <2>4, <3>1, <3>2, <3>3 DEF LockSoFar
    <3> QED BY <3>1, <3>4 DEF SoFar
  <2> QED BY <2>4, <2>5, Advance DEF Rest, coreVars
<1>9. CASE Me.at = "count"
  <2>1. /\ m.counter = 0
        /\ CoreIs(Blocked, inherited, before.ticks)
        /\ MutexIs(m.owner, 0, joined, n, m.OriginalPriority)
    BY <1>1, <1>9 DEF LockSoFar
  <2>2. /\ Obj = MutexOf(m.owner, 0, joined, n, m.OriginalPriority)
        /\ Queue = joined /\ Length = n /\ priority = inherited
    BY <1>1, <2>1, MutexObject DEF CoreIs
  <2>3. Assign("count", MutexOf(m.owner, 0, joined, n + 1, m.OriginalPriority), "pend")
    <3>1. Count
      BY <1>9, Statements
    <3>2. [Obj EXCEPT !.TaskTracker = @ + 1]
            = MutexOf(m.owner, 0, joined, n + 1, m.OriginalPriority)
      BY <2>2 DEF MutexOf
    <3> QED BY <3>1, <3>2 DEF Count
  <2>4. /\ Proceeds("pend") /\ before' = before /\ UNCHANGED coreVars
        /\ Me'.MaxPIndex = Me.MaxPIndex /\ Me'.WinnerTask = Me.WinnerTask
        /\ mx' = [before.mx EXCEPT ![Me.obj] = MutexOf(m.owner, 0, joined, n + 1, m.OriginalPriority)] /\ smp' = before.smp
    BY <2>1, <2>3, MutexAssigned, Stays DEF Rest, coreVars
  <2>5. SoFar'
    <3>1. /\ Me'.obj = Me.obj /\ Me'.call = "lock" /\ Me'.at = "pend"
          /\ CurrentTask' = CurrentTask /\ held' = held
      BY <2>4 DEF Proceeds
    <3>2. CoreIs(Blocked, inherited, before.ticks)'
      BY <2>1, <2>4, <3>1 DEF CoreIs, Blocked, K!Inherited, coreVars
    <3>3. MutexIs(m.owner, 0, joined, n + 1, m.OriginalPriority)'
      BY ONLY <2>4, <3>1 DEF MutexIs, MutexOf, Enlist
    <3>4. LockSoFar'
      BY <1>1, <2>1, <2>4, <3>1, <3>2, <3>3 DEF LockSoFar
    <3> QED BY <3>1, <3>4 DEF SoFar
  <2> QED BY <2>4, <2>5, Advance DEF Rest, coreVars
<1>10. CASE Me.at = "pend"
  <2>1. /\ m.counter = 0 /\ CoreIs(Blocked, inherited, before.ticks)
        /\ MutexIs(m.owner, 0, joined, n + 1, m.OriginalPriority)
    BY <1>1, <1>10 DEF LockSoFar
  <2>2. /\ Goto("resume") /\ pendsv' = TRUE
        /\ UNCHANGED <<CurrentTask, state, priority, ticks, canary, inPendSV, fault, smp, mx>>
    BY <1>10, Statements DEF Pend, OnlyPendsv, Others
  <2>3. Proceeds("resume") /\ before' = Now'
    BY <1>1, <2>2, GotoProceeds, Ends DEF Rest
  <2>4. /\ before'.mx = [before.mx EXCEPT ![Me.obj] =
                           MutexOf(m.owner, m.counter, joined, n + 1, m.OriginalPriority)]
        /\ before'.smp = before.smp /\ before'.pendsv = TRUE
        /\ before'.state = [before.state EXCEPT ![before.CurrentTask] = "BLOCKED"]
        /\ before'.priority = inherited /\ before'.ticks = before.ticks
        /\ before'.CurrentTask = before.CurrentTask /\ before'.canary = before.canary
        /\ before'.inPendSV = before.inPendSV /\ before'.fault = before.fault
    BY <2>1, <2>2, <2>3, BeforeIsNow, MidCallFacts DEF MutexIs, CoreIs, Blocked
  <2>5. K!LockBlock(Me.obj)
    BY <2>1, <2>4, MidCallFacts, SameConstants DEF K!LockBlock, MutexOf
  <2>6. K!Next
    BY <1>1, <2>4, <2>5, MidCallFacts, SameConstants DEF K!Next, K!MutexCall, K!Mutex_Lock
  <2>7. \A t \in Tasks : Claims(t)'
    <3> SUFFICES ASSUME NEW t \in Tasks PROVE Claims(t)'
      OBVIOUS
    <3>1. Claims(t)
      BY DEF QuietInv
    <3>2. /\ before'.mx[Me.obj] = MutexOf(m.owner, m.counter, joined, n + 1, m.OriginalPriority)
          /\ \A q \in Mutexes \ {Me.obj} : before'.mx[q] = before.mx[q]
      BY <1>1, <2>4, BeforeMutexes
    <3>3. \A q \in Mutexes : before'.mx[q].owner = before.mx[q].owner
      BY <3>2 DEF MutexOf
    <3>4. /\ K!MutexWaiters(Me.obj) \subseteq Waiters(joined, n + 1)
          /\ CurrentTask \in Waiters(joined, n + 1)
      BY <1>1, BeforeMutexes, EnlistKeeps, SameConstants DEF K!MutexWaiters
    <3>5. ASSUME NEW q \in Mutexes
          PROVE  /\ K!MutexWaiters(q) \subseteq K!MutexWaiters(q)'
                 /\ q = Me.obj => CurrentTask \in K!MutexWaiters(q)'
      <4>1. CASE q = Me.obj
        <5>1. before'.mx[q].waiting_tasks = joined /\ before'.mx[q].TaskTracker = n + 1
          BY <3>2, <4>1 DEF MutexOf
        <5>2. K!MutexWaiters(q)' = Waiters(joined, n + 1)
          BY <5>1 DEF K!MutexWaiters, K!Waiters, Waiters
        <5> QED BY <3>4, <4>1, <5>2
      <4>2. CASE q # Me.obj
        BY <3>2, <4>2 DEF K!MutexWaiters, K!Waiters
      <4> QED BY <4>1, <4>2
    <3>6. CASE t = CurrentTask
      BY <1>1, <2>3, <3>1, <3>3, <3>5, <3>6 DEF Claims, Proceeds, Me
    <3>7. CASE t # CurrentTask
      <4>1. pc'[t] = pc[t] /\ held' = held
        BY <2>3, <3>7 DEF Proceeds
      <4> QED BY <3>1, <3>3, <3>5, <4>1 DEF Claims
    <3> QED BY <3>6, <3>7
  <2> QED BY <2>3, <2>6, <2>7, Finish
<1> QED BY <1>1, <1>2, <1>3, <1>4, <1>5, <1>6, <1>7, <1>8, <1>9, <1>10, <1>11 DEF LockSoFar

\* What is known of the mutex that is unlocked and of the priorities.
LEMMA UnlockBegan ==
  ASSUME QuietInv, MidCall, Me.obj \in Mutexes, Me.call = "unlock"
  PROVE  /\ CurrentTask \in Tasks /\ CurrentTask # NULL /\ K!IInv
         /\ before.mx[Me.obj].owner = CurrentTask /\ before.mx[Me.obj].counter = 0
         /\ Me.obj \notin held[CurrentTask]
         /\ WellFormed(before.mx[Me.obj].waiting_tasks, before.mx[Me.obj].TaskTracker)
         /\ before.mx[Me.obj].TaskTracker \in Tasks
         /\ K!Restored(Me.obj) \in [Tasks -> 0 .. Int8Max]
         /\ ReleaseSoFar(before.mx[Me.obj].waiting_tasks, before.mx[Me.obj].TaskTracker,
                         before.mx[Me.obj].OriginalPriority, K!Restored(Me.obj))
<1>1. /\ before.mx[Me.obj].owner = CurrentTask /\ Me.obj \notin held[CurrentTask]
      /\ ReleaseSoFar(before.mx[Me.obj].waiting_tasks, before.mx[Me.obj].TaskTracker,
                      before.mx[Me.obj].OriginalPriority, K!Restored(Me.obj))
  BY MidCallFacts, ObjectsAssumption DEF SoFar, UnlockSoFar
<1>2. CurrentTask \in Tasks /\ CurrentTask # NULL /\ K!IInv /\ CurrentTask = before.CurrentTask
  BY MidCallFacts, TasksAssumption DEF Tasks, NULL
<1>3. /\ before.mx[Me.obj].counter = 0
      /\ WellFormed(before.mx[Me.obj].waiting_tasks, before.mx[Me.obj].TaskTracker)
      /\ before.mx[Me.obj].TaskTracker \in Tasks
      /\ before.mx[Me.obj].OriginalPriority \in 0 .. Int8Max
  BY <1>1, <1>2, BeforeMutexes, MutexBefore
<1>4. K!Restored(Me.obj) \in [Tasks -> 0 .. Int8Max]
  BY <1>2, <1>3, BeforeCore DEF K!Restored
<1> QED BY <1>1, <1>2, <1>3, <1>4

\* An unlock goes on.
LEMMA UnlockGoesOn ==
  ASSUME QuietInv, MidCall, QuietNext, Me.obj \in Mutexes, Me.call = "unlock",
         NEW w, NEW n, NEW p, NEW r,
         w = before.mx[Me.obj].waiting_tasks, n = before.mx[Me.obj].TaskTracker,
         p = before.mx[Me.obj].OriginalPriority, r = K!Restored(Me.obj),
         NEW next, Proceeds(next), next \notin Rest, UNCHANGED <<pendsv, inPendSV, fault>>,
         before' = before => ReleaseSoFar(w, n, p, r)'
  PROVE  [K!Next]_(K!vars) /\ QuietInv'
<1>1. before' = before
  BY Stays
<1>2. Me'.obj = Me.obj /\ Me'.call = "unlock" /\ held' = held /\ CurrentTask' = CurrentTask
  BY DEF Proceeds
<1>3. K!Restored(Me.obj)' = r
  BY <1>1, <1>2 DEF K!Restored
<1>4. UnlockSoFar'
  BY <1>1, <1>2, <1>3, UnlockBegan DEF UnlockSoFar
<1>5. SoFar'
  BY <1>2, <1>4 DEF SoFar
<1> QED BY <1>5, Advance

\* An unlock takes the mutex from its owner, who does not hold it any more, and
\* gives it to the waiter that leaves the queue.
LEMMA Released ==
  ASSUME QuietInv, MidCall, Me.obj \in Mutexes, Me.call = "unlock",
         NEW next, Proceeds(next),
         NEW new, before'.mx = [before.mx EXCEPT ![Me.obj] = new],
         K!MutexWaiters(Me.obj) \subseteq Waiters(new.waiting_tasks, new.TaskTracker) \cup {new.owner}
  PROVE  \A t \in Tasks : Claims(t)'
<1> SUFFICES ASSUME NEW t \in Tasks PROVE Claims(t)'
  OBVIOUS
<1>1. /\ Claims(t) /\ K!IInv /\ before.mx[Me.obj].owner = CurrentTask
      /\ Me.obj \notin held[CurrentTask]
  BY UnlockBegan DEF QuietInv
<1>2. /\ before'.mx[Me.obj] = new
      /\ \A q \in Mutexes \ {Me.obj} : before'.mx[q] = before.mx[q]
  BY <1>1, BeforeMutexes
<1>3. CASE t = CurrentTask
  BY <1>1, <1>2, <1>3 DEF Claims, Proceeds, Me
<1>4. CASE t # CurrentTask
  <2>1. pc'[t] = pc[t] /\ held' = held
    BY <1>4 DEF Proceeds
  <2>2. \A q \in Mutexes : before.mx[q].owner = t => before'.mx[q].owner = t
    BY <1>1, <1>2, <1>4
  <2>3. ASSUME NEW q \in Mutexes, t \in K!MutexWaiters(q)
        PROVE  before'.mx[q].owner = t \/ t \in K!MutexWaiters(q)'
    <3>1. CASE q = Me.obj
      <4>1. K!MutexWaiters(q)' = Waiters(new.waiting_tasks, new.TaskTracker)
        BY <1>2, <3>1 DEF K!MutexWaiters, K!Waiters, Waiters
      <4> QED BY <1>2, <2>3, <3>1, <4>1
    <3>2. CASE q # Me.obj
      BY <1>2, <2>3, <3>2 DEF K!MutexWaiters, K!Waiters
    <3> QED BY <3>1, <3>2
  <2> QED BY <1>1, <2>1, <2>2, <2>3 DEF Claims
<1> QED BY <1>3, <1>4

\* Mutex_Unlock up to the choice of the winner, or with nobody waiting.
LEMMA ReleaseStep ==
  ASSUME QuietInv, MidCall, QuietNext, Me.obj \in Mutexes, Me.call = "unlock",
         CallStep, ~Begin, ~Return,
         Me.at \in {"test_owner", "restore", "test_queue", "scan", "pick_winner", "wake", "free",
                    "disown"}
  PROVE  [K!Next]_(K!vars) /\ QuietInv'
<1>1. PICK w, n, p, r :
        /\ w = before.mx[Me.obj].waiting_tasks /\ n = before.mx[Me.obj].TaskTracker
        /\ p = before.mx[Me.obj].OriginalPriority /\ r = K!Restored(Me.obj)
  OBVIOUS
<1>2. /\ CurrentTask \in Tasks /\ CurrentTask # NULL /\ K!IInv
      /\ ReleaseSoFar(w, n, p, r)
      /\ WellFormed(w, n) /\ n \in Tasks /\ r \in [Tasks -> 0 .. Int8Max]
  BY <1>1, UnlockBegan
<1>3. CASE Me.at = "test_owner"
  <2>1. CoreIs(before.state, before.priority, before.ticks) /\ MutexIs(CurrentTask, 0, w, n, p)
    BY <1>2, <1>3 DEF ReleaseSoFar, HandOverSoFar
  <2>2. Goto("restore") /\ UNCHANGED <<CurrentTask, state, priority, ticks, canary, pendsv, inPendSV, fault, smp, mx>>
    <3>1. TestOwner
      BY <1>3, Statements
    <3>2. Obj.owner = CurrentTask
      BY <1>2, <2>1, MutexObject
    <3> QED BY <3>1, <3>2 DEF TestOwner, vars, coreVars
  <2>3. Proceeds("restore")
    BY <1>2, <2>2, GotoProceeds
  <2>4. ASSUME before' = before PROVE ReleaseSoFar(w, n, p, r)'
    <3>1. Me'.obj = Me.obj /\ Me'.at = "restore"
      BY <2>3 DEF Proceeds
    <3>2. CoreIs(before.state, before.priority, before.ticks)'
      BY <2>1, <2>2, <2>3, <2>4 DEF CoreIs
    <3>3. MutexIs(CurrentTask, 0, w, n, p)'
      BY <2>1, <2>2, <2>3, <2>4, <3>1 DEF MutexIs
    <3> QED BY <2>1, <2>2, <2>3, <3>1, <3>2, <3>3 DEF ReleaseSoFar
  <2> QED BY <1>1, <2>1, <2>2, <2>3, <2>4, UnlockGoesOn DEF Rest
<1>4. CASE Me.at = "restore"
  <2>1. CoreIs(before.state, before.priority, before.ticks) /\ MutexIs(CurrentTask, 0, w, n, p)
    BY <1>2, <1>4 DEF ReleaseSoFar, HandOverSoFar
  <2>2. /\ Goto("test_queue") /\ priority' = r
        /\ UNCHANGED <<CurrentTask, state, ticks, canary, pendsv, inPendSV, fault, smp, mx>>
    <3>1. Restore
      BY <1>4, Statements
    <3>2. Obj.owner = CurrentTask /\ Obj.OriginalPriority = p
      BY <1>2, <2>1, MutexObject
    <3>3. /\ priority' = [priority EXCEPT ![CurrentTask] = p]
          /\ OnlyPriority /\ Goto("test_queue")
      BY <1>2, <3>1, <3>2 DEF Restore
    <3>4. r = [priority EXCEPT ![CurrentTask] = p]
      BY <1>1, <2>1 DEF K!Restored, CoreIs
    <3> QED BY <3>3, <3>4 DEF OnlyPriority, Others
  <2>3. Proceeds("test_queue")
    BY <1>2, <2>2, GotoProceeds
  <2>4. ASSUME before' = before PROVE ReleaseSoFar(w, n, p, r)'
    <3>1. Me'.obj = Me.obj /\ Me'.at = "test_queue"
      BY <2>3 DEF Proceeds
    <3>2. CoreIs(before.state, r, before.ticks)'
      BY <2>1, <2>2, <2>3, <2>4 DEF CoreIs
    <3>3. MutexIs(CurrentTask, 0, w, n, p)'
      BY <2>1, <2>2, <2>3, <2>4, <3>1 DEF MutexIs
    <3> QED BY <2>1, <2>2, <2>3, <3>1, <3>2, <3>3 DEF ReleaseSoFar
  <2> QED BY <1>1, <2>1, <2>2, <2>3, <2>4, UnlockGoesOn DEF Rest
<1>5. CASE Me.at = "test_queue"
  <2>1. CoreIs(before.state, r, before.ticks) /\ MutexIs(CurrentTask, 0, w, n, p)
    BY <1>2, <1>5 DEF ReleaseSoFar, HandOverSoFar
  <2>2. Goto(IF n > 0 THEN "scan" ELSE "free") /\ UNCHANGED <<CurrentTask, state, priority, ticks, canary, pendsv, inPendSV, fault, smp, mx>>
    <3>1. TestQueue /\ Me.obj \notin Semaphores
      BY <1>5, Statements, ObjectsAssumption
    <3>2. Length = n
      BY <1>2, <2>1, MutexObject
    <3> QED BY <3>1, <3>2 DEF TestQueue, Depending, vars, coreVars
  <2>3. PICK next : /\ Proceeds(next)
                    /\ (n > 0 /\ next = "scan") \/ (n = 0 /\ next = "free")
    <3>1. n > 0 \/ n = 0
      BY <1>2, TasksAssumption DEF Tasks
    <3>2. Proceeds(IF n > 0 THEN "scan" ELSE "free")
      BY <1>2, <2>2, GotoProceeds
    <3> QED BY <3>1, <3>2
  <2>4. ASSUME before' = before PROVE ReleaseSoFar(w, n, p, r)'
    <3>1. Me'.obj = Me.obj /\ Me'.at = next
      BY <2>3 DEF Proceeds
    <3>2. CoreIs(before.state, r, before.ticks)'
      BY <2>1, <2>2, <2>3, <2>4 DEF CoreIs
    <3>3. MutexIs(CurrentTask, 0, w, n, p)'
      BY <2>1, <2>2, <2>3, <2>4, <3>1 DEF MutexIs
    <3> QED BY <2>1, <2>2, <2>3, <3>1, <3>2, <3>3 DEF ReleaseSoFar
  <2> QED BY <1>1, <2>1, <2>2, <2>3, <2>4, UnlockGoesOn DEF Rest
<1>6. CASE Me.at = "scan"
  <2>1. CoreIs(before.state, r, before.ticks) /\ MutexIs(CurrentTask, 0, w, n, p) /\ n > 0
    BY <1>2, <1>6 DEF ReleaseSoFar, HandOverSoFar
  <2>2. Queue = w /\ Length = n /\ priority = r
    BY <1>2, <2>1, MutexObject DEF CoreIs
  <2>3. /\ Proceeds("pick_winner") /\ UNCHANGED <<CurrentTask, state, priority, ticks, canary, pendsv, inPendSV, fault, smp, mx>>
        /\ Winner(w, n, r, Me'.MaxPIndex)
    <3>1. Scan
      BY <1>6, Statements
    <3>2. Depending("wake", "pick_winner") = "pick_winner"
      BY ObjectsAssumption DEF Depending
    <3>3. Proceeds("pick_winner") /\ UNCHANGED vars /\ Winner(w, n, r, Me'.MaxPIndex)
      BY <1>2, <2>1, <2>2, <3>1, <3>2, ScanProceeds
    <3> QED BY <3>3 DEF vars, coreVars
  <2>4. ASSUME before' = before PROVE ReleaseSoFar(w, n, p, r)'
    <3>1. Me'.obj = Me.obj /\ Me'.at = "pick_winner"
      BY <2>3 DEF Proceeds
    <3>2. CoreIs(before.state, r, before.ticks)'
      BY ONLY <2>1, <2>3, <2>4 DEF CoreIs
    <3>3. MutexIs(CurrentTask, 0, w, n, p)'
      BY ONLY <2>1, <2>3, <2>4, <3>1 DEF MutexIs
    <3> QED BY <2>1, <2>3, <3>1, <3>2, <3>3 DEF ReleaseSoFar
  <2> QED BY <1>1, <2>1, <2>3, <2>4, UnlockGoesOn DEF Rest
<1>10. CASE Me.at = "pick_winner"
  <2>1. CoreIs(before.state, r, before.ticks) /\ MutexIs(CurrentTask, 0, w, n, p) /\ Winner(w, n, r, Me.MaxPIndex)
    BY <1>2, <1>10 DEF ReleaseSoFar, HandOverSoFar
  <2>2. PICK k : k = Me.MaxPIndex
    OBVIOUS
  <2>3. /\ Proceeds("wake") /\ Me'.MaxPIndex = k /\ Me'.WinnerTask = w[k]
        /\ UNCHANGED <<CurrentTask, state, priority, ticks, canary, pendsv, inPendSV, fault, smp, mx>>
    <3>1. PickWinner
      BY <1>10, Statements
    <3>2. Queue = w
      BY <1>2, <2>1, MutexObject
    <3>3. Chosen = w[k]
      BY <1>2, <2>1, <2>2, <3>2, WinnerIsChosen
    <3>4. /\ pc' = [pc EXCEPT ![CurrentTask].at = "wake", ![CurrentTask].WinnerTask = w[k]]
          /\ UNCHANGED <<CurrentTask, state, priority, ticks, canary, pendsv, inPendSV, fault, smp, mx>>
          /\ held' = held
      BY <3>1, <3>3 DEF PickWinner, vars, coreVars
    <3> QED BY <1>2, <2>2, <3>4 DEF QuietInv, Proceeds, Me, NoCall
  <2>4. ASSUME before' = before PROVE ReleaseSoFar(w, n, p, r)'
    <3>1. Me'.obj = Me.obj /\ Me'.at = "wake"
      BY <2>3 DEF Proceeds
    <3>2. CoreIs(before.state, r, before.ticks)'
      BY ONLY <2>1, <2>3, <2>4 DEF CoreIs
    <3>3. MutexIs(CurrentTask, 0, w, n, p)'
      BY ONLY <2>1, <2>3, <2>4, <3>1 DEF MutexIs
    <3> QED BY <2>1, <2>2, <2>3, <3>1, <3>2, <3>3 DEF ReleaseSoFar
  <2> QED BY <1>1, <2>1, <2>3, <2>4, UnlockGoesOn DEF Rest
<1>7. CASE Me.at = "wake"
  <2>1. /\ CoreIs(before.state, r, before.ticks) /\ MutexIs(CurrentTask, 0, w, n, p)
        /\ Winner(w, n, r, Me.MaxPIndex) /\ Me.WinnerTask = w[Me.MaxPIndex]
    BY <1>2, <1>7 DEF ReleaseSoFar, HandOverSoFar
  <2>2. PICK k : k = Me.MaxPIndex
    OBVIOUS
  <2>3. /\ Proceeds("shift") /\ Me'.MaxPIndex = k /\ Me'.WinnerTask = w[k]
        /\ state' = [state EXCEPT ![w[k]] = "READY"]
        /\ UNCHANGED <<CurrentTask, priority, ticks, canary, pendsv, inPendSV, fault, smp, mx>>
    <3>1. Wake
      BY <1>7, Statements
    <3>2. Queue = w
      BY <1>2, <2>1, MutexObject
    <3>3. w[k] # NULL
      BY <1>2, <2>1, <2>2, <3>2, WinnerIsChosen
    <3>4. ToWake = w[k]
      BY <2>1, <2>2, ObjectsAssumption DEF ToWake
    <3> QED BY <2>1, <2>2, <3>1, <3>3, <3>4, WakeProceeds DEF OnlyState, Others
  <2>4. ASSUME before' = before PROVE ReleaseSoFar(w, n, p, r)'
    <3>1. Me'.obj = Me.obj /\ Me'.at = "shift"
      BY <2>3 DEF Proceeds
    <3>2. CoreIs(Woken(w[k]), r, before.ticks)'
      BY <2>1, <2>2, <2>3, <2>4 DEF CoreIs, Woken
    <3>3. MutexIs(CurrentTask, 0, w, n, p)'
      BY <2>1, <2>2, <2>3, <2>4, <3>1 DEF MutexIs
    <3> QED BY <2>1, <2>2, <2>3, <3>1, <3>2, <3>3 DEF ReleaseSoFar, HandOverSoFar
  <2> QED BY <1>1, <2>1, <2>2, <2>3, <2>4, UnlockGoesOn DEF Rest
<1>8. CASE Me.at = "free"
  <2>1. CoreIs(before.state, r, before.ticks) /\ MutexIs(CurrentTask, 0, w, n, p) /\ n = 0
    BY <1>2, <1>8 DEF ReleaseSoFar, HandOverSoFar
  <2>2. Assign("free", MutexOf(CurrentTask, 1, w, n, p), "disown")
    <3>1. Free
      BY <1>8, Statements
    <3>2. [Obj EXCEPT !.counter = 1] = MutexOf(CurrentTask, 1, w, n, p)
      BY <1>2, <2>1, MutexObject DEF MutexOf
    <3> QED BY <3>1, <3>2 DEF Free
  <2>3. /\ Proceeds("disown") /\ UNCHANGED <<CurrentTask, state, priority, ticks, canary, pendsv, inPendSV, fault>>
        /\ mx' = [before.mx EXCEPT ![Me.obj] = MutexOf(CurrentTask, 1, w, n, p)]
        /\ smp' = before.smp
    BY <2>1, <2>2, MutexAssigned DEF coreVars
  <2>4. ASSUME before' = before PROVE ReleaseSoFar(w, n, p, r)'
    <3>1. Me'.obj = Me.obj /\ Me'.at = "disown"
      BY <2>3 DEF Proceeds
    <3>2. CoreIs(before.state, r, before.ticks)'
      BY <2>1, <2>2, <2>3, <2>4 DEF CoreIs
    <3>3. MutexIs(CurrentTask, 1, w, n, p)'
      BY <2>1, <2>2, <2>3, <2>4, <3>1 DEF MutexIs
    <3> QED BY <2>1, <2>2, <2>3, <3>1, <3>2, <3>3 DEF ReleaseSoFar
  <2> QED BY <1>1, <2>1, <2>2, <2>3, <2>4, UnlockGoesOn DEF Rest
<1>9. CASE Me.at = "disown"
  <2>1. CoreIs(before.state, r, before.ticks) /\ MutexIs(CurrentTask, 1, w, n, p) /\ n = 0
    BY <1>2, <1>9 DEF ReleaseSoFar, HandOverSoFar
  <2>2. Assign("disown", MutexOf(NULL, 1, w, 0, p), "return")
    <3>1. Disown
      BY <1>9, Statements
    <3>2. [Obj EXCEPT !.owner = NULL] = MutexOf(NULL, 1, w, 0, p)
      BY <1>2, <2>1, MutexObject DEF MutexOf
    <3> QED BY <3>1, <3>2 DEF Disown
  <2>3. /\ Proceeds("return") /\ before' = Now' /\ UNCHANGED coreVars
        /\ mx' = [before.mx EXCEPT ![Me.obj] = MutexOf(NULL, 1, w, 0, p)]
        /\ smp' = before.smp
    BY <2>1, <2>2, MutexAssigned, Ends DEF Rest
  <2>4. /\ before'.mx = [before.mx EXCEPT ![Me.obj] = MutexOf(NULL, 1, w, 0, p)]
        /\ before'.smp = before.smp /\ before'.priority = r
        /\ before'.state = before.state /\ before'.ticks = before.ticks
        /\ before'.CurrentTask = before.CurrentTask /\ before'.canary = before.canary
        /\ before'.pendsv = before.pendsv /\ before'.inPendSV = before.inPendSV
        /\ before'.fault = before.fault
    BY <2>1, <2>3, BeforeIsNow DEF CoreIs, coreVars
  <2>5. K!UnlockFree(Me.obj)
    <3>1. before'.mx = [before.mx EXCEPT ![Me.obj] =
            [owner |-> K!NULL, counter |-> 1, waiting_tasks |-> before.mx[Me.obj].waiting_tasks,
             TaskTracker |-> 0, OriginalPriority |-> before.mx[Me.obj].OriginalPriority]]
      BY <1>1, <2>4, SameConstants DEF MutexOf
    <3>2. before.mx[Me.obj].owner = before.CurrentTask /\ before.mx[Me.obj].TaskTracker = 0
      BY <1>1, <2>1, UnlockBegan, MidCallFacts
    <3> QED BY <1>1, <2>4, <3>1, <3>2, MidCallFacts DEF K!UnlockFree
  <2>6. K!Next
    BY <1>2, <2>4, <2>5, MidCallFacts, Statements, SameConstants
       DEF K!Next, K!MutexCall, K!Mutex_Unlock
  <2>7. \A t \in Tasks : Claims(t)'
    <3>1. PICK new : new = MutexOf(NULL, 1, w, 0, p)
      OBVIOUS
    <3>2. K!MutexWaiters(Me.obj) = {}
      BY <1>1, <2>1 DEF K!MutexWaiters, K!Waiters
    <3> QED BY <2>3, <2>4, <3>1, <3>2, Released
  <2> QED BY <2>3, <2>6, <2>7, Finish
<1> QED BY <1>3, <1>4, <1>5, <1>6, <1>7, <1>8, <1>9, <1>10

\* Mutex_Unlock once the winner is READY.
LEMMA HandOverStep ==
  ASSUME QuietInv, MidCall, QuietNext, Me.obj \in Mutexes, Me.call = "unlock",
         CallStep, ~Begin, ~Return,
         Me.at \in {"shift", "clear", "hand_over", "save_winners_priority", "uncount", "reset_counter", "pend"}
  PROVE  [K!Next]_(K!vars) /\ QuietInv'
<1>1. PICK w, n, p, r :
        /\ w = before.mx[Me.obj].waiting_tasks /\ n = before.mx[Me.obj].TaskTracker
        /\ p = before.mx[Me.obj].OriginalPriority /\ r = K!Restored(Me.obj)
  OBVIOUS
<1>2. /\ CurrentTask \in Tasks /\ CurrentTask # NULL /\ K!IInv
      /\ ReleaseSoFar(w, n, p, r)
      /\ WellFormed(w, n) /\ n \in Tasks /\ r \in [Tasks -> 0 .. Int8Max]
  BY <1>1, UnlockBegan
<1>3. PICK k : k = Me.MaxPIndex
  OBVIOUS
<1>4. CASE Me.at = "shift"
  <2>1. CoreIs(Woken(w[k]), r, before.ticks) /\ MutexIs(CurrentTask, 0, w, n, p)
        /\ Winner(w, n, r, k) /\ Me.WinnerTask = w[k]
    BY <1>2, <1>3, <1>4 DEF ReleaseSoFar, HandOverSoFar
  <2>2. Assign("shift", MutexOf(CurrentTask, 0, MovedDown(w, n, k), n, p), "clear")
    <3>1. Shift
      BY <1>4, Statements
    <3>2. Obj = MutexOf(CurrentTask, 0, w, n, p) /\ Queue = w /\ Length = n /\ priority = r
      BY <1>2, <2>1, MutexObject DEF CoreIs
    <3>3. k \in Nat /\ n > 0
      BY <1>2, <2>1, WinnerBounds
    <3>4. [Obj EXCEPT !.waiting_tasks =
             [i \in Tasks |-> IF Me.MaxPIndex <= i /\ i < Length - 1 THEN @[i + 1] ELSE @[i]]]
            = MutexOf(CurrentTask, 0, MovedDown(w, n, k), n, p)
      <4>1. [Obj EXCEPT !.waiting_tasks = MovedDown(w, n, k)] = MutexOf(CurrentTask, 0, MovedDown(w, n, k), n, p)
        BY <3>2 DEF MutexOf
      <4> QED BY <1>3, <3>2, <4>1, ShiftMoves
    <3> QED BY <3>1, <3>4 DEF Shift
  <2>3. /\ Proceeds("clear") /\ UNCHANGED <<CurrentTask, state, priority, ticks, canary, pendsv, inPendSV, fault>>
        /\ Me'.MaxPIndex = k /\ Me'.WinnerTask = w[k]
        /\ mx' = [before.mx EXCEPT ![Me.obj] = MutexOf(CurrentTask, 0, MovedDown(w, n, k), n, p)] /\ smp' = before.smp
    BY <1>3, <2>1, <2>2, MutexAssigned DEF coreVars
  <2>4. ASSUME before' = before PROVE ReleaseSoFar(w, n, p, r)'
    <3>1. Me'.obj = Me.obj /\ Me'.at = "clear"
      BY <2>3 DEF Proceeds
    <3>2. CoreIs(Woken(w[k]), r, before.ticks)'
      BY ONLY <2>1, <2>3, <2>4 DEF CoreIs, Woken
    <3>3. MutexIs(CurrentTask, 0, MovedDown(w, n, k), n, p)'
      BY ONLY <2>1, <2>3, <2>4, <3>1 DEF MutexIs
    <3> QED BY <2>1, <2>3, <3>1, <3>2, <3>3 DEF ReleaseSoFar, HandOverSoFar
  <2> QED BY <1>1, <2>1, <2>3, <2>4, UnlockGoesOn DEF Rest
<1>5. CASE Me.at = "clear"
  <2>1. CoreIs(Woken(w[k]), r, before.ticks) /\ MutexIs(CurrentTask, 0, MovedDown(w, n, k), n, p)
        /\ Winner(w, n, r, k) /\ Me.WinnerTask = w[k]
    BY <1>2, <1>3, <1>5 DEF ReleaseSoFar, HandOverSoFar
  <2>2. Assign("clear", MutexOf(CurrentTask, 0, FillHole(w, n, k), n, p), "hand_over")
    <3>1. Clear
      BY <1>5, Statements
    <3>2. Obj = MutexOf(CurrentTask, 0, MovedDown(w, n, k), n, p) /\ Queue = MovedDown(w, n, k) /\ Length = n /\ priority = r
      BY <1>2, <2>1, MutexObject DEF CoreIs
    <3>3. k \in Nat /\ n > 0
      BY <1>2, <2>1, WinnerBounds
    <3>4. [Obj EXCEPT !.waiting_tasks[Length - 1] = NULL]
            = MutexOf(CurrentTask, 0, FillHole(w, n, k), n, p)
      <4>1. [Obj EXCEPT !.waiting_tasks[Length - 1] = NULL]
              = MutexOf(CurrentTask, 0, [MovedDown(w, n, k) EXCEPT ![n - 1] = NULL], n, p)
        BY <3>2 DEF MutexOf
      <4> QED BY <1>2, <3>3, <4>1, MovedDownCleared
    <3> QED BY <3>1, <3>4, ObjectsAssumption DEF Clear, Depending
  <2>3. /\ Proceeds("hand_over") /\ UNCHANGED <<CurrentTask, state, priority, ticks, canary, pendsv, inPendSV, fault>>
        /\ Me'.MaxPIndex = k /\ Me'.WinnerTask = w[k]
        /\ mx' = [before.mx EXCEPT ![Me.obj] = MutexOf(CurrentTask, 0, FillHole(w, n, k), n, p)] /\ smp' = before.smp
    BY <1>3, <2>1, <2>2, MutexAssigned DEF coreVars
  <2>4. ASSUME before' = before PROVE ReleaseSoFar(w, n, p, r)'
    <3>1. Me'.obj = Me.obj /\ Me'.at = "hand_over"
      BY <2>3 DEF Proceeds
    <3>2. CoreIs(Woken(w[k]), r, before.ticks)'
      BY ONLY <2>1, <2>3, <2>4 DEF CoreIs, Woken
    <3>3. MutexIs(CurrentTask, 0, FillHole(w, n, k), n, p)'
      BY ONLY <2>1, <2>3, <2>4, <3>1 DEF MutexIs
    <3> QED BY <2>1, <2>3, <3>1, <3>2, <3>3 DEF ReleaseSoFar, HandOverSoFar
  <2> QED BY <1>1, <2>1, <2>3, <2>4, UnlockGoesOn DEF Rest
<1>6. CASE Me.at = "hand_over"
  <2>1. CoreIs(Woken(w[k]), r, before.ticks) /\ MutexIs(CurrentTask, 0, FillHole(w, n, k), n, p)
        /\ Winner(w, n, r, k) /\ Me.WinnerTask = w[k]
    BY <1>2, <1>3, <1>6 DEF ReleaseSoFar, HandOverSoFar
  <2>2. Assign("hand_over", MutexOf(w[k], 0, FillHole(w, n, k), n, p), "save_winners_priority")
    <3>1. HandOver
      BY <1>6, Statements
    <3>2. Obj = MutexOf(CurrentTask, 0, FillHole(w, n, k), n, p) /\ Queue = FillHole(w, n, k) /\ Length = n /\ priority = r
      BY <1>2, <2>1, MutexObject DEF CoreIs
    <3>3. k \in Nat /\ n > 0
      BY <1>2, <2>1, WinnerBounds
    <3>4. [Obj EXCEPT !.owner = Me.WinnerTask]
            = MutexOf(w[k], 0, FillHole(w, n, k), n, p)
      BY <2>1, <3>2 DEF MutexOf
    <3> QED BY <3>1, <3>4 DEF HandOver
  <2>3. /\ Proceeds("save_winners_priority") /\ UNCHANGED <<CurrentTask, state, priority, ticks, canary, pendsv, inPendSV, fault>>
        /\ Me'.MaxPIndex = k /\ Me'.WinnerTask = w[k]
        /\ mx' = [before.mx EXCEPT ![Me.obj] = MutexOf(w[k], 0, FillHole(w, n, k), n, p)] /\ smp' = before.smp
    BY <1>3, <2>1, <2>2, MutexAssigned DEF coreVars
  <2>4. ASSUME before' = before PROVE ReleaseSoFar(w, n, p, r)'
    <3>1. Me'.obj = Me.obj /\ Me'.at = "save_winners_priority"
      BY <2>3 DEF Proceeds
    <3>2. CoreIs(Woken(w[k]), r, before.ticks)'
      BY ONLY <2>1, <2>3, <2>4 DEF CoreIs, Woken
    <3>3. MutexIs(w[k], 0, FillHole(w, n, k), n, p)'
      BY ONLY <2>1, <2>3, <2>4, <3>1 DEF MutexIs
    <3> QED BY <2>1, <2>3, <3>1, <3>2, <3>3 DEF ReleaseSoFar, HandOverSoFar
  <2> QED BY <1>1, <2>1, <2>3, <2>4, UnlockGoesOn DEF Rest
<1>7. CASE Me.at = "save_winners_priority"
  <2>1. CoreIs(Woken(w[k]), r, before.ticks) /\ MutexIs(w[k], 0, FillHole(w, n, k), n, p)
        /\ Winner(w, n, r, k) /\ Me.WinnerTask = w[k]
    BY <1>2, <1>3, <1>7 DEF ReleaseSoFar, HandOverSoFar
  <2>2. Assign("save_winners_priority", MutexOf(w[k], 0, FillHole(w, n, k), n, r[w[k]]), "uncount")
    <3>1. SaveWinnersPriority
      BY <1>7, Statements
    <3>2. Obj = MutexOf(w[k], 0, FillHole(w, n, k), n, p) /\ Queue = FillHole(w, n, k) /\ Length = n /\ priority = r
      BY <1>2, <2>1, MutexObject DEF CoreIs
    <3>3. k \in Nat /\ n > 0
      BY <1>2, <2>1, WinnerBounds
    <3>4. [Obj EXCEPT !.OriginalPriority = priority[Me.WinnerTask]]
            = MutexOf(w[k], 0, FillHole(w, n, k), n, r[w[k]])
      BY <2>1, <3>2 DEF MutexOf
    <3> QED BY <3>1, <3>4 DEF SaveWinnersPriority
  <2>3. /\ Proceeds("uncount") /\ UNCHANGED <<CurrentTask, state, priority, ticks, canary, pendsv, inPendSV, fault>>
        /\ Me'.MaxPIndex = k /\ Me'.WinnerTask = w[k]
        /\ mx' = [before.mx EXCEPT ![Me.obj] = MutexOf(w[k], 0, FillHole(w, n, k), n, r[w[k]])] /\ smp' = before.smp
    BY <1>3, <2>1, <2>2, MutexAssigned DEF coreVars
  <2>4. ASSUME before' = before PROVE ReleaseSoFar(w, n, p, r)'
    <3>1. Me'.obj = Me.obj /\ Me'.at = "uncount"
      BY <2>3 DEF Proceeds
    <3>2. CoreIs(Woken(w[k]), r, before.ticks)'
      BY ONLY <2>1, <2>3, <2>4 DEF CoreIs, Woken
    <3>3. MutexIs(w[k], 0, FillHole(w, n, k), n, r[w[k]])'
      BY ONLY <2>1, <2>3, <2>4, <3>1 DEF MutexIs
    <3> QED BY <2>1, <2>3, <3>1, <3>2, <3>3 DEF ReleaseSoFar, HandOverSoFar
  <2> QED BY <1>1, <2>1, <2>3, <2>4, UnlockGoesOn DEF Rest
<1>8. CASE Me.at = "uncount"
  <2>1. CoreIs(Woken(w[k]), r, before.ticks) /\ MutexIs(w[k], 0, FillHole(w, n, k), n, r[w[k]])
        /\ Winner(w, n, r, k) /\ Me.WinnerTask = w[k]
    BY <1>2, <1>3, <1>8 DEF ReleaseSoFar, HandOverSoFar
  <2>2. Assign("uncount", MutexOf(w[k], 0, FillHole(w, n, k), n - 1, r[w[k]]), "reset_counter")
    <3>1. Uncount
      BY <1>8, Statements
    <3>2. Obj = MutexOf(w[k], 0, FillHole(w, n, k), n, r[w[k]]) /\ Queue = FillHole(w, n, k) /\ Length = n /\ priority = r
      BY <1>2, <2>1, MutexObject DEF CoreIs
    <3>3. k \in Nat /\ n > 0
      BY <1>2, <2>1, WinnerBounds
    <3>4. [Obj EXCEPT !.TaskTracker = (@ - 1) % 256]
            = MutexOf(w[k], 0, FillHole(w, n, k), n - 1, r[w[k]])
      <4>1. (n - 1) % 256 = n - 1
        BY <1>2, <3>3, LengthFits
      <4>2. [Obj EXCEPT !.TaskTracker = (@ - 1) % 256]
              = MutexOf(w[k], 0, FillHole(w, n, k), (n - 1) % 256, r[w[k]])
        BY <3>2 DEF MutexOf
      <4> QED BY <4>1, <4>2
    <3> QED BY <3>1, <3>4 DEF Uncount
  <2>3. /\ Proceeds("reset_counter") /\ UNCHANGED <<CurrentTask, state, priority, ticks, canary, pendsv, inPendSV, fault>>
        /\ Me'.MaxPIndex = k /\ Me'.WinnerTask = w[k]
        /\ mx' = [before.mx EXCEPT ![Me.obj] = MutexOf(w[k], 0, FillHole(w, n, k), n - 1, r[w[k]])] /\ smp' = before.smp
    BY <1>3, <2>1, <2>2, MutexAssigned DEF coreVars
  <2>4. ASSUME before' = before PROVE ReleaseSoFar(w, n, p, r)'
    <3>1. Me'.obj = Me.obj /\ Me'.at = "reset_counter"
      BY <2>3 DEF Proceeds
    <3>2. CoreIs(Woken(w[k]), r, before.ticks)'
      BY ONLY <2>1, <2>3, <2>4 DEF CoreIs, Woken
    <3>3. MutexIs(w[k], 0, FillHole(w, n, k), n - 1, r[w[k]])'
      BY ONLY <2>1, <2>3, <2>4, <3>1 DEF MutexIs
    <3> QED BY <2>1, <2>3, <3>1, <3>2, <3>3 DEF ReleaseSoFar, HandOverSoFar
  <2> QED BY <1>1, <2>1, <2>3, <2>4, UnlockGoesOn DEF Rest
<1>9. CASE Me.at = "reset_counter"
  <2>1. CoreIs(Woken(w[k]), r, before.ticks) /\ MutexIs(w[k], 0, FillHole(w, n, k), n - 1, r[w[k]])
        /\ Winner(w, n, r, k) /\ Me.WinnerTask = w[k]
    BY <1>2, <1>3, <1>9 DEF ReleaseSoFar, HandOverSoFar
  <2>2. Assign("reset_counter", MutexOf(w[k], 0, FillHole(w, n, k), n - 1, r[w[k]]), "pend")
    <3>1. ResetCounter
      BY <1>9, Statements
    <3>2. Obj = MutexOf(w[k], 0, FillHole(w, n, k), n - 1, r[w[k]]) /\ Queue = FillHole(w, n, k) /\ Length = n - 1 /\ priority = r
      BY <1>2, <2>1, MutexObject DEF CoreIs
    <3>3. k \in Nat /\ n > 0
      BY <1>2, <2>1, WinnerBounds
    <3>4. [Obj EXCEPT !.counter = 0]
            = MutexOf(w[k], 0, FillHole(w, n, k), n - 1, r[w[k]])
      BY <3>2 DEF MutexOf
    <3> QED BY <3>1, <3>4 DEF ResetCounter
  <2>3. /\ Proceeds("pend") /\ UNCHANGED <<CurrentTask, state, priority, ticks, canary, pendsv, inPendSV, fault>>
        /\ Me'.MaxPIndex = k /\ Me'.WinnerTask = w[k]
        /\ mx' = [before.mx EXCEPT ![Me.obj] = MutexOf(w[k], 0, FillHole(w, n, k), n - 1, r[w[k]])] /\ smp' = before.smp
    BY <1>3, <2>1, <2>2, MutexAssigned DEF coreVars
  <2>4. ASSUME before' = before PROVE ReleaseSoFar(w, n, p, r)'
    <3>1. Me'.obj = Me.obj /\ Me'.at = "pend"
      BY <2>3 DEF Proceeds
    <3>2. CoreIs(Woken(w[k]), r, before.ticks)'
      BY ONLY <2>1, <2>3, <2>4 DEF CoreIs, Woken
    <3>3. MutexIs(w[k], 0, FillHole(w, n, k), n - 1, r[w[k]])'
      BY ONLY <2>1, <2>3, <2>4, <3>1 DEF MutexIs
    <3> QED BY <2>1, <2>3, <3>1, <3>2, <3>3 DEF ReleaseSoFar, HandOverSoFar
  <2> QED BY <1>1, <2>1, <2>3, <2>4, UnlockGoesOn DEF Rest
<1>10. CASE Me.at = "pend"
  <2>1. CoreIs(Woken(w[k]), r, before.ticks) /\ MutexIs(w[k], 0, FillHole(w, n, k), n - 1, r[w[k]])
        /\ Winner(w, n, r, k) /\ Me.WinnerTask = w[k]
    BY <1>2, <1>3, <1>10 DEF ReleaseSoFar, HandOverSoFar
  <2>2. /\ Goto("resume") /\ pendsv' = TRUE
        /\ UNCHANGED <<CurrentTask, state, priority, ticks, canary, inPendSV, fault, smp, mx>>
    BY <1>10, Statements DEF Pend, OnlyPendsv, Others
  <2>3. Proceeds("resume") /\ before' = Now'
    BY <1>2, <2>2, GotoProceeds, Ends DEF Rest
  <2>4. /\ before'.mx = [before.mx EXCEPT ![Me.obj] =
                           MutexOf(w[k], 0, FillHole(w, n, k), n - 1, r[w[k]])]
        /\ before'.smp = before.smp /\ before'.pendsv = TRUE
        /\ before'.state = [before.state EXCEPT ![w[k]] = "READY"]
        /\ before'.priority = r /\ before'.ticks = before.ticks
        /\ before'.CurrentTask = before.CurrentTask /\ before'.canary = before.canary
        /\ before'.inPendSV = before.inPendSV /\ before'.fault = before.fault
    BY <2>1, <2>2, <2>3, BeforeIsNow DEF MutexIs, CoreIs, Woken
  <2>5. k \in Tasks /\ n > 0
    BY <1>2, <2>1, WinnerBounds
  <2>6. K!UnlockHandOver(Me.obj)
    <3>1. before'.mx = [before.mx EXCEPT ![Me.obj] = K!HandedTo(Me.obj, k)]
      <4>1. K!FillHole(w, n, k) = FillHole(w, n, k)
        BY SameConstants
      <4> QED BY ONLY <1>1, <2>4, <4>1 DEF K!HandedTo, MutexOf
    <3>2. /\ before.mx[Me.obj].owner = before.CurrentTask
          /\ before.mx[Me.obj].TaskTracker > 0
          /\ K!Winner(before.mx[Me.obj].waiting_tasks, before.mx[Me.obj].TaskTracker,
                      K!Restored(Me.obj), k)
          /\ before'.state = [before.state EXCEPT ![before.mx[Me.obj].waiting_tasks[k]] = "READY"]
      BY <1>1, <2>1, <2>4, <2>5, UnlockBegan, MidCallFacts, SameConstants, Zenon
    <3>3. k \in K!Tasks /\ K!ThreadMode
      BY <2>5, MidCallFacts, SameConstants
    <3> QED BY <1>1, <2>4, <3>1, <3>2, <3>3, Zenon DEF K!UnlockHandOver
  <2>7. K!Next
    BY <1>2, <2>4, <2>6, MidCallFacts, Statements, SameConstants
       DEF K!Next, K!MutexCall, K!Mutex_Unlock
  <2>8. \A t \in Tasks : Claims(t)'
    <3>1. PICK new : new = MutexOf(w[k], 0, FillHole(w, n, k), n - 1, r[w[k]])
      OBVIOUS
    <3>2. new.waiting_tasks = FillHole(w, n, k) /\ new.TaskTracker = n - 1 /\ new.owner = w[k]
      BY <3>1 DEF MutexOf
    <3>3. K!MutexWaiters(Me.obj) \subseteq Waiters(FillHole(w, n, k), n - 1) \cup {w[k]}
      <4>1. k \in 0 .. n - 1 /\ w[k] \in Waiters(w, n)
        BY <2>1 DEF Winner, Waiters
      <4>2. Waiters(FillHole(w, n, k), n - 1) = Waiters(w, n) \ {w[k]}
        BY <1>2, <4>1, FillHoleRemoves
      <4> QED BY <1>1, <4>1, <4>2, SameConstants DEF K!MutexWaiters
    <3> QED BY <2>3, <2>4, <3>1, <3>2, <3>3, Released
  <2> QED BY <2>3, <2>7, <2>8, Finish
<1> QED BY <1>4, <1>5, <1>6, <1>7, <1>8, <1>9, <1>10

LEMMA UnlockStep ==
  ASSUME QuietInv, MidCall, QuietNext, Me.obj \in Mutexes, Me.call = "unlock",
         CallStep, ~Begin, ~Return
  PROVE  [K!Next]_(K!vars) /\ QuietInv'
BY UnlockBegan, ReleaseStep, HandOverStep DEF ReleaseSoFar, HandOverSoFar

-----------------------------------------------------------------------------
(* Between the calls.                                                      *)

LEMMA CallProceeds ==
  ASSUME QuietInv, MidCall, QuietNext
  PROVE  [K!Next]_(K!vars) /\ QuietInv'
<1>1. CallStep /\ SoFar
  BY MidCallFacts DEF QuietNext
<1>2. ~Begin /\ ~Return
  <2>1. Begin => Me.at = "idle"
    BY Zenon DEF Begin, Enter
  <2>2. Return => Me.at \in {"return", "resume"}
    BY DEF Return, At
  <2> QED BY <2>1, <2>2 DEF MidCall
<1> QED BY <1>1, <1>2, SleepStep, WaitStep, SignalStep, LockStep, UnlockStep DEF SoFar

LEMMA AtRest ==
  ASSUME QuietInv, ~MidCall
  PROVE  /\ before = Now /\ K!IInv /\ CurrentTask \in Tasks
         /\ before.CurrentTask = CurrentTask /\ before.state = state
         /\ before.priority = priority /\ before.ticks = ticks /\ before.canary = canary
         /\ before.pendsv = pendsv /\ before.inPendSV = inPendSV /\ before.fault = fault
         /\ before.smp = smp /\ before.mx = mx
         /\ ~fault => \A t \in Tasks : pc[t].at \in Rest
<1>1. before = Now /\ K!IInv
  BY DEF QuietInv
<1>2. CurrentTask \in Tasks
  BY <1>1, BeforeIsNow, BeforeCore
<1>3. ~fault => \A t \in Tasks : pc[t].at \in Rest
  BY DEF QuietInv, MidCall, ThreadMode, Me, Rest
<1> QED BY <1>1, <1>2, <1>3, BeforeIsNow

\* The first statement of a call: nothing has happened yet.
LEMMA BeginStep ==
  ASSUME QuietInv, ~MidCall, QuietNext, Begin
  PROVE  [K!Next]_(K!vars) /\ QuietInv'
<1>1. PICK call, obj, first :
        /\ Enter(call, obj, first)
        /\ \/ call = "sleep" /\ first = "set_ticks"
           \/ obj \in Semaphores /\ call = "wait" /\ first = "test_counter"
           \/ obj \in Semaphores /\ call = "signal" /\ first = "set_counter"
           \/ obj \in Mutexes /\ call = "lock" /\ first = "test_counter"
           \/ obj \in held[CurrentTask] /\ call = "unlock" /\ first = "test_owner"
  BY DEF Begin
<1>2. CurrentTask \in Tasks /\ ThreadMode /\ K!IInv /\ before = Now
  BY <1>1, AtRest DEF Enter
<1>3. /\ CurrentTask' = CurrentTask
      /\ UNCHANGED <<state, priority, ticks, canary, pendsv, inPendSV, fault, smp, mx>>
  BY <1>1 DEF Enter, vars, coreVars
<1>4. /\ DOMAIN pc' = Tasks /\ \A t \in Tasks \ {CurrentTask} : pc'[t] = pc[t]
      /\ Me' = [NoCall EXCEPT !.at = first, !.call = call, !.obj = obj]
      /\ DOMAIN held' = Tasks /\ \A t \in Tasks \ {CurrentTask} : held'[t] = held[t]
      /\ held'[CurrentTask] = IF call = "unlock" THEN held[CurrentTask] \ {obj}
                                                 ELSE held[CurrentTask]
  BY <1>1, <1>2, <1>3 DEF Enter, QuietInv, Me
<1>5. /\ Me'.at = first /\ Me'.call = call /\ Me'.obj = obj
      /\ DOMAIN pc'[CurrentTask] = DOMAIN NoCall
  BY <1>3, <1>4 DEF NoCall, Me
<1>6. ThreadMode' /\ MidCall' /\ before' = before
  BY <1>1, <1>2, <1>3, <1>5 DEF MidCall, ThreadMode, QuietNext
<1>7. CoreIs(before.state, before.priority, before.ticks)' /\ smp' = before'.smp /\ mx' = before'.mx
  BY <1>2, <1>3, <1>6, BeforeIsNow DEF CoreIs
<1>8. SoFar'
  <2>1. CASE call = "sleep" /\ first = "set_ticks"
    BY <1>5, <1>6, <1>7, <2>1 DEF SoFar, SleepSoFar
  <2>2. CASE obj \in Semaphores /\ call \in {"wait", "signal"}
    <3>1. PICK s : s = before.smp[obj]
      OBVIOUS
    <3>2. before.smp \in [Semaphores -> SemaphoreType]
      BY <1>2, <2>2, BeforeSemaphores
    <3>3. s = [counter |-> s.counter, waiting_tasks |-> s.waiting_tasks,
               TaskTracker |-> s.TaskTracker]
      BY <2>2, <3>1, <3>2 DEF SemaphoreType
    <3>4. SemaphoreIs(s.counter, s.waiting_tasks, s.TaskTracker)'
      BY <1>5, <1>6, <1>7, <3>1, <3>2, <3>3 DEF SemaphoreIs
    <3>5. (call = "wait" => WaitSoFar') /\ (call = "signal" => SignalSoFar')
      BY <1>1, <1>5, <1>6, <1>7, <2>2, <3>1, <3>4 DEF WaitSoFar, SignalSoFar
    <3> QED BY <1>5, <2>2, <3>5 DEF SoFar
  <2>3. CASE obj \in Mutexes /\ call = "lock"
    <3>1. PICK m : m = before.mx[obj]
      OBVIOUS
    <3>2. m = MutexOf(m.owner, m.counter, m.waiting_tasks, m.TaskTracker, m.OriginalPriority)
          /\ before.mx = [before.mx EXCEPT ![obj] = m]
      BY <1>2, <2>3, <3>1, MutexBefore
    <3>3. MutexIs(m.owner, m.counter, m.waiting_tasks, m.TaskTracker, m.OriginalPriority)'
      BY <1>5, <1>6, <1>7, <3>2 DEF MutexIs
    <3>4. LockSoFar'
      BY <1>1, <1>5, <1>6, <1>7, <2>3, <3>1, <3>3 DEF LockSoFar
    <3> QED BY <1>5, <2>3, <3>4 DEF SoFar
  <2>4. CASE obj \in held[CurrentTask] /\ call = "unlock"
    <3>1. PICK m : m = before.mx[obj]
      OBVIOUS
    <3>2. obj \in Mutexes /\ m.owner = CurrentTask
      BY <1>2, <2>4, <3>1 DEF QuietInv, Claims
    <3>3. m = MutexOf(m.owner, m.counter, m.waiting_tasks, m.TaskTracker, m.OriginalPriority)
          /\ before.mx = [before.mx EXCEPT ![obj] = m]
      BY <1>2, <3>1, <3>2, MutexBefore
    <3>4. m.counter = 0
      BY <1>2, <3>1, <3>2, BeforeMutexes, TasksAssumption DEF Tasks, NULL
    <3>5. MutexIs(CurrentTask, 0, m.waiting_tasks, m.TaskTracker, m.OriginalPriority)'
      BY <1>3, <1>5, <1>6, <1>7, <3>2, <3>3, <3>4 DEF MutexIs
    <3>6. UnlockSoFar'
      <4>1. Me'.at = "test_owner" /\ obj \notin held'[CurrentTask]
        BY <1>1, <1>4, <1>5, <2>4
      <4>2. PICK r : r = K!Restored(Me.obj)'
        OBVIOUS
      <4>3. ReleaseSoFar(m.waiting_tasks, m.TaskTracker, m.OriginalPriority, r)'
        BY <1>3, <1>7, <3>5, <4>1 DEF ReleaseSoFar
      <4> QED BY <1>3, <1>5, <1>6, <3>1, <3>2, <4>1, <4>2, <4>3 DEF UnlockSoFar
    <3> QED BY <1>5, <2>4, <3>2, <3>6 DEF SoFar
  <2> QED BY <1>1, <2>1, <2>2, <2>3, <2>4
<1>9. UNCHANGED K!vars /\ K!IInv'
  <2>1. UNCHANGED K!vars
    BY <1>6 DEF K!vars, K!coreVars
  <2> QED BY <1>2, <2>1, KernelStep
<1>10. ASSUME NEW t \in Tasks
       PROVE  /\ DOMAIN pc'[t] = DOMAIN NoCall
              /\ pc'[t].at \in Rest \/ (t = CurrentTask' /\ ThreadMode')
              /\ Claims(t)'
  <2>1. DOMAIN pc[t] = DOMAIN NoCall /\ pc[t].at \in Rest /\ Claims(t)
    BY <1>2, AtRest DEF QuietInv, ThreadMode
  <2>2. CASE t = CurrentTask
    <3>1. held'[t] \subseteq held[t] /\ pc'[t].at \notin {"return", "resume"}
      BY <1>1, <1>3, <1>4, <1>5, <2>2 DEF Me
    <3> QED BY <1>3, <1>5, <1>6, <2>1, <2>2, <3>1 DEF Claims
  <2>3. CASE t # CurrentTask
    <3>1. pc'[t] = pc[t] /\ held'[t] = held[t]
      BY <1>4, <2>3
    <3> QED BY <1>6, <2>1, <3>1 DEF Claims, K!MutexWaiters, K!Waiters
  <2> QED BY <2>2, <2>3
<1> QED BY <1>4, <1>6, <1>8, <1>9, <1>10 DEF QuietInv, Rest

\* The call returns: who waited for the mutex in Mutex_Lock and executes again
\* has left the queue, so it is the owner.
LEMMA ReturnStep ==
  ASSUME QuietInv, ~MidCall, QuietNext, Return
  PROVE  [K!Next]_(K!vars) /\ QuietInv'
<1>1. /\ Me.at \in {"return", "resume"} /\ ThreadMode
      /\ pc' = [pc EXCEPT ![CurrentTask] = NoCall]
      /\ held' = [held EXCEPT ![CurrentTask] = IF Me.call = "lock" THEN @ \cup {Me.obj} ELSE @]
      /\ UNCHANGED <<CurrentTask, state, priority, ticks, canary, pendsv, inPendSV, fault, smp, mx>>
  BY DEF Return, At, vars, coreVars
<1>2. CurrentTask \in Tasks /\ K!IInv /\ before = Now /\ ~fault /\ K!ThreadMode
  BY <1>1, AtRest DEF ThreadMode, K!ThreadMode
<1>3. /\ DOMAIN pc' = Tasks /\ \A t \in Tasks \ {CurrentTask} : pc'[t] = pc[t]
      /\ pc'[CurrentTask] = NoCall
      /\ DOMAIN held' = Tasks /\ \A t \in Tasks \ {CurrentTask} : held'[t] = held[t]
      /\ held'[CurrentTask] = IF Me.call = "lock" THEN held[CurrentTask] \cup {Me.obj}
                              ELSE held[CurrentTask]
  BY <1>1, <1>2 DEF QuietInv
<1>4. pc'[CurrentTask].at = "idle" /\ DOMAIN pc'[CurrentTask] = DOMAIN NoCall
  BY <1>3 DEF NoCall
<1>5. ~MidCall' /\ before' = Now' /\ before' = before
  <2>1. ~MidCall'
    BY <1>1, <1>4 DEF MidCall, Me
  <2> QED BY <1>1, <1>2, <2>1 DEF QuietNext, Now
<1>6. UNCHANGED K!vars /\ K!IInv'
  <2>1. UNCHANGED K!vars
    BY <1>5 DEF K!vars, K!coreVars
  <2> QED BY <1>2, <2>1, KernelStep
<1>7. CurrentTask \notin K!Queued
  <2>1. before.CurrentTask \notin K!Queued
    BY <1>2, K!CurrentIsFree, TasksAssumption, PriorityAssumption, ClientAssumption
       DEF Tasks, K!Tasks, Int8Max, K!Int8Max, Idle, K!Idle
  <2> QED BY <2>1, AtRest
<1>8. ASSUME NEW t \in Tasks
      PROVE  DOMAIN pc'[t] = DOMAIN NoCall /\ pc'[t].at \in Rest /\ Claims(t)'
  <2>1. DOMAIN pc[t] = DOMAIN NoCall /\ pc[t].at \in Rest /\ Claims(t)
    BY <1>2, AtRest DEF QuietInv
  <2>2. CASE t = CurrentTask
    <3>1. Me.call = "lock" => Me.obj \in Mutexes /\ before.mx[Me.obj].owner = t
      <4>1. \A m \in Mutexes : CurrentTask \notin K!MutexWaiters(m)
        BY <1>7 DEF K!Queued
      <4> QED BY <1>1, <2>1, <2>2, <4>1 DEF Claims, Me
    <3>2. held'[t] \subseteq Mutexes /\ \A m \in held'[t] : before.mx[m].owner = t
      BY <1>3, <2>1, <2>2, <3>1 DEF Claims
    <3> QED BY <1>4, <1>5, <2>2, <3>2 DEF Claims, Rest
  <2>3. CASE t # CurrentTask
    <3>1. pc'[t] = pc[t] /\ held'[t] = held[t]
      BY <1>3, <2>3
    <3> QED BY <1>5, <2>1, <3>1 DEF Claims, K!MutexWaiters, K!Waiters
  <2> QED BY <2>2, <2>3
<1> QED BY <1>3, <1>5, <1>6, <1>8 DEF QuietInv, Rest

\* An exception that comes between two calls.
LEMMA BackgroundBetween ==
  ASSUME QuietInv, ~MidCall, before' = Now', Background
  PROVE  K!Background
<1>1. /\ before.CurrentTask = CurrentTask /\ before.state = state
      /\ before.priority = priority /\ before.ticks = ticks /\ before.canary = canary
      /\ before.pendsv = pendsv /\ before.inPendSV = inPendSV /\ before.fault = fault
      /\ before.smp = smp /\ before.mx = mx
  BY AtRest
<1>2. /\ before'.CurrentTask = CurrentTask' /\ before'.state = state'
      /\ before'.priority = priority' /\ before'.ticks = ticks' /\ before'.canary = canary'
      /\ before'.pendsv = pendsv' /\ before'.inPendSV = inPendSV' /\ before'.fault = fault'
      /\ before'.smp = smp' /\ before'.mx = mx'
  BY BeforeIsNow
<1>3. SysTick_Handler => K!SysTick_Handler
  <2>1. K!Overran = Overran /\ K!Tasks = Tasks
    BY <1>1 DEF K!Overran, Overran, K!Tasks, Tasks
  <2>2. \A S : Countdown(S) => K!Countdown(S)
    BY <1>1, <1>2, <2>1 DEF Countdown, K!Countdown
  <2> QED BY <1>1, <1>2, <2>1, <2>2 DEF SysTick_Handler, K!SysTick_Handler, OS_Fault, K!OS_Fault
<1>4. PendSV_Entry => K!PendSV_Entry
  BY <1>1, <1>2 DEF PendSV_Entry, K!PendSV_Entry
<1>5. PendSV_Handler => K!PendSV_Handler
  <2>1. K!Tasks = Tasks /\ K!Eligible = Eligible
    BY <1>1 DEF K!Eligible, Eligible, K!Tasks, Tasks
  <2>2. \A t : Selected(t) => K!Selected(t)
    BY <1>1, <2>1 DEF Selected, K!Selected, Beats, K!Beats, Distance, K!Distance
  <2>3. OS_Schedule => K!OS_Schedule
    BY <1>1, <1>2, <2>1, <2>2 DEF OS_Schedule, K!OS_Schedule
  <2> QED BY <1>1, <1>2, <2>3 DEF PendSV_Handler, K!PendSV_Handler
<1>6. StackOverrun => K!StackOverrun
  BY <1>1, <1>2 DEF StackOverrun, K!StackOverrun, ThreadMode, K!ThreadMode
<1> QED BY <1>1, <1>2, <1>3, <1>4, <1>5, <1>6 DEF Background, K!Background

LEMMA ExceptionStep ==
  ASSUME QuietInv, ~MidCall, QuietNext, Exception
  PROVE  [K!Next]_(K!vars) /\ QuietInv'
<1>1. ~fault /\ CurrentTask' \in Tasks /\ UNCHANGED <<smp, mx, pc, held>> /\ Background
  BY AtRest DEF Exception, Background, SysTick_Handler, PendSV_Entry, PendSV_Handler,
                StackOverrun, ThreadMode, OS_Schedule
<1>2. \A t \in Tasks : pc'[t].at \in Rest
  BY <1>1, AtRest
<1>3. ~MidCall' /\ before' = Now'
  BY <1>1, <1>2 DEF MidCall, Me, Rest, QuietNext
<1>4. K!Next /\ K!IInv'
  <2>1. K!Next
    BY <1>1, <1>3, BackgroundBetween DEF K!Next
  <2> QED BY <2>1, AtRest, KernelStep
<1>5. before'.mx = before.mx
  BY <1>1, <1>3, AtRest, BeforeIsNow
<1>6. ASSUME NEW t \in Tasks PROVE Claims(t)'
  <2>1. Claims(t)
    BY DEF QuietInv
  <2> QED BY <1>1, <1>5, <2>1 DEF Claims, K!MutexWaiters, K!Waiters
<1> QED BY <1>1, <1>2, <1>3, <1>4, <1>6 DEF QuietInv, Rest

LEMMA RestStep ==
  ASSUME QuietInv, ~MidCall, QuietNext
  PROVE  [K!Next]_(K!vars) /\ QuietInv'
<1>1. CASE CallStep /\ ~Begin /\ ~Return
  BY <1>1, Statements DEF MidCall, ThreadMode
<1> QED BY <1>1, BeginStep, ReturnStep, ExceptionStep DEF QuietNext

LEMMA StutterStep ==
  ASSUME QuietInv, UNCHANGED quietVars
  PROVE  [K!Next]_(K!vars) /\ QuietInv'
<1>1. /\ CurrentTask' = CurrentTask /\ state' = state /\ priority' = priority /\ ticks' = ticks
      /\ canary' = canary /\ pendsv' = pendsv /\ inPendSV' = inPendSV /\ fault' = fault
      /\ smp' = smp /\ mx' = mx /\ pc' = pc /\ held' = held /\ before' = before
  BY DEF quietVars, stepVars, vars, coreVars
<1>2. UNCHANGED K!vars /\ K!IInv'
  <2>1. UNCHANGED K!vars
    BY <1>1 DEF K!vars, K!coreVars
  <2> QED BY <2>1, KernelStep DEF QuietInv
<1>3. Me' = Me /\ (MidCall' <=> MidCall) /\ (ThreadMode' <=> ThreadMode) /\ Now' = Now
  BY <1>1 DEF Me, MidCall, ThreadMode, Now
<1>4. ASSUME MidCall PROVE SoFar'
  <2>1. /\ Blocked' = Blocked
        /\ K!Inherited(Me.obj)' = K!Inherited(Me.obj) /\ K!Restored(Me.obj)' = K!Restored(Me.obj)
    BY <1>1, <1>3 DEF Blocked, K!Inherited, K!Restored
  <2>2. SleepSoFar => SleepSoFar'
    BY ONLY <1>1, <1>3, <2>1 DEF SleepSoFar, CoreIs
  <2>3. WaitSoFar => WaitSoFar'
    BY ONLY <1>1, <1>3, <2>1 DEF WaitSoFar, CoreIs, SemaphoreIs
  <2>4. SignalSoFar => SignalSoFar'
    BY ONLY <1>1, <1>3, <2>1 DEF SignalSoFar, CoreIs, SemaphoreIs, Woken
  <2>5. LockSoFar => LockSoFar'
    BY ONLY <1>1, <1>3, <2>1 DEF LockSoFar, CoreIs, MutexIs
  <2>6. UnlockSoFar => UnlockSoFar'
    BY ONLY <1>1, <1>3, <2>1, Zenon DEF UnlockSoFar, ReleaseSoFar, HandOverSoFar, CoreIs, MutexIs,
                                       Woken
  <2> QED BY <1>3, <1>4, <2>2, <2>3, <2>4, <2>5, <2>6 DEF QuietInv, SoFar
<1>5. \A t \in Tasks : Claims(t)'
  BY <1>1 DEF QuietInv, Claims, K!MutexWaiters, K!Waiters
<1> QED BY <1>1, <1>2, <1>3, <1>4, <1>5 DEF QuietInv

-----------------------------------------------------------------------------
(* The theorems.                                                           *)

LEMMA QuietBegins == QuietInit => K!Init /\ QuietInv
<1> SUFFICES ASSUME QuietInit PROVE K!Init /\ QuietInv
  OBVIOUS
<1>1. before = Now /\ Init /\ pc = [t \in Tasks |-> NoCall] /\ held = [t \in Tasks |-> {}]
  BY DEF QuietInit, StepsInit
<1>2. K!Init
  <2>1. K!CoreInit
    BY <1>1, BeforeIsNow DEF Init, CoreInit, K!CoreInit, Tasks, K!Tasks
  <2>2. K!OS_SemaphoreInit /\ K!Mutex_Init
    BY <1>1, BeforeIsNow
       DEF Init, OS_SemaphoreInit, K!OS_SemaphoreInit, Mutex_Init, K!Mutex_Init, NoWaiters,
           K!NoWaiters, Tasks, K!Tasks, NULL, K!NULL
  <2> QED BY <2>1, <2>2 DEF K!Init
<1>3. \A t \in Tasks : pc[t] = NoCall /\ held[t] = {}
  BY <1>1
<1>4. \A t \in Tasks : pc[t].at = "idle" /\ pc[t].call = "none"
  BY <1>3 DEF NoCall
<1>5. CurrentTask \in Tasks
  BY <1>1, TasksAssumption DEF Init, CoreInit, Tasks
<1>6. ~MidCall
  BY <1>4, <1>5 DEF MidCall, Me
<1> QED BY <1>1, <1>2, <1>3, <1>4, <1>6, KernelInit DEF QuietInv, Claims

\* What a step of the statements is between the calls.
LEMMA QuietStep ==
  ASSUME QuietInv, [QuietNext]_quietVars
  PROVE  [K!Next]_(K!vars) /\ QuietInv'
BY CallProceeds, RestStep, StutterStep

\* In every reachable state the statements of the current call have done their
\* part of what Kernel.tla says of the whole call, and no more: the strengthening
\* from which the theorems below follow.
THEOREM QuietInvariant == QuietSpec => []QuietInv
<1>1. QuietInit => QuietInv
  BY QuietBegins
<1>2. QuietInv /\ [QuietNext]_quietVars => QuietInv'
  BY QuietStep
<1> QED BY <1>1, <1>2, PTL DEF QuietSpec

\* With no tick inside a call, the calls of Kernel/os_core.c, Kernel/Semaphore.c
\* and Kernel/Mutex.c do, statement by statement, what Kernel.tla takes each of
\* them to do in one action.
THEOREM StatementsImplementKernel == QuietSpec => CallsAreActions
<1>1. QuietInit => Whole!Init
  BY QuietBegins, SameInit
<1>2. QuietInv /\ [QuietNext]_quietVars => [Whole!Next]_(Whole!vars)
  BY QuietStep, SameNext
<1> QED BY <1>1, <1>2, QuietInvariant, PTL DEF QuietSpec, CallsAreActions, Whole!Spec

-----------------------------------------------------------------------------
(* What the invariant says of the objects inside a call.                   *)

LEMMA SemaphoresInside ==
  ASSUME QuietInv, MidCall
  PROVE  \/ smp = before.smp
         \/ Me.obj \in Semaphores /\ \E c \in 0 .. 1 : \E w, n : SemaphoreIs(c, w, n)
<1>1. SoFar /\ K!IInv
  BY MidCallFacts
<1>2. CASE Me.call = "sleep" /\ SleepSoFar
  BY <1>2 DEF SleepSoFar
<1>3. CASE Me.call \in {"lock", "unlock"} /\ (LockSoFar \/ UnlockSoFar)
  BY <1>3, Zenon DEF LockSoFar, UnlockSoFar, ReleaseSoFar, HandOverSoFar, MutexIs
<1>4. CASE Me.obj \in Semaphores /\ (WaitSoFar \/ SignalSoFar)
  <2>1. before.smp[Me.obj].counter \in 0 .. 1
    BY <1>1, <1>4, BeforeSemaphores
  <2>2. \E c \in {before.smp[Me.obj].counter, 0, 1} : \E w, n : SemaphoreIs(c, w, n)
    BY <1>4 DEF WaitSoFar, SignalSoFar
  <2> QED BY <1>4, <2>1, <2>2
<1> QED BY <1>1, <1>2, <1>3, <1>4 DEF SoFar

LEMMA MutexesInside ==
  ASSUME QuietInv, MidCall
  PROVE  \/ mx = before.mx
         \/ /\ Me.obj \in Mutexes
            /\ \E c \in 0 .. 1 : \E o, w, n, p :
                 /\ MutexIs(o, c, w, n, p)
                 /\ \/ o = before.mx[Me.obj].owner
                    \/ before.mx[Me.obj].owner = NULL
                    \/ before.mx[Me.obj].owner = CurrentTask /\ Me.obj \notin held[CurrentTask]
<1>1. SoFar /\ K!IInv
  BY MidCallFacts
<1>2. CASE Me.call = "sleep" /\ SleepSoFar
  BY <1>2 DEF SleepSoFar
<1>3. CASE WaitSoFar \/ SignalSoFar
  BY <1>3, Zenon DEF WaitSoFar, SignalSoFar, SemaphoreIs
<1>4. CASE Me.obj \in Mutexes /\ LockSoFar
  <2>1. before.mx[Me.obj].counter \in 0 .. 1
    BY <1>1, <1>4, BeforeMutexes
  <2>2. before.mx[Me.obj].counter # 0 => before.mx[Me.obj].owner = NULL
    BY <1>1, <1>4, BeforeMutexes
  <2>3. \E c \in {before.mx[Me.obj].counter, 0} : \E o, w, n, p :
          /\ MutexIs(o, c, w, n, p)
          /\ o = before.mx[Me.obj].owner \/ before.mx[Me.obj].counter # 0
    BY <1>4 DEF LockSoFar
  <2> QED BY <1>4, <2>1, <2>2, <2>3
<1>5. CASE Me.obj \in Mutexes /\ UnlockSoFar
  <2>1. \E c \in {0, 1} : \E o, w, n, p : MutexIs(o, c, w, n, p)
    BY <1>5 DEF UnlockSoFar, ReleaseSoFar, HandOverSoFar
  <2> QED BY <1>5, <2>1 DEF UnlockSoFar
<1> QED BY <1>1, <1>2, <1>3, <1>4, <1>5 DEF SoFar

\* With no tick inside a call, a task that has returned from Mutex_Lock owns the
\* mutex until it calls Mutex_Unlock, whatever the other tasks call meanwhile:
\* two tasks never hold one mutex and no unlock ends in OS_Fault.
THEOREM HoldersAreOwners == QuietSpec => []HoldersOwn
<1>1. QuietInv => HoldersOwn
  <2> SUFFICES ASSUME QuietInv, NEW t \in Tasks, NEW m \in held[t]
               PROVE  mx[m].owner = t
    BY DEF HoldersOwn
  <2>1. m \in Mutexes /\ before.mx[m].owner = t
    BY DEF QuietInv, Claims
  <2>2. mx = before.mx => mx[m].owner = t
    BY <2>1
  <2>3. CASE MidCall
    <3> SUFFICES ASSUME Me.obj \in Mutexes,
                        NEW o, NEW c, NEW w, NEW n, NEW p, MutexIs(o, c, w, n, p),
                        \/ o = before.mx[Me.obj].owner
                        \/ before.mx[Me.obj].owner = NULL
                        \/ before.mx[Me.obj].owner = CurrentTask /\ Me.obj \notin held[CurrentTask]
                 PROVE  mx[m].owner = t
      BY <2>2, <2>3, MutexesInside
    <3>1. K!IInv
      BY DEF QuietInv
    <3>2. m # Me.obj => mx[m] = before.mx[m]
      BY DEF MutexIs
    <3>3. mx[Me.obj].owner = o
      BY <3>1, MutexObject
    <3>4. t # NULL
      BY TasksAssumption DEF Tasks, NULL
    <3> QED BY <2>1, <3>2, <3>3, <3>4
  <2>4. CASE ~MidCall
    BY <2>2, <2>4, AtRest
  <2> QED BY <2>3, <2>4
<1> QED BY <1>1, QuietInvariant, PTL

\* With no tick inside a call, no counter is ever decremented below zero.
THEOREM CountersStayBinary == QuietSpec => []CountersBinary
<1>1. QuietInv => CountersBinary
  <2> SUFFICES ASSUME QuietInv PROVE CountersBinary
    OBVIOUS
  <2>1. K!IInv
    BY DEF QuietInv
  <2>2. ASSUME NEW s \in Semaphores PROVE smp[s].counter \in 0 .. 1
    <3>1. before.smp[s].counter \in 0 .. 1
      BY <2>1, BeforeSemaphores
    <3>2. CASE smp = before.smp
      BY <3>1, <3>2
    <3>3. CASE MidCall /\ smp # before.smp
      <4>1. PICK c \in 0 .. 1 : \E w, n : SemaphoreIs(c, w, n)
        BY <3>3, SemaphoresInside
      <4>2. before.smp \in [Semaphores -> SemaphoreType]
        BY <2>1, BeforeSemaphores
      <4> QED BY <3>1, <4>1, <4>2 DEF SemaphoreIs
    <3> QED BY <3>2, <3>3, AtRest
  <2>3. ASSUME NEW m \in Mutexes PROVE mx[m].counter \in 0 .. 1
    <3>1. before.mx[m].counter \in 0 .. 1
      BY <2>1, BeforeMutexes
    <3>2. CASE mx = before.mx
      BY <3>1, <3>2
    <3>3. CASE MidCall /\ mx # before.mx
      <4>1. PICK c \in 0 .. 1 : \E o, w, n, p : Me.obj \in Mutexes /\ MutexIs(o, c, w, n, p)
        BY <3>3, MutexesInside
      <4>2. mx[Me.obj].counter = c
        BY <2>1, <4>1, MutexObject
      <4>3. m # Me.obj => mx[m] = before.mx[m]
        BY <4>1 DEF MutexIs
      <4> QED BY <3>1, <4>1, <4>2, <4>3
    <3> QED BY <3>2, <3>3, AtRest
  <2> QED BY <2>2, <2>3 DEF CountersBinary
<1> QED BY <1>1, QuietInvariant, PTL

-----------------------------------------------------------------------------
(* Nobody is lost inside a call.                                           *)

\* The queue of the object, at whatever statement, holds everyone who waited when
\* the call began, but perhaps the winner.
LEMMA EnlistLosesNobody ==
  ASSUME NEW w, NEW n, WellFormed(w, n), NEW t
  PROVE  /\ Waiters(w, n) \subseteq Waiters(Enlist(w, n, t), n)
         /\ Waiters(w, n) \subseteq Waiters(Enlist(w, n, t), n + 1)
<1>1. n \in Nat /\ w \in [Tasks -> Tasks \cup {NULL}]
  BY TasksAssumption DEF WellFormed, Tasks
<1>2. \A i \in 0 .. n - 1 : Enlist(w, n, t)[i] = w[i]
  BY <1>1, TasksAssumption DEF Enlist, Tasks, WellFormed
<1>3. Waiters(w, n) \subseteq Waiters(Enlist(w, n, t), n)
  BY <1>2 DEF Waiters
<1>4. Waiters(w, n) \subseteq Waiters(Enlist(w, n, t), n + 1)
  BY EnlistKeeps
<1> QED BY <1>3, <1>4

LEMMA RemovalLosesOne ==
  ASSUME NEW w, NEW n, WellFormed(w, n), NEW k \in 0 .. n - 1, NEW t \in Waiters(w, n), t # w[k]
  PROVE  /\ t \in Waiters(FillHole(w, n, k), n - 1) /\ t \in Waiters(FillHole(w, n, k), n)
         /\ t \in Waiters(MovedDown(w, n, k), n)
<1>1. n \in Nat /\ n \in Tasks
  BY TasksAssumption DEF WellFormed, Tasks
<1>2. t \in Waiters(FillHole(w, n, k), n - 1)
  BY FillHoleRemoves
<1>3. PICK i \in 0 .. (n - 1) - 1 : FillHole(w, n, k)[i] = t
  BY <1>2 DEF Waiters
<1>4. i \in 0 .. n - 1 /\ i # n - 1 /\ i \in Tasks
  BY <1>1, <1>3, TasksAssumption DEF Tasks
<1>5. MovedDown(w, n, k)[i] = FillHole(w, n, k)[i]
  BY <1>4 DEF MovedDown, FillHole
<1> QED BY <1>2, <1>3, <1>4, <1>5 DEF Waiters

LEMMA WinnerWoken ==
  ASSUME QuietInv, MidCall, NEW u \in Tasks, state = Woken(u), NEW t, state[t] = "BLOCKED"
  PROVE  t # u
<1>1. before.state \in [Tasks -> States]
  BY MidCallFacts, BeforeCore
<1> QED BY <1>1 DEF Woken

LEMMA SemaphoreKeeps ==
  ASSUME QuietInv, MidCall, Me.obj \in Semaphores, WaitSoFar \/ SignalSoFar,
         NEW t \in K!SemWaiters(Me.obj), state[t] = "BLOCKED"
  PROVE  t \in SemWaiters(Me.obj)
<1> DEFINE w == before.smp[Me.obj].waiting_tasks
           n == before.smp[Me.obj].TaskTracker
<1>1. WellFormed(w, n) /\ t \in Waiters(w, n) /\ K!IInv
  BY MidCallFacts, BeforeSemaphores DEF K!SemWaiters, K!Waiters, Waiters
<1>2. ASSUME NEW c, NEW u, NEW j, SemaphoreIs(c, u, j), t \in Waiters(u, j)
      PROVE  t \in SemWaiters(Me.obj)
  <2>1. smp[Me.obj].waiting_tasks = u /\ smp[Me.obj].TaskTracker = j
    BY <1>1, <1>2, SemaphoreObject DEF Queue, Length, Obj
  <2> QED BY <1>2, <2>1 DEF SemWaiters
<1> HIDE DEF w, n
<1>3. CASE WaitSoFar
  <2>1. \E c : \/ SemaphoreIs(c, w, n) \/ SemaphoreIs(c, Enlist(w, n, CurrentTask), n)
               \/ SemaphoreIs(c, Enlist(w, n, CurrentTask), n + 1)
    BY <1>3 DEF WaitSoFar, w, n
  <2>2. t \in Waiters(Enlist(w, n, CurrentTask), n) /\ t \in Waiters(Enlist(w, n, CurrentTask), n + 1)
    BY <1>1, EnlistLosesNobody
  <2> QED BY <1>1, <1>2, <2>1, <2>2
<1>4. CASE SignalSoFar
  <2> DEFINE k == Me.MaxPIndex
  <2>1. \/ \E c : SemaphoreIs(c, w, n)
        \/ /\ Winner(w, n, before.priority, k) /\ state = Woken(w[k])
           /\ \E c : \/ SemaphoreIs(c, MovedDown(w, n, k), n) \/ SemaphoreIs(c, FillHole(w, n, k), n)
                     \/ SemaphoreIs(c, FillHole(w, n, k), n - 1)
    BY <1>4, Zenon DEF SignalSoFar, CoreIs, w, n
  <2>2. CASE \E c : SemaphoreIs(c, w, n)
    BY <1>1, <1>2, <2>2
  <2>3. CASE Winner(w, n, before.priority, k) /\ state = Woken(w[k])
    <3>1. k \in 0 .. n - 1 /\ w[k] \in Tasks
      BY <1>1, <2>3 DEF Winner, WellFormed
    <3>2. t # w[k]
      BY <2>3, <3>1, WinnerWoken
    <3>3. /\ t \in Waiters(FillHole(w, n, k), n - 1) /\ t \in Waiters(FillHole(w, n, k), n)
          /\ t \in Waiters(MovedDown(w, n, k), n)
      BY <1>1, <3>1, <3>2, RemovalLosesOne
    <3> QED BY <1>1, <1>2, <2>1, <2>2, <3>3
  <2> QED BY <2>1, <2>2, <2>3
<1> QED BY <1>3, <1>4

LEMMA MutexKeeps ==
  ASSUME QuietInv, MidCall, Me.obj \in Mutexes, LockSoFar \/ UnlockSoFar,
         NEW t \in K!MutexWaiters(Me.obj), state[t] = "BLOCKED"
  PROVE  t \in MutexWaiters(Me.obj)
<1> DEFINE w == before.mx[Me.obj].waiting_tasks
           n == before.mx[Me.obj].TaskTracker
<1>1. WellFormed(w, n) /\ t \in Waiters(w, n) /\ K!IInv
  BY MidCallFacts, BeforeMutexes DEF K!MutexWaiters, K!Waiters, Waiters
<1>2. ASSUME NEW o, NEW c, NEW u, NEW j, NEW p, MutexIs(o, c, u, j, p), t \in Waiters(u, j)
      PROVE  t \in MutexWaiters(Me.obj)
  <2>1. mx[Me.obj].waiting_tasks = u /\ mx[Me.obj].TaskTracker = j
    BY <1>1, <1>2, MutexObject DEF Queue, Length
  <2> QED BY <1>2, <2>1 DEF MutexWaiters
<1> HIDE DEF w, n
<1>3. CASE LockSoFar
  <2>1. \E o, c, p : \/ MutexIs(o, c, w, n, p) \/ MutexIs(o, c, Enlist(w, n, CurrentTask), n, p)
                     \/ MutexIs(o, c, Enlist(w, n, CurrentTask), n + 1, p)
    BY <1>3, Zenon DEF LockSoFar, w, n
  <2>2. t \in Waiters(Enlist(w, n, CurrentTask), n) /\ t \in Waiters(Enlist(w, n, CurrentTask), n + 1)
    BY <1>1, EnlistLosesNobody
  <2> QED BY <1>1, <1>2, <2>1, <2>2
<1>4. CASE UnlockSoFar
  <2> DEFINE k == Me.MaxPIndex
  <2>1. \/ \E o, c, p : MutexIs(o, c, w, n, p)
        \/ /\ \E r : Winner(w, n, r, k)
           /\ state = Woken(w[k])
           /\ \E o, c, p : \/ MutexIs(o, c, MovedDown(w, n, k), n, p)
                           \/ MutexIs(o, c, FillHole(w, n, k), n, p)
                           \/ MutexIs(o, c, FillHole(w, n, k), n - 1, p)
    BY <1>4, Zenon DEF UnlockSoFar, ReleaseSoFar, HandOverSoFar, CoreIs, w, n
  <2>2. CASE \E o, c, p : MutexIs(o, c, w, n, p)
    BY <1>1, <1>2, <2>2
  <2>3. CASE (\E r : Winner(w, n, r, k)) /\ state = Woken(w[k])
    <3>1. k \in 0 .. n - 1 /\ w[k] \in Tasks
      BY <1>1, <2>3 DEF Winner, WellFormed
    <3>2. t # w[k]
      BY <2>3, <3>1, WinnerWoken
    <3>3. /\ t \in Waiters(FillHole(w, n, k), n - 1) /\ t \in Waiters(FillHole(w, n, k), n)
          /\ t \in Waiters(MovedDown(w, n, k), n)
      BY <1>1, <3>1, <3>2, RemovalLosesOne
    <3> QED BY <1>1, <1>2, <2>1, <2>2, <3>3
  <2> QED BY <2>1, <2>2, <2>3
<1> QED BY <1>3, <1>4

LEMMA QueuedInside ==
  ASSUME QuietInv, MidCall, NEW t \in K!Queued, state[t] = "BLOCKED"
  PROVE  t \in Queued
<1>1. SoFar /\ K!IInv
  BY MidCallFacts
<1>2. CASE \E s \in Semaphores : t \in K!SemWaiters(s)
  <2>1. PICK s \in Semaphores : t \in K!SemWaiters(s)
    BY <1>2
  <2>2. smp[s] = before.smp[s] => t \in SemWaiters(s)
    BY <2>1 DEF SemWaiters, K!SemWaiters, Waiters, K!Waiters
  <2>3. smp # before.smp => Me.obj \in Semaphores /\ (WaitSoFar \/ SignalSoFar)
    BY <1>1, ObjectsAssumption, SemaphoresInside, Zenon
       DEF SoFar, SleepSoFar, LockSoFar, UnlockSoFar, ReleaseSoFar, HandOverSoFar, MutexIs
  <2>4. s # Me.obj => smp[s] = before.smp[s]
    BY <1>1, BeforeSemaphores, SemaphoresInside DEF SemaphoreIs
  <2>5. t \in SemWaiters(s)
    BY <2>1, <2>2, <2>3, <2>4, SemaphoreKeeps
  <2> QED BY <2>5 DEF Queued
<1>3. CASE \E m \in Mutexes : t \in K!MutexWaiters(m)
  <2>1. PICK m \in Mutexes : t \in K!MutexWaiters(m)
    BY <1>3
  <2>2. mx[m] = before.mx[m] => t \in MutexWaiters(m)
    BY <2>1 DEF MutexWaiters, K!MutexWaiters, Waiters, K!Waiters
  <2>3. mx # before.mx => Me.obj \in Mutexes /\ (LockSoFar \/ UnlockSoFar)
    BY <1>1, ObjectsAssumption, MutexesInside, Zenon
       DEF SoFar, SleepSoFar, WaitSoFar, SignalSoFar, SemaphoreIs
  <2>4. m # Me.obj => mx[m] = before.mx[m]
    BY <1>1, BeforeMutexes, MutexesInside DEF MutexIs
  <2>5. t \in MutexWaiters(m)
    BY <2>1, <2>2, <2>3, <2>4, MutexKeeps
  <2> QED BY <2>5 DEF Queued
<1> QED BY <1>2, <1>3 DEF K!Queued

\* What a call has done to the states and ticks of the other tasks.
LEMMA OthersInside ==
  ASSUME QuietInv, MidCall, NEW t \in Tasks \ {CurrentTask}, state[t] = "BLOCKED"
  PROVE  before.state[t] = "BLOCKED" /\ ticks[t] = before.ticks[t]
<1>1. SoFar /\ K!IInv
  BY MidCallFacts
<1>2. before.state \in [Tasks -> States] /\ before.ticks \in [Tasks -> Nat]
  BY <1>1, BeforeCore
<1>3. state = before.state \/ state = Blocked \/ \E u : state = Woken(u)
  BY <1>1, Zenon DEF SoFar, SleepSoFar, WaitSoFar, SignalSoFar, LockSoFar, UnlockSoFar, ReleaseSoFar,
              HandOverSoFar, CoreIs
<1>4. ticks = before.ticks \/ \E n : ticks = [before.ticks EXCEPT ![CurrentTask] = n]
  BY <1>1, Zenon DEF SoFar, SleepSoFar, WaitSoFar, SignalSoFar, LockSoFar, UnlockSoFar, ReleaseSoFar,
              HandOverSoFar, CoreIs
<1>5. before.state[t] = "BLOCKED"
  BY <1>2, <1>3 DEF Blocked, Woken
<1> QED BY <1>2, <1>4, <1>5

\* With no tick inside a call, and if nobody calls OS_Sleep(0), every BLOCKED task
\* but the one that is just about to leave the CPU sleeps or is in a queue, at every
\* statement: OS_Signal and Mutex_Unlock find everyone who waits.
THEOREM NobodyStranded ==
  ASSUME 0 \notin SleepTicks
  PROVE  QuietSpec => []NoTaskStranded
<1>1. QuietSpec => []K!NoLostTask
  <2>1. K!Spec => []K!NoLostTask
    BY K!NoTaskLost, TasksAssumption, PriorityAssumption, ClientAssumption
       DEF Tasks, K!Tasks, Int8Max, K!Int8Max, Idle, K!Idle
  <2>2. QuietInit => K!Init
    BY QuietBegins
  <2>3. QuietInv /\ [QuietNext]_quietVars => [K!Next]_(K!vars)
    BY QuietStep
  <2> QED BY <2>1, <2>2, <2>3, QuietInvariant, PTL DEF QuietSpec, K!Spec
<1>2. QuietInv /\ K!NoLostTask => NoTaskStranded
  <2> SUFFICES ASSUME QuietInv, K!NoLostTask,
                      NEW t \in Tasks, state[t] = "BLOCKED", t # CurrentTask
               PROVE  ticks[t] > 0 \/ t \in Queued
    BY DEF NoTaskStranded
  <2>1. before.state[t] = "BLOCKED" => before.ticks[t] > 0 \/ t \in K!Queued
    BY SameConstants DEF K!NoLostTask
  <2>2. CASE MidCall
    BY <2>1, <2>2, OthersInside, QueuedInside
  <2>3. CASE ~MidCall
    <3>1. K!Queued = Queued
      BY <2>3, AtRest DEF Queued, K!Queued, SemWaiters, K!SemWaiters, MutexWaiters,
                          K!MutexWaiters, Waiters, K!Waiters
    <3> QED BY <2>1, <2>3, <3>1, AtRest
  <2> QED BY <2>2, <2>3
<1> QED BY <1>1, <1>2, QuietInvariant, PTL
=============================================================================
