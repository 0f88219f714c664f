----------------------------- MODULE LoopProofs -----------------------------
(***************************************************************************)
(* The loop of OS_Schedule computes the choice that Scheduler.tla states,  *)
(* and the loops of OS_Signal and Mutex_Unlock compute Winner and FillHole *)
(* of WaitQueue.tla, for tables and queues of any length, as long as every *)
(* priority fits an int8_t.  The loop of os_malloc is first fit.           *)
(***************************************************************************)
EXTENDS ScheduleLoop, WakeLoop, HeapWalk, HeapProofs

-----------------------------------------------------------------------------
(* The loop of OS_Schedule.                                                *)

\* (CurrentTask + i) % NUMBER_OF_TASKS wraps around once.
LEMMA Wraps ==
  ASSUME NEW c \in Tasks, NEW k \in 1 .. NUMBER_OF_TASKS
  PROVE  /\ c + k < NUMBER_OF_TASKS => (c + k) % NUMBER_OF_TASKS = c + k
         /\ c + k >= NUMBER_OF_TASKS =>
              (c + k) % NUMBER_OF_TASKS = c + k - NUMBER_OF_TASKS
BY TasksAssumption, Z3 DEF Tasks

\* Iteration k looks at the one slot at distance k.
LEMMA VisitsByDistance ==
  ASSUME NEW c \in Tasks, NEW k \in 1 .. NUMBER_OF_TASKS
  PROVE  /\ (c + k) % NUMBER_OF_TASKS \in Tasks
         /\ Distance(c, (c + k) % NUMBER_OF_TASKS) = k
         /\ \A t \in Tasks : Distance(c, t) = k => t = (c + k) % NUMBER_OF_TASKS
<1> DEFINE next == (c + k) % NUMBER_OF_TASKS
<1>1. /\ c + k < NUMBER_OF_TASKS => next = c + k
      /\ c + k >= NUMBER_OF_TASKS => next = c + k - NUMBER_OF_TASKS
  BY Wraps
<1> HIDE DEF next
<1>2. next \in Tasks /\ Distance(c, next) = k
  BY <1>1, TasksAssumption DEF Tasks, Distance
<1>3. \A t \in Tasks : Distance(c, t) = k => t = next
  BY <1>1, TasksAssumption DEF Tasks, Distance
<1> QED BY <1>2, <1>3 DEF next

\* The loop visits every slot.
LEMMA DistanceRange ==
  \A c, t \in Tasks : Distance(c, t) \in 1 .. NUMBER_OF_TASKS
BY TasksAssumption DEF Tasks, Distance

\* The slots looked at in the iterations below n.
Seen(n) == {t \in Eligible : Distance(CurrentTask, t) < n}

\* What the loop invariant says of the scan.
Tracks(n) ==
  /\ state[CurrentTask] # "RUNNING"
  /\ Seen(n) = {} => highest_priority_yet = -1 /\ indexTracker = CurrentTask
  /\ Seen(n) # {} => /\ indexTracker \in Seen(n)
                     /\ highest_priority_yet = priority[indexTracker]
                     /\ \A u \in Seen(n) : Beats(indexTracker, u)

LEMMA LoopInvSplit ==
  LoopInv <=> /\ LoopTypeOK
              /\ i = 0 => highest_priority_yet = -1 /\ indexTracker = CurrentTask
              /\ i \in 1 .. NUMBER_OF_TASKS + 1 => Tracks(i)
BY DEF LoopInv, Tracks, Seen

LEMMA LoopInvPrimed ==
  ASSUME LoopTypeOK', i' # 0, Tracks(i)'
  PROVE  LoopInv'
BY DEF LoopInv, Tracks, Seen

LEMMA BeginTracks ==
  ASSUME LoopInv, Begin
  PROVE  LoopInv'
<1>1. LoopTypeOK'
  BY TasksAssumption DEF LoopInv, LoopTypeOK, Begin, States
<1>2. Seen(1)' = {}
  BY <1>1, DistanceRange DEF LoopTypeOK, Seen, Eligible
<1>3. state'[CurrentTask'] # "RUNNING"
  BY DEF LoopInv, LoopTypeOK, Begin
<1>4. i' = 1 /\ highest_priority_yet' = -1 /\ indexTracker' = CurrentTask'
  BY DEF LoopInv, Begin
<1> QED BY <1>1, <1>2, <1>3, <1>4 DEF LoopInv, Seen

LEMMA IterateTracks ==
  ASSUME Priorities \subseteq 0 .. Int8Max, LoopInv, Iterate
  PROVE  LoopInv'
<1> DEFINE next == (CurrentTask + i) % NUMBER_OF_TASKS
<1>1. /\ LoopTypeOK /\ Tracks(i) /\ i \in 1 .. NUMBER_OF_TASKS /\ i' = i + 1
      /\ UNCHANGED <<CurrentTask, state, priority>>
  BY LoopInvSplit, TasksAssumption DEF Iterate
<1>2. /\ CurrentTask \in Tasks /\ priority \in [Tasks -> 0 .. Int8Max]
      /\ next \in Tasks /\ Distance(CurrentTask, next) = i
      /\ \A t \in Tasks : Distance(CurrentTask, t) = i => t = next
      /\ \A t \in Tasks : Distance(CurrentTask, t) \in 1 .. NUMBER_OF_TASKS
  BY <1>1, VisitsByDistance, DistanceRange DEF LoopTypeOK
<1>3. Better <=> state[next] = "READY" /\ priority[next] > highest_priority_yet
  BY DEF Better, nextIndex
<1>4. /\ Better => highest_priority_yet' = priority[next] /\ indexTracker' = next
      /\ ~Better => UNCHANGED <<highest_priority_yet, indexTracker>>
  BY <1>2 DEF Iterate, Int8, nextIndex, Int8Max
<1> HIDE DEF next
<1>5. Eligible = {t \in Tasks : state[t] = "READY"} /\ Eligible' = Eligible
  BY <1>1, <1>2 DEF Eligible, Tracks
<1>6. Seen(i)' = Seen(i) \cup (IF state[next] = "READY" THEN {next} ELSE {})
  BY <1>1, <1>2, <1>5 DEF Seen
<1>7. LoopTypeOK'
  BY <1>1, <1>2, <1>4, TasksAssumption DEF LoopTypeOK, Int8Max
<1>8. CASE Better
  <2>1. \A u \in Seen(i) : priority[u] < priority[next]
    BY <1>1, <1>2, <1>3, <1>8 DEF Tracks, Beats, Seen, Eligible
  <2>2. \A u \in Seen(i)' : Beats(next, u)
    BY <2>1, <1>2, <1>6 DEF Beats
  <2>3. \A u \in Seen(i)' : Beats(indexTracker, u)'
    BY <2>2, <1>1, <1>4, <1>8 DEF Beats
  <2>4. Tracks(i)'
    BY <2>3, <1>1, <1>3, <1>4, <1>6, <1>8 DEF Tracks
  <2> QED BY <2>4, <1>1, <1>7, LoopInvPrimed
<1>9. CASE ~Better
  <2>1. Seen(i) = {} => state[next] # "READY"
    BY <1>1, <1>2, <1>3, <1>9 DEF Tracks
  <2>2. Seen(i) # {} => \A u \in Seen(i)' : Beats(indexTracker, u)
    <3>1. SUFFICES ASSUME Seen(i) # {}, state[next] = "READY"
                   PROVE  Beats(indexTracker, next)
      BY <1>1, <1>6 DEF Tracks
    <3>2. priority[next] <= priority[indexTracker]
      BY <3>1, <1>1, <1>2, <1>3, <1>9 DEF Tracks, LoopTypeOK
    <3>3. Distance(CurrentTask, indexTracker) < Distance(CurrentTask, next)
      BY <3>1, <1>1, <1>2 DEF Tracks, Seen
    <3> QED BY <3>2, <3>3, <1>1, <1>2 DEF Beats, LoopTypeOK
  <2>3. Seen(i) # {} => \A u \in Seen(i)' : Beats(indexTracker, u)'
    BY <2>2, <1>1, <1>4, <1>9 DEF Beats
  <2>4. Tracks(i)'
    BY <2>1, <2>3, <1>1, <1>4, <1>6, <1>9 DEF Tracks
  <2> QED BY <2>4, <1>1, <1>7, LoopInvPrimed
<1> QED BY <1>8, <1>9

\* The loop invariant (Kernel/os_core.c, OS_Schedule).
THEOREM LoopInvariant ==
  ASSUME Priorities \subseteq 0 .. Int8Max
  PROVE  Spec => []LoopInv
<1>1. Init => LoopInv
  BY TasksAssumption DEF Init, LoopInv, LoopTypeOK
<1>2. LoopInv /\ [Next]_vars => LoopInv'
  <2> SUFFICES ASSUME LoopInv, [Next]_vars PROVE LoopInv'
    OBVIOUS
  <2>1. CASE UNCHANGED vars
    BY <2>1 DEF vars, LoopInv, LoopTypeOK, Eligible, Beats
  <2>2. CASE Switch
    BY <2>2, TasksAssumption DEF Switch, LoopInv, LoopTypeOK, States
  <2> QED BY <2>1, <2>2, BeginTracks, IterateTracks DEF Next
<1> QED BY <1>1, <1>2, PTL DEF Spec

\* The loop makes the choice OS_Schedule is modelled by: the first READY slot
\* of the highest priority, counted from the one after CurrentTask.
THEOREM LoopIsTheSchedule ==
  ASSUME Priorities \subseteq 0 .. Int8Max
  PROVE  Spec => LoopSelects
<1>1. LoopInv /\ [Next]_vars => [i = NUMBER_OF_TASKS + 1 => OS_Schedule]_vars
  <2> SUFFICES ASSUME LoopInv, i = NUMBER_OF_TASKS + 1, Next PROVE OS_Schedule
    OBVIOUS
  <2>1. LoopTypeOK /\ Tracks(NUMBER_OF_TASKS + 1)
    BY LoopInvSplit, TasksAssumption
  <2>2. Switch
    BY TasksAssumption DEF Next, Begin, Iterate
  <2>3. Seen(NUMBER_OF_TASKS + 1) = Eligible
    BY <2>1, DistanceRange, TasksAssumption DEF Seen, Eligible, LoopTypeOK
  <2>4. Selected(indexTracker)
    BY <2>1, <2>3 DEF Selected, Tracks
  <2>5. Eligible = {t \in Tasks : state[t] = "READY"}
    BY <2>1 DEF Eligible, Tracks
  <2>6. state' = [t \in Tasks |-> IF t = indexTracker THEN "RUNNING"
                                 ELSE IF t \in Eligible THEN "READY" ELSE state[t]]
    BY <2>1, <2>2, <2>5 DEF Switch, LoopTypeOK
  <2> QED BY <2>1, <2>2, <2>4, <2>6 DEF OS_Schedule, Switch, LoopTypeOK
<1> QED BY <1>1, LoopInvariant, PTL DEF Spec, LoopSelects

-----------------------------------------------------------------------------
(* The loops of OS_Signal and Mutex_Unlock.                                *)

LEMMA InitWake == WakeInit => WakeInv /\ WakesWinner
<1> SUFFICES ASSUME WakeInit PROVE WakeInv /\ WakesWinner
  OBVIOUS
<1>1. /\ waiting_tasks \in [Tasks -> Tasks \cup {NULL}]
      /\ TaskTracker \in 1 .. NUMBER_OF_TASKS
      /\ entered.w = waiting_tasks /\ entered.n = TaskTracker
      /\ pc = "scan" /\ scanned = 0 /\ best = -1 /\ priorityOf \in [Tasks -> Priorities]
  BY DEF WakeInit
<1>2. \A k \in 0 .. TaskTracker - 1 : waiting_tasks[k] \in Tasks
  BY <1>1, TasksAssumption DEF WakeInit, Tasks
<1> QED BY <1>1, <1>2 DEF WakeInv, WakesWinner

\* The scan keeps track of the winner so far.
LEMMA ScanWake ==
  ASSUME Priorities \subseteq 0 .. Int8Max, WakeInv, Scan
  PROVE  WakeInv' /\ WakesWinner'
<1> DEFINE w == entered.w
           n == entered.n
           prio(k) == priorityOf[w[k]]
<1>1. /\ waiting_tasks = w /\ TaskTracker = n /\ n \in Nat
      /\ scanned \in 0 .. n - 1
      /\ \A k \in 0 .. n - 1 : w[k] \in Tasks
      /\ priorityOf \in [Tasks -> Priorities]
  BY TasksAssumption DEF WakeInv, Scan
<1>2. IF scanned = 0 THEN best = -1
      ELSE Winner(w, scanned, priorityOf, MaxPIndex) /\ best = prio(MaxPIndex)
  BY DEF WakeInv, Scan
<1>3. ASSUME NEW k \in 0 .. scanned
      PROVE  prio(k) \in 0 .. Int8Max
  <2>1. w[k] \in Tasks
    BY <1>1
  <2> QED BY <2>1, <1>1
<1>4. BetterWaiter <=> prio(scanned) > best
  BY <1>1 DEF BetterWaiter
<1>5. /\ BetterWaiter => best' = prio(scanned) /\ MaxPIndex' = scanned
      /\ ~BetterWaiter => UNCHANGED <<best, MaxPIndex>>
  <2>1. prio(scanned) \in 0 .. Int8Max
    <3>1. scanned \in 0 .. scanned
      BY <1>1
    <3> QED BY <3>1, <1>3
  <2>2. Int8(prio(scanned)) = prio(scanned)
    <3> HIDE DEF prio
    <3> QED BY <2>1 DEF Int8, Int8Max
  <2> QED BY <2>2, <1>1 DEF Scan
<1>6. /\ pc' = pc /\ pc = "scan" /\ scanned' = scanned + 1
      /\ UNCHANGED <<waiting_tasks, TaskTracker, priorityOf, entered>>
  BY DEF Scan
<1>7. /\ MaxPIndex' \in 0 .. scanned
      /\ \A k \in 0 .. scanned : prio(k) <= prio(MaxPIndex')
      /\ \A k \in 0 .. MaxPIndex' - 1 : prio(k) < prio(MaxPIndex')
      /\ best' = prio(MaxPIndex')
  <2>1. scanned # 0 => /\ MaxPIndex \in 0 .. scanned - 1 /\ best = prio(MaxPIndex)
                       /\ \A k \in 0 .. scanned - 1 : prio(k) <= best
                       /\ \A k \in 0 .. MaxPIndex - 1 : prio(k) < best
    BY <1>2 DEF Winner
  <2> HIDE DEF prio
  <2>2. scanned \in Nat /\ \A k \in 0 .. scanned : prio(k) \in Int /\ prio(k) >= 0
    BY <1>1, <1>3 DEF Int8Max
  <2>3. CASE prio(scanned) > best
    <3>1. \A k \in 0 .. scanned - 1 : prio(k) < prio(scanned)
      BY <2>1, <2>2, <2>3
    <3> QED BY <3>1, <2>2, <2>3, <1>4, <1>5
  <2>4. CASE ~(prio(scanned) > best)
    <3>1. scanned # 0 /\ prio(scanned) <= best
      BY <1>2, <2>1, <2>2, <2>4
    <3> QED BY <3>1, <2>1, <2>2, <2>4, <1>4, <1>5
  <2> QED BY <2>3, <2>4
<1>8. Winner(w, scanned + 1, priorityOf, MaxPIndex')
  <2>1. (scanned + 1) - 1 = scanned
    BY <1>1
  <2> QED BY <2>1, <1>7 DEF Winner
<1>9. best' = priorityOf[w[MaxPIndex']]
  BY <1>7
<1> HIDE DEF w, n, prio
<1> QED
  <2>1. scanned + 1 \in 0 .. n /\ scanned + 1 # 0
    BY <1>1
  <2> QED BY <2>1, <1>1, <1>6, <1>8, <1>9 DEF WakeInv, WakesWinner, w, n

LEMMA StartShiftWake ==
  ASSUME WakeInv, StartShift
  PROVE  WakeInv' /\ WakesWinner'
<1>1. /\ Winner(entered.w, entered.n, priorityOf, MaxPIndex)
      /\ waiting_tasks = entered.w /\ TaskTracker = entered.n
      /\ entered.n \in 1 .. NUMBER_OF_TASKS
  BY TasksAssumption DEF WakeInv, StartShift
<1>2. MaxPIndex \in 0 .. entered.n - 1
  BY <1>1 DEF Winner
<1>3. waiting_tasks = [k \in Tasks |->
        IF MaxPIndex <= k /\ k < MaxPIndex THEN entered.w[k + 1] ELSE entered.w[k]]
  BY <1>1, <1>2, TasksAssumption DEF WakeInv, Tasks
<1>4. /\ pc' = "shift" /\ j' = MaxPIndex
      /\ UNCHANGED <<waiting_tasks, TaskTracker, priorityOf, MaxPIndex, entered>>
  BY DEF StartShift
<1>5. j' \in MaxPIndex' .. TaskTracker' - 1
  BY <1>1, <1>2, <1>4
<1>6. waiting_tasks' = [k \in Tasks |->
        IF MaxPIndex' <= k /\ k < j' THEN entered'.w[k + 1] ELSE entered'.w[k]]
  BY <1>3, <1>4
<1> QED BY <1>1, <1>4, <1>5, <1>6 DEF WakeInv, WakesWinner

LEMMA ShiftWake ==
  ASSUME WakeInv, Shift
  PROVE  WakeInv' /\ WakesWinner'
<1>1. /\ Winner(entered.w, entered.n, priorityOf, MaxPIndex)
      /\ TaskTracker = entered.n /\ entered.n \in 1 .. NUMBER_OF_TASKS
      /\ j \in MaxPIndex .. TaskTracker - 1 /\ j < TaskTracker - 1
      /\ waiting_tasks = [k \in Tasks |->
           IF MaxPIndex <= k /\ k < j THEN entered.w[k + 1] ELSE entered.w[k]]
      /\ waiting_tasks \in [Tasks -> Tasks \cup {NULL}]
  BY DEF WakeInv, Shift
<1>2. MaxPIndex \in 0 .. entered.n - 1
  BY <1>1 DEF Winner
<1>3. j \in Tasks /\ j + 1 \in Tasks
  BY <1>1, <1>2, TasksAssumption DEF Tasks
<1>4. waiting_tasks' \in [Tasks -> Tasks \cup {NULL}]
  BY <1>1, <1>3 DEF Shift, MovedDown
<1>5. waiting_tasks' = [k \in Tasks |->
        IF MaxPIndex <= k /\ k < j + 1 THEN entered.w[k + 1] ELSE entered.w[k]]
  <2>1. waiting_tasks[j + 1] = entered.w[j + 1]
    BY <1>1, <1>2, <1>3
  <2>2. waiting_tasks' = [k \in Tasks |->
          IF k = j THEN entered.w[j + 1] ELSE waiting_tasks[k]]
    BY <2>1, <1>1 DEF Shift, MovedDown
  <2>3. ASSUME NEW k \in Tasks
        PROVE  (IF k = j THEN entered.w[j + 1] ELSE waiting_tasks[k])
                 = IF MaxPIndex <= k /\ k < j + 1 THEN entered.w[k + 1] ELSE entered.w[k]
    BY <1>1, <1>2 DEF Tasks
  <2> QED BY <2>2, <2>3
<1>6. /\ pc' = pc /\ pc = "shift" /\ j' = j + 1
      /\ UNCHANGED <<TaskTracker, priorityOf, MaxPIndex, entered>>
  BY DEF Shift
<1>7. j + 1 \in MaxPIndex .. TaskTracker - 1
  BY <1>1, <1>2
<1> QED BY <1>1, <1>4, <1>5, <1>6, <1>7 DEF WakeInv, WakesWinner

LEMMA CloseHoleWake ==
  ASSUME WakeInv, CloseHole
  PROVE  WakeInv' /\ WakesWinner'
<1>1. /\ Winner(entered.w, entered.n, priorityOf, MaxPIndex)
      /\ TaskTracker = entered.n /\ entered.n \in 1 .. NUMBER_OF_TASKS
      /\ j \in MaxPIndex .. TaskTracker - 1 /\ j >= TaskTracker - 1
      /\ waiting_tasks = [k \in Tasks |->
           IF MaxPIndex <= k /\ k < j THEN entered.w[k + 1] ELSE entered.w[k]]
      /\ waiting_tasks \in [Tasks -> Tasks \cup {NULL}]
  BY DEF WakeInv, CloseHole
<1>2. MaxPIndex \in 0 .. entered.n - 1 /\ j = entered.n - 1
  BY <1>1 DEF Winner
<1>3. waiting_tasks' = FillHole(entered.w, entered.n, MaxPIndex)
  BY <1>1, <1>2, TasksAssumption DEF CloseHole, FillHole, Tasks
<1>4. waiting_tasks' \in [Tasks -> Tasks \cup {NULL}]
  BY <1>1 DEF CloseHole
<1>5. /\ pc' = "done" /\ TaskTracker' = TaskTracker - 1
      /\ UNCHANGED <<priorityOf, MaxPIndex, entered>>
  BY DEF CloseHole
<1> QED BY <1>1, <1>3, <1>4, <1>5 DEF WakeInv, WakesWinner

\* The loop invariants and the result together are inductive.
LEMMA WakeInductive ==
  ASSUME Priorities \subseteq 0 .. Int8Max
  PROVE  WakeSpec => [](WakeInv /\ WakesWinner)
<1>1. WakeInv /\ WakesWinner /\ [WakeNext]_wakeVars => WakeInv' /\ WakesWinner'
  <2> SUFFICES ASSUME WakeInv, WakesWinner, [WakeNext]_wakeVars PROVE WakeInv' /\ WakesWinner'
    OBVIOUS
  <2>1. CASE UNCHANGED wakeVars
    BY <2>1 DEF wakeVars, WakeInv, WakesWinner
  <2> QED BY <2>1, ScanWake, StartShiftWake, ShiftWake, CloseHoleWake DEF WakeNext
<1> QED BY InitWake, <1>1, PTL DEF WakeSpec

\* The loop invariant (Kernel/Semaphore.c and Kernel/Mutex.c).
THEOREM WakeInvariant ==
  ASSUME Priorities \subseteq 0 .. Int8Max
  PROVE  WakeSpec => []WakeInv
BY WakeInductive, PTL

\* The waiter that is taken out is the first one of the highest priority,
\* and the others keep their order.
THEOREM LoopsTakeWinner ==
  ASSUME Priorities \subseteq 0 .. Int8Max
  PROVE  WakeSpec => []WakesWinner
BY WakeInductive, PTL

-----------------------------------------------------------------------------
(* The loop of os_malloc.                                                  *)

LEMMA WalkInitInv == WalkInit => WalkInv
BY HeapInitInv, HeapAssumption DEF WalkInit, WalkInv, NoHeader, HeapInv, Tiled

\* Each step of the walk is a step of the heap, and keeps the walk's invariant.
LEMMA WalkStep == WalkInv /\ [WalkNext]_walkVars => WalkInv' /\ [HeapNext]_heapVars
<1> SUFFICES ASSUME WalkInv, [WalkNext]_walkVars PROVE WalkInv' /\ [HeapNext]_heapVars
  OBVIOUS
<1>1. /\ HeapInv /\ HEAP_SIZE \in Nat /\ SIZEOF_HEADER \in Nat \ {0} /\ Requests \subseteq Nat
      /\ \A h \in DOMAIN heap : h \in Nat
  BY HeapAssumption DEF WalkInv, HeapInv, Tiled
<1>2. CASE UNCHANGED heapVars
  <2>1. HeapInv'
    BY <1>2, <1>1, HeapStepInv
  <2>2. \A h \in DOMAIN heap : Fits(h, request)' = Fits(h, request')
    BY <1>2 DEF heapVars, Fits
  <2>3. CASE Call
    <3>1. Current' = 0 /\ request' \in sizes /\ UNCHANGED <<heap, owned, sizes>>
      BY <2>3 DEF Call, heapVars
    <3>2. 0 \in DOMAIN heap /\ request' \in Nat
      BY <1>1, <3>1 DEF HeapInv, Tiled
    <3>3. \A h \in DOMAIN heap' : ~(h < Current')
      BY <1>1, <3>1
    <3>4. \A h \in DOMAIN heap' : h < Current' => ~Fits(h, request)'
      BY <3>3
    <3>5. Current' \in DOMAIN heap'
      BY <3>1, <3>2
    <3>6. request' \in sizes'
      BY <3>1
    <3>7. WalkInv'
      BY <2>1, <3>2, <3>4, <3>5, <3>6 DEF WalkInv
    <3> QED BY <1>2, <3>7
  <2>4. CASE ReturnNull
    BY <2>1, <2>4, <1>1, <1>2 DEF ReturnNull, WalkInv, heapVars, NoHeader
  <2>5. CASE Advance
    <3>1. /\ Current \in DOMAIN heap /\ Current' = NextHeader(Current)
          /\ ~Fits(Current, request) /\ request' = request /\ Current # NoHeader
      BY <2>5, <1>1 DEF Advance, InArray, WalkInv
    <3>2. /\ NextHeader(Current) \in DOMAIN heap \cup {HEAP_SIZE} /\ NextHeader(Current) \in Nat
          /\ \A g \in DOMAIN heap : Current < g => NextHeader(Current) <= g
      BY <3>1, <1>1 DEF HeapInv, Tiled
    <3>3. \A h \in DOMAIN heap : h < NextHeader(Current) => h <= Current
      BY <3>1, <3>2, <1>1
    <3>4. \A h \in DOMAIN heap : h < NextHeader(Current) => ~Fits(h, request)
      BY <3>1, <3>3, <1>1 DEF WalkInv
    <3>5. \A h \in DOMAIN heap' : h < Current' => ~Fits(h, request)'
      BY <3>1, <3>4, <2>2, <1>2 DEF heapVars
    <3>6. QED
      BY <2>1, <3>1, <3>2, <3>5, <1>2 DEF WalkInv, heapVars
  <2>6. CASE UNCHANGED walkVars
    BY <2>1, <2>6, <2>2 DEF WalkInv, walkVars, heapVars
  <2>7. CASE ReturnBlock
    BY <2>1, <2>7, <1>1, <1>2 DEF ReturnBlock, WalkInv, heapVars, NoHeader
  <2>8. CASE Free
    BY <2>1, <2>8, <1>2, <2>2 DEF Free, WalkInv, heapVars
  <2>9. QED
    BY <1>2, <2>3, <2>4, <2>5, <2>6, <2>7, <2>8 DEF WalkNext
<1>3. CASE ReturnBlock
  <2>1. /\ Current \in DOMAIN heap /\ request \in sizes /\ request \in Nat /\ sizes' = sizes
        /\ Fits(Current, request) /\ Take(Current, request) /\ Current' = NoHeader /\ request' = request
    BY <1>3, <1>1 DEF ReturnBlock, InArray, WalkInv, HeapInv
  <2>2. HeapInv'
    BY <2>1, <1>1, TakeInv
  <2>3. Grant(request)
    BY <2>1 DEF Grant, WalkInv
  <2>4. HeapNext
    BY <2>1, <2>3 DEF HeapNext, os_malloc
  <2>5. \A h \in DOMAIN heap' : ~(h < NoHeader)
    BY <2>2 DEF HeapInv, Tiled, NoHeader
  <2>6. QED
    BY <2>1, <2>2, <2>4, <2>5 DEF WalkInv
<1>4. CASE Free
  <2>1. PICK b \in owned : os_free(b)
    BY <1>4 DEF Free
  <2>2. sizes' = sizes /\ Current' = NoHeader /\ request' = request /\ request \in Nat
    BY <1>4 DEF Free, WalkInv
  <2>3. HeapInv'
    BY <2>1, <2>2, <1>1, FreeInv
  <2>4. \A h \in DOMAIN heap' : ~(h < NoHeader)
    BY <2>3 DEF HeapInv, Tiled, NoHeader
  <2>5. HeapNext
    BY <2>1, <2>2 DEF HeapNext
  <2>6. QED
    BY <2>2, <2>3, <2>4, <2>5 DEF WalkInv
<1>5. QED
  BY <1>2, <1>3, <1>4 DEF WalkNext, Call, ReturnNull, Advance, walkVars

\* The walk looks at headers only, and everything behind it is unfit.
THEOREM WalkInvariant == WalkSpec => []WalkInv
BY WalkInitInv, WalkStep, PTL DEF WalkSpec

\* The loop gives out the first block that fits and returns NULL only if
\* there is none.
THEOREM WalkFindsFirstFit == WalkSpec => WalkIsFirstFit
<1>1. WalkInit => HeapInit
  BY DEF WalkInit
<1>2. WalkInv /\ Current >= HEAP_SIZE => Refused(request)
  <2> SUFFICES ASSUME WalkInv, Current >= HEAP_SIZE, NEW h \in DOMAIN heap
               PROVE  ~Fits(h, request)
    BY DEF Refused
  <2>1. h \in Nat /\ NextHeader(h) <= HEAP_SIZE /\ NextHeader(h) \in Nat /\ h < NextHeader(h)
    BY HeapAssumption DEF WalkInv, HeapInv, Tiled, NextHeader
  <2>2. Current \in Nat
    BY HeapAssumption DEF WalkInv, HeapInv, Tiled, NoHeader
  <2>3. h < Current
    BY <2>1, <2>2, HeapAssumption
  <2>4. QED
    BY <2>3 DEF WalkInv
\* A call that gives out a block adds an owner.
<1>3. WalkInv /\ ReturnBlock => owned' # owned
  <2> SUFFICES ASSUME WalkInv, ReturnBlock, owned' = owned PROVE FALSE
    OBVIOUS
  <2> DEFINE b == [data |-> Current + SIZEOF_HEADER, size |-> request]
  <2>1. b \in owned /\ heap[Current].is_free
    BY DEF ReturnBlock, Take, Fits
  <2>2. ~heap[b.data - SIZEOF_HEADER].is_free
    BY <2>1 DEF WalkInv, HeapInv, OwnersAgree
  <2>3. Current \in Int /\ SIZEOF_HEADER \in Int
    BY HeapAssumption DEF WalkInv, HeapInv, Tiled, NoHeader
  <2>4. b.data - SIZEOF_HEADER = Current
    BY <2>3
  <2>5. QED
    BY <2>1, <2>2, <2>4
<1>4. WalkInv /\ [WalkNext]_walkVars =>
        [Current # NoHeader /\ Current' = NoHeader /\ owned' = owned => Refused(request)]_walkVars
  <2> SUFFICES ASSUME WalkInv, WalkNext,
                      Current # NoHeader, Current' = NoHeader, owned' = owned
               PROVE  Refused(request)
    OBVIOUS
  <2>1. ~Call /\ ~Free
    BY DEF Call, Free
  <2>2. ~ReturnBlock
    BY <1>3
  <2>3. ~Advance
    <3> SUFFICES ASSUME Advance PROVE FALSE
      OBVIOUS
    <3>1. Current \in DOMAIN heap
      BY HeapAssumption DEF WalkInv, HeapInv, Tiled, Advance, InArray, NoHeader
    <3>2. NextHeader(Current) \in Nat
      BY <3>1, HeapAssumption DEF HeapInv, WalkInv, Tiled, NextHeader
    <3>3. QED
      BY <3>2 DEF Advance, NoHeader
  <2>4. QED
    BY <1>2, <2>1, <2>2, <2>3 DEF WalkNext, ReturnNull
<1>5. QED
  BY <1>1, <1>4, WalkInvariant, WalkStep, PTL DEF WalkSpec, HeapSpec, WalkIsFirstFit

\* The walk cannot go round in circles: every step of os_malloc's loop returns
\* or goes on at a higher address, up to the end of the array
\* (Kernel/os_malloc.c).
THEOREM WalkGoesOn == WalkSpec => WalkProgresses
<1>1. WalkInv /\ [WalkNext]_walkVars =>
        [Current # NoHeader =>
           Current' = NoHeader \/ (Current < Current' /\ Current' <= HEAP_SIZE)]_walkVars
  <2> SUFFICES ASSUME WalkInv, [WalkNext]_walkVars, walkVars' # walkVars, Current # NoHeader,
                      Current' # NoHeader
               PROVE  Current < Current' /\ Current' <= HEAP_SIZE
    OBVIOUS
  <2>1. Advance
    BY DEF WalkNext, Call, ReturnNull, ReturnBlock, Free
  <2>2. Current \in DOMAIN heap /\ Current' = NextHeader(Current)
    BY <2>1, HeapAssumption DEF Advance, InArray, WalkInv
  <2>3. Current < NextHeader(Current) /\ NextHeader(Current) <= HEAP_SIZE
    BY <2>2, HeapAssumption DEF WalkInv, HeapInv, Tiled, NextHeader
  <2> QED BY <2>2, <2>3
<1> QED BY <1>1, WalkInvariant, PTL DEF WalkSpec, WalkProgresses
=============================================================================
