---------------------------- MODULE PriorityLock ----------------------------
(***************************************************************************)
(* What the mutexes promise, whatever their queues look like: a lock has   *)
(* one holder, the tasks that ask for it later wait, and a release hands   *)
(* it to a waiter of the highest priority, or to nobody when nobody waits. *)
(***************************************************************************)
CONSTANTS
  Locks, Clients,
  Nobody,          \* the holder of a free lock
  _ \preceq _      \* the order of the priorities

VARIABLES
  holder,  \* for each lock the task that has it, or Nobody
  waiters, \* for each lock the tasks blocked on it
  prio     \* the priorities, which the rest of the system may change

lockVars == <<holder, waiters>>

Init == holder = [l \in Locks |-> Nobody] /\ waiters = [l \in Locks |-> {}]

Acquire(l, t) ==
  /\ holder[l] = Nobody
  /\ holder' = [holder EXCEPT ![l] = t]
  /\ UNCHANGED waiters

Queue(l, t) ==
  /\ holder[l] # Nobody
  /\ \A k \in Locks : t \notin waiters[k]
  /\ waiters' = [waiters EXCEPT ![l] = @ \cup {t}]
  /\ UNCHANGED holder

Release(l) ==
  /\ holder[l] # Nobody
  /\ waiters[l] = {}
  /\ holder' = [holder EXCEPT ![l] = Nobody]
  /\ UNCHANGED waiters

HandOver(l, t) ==
  /\ t \in waiters[l]
  /\ \A u \in waiters[l] : prio[u] \preceq prio[t]
  /\ holder' = [holder EXCEPT ![l] = t]
  /\ waiters' = [waiters EXCEPT ![l] = @ \ {t}]

Next ==
  \E l \in Locks :
    Release(l) \/ \E t \in Clients : Acquire(l, t) \/ Queue(l, t) \/ HandOver(l, t)

Spec == Init /\ [][Next]_lockVars
=============================================================================
