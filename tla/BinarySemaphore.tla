-------------------------- MODULE BinarySemaphore ---------------------------
(***************************************************************************)
(* What the semaphores promise: one signal is remembered, and only while   *)
(* nobody waits; otherwise a signal releases exactly one waiter, one of    *)
(* the highest priority, and is used up by it.                             *)
(***************************************************************************)
CONSTANTS
  Sems, Clients,
  _ \preceq _      \* the order of the priorities

VARIABLES
  signalled, \* the semaphores that remember a signal
  waiters,   \* for each semaphore the tasks blocked on it
  prio       \* the priorities, which the rest of the system may change

semVars == <<signalled, waiters>>

Init == signalled = {} /\ waiters = [s \in Sems |-> {}]

Take(s) ==
  /\ s \in signalled
  /\ signalled' = signalled \ {s}
  /\ UNCHANGED waiters

Queue(s, t) ==
  /\ s \notin signalled
  /\ \A r \in Sems : t \notin waiters[r]
  /\ waiters' = [waiters EXCEPT ![s] = @ \cup {t}]
  /\ UNCHANGED signalled

Post(s) ==
  /\ waiters[s] = {}
  /\ signalled' = signalled \cup {s}
  /\ UNCHANGED waiters

Wake(s, t) ==
  /\ s \notin signalled
  /\ t \in waiters[s]
  /\ \A u \in waiters[s] : prio[u] \preceq prio[t]
  /\ waiters' = [waiters EXCEPT ![s] = @ \ {t}]
  /\ UNCHANGED signalled

Next ==
  \E s \in Sems :
    Take(s) \/ Post(s) \/ \E t \in Clients : Queue(s, t) \/ Wake(s, t)

Spec == Init /\ [][Next]_semVars
=============================================================================
