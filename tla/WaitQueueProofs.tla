-------------------------- MODULE WaitQueueProofs ---------------------------
(***************************************************************************)
(* What the operations on a wait queue do to the set of its waiters, and   *)
(* why waiting_tasks, with one entry per task, can never be overrun.       *)
(***************************************************************************)
EXTENDS WaitQueue, FiniteSets, FiniteSetTheorems, TLAPS

\* Enlist adds one waiter and keeps the queue well-formed.
LEMMA EnlistAdds ==
  ASSUME NEW w, NEW n, WellFormed(w, n), n + 1 \in Tasks,
         NEW t \in Tasks, t \notin Waiters(w, n)
  PROVE  /\ WellFormed(Enlist(w, n, t), n + 1)
         /\ Waiters(Enlist(w, n, t), n + 1) = Waiters(w, n) \cup {t}
<1> DEFINE e == Enlist(w, n, t)
<1>1. /\ e \in [Tasks -> Tasks \cup {NULL}]
      /\ e[n] = t
      /\ \A i \in 0 .. n - 1 : e[i] = w[i]
      /\ n \in Nat
      /\ 0 .. (n + 1) - 1 = (0 .. n - 1) \cup {n}
  BY TasksAssumption DEF WellFormed, Enlist, Tasks
<1>2. Waiters(e, n + 1) = Waiters(w, n) \cup {t}
  BY <1>1 DEF Waiters
<1>3. Distinct(e, n + 1)
  <2> SUFFICES ASSUME NEW i \in 0 .. n, NEW j \in 0 .. n, e[i] = e[j]
               PROVE  i = j
    BY <1>1 DEF Distinct
  <2>1. CASE i = n /\ j # n
    <3>1. j \in 0 .. n - 1 /\ w[j] = t
      BY <2>1, <1>1
    <3> QED BY <3>1 DEF Waiters
  <2>2. CASE i # n /\ j = n
    <3>1. i \in 0 .. n - 1 /\ w[i] = t
      BY <2>2, <1>1
    <3> QED BY <3>1 DEF Waiters
  <2>3. CASE i # n /\ j # n
    BY <2>3, <1>1 DEF WellFormed, Distinct
  <2> QED BY <2>1, <2>2, <2>3
<1>4. \A i \in 0 .. n : e[i] \in Tasks
  BY <1>1 DEF WellFormed
<1> QED BY <1>1, <1>2, <1>3, <1>4 DEF WellFormed

\* FillHole removes exactly the chosen waiter and keeps the queue well-formed.
LEMMA FillHoleRemoves ==
  ASSUME NEW w, NEW n, WellFormed(w, n), NEW k \in 0 .. n - 1
  PROVE  /\ WellFormed(FillHole(w, n, k), n - 1)
         /\ Waiters(FillHole(w, n, k), n - 1) = Waiters(w, n) \ {w[k]}
<1> DEFINE f == FillHole(w, n, k)
           From(i) == IF i < k THEN i ELSE i + 1
<1>1. n \in Nat /\ n > 0 /\ n - 1 \in Tasks /\ k \in Nat /\ k < n
  BY TasksAssumption DEF WellFormed, Tasks
<1>2. \A i \in 0 .. n - 2 :
        /\ From(i) \in 0 .. n - 1 /\ From(i) # k
        /\ f[i] = w[From(i)]
  BY <1>1, TasksAssumption DEF WellFormed, FillHole, Tasks
<1>3. f \in [Tasks -> Tasks \cup {NULL}]
  BY <1>1, TasksAssumption DEF WellFormed, FillHole, Tasks
<1>4. \A i \in 0 .. n - 2 : f[i] \in Tasks
  BY <1>2 DEF WellFormed
<1>5. Distinct(f, n - 1)
  <2> SUFFICES ASSUME NEW i \in 0 .. n - 2, NEW j \in 0 .. n - 2, f[i] = f[j]
               PROVE  i = j
    BY <1>1 DEF Distinct
  <2>1. From(i) = From(j)
    BY <1>2 DEF WellFormed, Distinct
  <2> QED BY <2>1, <1>1
<1>6. Waiters(f, n - 1) \subseteq Waiters(w, n) \ {w[k]}
  <2> SUFFICES ASSUME NEW i \in 0 .. n - 2
               PROVE  f[i] \in Waiters(w, n) \ {w[k]}
    BY <1>1 DEF Waiters
  <2> QED BY <1>2 DEF WellFormed, Distinct, Waiters
<1>7. Waiters(w, n) \ {w[k]} \subseteq Waiters(f, n - 1)
  <2> SUFFICES ASSUME NEW i \in 0 .. n - 1, w[i] # w[k]
               PROVE  w[i] \in Waiters(f, n - 1)
    BY DEF Waiters
  <2> DEFINE j == IF i < k THEN i ELSE i - 1
  <2>1. i # k /\ j \in 0 .. n - 2 /\ From(j) = i
    BY <1>1
  <2> QED BY <2>1, <1>2, <1>1 DEF Waiters
<1> QED BY <1>1, <1>3, <1>4, <1>5, <1>6, <1>7 DEF WellFormed

\* A queue in which neither the idle task nor t waits has an entry left for t.
LEMMA QueueHasRoom ==
  ASSUME NEW w, NEW n, WellFormed(w, n),
         NEW t \in Tasks, t # Idle, t \notin Waiters(w, n), Idle \notin Waiters(w, n)
  PROVE  n + 1 \in Tasks
<1> SUFFICES ASSUME n + 1 \notin Tasks
             PROVE  FALSE
  OBVIOUS
<1> DEFINE S == 0 .. n - 1
           T == (Tasks \ {Idle}) \ {t}
<1>1. NUMBER_OF_TASKS \in Nat /\ NUMBER_OF_TASKS > 1 /\ n = NUMBER_OF_TASKS - 1 /\ n \in Nat
  BY TasksAssumption DEF WellFormed, Tasks
<1>2. IsFiniteSet(S) /\ Cardinality(S) = n
  BY <1>1, FS_Interval
<1>3. IsFiniteSet(Tasks) /\ Cardinality(Tasks) = NUMBER_OF_TASKS
  BY <1>1, FS_Interval DEF Tasks
<1>4. Idle \in Tasks
  BY <1>1 DEF Idle, Tasks
<1>5. IsFiniteSet(Tasks \ {Idle}) /\ Cardinality(Tasks \ {Idle}) = NUMBER_OF_TASKS - 1
  BY <1>3, <1>4, FS_RemoveElement
<1>6. IsFiniteSet(T) /\ Cardinality(T) = NUMBER_OF_TASKS - 2
  BY <1>5, <1>1, FS_RemoveElement
<1> DEFINE g == [i \in S |-> w[i]]
<1>7. g \in [S -> T]
  BY DEF WellFormed, Waiters
<1>8. \E i, j \in S : i # j /\ g[i] = g[j]
  <2>1. Cardinality(T) < Cardinality(S)
    BY <1>1, <1>2, <1>6
  <2> HIDE DEF S, T, g
  <2> QED BY <2>1, <1>2, <1>6, <1>7, FS_PigeonHole
<1> QED BY <1>8 DEF WellFormed, Distinct
=============================================================================
