------------------------------- MODULE MCApp --------------------------------
(* The application of App/tasks.c and the tests of docs/code_snippets.md   *)
(* in the slots of main.c, sleeps scaled down.                             *)
EXTENDS App, TLC

CONSTANTS Mx, smpObject

MainPriorities == [t \in 0 .. 4 |-> IF t = 4 THEN 0 ELSE t + 1]

Call(name, arg) == [call |-> name, arg |-> arg]

\* The same of every call of every script.
Throughout(script, x) == [t \in DOMAIN script |-> [i \in DOMAIN script[t] |-> x]]

\* A test that neither locks a mutex nor uses the heap.
Plain(script, loopFrom) ==
  [Script |-> script, LoopFrom |-> loopFrom,
   Holds |-> Throughout(script, {}), Needs |-> Throughout(script, 0)]

\* "Priority Inversion Test", 125 ms a tick: task1 locks, task2 hogs the CPU
\* after a while, task3 wants the mutex, task4 is the heartbeat.
Inversion ==
  LET script ==
        0 :> <<Call("lock", Mx), Call("work", 0), Call("unlock", Mx), Call("sleep", 1)>> @@
        1 :> <<Call("sleep", 4), Call("work", 0)>> @@
        2 :> <<Call("sleep", 8), Call("lock", Mx), Call("work", 0),
               Call("unlock", Mx), Call("sleep", 4)>> @@
        3 :> <<Call("sleep", 2)>>
  IN [Plain(script, 0 :> 1 @@ 1 :> 2 @@ 2 :> 2 @@ 3 :> 1) EXCEPT
        !.Holds[0] = <<{}, {Mx}, {Mx}, {}>>,
        !.Holds[2] = <<{}, {}, {Mx}, {Mx}, {}>>]

\* "Semaphore Producer Consumer Test", 100 ms a tick; the consumer in the slot
\* of the highest priority and the producer in the next.
ProducerConsumer ==
  Plain(0 :> <<Call("sleep", 5)>> @@
        1 :> <<Call("sleep", 5)>> @@
        2 :> <<Call("sleep", 5), Call("signal", smpObject), Call("work", 0), Call("sleep", 1)>> @@
        3 :> <<Call("wait", smpObject), Call("work", 0), Call("sleep", 1)>>,
        [t \in 0 .. 3 |-> 1])

Sleepers(n) == [t \in 0 .. 3 |-> <<Call("sleep", n)>>]

\* App/tasks.c, 250 ms a tick: task2 prints how long a switch took.
Shipped ==
  Plain(1 :> <<Call("print", 0), Call("sleep", 2)>> @@ Sleepers(2), [t \in 0 .. 3 |-> 1])

\* "Heap Allocation", 250 ms a tick: malloc, free and malloc again; three blocks
\* of 20, 4 and 8 bytes; and 50 bytes until nothing is left.  (The blinks with
\* which the last one shows its count are left out.)
HeapTest(calls, needs) ==
  [Plain(0 :> Append(calls, Call("sleep", 4)) @@ Sleepers(2),
         [t \in 0 .. 3 |-> IF t = 0 THEN Len(calls) + 1 ELSE 1]) EXCEPT !.Needs[0] = needs]

HeapTests ==
  {HeapTest(<<Call("malloc", 20), Call("free", 0), Call("malloc", 20)>>, <<56, 28, 28, 0>>),
   HeapTest(<<Call("malloc", 20), Call("malloc", 4), Call("malloc", 8)>>, <<56, 28, 16, 0>>),
   HeapTest(<<Call("exhaust", 50)>>, <<0, 0>>)}

AllApplications == {Inversion, ProducerConsumer, Shipped} \cup HeapTests
=============================================================================
