------------------------------ MODULE HeapWalk ------------------------------
(***************************************************************************)
(* The loop of os_malloc, one header a step (Kernel/os_malloc.c).  One     *)
(* task at a time uses the heap, as in the tests: os_malloc does not mask  *)
(* interrupts, and a second task that calls it inside the loop could be    *)
(* given the same block.                                                   *)
(***************************************************************************)
EXTENDS Heap

NoHeader == -1

VARIABLES
  Current, \* the header the loop looks at; NoHeader outside of os_malloc
  request  \* the size of the call in progress

walkVars == <<heapVars, Current, request>>

WalkInit == HeapInit /\ Current = NoHeader /\ request = 0

Call ==
  /\ Current = NoHeader
  /\ \E n \in sizes : request' = n
  /\ Current' = 0
  /\ UNCHANGED heapVars

\* The walk is past the end of the array: return NULL.
ReturnNull ==
  /\ Current >= HEAP_SIZE
  /\ Current' = NoHeader
  /\ UNCHANGED <<heapVars, request>>

InArray == Current # NoHeader /\ Current < HEAP_SIZE

\* The block is free and big enough: take it and return its payload.
ReturnBlock ==
  /\ InArray
  /\ Fits(Current, request)
  /\ Take(Current, request)
  /\ Current' = NoHeader
  /\ UNCHANGED <<sizes, request>>

\* Mutants: the step is taken twice; and a free block that is too small is
\* not stepped over.
AdvanceTwice ==
  /\ InArray
  /\ ~Fits(Current, request)
  /\ LET next == NextHeader(Current)
     IN Current' = IF next < HEAP_SIZE THEN NextHeader(next) ELSE next
  /\ UNCHANGED <<heapVars, request>>
AdvanceOverUsed ==
  /\ InArray
  /\ ~heap[Current].is_free
  /\ Current' = NextHeader(Current)
  /\ UNCHANGED <<heapVars, request>>

Advance ==
  /\ InArray
  /\ ~Fits(Current, request)
  /\ Current' = NextHeader(Current)
  /\ UNCHANGED <<heapVars, request>>

Free ==
  /\ Current = NoHeader
  /\ \E b \in owned : os_free(b)
  /\ UNCHANGED <<sizes, Current, request>>

WalkNext == Call \/ ReturnNull \/ ReturnBlock \/ Advance \/ Free

WalkSpec == WalkInit /\ [][WalkNext]_walkVars /\ WF_walkVars(ReturnNull \/ ReturnBlock \/ Advance)

-----------------------------------------------------------------------------
\* The loop only looks at headers, and all blocks behind it are unfit.
WalkInv ==
  /\ HeapInv
  /\ request \in Nat
  /\ Current \in DOMAIN heap \cup {NoHeader, HEAP_SIZE}
  /\ Current # NoHeader => request \in sizes
  /\ \A h \in DOMAIN heap : h < Current => ~Fits(h, request)

\* The loop gives out the first block that fits, and refuses only if none does.
WalkIsFirstFit ==
  /\ HeapSpec
  /\ [][Current # NoHeader /\ Current' = NoHeader /\ owned' = owned
          => Refused(request)]_walkVars

\* Each step of a call returns or gets closer to the end of the array
\* (LoopProofs.tla).
WalkProgresses ==
  [][Current # NoHeader =>
       Current' = NoHeader \/ (Current < Current' /\ Current' <= HEAP_SIZE)]_walkVars

\* Every call returns: the walk cannot go round in circles.
WalkReturns == Current # NoHeader ~> Current = NoHeader
=============================================================================
