-------------------------------- MODULE Heap --------------------------------
(***************************************************************************)
(* The heap (Kernel/os_malloc.c): one static array in which every block    *)
(* starts with a header; os_malloc takes the first free block that is big  *)
(* enough and splits it, os_free marks it free.  A call is one action.     *)
(*                                                                         *)
(* An address is an offset into heap_array.  Callers free what they were   *)
(* given, once: os_free does not check its argument.                       *)
(***************************************************************************)
EXTENDS Integers, FiniteSets

CONSTANTS
  HEAP_SIZE,     \* bytes of heap_array
  SIZEOF_HEADER, \* sizeof(Header)
  Requests       \* the sizes that callers may ask for

ASSUME HeapAssumption ==
  /\ HEAP_SIZE \in Nat /\ SIZEOF_HEADER \in Nat \ {0} /\ SIZEOF_HEADER <= HEAP_SIZE
  /\ Requests \subseteq Nat

VARIABLES
  heap,  \* the headers: at each address of one, its size and is_free
  owned, \* the callers' pointers: blocks given out and not yet freed
  sizes  \* the sizes that this program's callers ask for

heapVars == <<heap, owned, sizes>>

\* Where the walk over the headers goes from h.
NextHeader(h) == h + SIZEOF_HEADER + heap[h].size

\* Initially one free block that spans the array.
OS_HeapInit ==
  heap = [h \in {0} |-> [size |-> HEAP_SIZE - SIZEOF_HEADER, is_free |-> TRUE]]

HeapInit ==
  /\ OS_HeapInit
  /\ owned = {}
  /\ sizes \in SUBSET Requests \ {{}}

\* Mutants: is_free is not looked at; and a block must be larger than asked.
FitsIfUsed(h, n) == heap[h].size >= n
FitsStrictly(h, n) == heap[h].size > n /\ heap[h].is_free

Fits(h, n) == heap[h].size >= n /\ heap[h].is_free

\* Mutants: the remainder keeps the space of its own header; and it is split
\* off whenever there is any.
CarvedLong(h, n) ==
  LET remaining_size == heap[h].size - n
      leftOver == h + SIZEOF_HEADER + n
      used == [size |-> n, is_free |-> FALSE]
  IN IF remaining_size > SIZEOF_HEADER
     THEN [g \in DOMAIN heap \cup {leftOver} |->
            IF g = h THEN used
            ELSE IF g = leftOver THEN [size |-> remaining_size, is_free |-> TRUE]
            ELSE heap[g]]
     ELSE [heap EXCEPT ![h].is_free = FALSE]
CarvedAlways(h, n) ==
  LET leftOver == h + SIZEOF_HEADER + n IN
  [g \in DOMAIN heap \cup {leftOver} |->
     IF g = h THEN [size |-> n, is_free |-> FALSE]
     ELSE IF g = leftOver
     THEN [size |-> heap[h].size - n - SIZEOF_HEADER, is_free |-> TRUE]
     ELSE heap[g]]

\* The headers once n bytes are taken from block h: a remainder too small for
\* a header and a byte stays with the block.
Carved(h, n) ==
  LET remaining_size == heap[h].size - n
      leftOver == h + SIZEOF_HEADER + n
  IN IF remaining_size > SIZEOF_HEADER
     THEN [g \in DOMAIN heap \cup {leftOver} |->
            IF g = h THEN [size |-> n, is_free |-> FALSE]
            ELSE IF g = leftOver
            THEN [size |-> remaining_size - SIZEOF_HEADER, is_free |-> TRUE]
            ELSE heap[g]]
     ELSE [heap EXCEPT ![h].is_free = FALSE]

\* Block h is given out for a request of n bytes.
Take(h, n) ==
  /\ heap' = Carved(h, n)
  /\ owned' = owned \cup {[data |-> h + SIZEOF_HEADER, size |-> n]}

\* os_malloc finds a block: the first one that fits.
Grant(n) ==
  \E h \in DOMAIN heap :
    /\ Fits(h, n)
    /\ \A g \in DOMAIN heap : g < h => ~Fits(g, n)
    /\ Take(h, n)

\* os_malloc returns NULL.
Refused(n) == \A h \in DOMAIN heap : ~Fits(h, n)
Refuse(n) == Refused(n) /\ UNCHANGED <<heap, owned>>

os_malloc(n) == Grant(n) \/ Refuse(n)

os_free(b) ==
  /\ heap' = [heap EXCEPT ![b.data - SIZEOF_HEADER].is_free = TRUE]
  /\ owned' = owned \ {b}

\* os_free(NULL) returns at once: a stuttering step.
HeapNext ==
  /\ \/ \E n \in sizes : os_malloc(n)
     \/ \E b \in owned : os_free(b)
  /\ UNCHANGED sizes

HeapSpec == HeapInit /\ [][HeapNext]_heapVars

-----------------------------------------------------------------------------
\* The headers tile the array: from each header the walk gets to the next one
\* or exactly to the end, and no header lies inside another block.
Tiled ==
  /\ 0 \in DOMAIN heap
  /\ \A h \in DOMAIN heap :
       /\ h \in Nat
       /\ heap[h] \in [size : Nat, is_free : BOOLEAN]
       /\ NextHeader(h) \in DOMAIN heap \cup {HEAP_SIZE} /\ NextHeader(h) <= HEAP_SIZE
       /\ \A g \in DOMAIN heap : h < g => NextHeader(h) <= g

\* The headers and the callers agree: the blocks that are not free are the
\* ones somebody owns, each owned by one pointer and at least as large as
\* what was asked for.
OwnersAgree ==
  /\ \A b \in owned :
       /\ b \in [data : Nat, size : Nat]
       /\ b.data - SIZEOF_HEADER \in DOMAIN heap
       /\ ~heap[b.data - SIZEOF_HEADER].is_free
       /\ b.size <= heap[b.data - SIZEOF_HEADER].size
       /\ \A c \in owned : b.data = c.data => b = c
  /\ \A h \in DOMAIN heap :
       ~heap[h].is_free => \E b \in owned : b.data = h + SIZEOF_HEADER

HeapInv == sizes \subseteq Requests /\ Tiled /\ OwnersAgree

\* A caller that stays within what it asked for writes no byte of a header
\* and no byte outside the array.
HeadersSafe ==
  \A b \in owned :
    /\ b.data >= 0 /\ b.data + b.size <= HEAP_SIZE
    /\ \A h \in DOMAIN heap : h + SIZEOF_HEADER <= b.data \/ b.data + b.size <= h

\* Callers see an allocator of disjoint blocks.
Promise == INSTANCE Allocator WITH used <- owned
ImplementsAllocator == Promise!Spec

\* Blocks are never merged.  A program with a single block size loses nothing
\* by it: os_malloc fails only when as many blocks are in use as fit the
\* array, whatever was freed before (17 blocks of 50 bytes in README.md).
UniformCapacity ==
  \A n \in sizes :
    n > 0 /\ sizes = {n} /\ Refused(n) =>
      Cardinality(owned) = HEAP_SIZE \div (n + SIZEOF_HEADER)

\* The inductive invariant behind it (HeapProofs.tla): the boundaries are the
\* multiples of one distance, and only the block behind the last one may have
\* another size.
Boundary(k, n) == k * (n + SIZEOF_HEADER)
UniformTo(last, n) ==
  /\ DOMAIN heap = {Boundary(k, n) : k \in 0 .. last}
  /\ \A k \in 0 .. last - 1 : heap[Boundary(k, n)].size = n
  /\ NextHeader(Boundary(last, n)) = HEAP_SIZE
  /\ LET rest == heap[Boundary(last, n)]
     IN rest.is_free \/ rest.size \in n .. n + SIZEOF_HEADER
UniformInv ==
  \A n \in sizes :
    n > 0 /\ sizes = {n} =>
      (\E last \in 0 .. HEAP_SIZE : UniformTo(last, n)) /\ \A b \in owned : b.size = n

\* With several sizes it does: a boundary between two blocks, once made, stays
\* for ever, and so no block gets larger.
BoundariesStay ==
  [][\A h \in DOMAIN heap : h \in DOMAIN heap' /\ heap'[h].size <= heap[h].size]_heapVars
=============================================================================
