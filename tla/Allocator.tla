----------------------------- MODULE Allocator ------------------------------
(***************************************************************************)
(* What a heap promises its callers: the blocks in use lie inside the heap *)
(* and share no byte, and no two of them have the same address.  Headers,  *)
(* splitting and the order of the search are left open.                    *)
(***************************************************************************)
EXTENDS Integers

CONSTANTS
  HEAP_SIZE, \* bytes
  Requests   \* the sizes that callers ask for

VARIABLE used \* the blocks in use, [data : address, size : bytes asked for]

Overlap(b, c) == b.data < c.data + c.size /\ c.data < b.data + b.size

Init == used = {}

Allocate(b) ==
  /\ b.data >= 0 /\ b.data + b.size <= HEAP_SIZE
  /\ \A c \in used : c.data # b.data /\ ~Overlap(b, c)
  /\ used' = used \cup {b}

Release(b) == used' = used \ {b}

Next ==
  \/ \E n \in Requests, d \in 0 .. HEAP_SIZE : Allocate([data |-> d, size |-> n])
  \/ \E b \in used : Release(b)

Spec == Init /\ [][Next]_used
=============================================================================
