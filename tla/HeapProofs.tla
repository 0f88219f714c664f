----------------------------- MODULE HeapProofs -----------------------------
(***************************************************************************)
(* The headers tile the array and blocks in use are disjoint, for every    *)
(* heap and header size and every set of requests.                         *)
(***************************************************************************)
EXTENDS Heap, FiniteSetTheorems, TLAPS

-----------------------------------------------------------------------------
(* The invariant of the heap.                                              *)

LEMMA HeapInitInv == HeapInit => HeapInv
<1>1. SUFFICES ASSUME HeapInit PROVE HeapInv
  OBVIOUS
<1>2. Tiled
  BY <1>1, HeapAssumption DEF HeapInit, OS_HeapInit, Tiled, NextHeader
<1>3. OwnersAgree
  BY <1>1 DEF HeapInit, OS_HeapInit, OwnersAgree
<1>4. QED
  BY <1>1, <1>2, <1>3 DEF HeapInit, HeapInv

\* A block that is split leaves a tiling: the leftover ends where it ended.
LEMMA SplitInv ==
  ASSUME HeapInv, NEW h \in DOMAIN heap, NEW n \in Nat, Fits(h, n),
         heap[h].size - n > SIZEOF_HEADER, Take(h, n), UNCHANGED sizes
  PROVE  HeapInv'
<1> DEFINE g == h + SIZEOF_HEADER + n
<1>1. /\ h \in Nat /\ heap[h].size \in Nat /\ SIZEOF_HEADER \in Nat \ {0}
      /\ heap[h] \in [size : Nat, is_free : BOOLEAN] /\ heap[h].is_free
  BY HeapAssumption DEF HeapInv, Tiled, Fits
<1>2. heap' = [x \in DOMAIN heap \cup {g} |->
                 IF x = h THEN [size |-> n, is_free |-> FALSE]
                 ELSE IF x = g THEN [size |-> heap[h].size - n - SIZEOF_HEADER, is_free |-> TRUE]
                 ELSE heap[x]]
  BY DEF Take, Carved
<1>3. g \notin DOMAIN heap /\ g # h /\ g \in Nat
  BY <1>1 DEF HeapInv, Tiled, NextHeader
<1>4. /\ DOMAIN heap' = DOMAIN heap \cup {g}
      /\ heap'[h] = [size |-> n, is_free |-> FALSE]
      /\ heap'[g] = [size |-> heap[h].size - n - SIZEOF_HEADER, is_free |-> TRUE]
      /\ \A x \in DOMAIN heap \ {h} : heap'[x] = heap[x]
  BY <1>2, <1>3
<1>5. /\ NextHeader(h)' = g /\ NextHeader(g)' = NextHeader(h)
      /\ \A x \in DOMAIN heap \ {h} : NextHeader(x)' = NextHeader(x)
  BY <1>1, <1>4 DEF NextHeader
<1>6. Tiled'
  <2>1. (0 \in DOMAIN heap)'
    BY <1>4 DEF HeapInv, Tiled
  <2>2. ASSUME NEW x \in DOMAIN heap'
        PROVE  /\ x \in Nat /\ heap'[x] \in [size : Nat, is_free : BOOLEAN]
               /\ NextHeader(x)' \in DOMAIN heap' \cup {HEAP_SIZE}
               /\ NextHeader(x)' <= HEAP_SIZE
    <3>1. CASE x \notin {h, g}
      <4>1. x \in DOMAIN heap /\ heap'[x] = heap[x] /\ NextHeader(x)' = NextHeader(x)
        BY <3>1, <1>4, <1>5
      <4>2. QED
        BY <4>1, <1>4 DEF HeapInv, Tiled
    <3>2. CASE x = h
      <4>1. g <= HEAP_SIZE
        BY <1>1, HeapAssumption DEF HeapInv, Tiled, NextHeader
      <4>2. QED
        BY <3>2, <4>1, <1>1, <1>4, <1>5
    <3>3. CASE x = g
      <4>1. NextHeader(h) \in DOMAIN heap \cup {HEAP_SIZE} /\ NextHeader(h) <= HEAP_SIZE
        BY DEF HeapInv, Tiled
      <4>2. heap[h].size - n - SIZEOF_HEADER \in Nat
        BY <1>1
      <4>3. QED
        BY <3>3, <4>1, <4>2, <1>3, <1>4, <1>5
    <3>4. QED
      BY <3>1, <3>2, <3>3
  <2>3. ASSUME NEW x \in DOMAIN heap', NEW y \in DOMAIN heap', x < y
        PROVE  NextHeader(x)' <= y
    <3>1. \A u, v \in DOMAIN heap : u < v => NextHeader(u) \in Nat /\ NextHeader(u) <= v
      BY HeapAssumption DEF HeapInv, Tiled, NextHeader
    <3>2. h < g /\ g < NextHeader(h) /\ NextHeader(h) \in Nat
      BY <1>1 DEF NextHeader
    <3>3. x \in Nat /\ y \in Nat
      BY <2>2
    <3>4. CASE y = g
      <4>1. x \in DOMAIN heap
        BY <3>4, <2>3, <1>4, <1>3
      <4>2. CASE x = h
        BY <4>2, <3>4, <1>5, <1>3
      <4>3. CASE x < h
        BY <4>1, <4>3, <3>1, <3>2, <3>3, <3>4, <1>1, <1>3, <1>5
      <4>4. CASE x > h
        BY <4>1, <4>4, <3>1, <3>2, <3>3, <3>4, <1>1, <1>3, <2>3
      <4>5. QED
        BY <4>2, <4>3, <4>4, <3>3, <1>1
    <3>5. CASE y # g /\ x = g
      <4>1. y \in DOMAIN heap /\ h < y
        BY <3>5, <1>4, <3>2, <3>3, <1>1, <1>3, <2>3
      <4>2. QED
        BY <4>1, <3>1, <3>5, <1>5
    <3>6. CASE y # g /\ x # g
      <4>1. x \in DOMAIN heap /\ y \in DOMAIN heap /\ NextHeader(x) <= y
        BY <3>6, <3>1, <1>4, <2>3
      <4>2. CASE x = h
        BY <4>1, <4>2, <3>2, <3>3, <1>3, <1>5
      <4>3. CASE x # h
        BY <4>1, <4>3, <1>5
      <4>4. QED
        BY <4>2, <4>3
    <3>7. QED
      BY <3>4, <3>5, <3>6
  <2>4. QED
    BY <2>1, <2>2, <2>3 DEF Tiled
<1>7. OwnersAgree'
  <2> DEFINE b == [data |-> h + SIZEOF_HEADER, size |-> n]
  <2>1. owned' = owned \cup {b} /\ b.data = h + SIZEOF_HEADER /\ b.size = n
    BY DEF Take
  <2>2. \A c \in owned : c.data - SIZEOF_HEADER # h /\ c.data # b.data
    BY <1>1 DEF HeapInv, OwnersAgree
  <2>3. ASSUME NEW c \in owned'
        PROVE  /\ c \in [data : Nat, size : Nat]
               /\ c.data - SIZEOF_HEADER \in DOMAIN heap'
               /\ ~heap'[c.data - SIZEOF_HEADER].is_free
               /\ c.size <= heap'[c.data - SIZEOF_HEADER].size
               /\ \A d \in owned' : c.data = d.data => c = d
    <3>1. CASE c = b
      BY <3>1, <1>1, <1>4, <2>1, <2>2
    <3>2. CASE c \in owned
      BY <3>2, <1>4, <2>1, <2>2 DEF HeapInv, OwnersAgree
    <3>3. QED
      BY <3>1, <3>2, <2>1
  <2>4. ASSUME NEW x \in DOMAIN heap', ~heap'[x].is_free
        PROVE  \E c \in owned' : c.data = x + SIZEOF_HEADER
    <3>1. CASE x = h
      BY <3>1, <2>1
    <3>2. CASE x # h
      BY <3>2, <1>4, <2>1, <2>4 DEF HeapInv, OwnersAgree
    <3>3. QED
      BY <3>1, <3>2
  <2>5. QED
    BY <2>3, <2>4 DEF OwnersAgree
<1>8. QED
  BY <1>6, <1>7 DEF HeapInv

\* A block given out whole changes no boundary.
LEMMA WholeInv ==
  ASSUME HeapInv, NEW h \in DOMAIN heap, NEW n \in Nat, Fits(h, n),
         ~(heap[h].size - n > SIZEOF_HEADER), Take(h, n), UNCHANGED sizes
  PROVE  HeapInv'
<1>1. /\ heap[h] \in [size : Nat, is_free : BOOLEAN] /\ heap[h].is_free /\ n <= heap[h].size
      /\ h \in Nat /\ SIZEOF_HEADER \in Nat
  BY HeapAssumption DEF HeapInv, Tiled, Fits
<1>2. heap' = [heap EXCEPT ![h].is_free = FALSE]
  BY DEF Take, Carved
<1>3. /\ DOMAIN heap' = DOMAIN heap
      /\ heap'[h] = [size |-> heap[h].size, is_free |-> FALSE]
      /\ \A x \in DOMAIN heap \ {h} : heap'[x] = heap[x]
  BY <1>1, <1>2
<1>4. \A x \in DOMAIN heap : NextHeader(x)' = NextHeader(x)
  BY <1>3 DEF NextHeader
<1>5. Tiled'
  <2>1. ASSUME NEW x \in DOMAIN heap
        PROVE  heap'[x] \in [size : Nat, is_free : BOOLEAN]
    <3>1. CASE x = h
      BY <3>1, <1>1, <1>3
    <3>2. CASE x # h
      BY <3>2, <1>3 DEF HeapInv, Tiled
    <3>3. QED
      BY <3>1, <3>2
  <2>2. QED
    BY <2>1, <1>3, <1>4 DEF HeapInv, Tiled
<1>6. OwnersAgree'
  <2> DEFINE b == [data |-> h + SIZEOF_HEADER, size |-> n]
  <2>1. owned' = owned \cup {b} /\ b.data = h + SIZEOF_HEADER /\ b.size = n
    BY DEF Take
  <2>2. \A c \in owned : c.data - SIZEOF_HEADER # h /\ c.data # b.data
    BY <1>1 DEF HeapInv, OwnersAgree
  <2>3. ASSUME NEW c \in owned'
        PROVE  /\ c \in [data : Nat, size : Nat]
               /\ c.data - SIZEOF_HEADER \in DOMAIN heap'
               /\ ~heap'[c.data - SIZEOF_HEADER].is_free
               /\ c.size <= heap'[c.data - SIZEOF_HEADER].size
               /\ \A d \in owned' : c.data = d.data => c = d
    <3>1. CASE c = b
      BY <3>1, <1>1, <1>3, <2>1, <2>2
    <3>2. CASE c \in owned
      BY <3>2, <1>3, <2>1, <2>2 DEF HeapInv, OwnersAgree
    <3>3. QED
      BY <3>1, <3>2, <2>1
  <2>4. ASSUME NEW x \in DOMAIN heap', ~heap'[x].is_free
        PROVE  \E c \in owned' : c.data = x + SIZEOF_HEADER
    BY <1>3, <2>1, <2>4 DEF HeapInv, OwnersAgree
  <2>5. QED
    BY <2>3, <2>4 DEF OwnersAgree
<1>7. QED
  BY <1>5, <1>6 DEF HeapInv

LEMMA TakeInv ==
  ASSUME HeapInv, NEW h \in DOMAIN heap, NEW n \in Nat, Fits(h, n), Take(h, n), UNCHANGED sizes
  PROVE  HeapInv'
BY SplitInv, WholeInv

LEMMA FreeInv ==
  ASSUME HeapInv, NEW b \in owned, os_free(b), UNCHANGED sizes
  PROVE  HeapInv'
<1> DEFINE h == b.data - SIZEOF_HEADER
<1>1. /\ h \in DOMAIN heap /\ heap[h] \in [size : Nat, is_free : BOOLEAN]
      /\ h \in Nat /\ SIZEOF_HEADER \in Nat /\ b.data \in Nat /\ b.data = h + SIZEOF_HEADER
  BY HeapAssumption DEF HeapInv, Tiled, OwnersAgree
<1>2. heap' = [heap EXCEPT ![h].is_free = TRUE] /\ owned' = owned \ {b}
  BY DEF os_free
<1> HIDE DEF h
<1>3. /\ DOMAIN heap' = DOMAIN heap
      /\ heap'[h] = [size |-> heap[h].size, is_free |-> TRUE]
      /\ \A x \in DOMAIN heap \ {h} : heap'[x] = heap[x]
  BY <1>1, <1>2
<1>4. \A x \in DOMAIN heap : NextHeader(x)' = NextHeader(x)
  BY <1>3 DEF NextHeader
<1>5. Tiled'
  <2>1. ASSUME NEW x \in DOMAIN heap
        PROVE  heap'[x] \in [size : Nat, is_free : BOOLEAN]
    <3>1. CASE x = h
      BY <3>1, <1>1, <1>3
    <3>2. CASE x # h
      BY <3>2, <1>3 DEF HeapInv, Tiled
    <3>3. QED
      BY <3>1, <3>2
  <2>2. QED
    BY <2>1, <1>3, <1>4 DEF HeapInv, Tiled
<1>6. \A c \in owned' : c \in owned /\ c.data - SIZEOF_HEADER # h
  BY <1>1, <1>2 DEF HeapInv, OwnersAgree
<1>7. \A x \in DOMAIN heap' : ~heap'[x].is_free =>
        x # h /\ \E c \in owned' : c.data = x + SIZEOF_HEADER
  <2>1. ASSUME NEW x \in DOMAIN heap', ~heap'[x].is_free
        PROVE  x # h /\ \E c \in owned' : c.data = x + SIZEOF_HEADER
    <3>1. x # h /\ x \in DOMAIN heap /\ ~heap[x].is_free /\ x \in Nat
      BY <1>3, <2>1 DEF HeapInv, Tiled
    <3>2. PICK c \in owned : c.data = x + SIZEOF_HEADER
      BY <3>1 DEF HeapInv, OwnersAgree
    <3>3. c # b
      BY <3>1, <3>2, <1>1
    <3>4. QED
      BY <3>1, <3>2, <3>3, <1>2
  <2>2. QED
    BY <2>1
<1>8. OwnersAgree'
  BY <1>3, <1>6, <1>7 DEF HeapInv, OwnersAgree
<1>9. QED
  BY <1>5, <1>8 DEF HeapInv

LEMMA HeapStepInv == HeapInv /\ [HeapNext]_heapVars => HeapInv'
<1> SUFFICES ASSUME HeapInv, [HeapNext]_heapVars PROVE HeapInv'
  OBVIOUS
<1>1. CASE UNCHANGED heapVars
  BY <1>1 DEF heapVars, HeapInv, Tiled, OwnersAgree, NextHeader
<1>2. ASSUME NEW n \in sizes, Grant(n), UNCHANGED sizes PROVE HeapInv'
  <2>1. n \in Nat
    BY HeapAssumption DEF HeapInv
  <2>2. PICK h \in DOMAIN heap : Fits(h, n) /\ Take(h, n)
    BY <1>2 DEF Grant
  <2>3. QED
    BY <1>2, <2>1, <2>2, TakeInv
<1>3. ASSUME NEW n \in sizes, Refuse(n), UNCHANGED sizes PROVE HeapInv'
  BY <1>3 DEF Refuse, HeapInv, Tiled, OwnersAgree, NextHeader
<1>4. ASSUME NEW b \in owned, os_free(b), UNCHANGED sizes PROVE HeapInv'
  BY <1>4, FreeInv
<1>5. QED
  BY <1>1, <1>2, <1>3, <1>4 DEF HeapNext, os_malloc

\* The headers tile the array and agree with the callers' pointers.
THEOREM HeapInvariant == HeapSpec => []HeapInv
BY HeapInitInv, HeapStepInv, PTL DEF HeapSpec

-----------------------------------------------------------------------------
(* What callers see.                                                       *)

\* The bytes of an owned block lie in its tile, behind the header.
LEMMA InTile ==
  ASSUME HeapInv, NEW b \in owned
  PROVE  LET h == b.data - SIZEOF_HEADER IN
         /\ h \in DOMAIN heap /\ h \in Nat /\ b.data \in Nat /\ b.size \in Nat
         /\ NextHeader(h) \in Nat
         /\ b.data + b.size <= NextHeader(h) /\ NextHeader(h) <= HEAP_SIZE
<1> DEFINE h == b.data - SIZEOF_HEADER
<1>1. /\ h \in DOMAIN heap /\ h \in Nat /\ b.data \in Nat /\ b.size \in Nat
      /\ b.size <= heap[h].size /\ heap[h].size \in Nat
  BY DEF HeapInv, Tiled, OwnersAgree
<1>2. NextHeader(h) = b.data + heap[h].size
  BY <1>1, HeapAssumption DEF NextHeader
<1>3. NextHeader(h) <= HEAP_SIZE /\ NextHeader(h) \in Nat
  BY <1>1, HeapAssumption DEF HeapInv, Tiled, NextHeader
<1>4. QED
  BY <1>1, <1>2, <1>3

LEMMA HeadersSafeFollows == HeapInv => HeadersSafe
<1> SUFFICES ASSUME HeapInv, NEW b \in owned
             PROVE  /\ b.data >= 0 /\ b.data + b.size <= HEAP_SIZE
                    /\ \A g \in DOMAIN heap : g + SIZEOF_HEADER <= b.data \/ b.data + b.size <= g
  BY DEF HeadersSafe
<1> DEFINE h == b.data - SIZEOF_HEADER
<1>1. /\ h \in DOMAIN heap /\ h \in Nat /\ b.data \in Nat /\ b.size \in Nat
      /\ NextHeader(h) \in Nat /\ b.data + b.size <= NextHeader(h) /\ NextHeader(h) <= HEAP_SIZE
  BY InTile
<1>2. ASSUME NEW g \in DOMAIN heap
      PROVE  g + SIZEOF_HEADER <= b.data \/ b.data + b.size <= g
  <2>1. g \in Nat /\ SIZEOF_HEADER \in Nat
    BY HeapAssumption DEF HeapInv, Tiled
  <2>2. CASE g < h
    BY <2>1, <2>2, <1>1 DEF HeapInv, Tiled, NextHeader
  <2>3. CASE g = h
    BY <2>1, <2>3, <1>1
  <2>4. CASE h < g
    BY <2>1, <2>4, <1>1 DEF HeapInv, Tiled
  <2>5. QED
    BY <2>1, <2>2, <2>3, <2>4, <1>1
<1>3. QED
  BY <1>1, <1>2, HeapAssumption

\* Nobody who stays within a block touches a header or leaves the array.
THEOREM HeadersAreSafe == HeapSpec => []HeadersSafe
BY HeapInvariant, HeadersSafeFollows, PTL

\* A step of the heap keeps the boundaries between blocks.
LEMMA BoundaryStep ==
  HeapInv /\ [HeapNext]_heapVars =>
    [\A h \in DOMAIN heap : h \in DOMAIN heap' /\ heap'[h].size <= heap[h].size]_heapVars
<1> SUFFICES ASSUME HeapInv, HeapNext, NEW h \in DOMAIN heap
             PROVE  h \in DOMAIN heap' /\ heap'[h].size <= heap[h].size
  OBVIOUS
<1>1. heap[h] \in [size : Nat, is_free : BOOLEAN]
  BY DEF HeapInv, Tiled
<1>2. ASSUME NEW n \in sizes, Grant(n) PROVE h \in DOMAIN heap' /\ heap'[h].size <= heap[h].size
  <2>1. PICK g \in DOMAIN heap : Fits(g, n) /\ heap' = Carved(g, n)
    BY <1>2 DEF Grant, Take
  <2>2. n \in Nat /\ g + SIZEOF_HEADER + n \in Nat /\ heap[g].size \in Nat /\ SIZEOF_HEADER \in Nat
    BY HeapAssumption DEF HeapInv, Tiled
  <2>3. CASE heap[g].size - n > SIZEOF_HEADER
    <3>1. g + SIZEOF_HEADER + n \notin DOMAIN heap
      BY <2>2, <2>3, HeapAssumption DEF HeapInv, Tiled, NextHeader
    <3>2. CASE h = g
      BY <2>1, <2>2, <2>3, <3>1, <3>2, <1>1 DEF Carved, Fits
    <3>3. CASE h # g
      BY <2>1, <2>3, <3>1, <3>3, <1>1 DEF Carved
    <3>4. QED
      BY <3>2, <3>3
  <2>4. CASE ~(heap[g].size - n > SIZEOF_HEADER)
    <3>1. heap' = [heap EXCEPT ![g].is_free = FALSE]
      BY <2>1, <2>4 DEF Carved
    <3>2. QED
      BY <3>1, <1>1
  <2>5. QED
    BY <2>3, <2>4
<1>3. ASSUME NEW n \in sizes, Refuse(n) PROVE h \in DOMAIN heap' /\ heap'[h].size <= heap[h].size
  BY <1>1, <1>3 DEF Refuse
<1>4. ASSUME NEW b \in owned, os_free(b) PROVE h \in DOMAIN heap' /\ heap'[h].size <= heap[h].size
  BY <1>1, <1>4 DEF os_free
<1>5. QED
  BY <1>2, <1>3, <1>4 DEF HeapNext, os_malloc

\* Boundaries between blocks are never removed: nothing is merged.
THEOREM BoundariesRemain == HeapSpec => BoundariesStay
<1>1. QED
  BY HeapInvariant, BoundaryStep, PTL DEF HeapSpec, BoundariesStay

\* What os_malloc gives out, the abstract allocator could have given out.
LEMMA GrantAllocates ==
  ASSUME HeapInv, NEW n \in sizes, Grant(n)
  PROVE  \E d \in 0 .. HEAP_SIZE : Promise!Allocate([data |-> d, size |-> n])
<1>1. n \in Nat /\ HEAP_SIZE \in Nat /\ SIZEOF_HEADER \in Nat \ {0}
  BY HeapAssumption DEF HeapInv
<1>2. PICK h \in DOMAIN heap :
        Fits(h, n) /\ owned' = owned \cup {[data |-> h + SIZEOF_HEADER, size |-> n]}
  BY DEF Grant, Take
<1> DEFINE d == h + SIZEOF_HEADER
           b == [data |-> d, size |-> n]
<1>3. /\ h \in Nat /\ heap[h].is_free /\ n <= heap[h].size /\ NextHeader(h) <= HEAP_SIZE
      /\ NextHeader(h) = d + heap[h].size /\ heap[h].size \in Nat /\ d \in Nat
  BY <1>1, <1>2 DEF HeapInv, Tiled, Fits, NextHeader
<1>4. d + n <= HEAP_SIZE /\ d \in 0 .. HEAP_SIZE
  BY <1>1, <1>3
<1>5. ASSUME NEW c \in owned PROVE c.data # d /\ ~Promise!Overlap(b, c)
  <2> DEFINE g == c.data - SIZEOF_HEADER
  <2>1. /\ g \in DOMAIN heap /\ g \in Nat /\ c.data \in Nat /\ c.size \in Nat
        /\ NextHeader(g) \in Nat /\ c.data + c.size <= NextHeader(g)
    BY InTile
  <2>2. g # h
    BY <1>3 DEF HeapInv, OwnersAgree
  <2>3. CASE g < h
    <3>1. NextHeader(g) <= h
      BY <2>1, <2>3 DEF HeapInv, Tiled
    <3>2. QED
      BY <2>1, <3>1, <1>1, <1>3 DEF Promise!Overlap
  <2>4. CASE h < g
    <3>1. NextHeader(h) <= g
      BY <2>1, <2>4 DEF HeapInv, Tiled
    <3>2. QED
      BY <2>1, <3>1, <1>1, <1>3 DEF Promise!Overlap
  <2>5. QED
    BY <2>1, <2>2, <2>3, <2>4, <1>3
<1>6. Promise!Allocate(b)
  BY <1>1, <1>2, <1>3, <1>4, <1>5 DEF Promise!Allocate
<1>7. QED
  BY <1>4, <1>6

LEMMA HeapStepAllocates == HeapInv /\ [HeapNext]_heapVars => [Promise!Next]_owned
<1> SUFFICES ASSUME HeapInv, [HeapNext]_heapVars PROVE Promise!Next \/ UNCHANGED owned
  OBVIOUS
<1>1. CASE UNCHANGED heapVars
  BY <1>1 DEF heapVars
<1>2. ASSUME NEW n \in sizes, Grant(n) PROVE Promise!Next
  BY <1>2, GrantAllocates DEF HeapInv, Promise!Next
<1>3. ASSUME NEW n \in sizes, Refuse(n) PROVE UNCHANGED owned
  BY <1>3 DEF Refuse
<1>4. ASSUME NEW b \in owned, os_free(b) PROVE Promise!Next
  BY <1>4 DEF os_free, Promise!Next, Promise!Release
<1>5. QED
  BY <1>1, <1>2, <1>3, <1>4 DEF HeapNext, os_malloc

\* The heap is an allocator of disjoint blocks.
THEOREM HeapAllocates == HeapSpec => ImplementsAllocator
<1>1. HeapInit => Promise!Init
  BY DEF HeapInit, Promise!Init
<1>2. QED
  BY <1>1, HeapInvariant, HeapStepAllocates, PTL
  DEF HeapSpec, ImplementsAllocator, Promise!Spec

-----------------------------------------------------------------------------
(* One block size.                                                         *)

LEMMA Boundaries ==
  ASSUME NEW n \in Nat
  PROVE  /\ \A k \in Nat : Boundary(k, n) \in Nat /\ k <= Boundary(k, n)
         /\ Boundary(0, n) = 0
         /\ \A k \in Nat : Boundary(k + 1, n) = Boundary(k, n) + n + SIZEOF_HEADER
         /\ \A j, k \in Nat : j < k => Boundary(j, n) + n + SIZEOF_HEADER <= Boundary(k, n)
<1>1. PICK step \in Nat \ {0} : step = n + SIZEOF_HEADER
  BY HeapAssumption
<1>2. \A k \in Nat : Boundary(k, n) = k * step
  BY <1>1 DEF Boundary
<1>3. \A k \in Nat : k * step \in Nat /\ k <= k * step
  OBVIOUS
<1>4. \A k \in Nat : (k + 1) * step = k * step + step
  OBVIOUS
<1>5. \A j, k \in Nat : j < k => j * step + step <= k * step
  <2> SUFFICES ASSUME NEW j \in Nat, NEW k \in Nat, j < k
               PROVE  j * step + step <= k * step
    OBVIOUS
  <2>1. PICK d \in Nat : k = (j + 1) + d
    <3>1. k - (j + 1) \in Nat /\ k = (j + 1) + (k - (j + 1))
      OBVIOUS
    <3> QED BY ONLY <3>1
  <2>2. k * step = (j * step + step) + d * step /\ d * step \in Nat /\ j * step \in Nat
    BY <2>1
  <2> QED BY ONLY <2>2, <1>1
<1>6. n + SIZEOF_HEADER = step /\ 0 * step = 0 /\ n \in Nat /\ SIZEOF_HEADER \in Nat
  BY <1>1, HeapAssumption
<1>7. \A k \in Nat : Boundary(k + 1, n) = Boundary(k, n) + n + SIZEOF_HEADER
  <2> TAKE k \in Nat
  <2>1. k + 1 \in Nat /\ Boundary(k + 1, n) = (k + 1) * step /\ Boundary(k, n) = k * step
    BY <1>2
  <2> QED BY <1>3, <1>4, <1>6, <2>1
<1>8. \A j, k \in Nat : j < k => Boundary(j, n) + n + SIZEOF_HEADER <= Boundary(k, n)
  <2> TAKE j, k \in Nat
  <2>1. Boundary(j, n) = j * step /\ Boundary(k, n) = k * step
    BY <1>2
  <2> QED BY <1>3, <1>5, <1>6, <2>1
<1> QED BY <1>2, <1>3, <1>6, <1>7, <1>8

\* What UniformTo says of the blocks.
LEMMA UniformBlocks ==
  ASSUME HeapInv, NEW n \in Nat, NEW last \in Nat, UniformTo(last, n)
  PROVE  /\ \A k \in 0 .. last : /\ Boundary(k, n) \in DOMAIN heap
                                 /\ heap[Boundary(k, n)] \in [size : Nat, is_free : BOOLEAN]
         /\ \A h \in DOMAIN heap : \E k \in 0 .. last : h = Boundary(k, n)
         /\ \A k \in 0 .. last - 1 : heap[Boundary(k, n)].size = n
         /\ Boundary(last, n) + SIZEOF_HEADER + heap[Boundary(last, n)].size = HEAP_SIZE
         /\ heap[Boundary(last, n)].is_free
            \/ heap[Boundary(last, n)].size \in n .. n + SIZEOF_HEADER
         /\ last <= HEAP_SIZE
<1>1. \A k \in 0 .. last : Boundary(k, n) \in DOMAIN heap
  BY DEF UniformTo
<1>2. \A h \in DOMAIN heap : heap[h] \in [size : Nat, is_free : BOOLEAN]
  BY DEF HeapInv, Tiled
<1>3. Boundary(last, n) + SIZEOF_HEADER + heap[Boundary(last, n)].size = HEAP_SIZE
  BY DEF UniformTo, NextHeader
<1>4. last <= HEAP_SIZE
  <2>1. last \in 0 .. last
    OBVIOUS
  <2>2. heap[Boundary(last, n)].size \in Nat
    BY <1>1, <1>2, <2>1
  <2>3. Boundary(last, n) \in Nat /\ last <= Boundary(last, n)
    BY Boundaries
  <2>4. SIZEOF_HEADER \in Nat /\ HEAP_SIZE \in Nat
    BY HeapAssumption
  <2> QED BY ONLY <1>3, <2>2, <2>3, <2>4
<1> QED BY <1>1, <1>2, <1>3, <1>4 DEF UniformTo

\* Only the last block is large enough to be split.
LEMMA SplitUniform ==
  ASSUME HeapInv, NEW n \in Nat, NEW last \in Nat, UniformTo(last, n),
         NEW h \in DOMAIN heap, Fits(h, n), heap[h].size - n > SIZEOF_HEADER,
         Take(h, n), HeapInv'
  PROVE  UniformTo(last + 1, n)'
<1>1. PICK j \in 0 .. last : h = Boundary(j, n)
  BY UniformBlocks
<1>2. j = last
  BY <1>1, UniformBlocks, HeapAssumption
<1>3. heap[h].size \in Nat /\ h \in Nat /\ h + SIZEOF_HEADER + heap[h].size = HEAP_SIZE
  BY <1>1, <1>2, Boundaries, UniformBlocks
<1>4. PICK g \in Nat : g = h + SIZEOF_HEADER + n /\ g = Boundary(last + 1, n)
  <2>1. Boundary(last + 1, n) = Boundary(last, n) + n + SIZEOF_HEADER
    BY Boundaries
  <2>2. SIZEOF_HEADER \in Nat /\ n \in Nat
    BY HeapAssumption
  <2>3. h + SIZEOF_HEADER + n \in Nat /\ h + SIZEOF_HEADER + n = Boundary(last + 1, n)
    BY ONLY <1>1, <1>2, <1>3, <2>1, <2>2
  <2> QED BY ONLY <2>3
<1>5. \A k \in 0 .. last : Boundary(k, n) < g
  <2> TAKE k \in 0 .. last
  <2>1. k \in Nat /\ last + 1 \in Nat /\ k < last + 1
    OBVIOUS
  <2>4. /\ \A i, k2 \in Nat : i < k2 => Boundary(i, n) + n + SIZEOF_HEADER <= Boundary(k2, n)
        /\ \A i \in Nat : Boundary(i, n) \in Nat
    BY Boundaries, Zenon
  <2>2. Boundary(k, n) + n + SIZEOF_HEADER <= Boundary(last + 1, n) /\ Boundary(k, n) \in Nat
    BY ONLY <2>1, <2>4
  <2>3. SIZEOF_HEADER \in Nat \ {0} /\ n \in Nat
    BY HeapAssumption
  <2> QED BY ONLY <1>4, <2>2, <2>3
<1>6. g # h /\ g \notin DOMAIN heap
  <2>1. \A x \in DOMAIN heap : \E k \in 0 .. last : x = Boundary(k, n)
    BY UniformBlocks
  <2>2. \A k \in 0 .. last : Boundary(k, n) \in Nat
    <3>1. \A k \in Nat : Boundary(k, n) \in Nat
      BY Boundaries, Zenon
    <3> QED BY ONLY <3>1
  <2>3. g \notin DOMAIN heap
    BY ONLY <1>4, <1>5, <2>1, <2>2
  <2> QED BY <2>3
<1>7. heap' = [x \in DOMAIN heap \cup {g} |->
                 IF x = h THEN [size |-> n, is_free |-> FALSE]
                 ELSE IF x = g THEN [size |-> heap[h].size - n - SIZEOF_HEADER, is_free |-> TRUE]
                 ELSE heap[x]]
  BY <1>4 DEF Take, Carved
<1>8. /\ DOMAIN heap' = DOMAIN heap \cup {g}
      /\ heap'[h].size = n
      /\ heap'[g] = [size |-> heap[h].size - n - SIZEOF_HEADER, is_free |-> TRUE]
      /\ \A x \in DOMAIN heap \ {h} : heap'[x] = heap[x]
  BY <1>6, <1>7
<1>9. DOMAIN heap' = {Boundary(k, n) : k \in 0 .. last + 1}
  <2>1. DOMAIN heap = {Boundary(k, n) : k \in 0 .. last}
    BY DEF UniformTo
  <2>2. 0 .. last + 1 = (0 .. last) \cup {last + 1}
    OBVIOUS
  <2> QED BY ONLY <1>4, <1>8, <2>1, <2>2
<1>10. \A k \in 0 .. (last + 1) - 1 : heap'[Boundary(k, n)].size = n
  <2> TAKE k \in 0 .. (last + 1) - 1
  <2>1. CASE k = last
    BY <1>1, <1>2, <1>8, <2>1
  <2>2. CASE k # last
    <3>1. k \in 0 .. last - 1 /\ k < last /\ k \in 0 .. last
      BY <2>2
    <3>2. Boundary(k, n) # h
      <4>1. /\ Boundary(k, n) + n + SIZEOF_HEADER <= Boundary(last, n)
            /\ Boundary(k, n) \in Nat /\ Boundary(last, n) \in Nat
        <5>1. /\ \A i, k2 \in Nat : i < k2 => Boundary(i, n) + n + SIZEOF_HEADER <= Boundary(k2, n)
              /\ \A i \in Nat : Boundary(i, n) \in Nat
          BY Boundaries, Zenon
        <5>2. k \in Nat /\ last \in Nat
          OBVIOUS
        <5> QED BY ONLY <3>1, <5>1, <5>2
      <4>2. SIZEOF_HEADER \in Nat \ {0} /\ n \in Nat
        BY HeapAssumption
      <4> QED BY ONLY <1>1, <1>2, <4>1, <4>2
    <3> QED BY <1>8, <3>1, <3>2, UniformBlocks
  <2> QED BY <2>1, <2>2
<1>11. NextHeader(g)' = HEAP_SIZE /\ heap'[g].is_free
  BY <1>3, <1>4, <1>8, HeapAssumption DEF NextHeader
<1> QED BY <1>4, <1>9, <1>10, <1>11 DEF UniformTo, Boundary

\* A block that is given out whole is as large as asked, or almost.
LEMMA WholeUniform ==
  ASSUME HeapInv, NEW n \in Nat, NEW last \in Nat, UniformTo(last, n),
         NEW h \in DOMAIN heap, Fits(h, n), ~(heap[h].size - n > SIZEOF_HEADER), Take(h, n)
  PROVE  UniformTo(last, n)'
<1>1. heap[h] \in [size : Nat, is_free : BOOLEAN] /\ heap[h].size \in n .. n + SIZEOF_HEADER
  BY HeapAssumption DEF HeapInv, Tiled, Fits
<1>2. heap' = [heap EXCEPT ![h].is_free = FALSE]
  BY DEF Take, Carved
<1>3. /\ DOMAIN heap' = DOMAIN heap
      /\ \A x \in DOMAIN heap : heap'[x].size = heap[x].size
      /\ \A x \in DOMAIN heap \ {h} : heap'[x] = heap[x]
  BY <1>1, <1>2
<1>4. PICK edge \in DOMAIN heap : edge = Boundary(last, n)
  BY UniformBlocks
<1>5. heap'[edge].is_free \/ heap'[edge].size \in n .. n + SIZEOF_HEADER
  BY <1>1, <1>3, <1>4, UniformBlocks
<1>6. NextHeader(edge)' = HEAP_SIZE
  BY <1>3, <1>4 DEF UniformTo, NextHeader
<1>7. \A k \in 0 .. last - 1 : heap'[Boundary(k, n)].size = n
  <2> TAKE k \in 0 .. last - 1
  <2>1. k \in 0 .. last
    OBVIOUS
  <2> QED BY <1>3, <2>1, UniformBlocks
<1>8. DOMAIN heap' = {Boundary(k, n) : k \in 0 .. last}
  BY <1>3 DEF UniformTo
<1> QED BY <1>4, <1>5, <1>6, <1>7, <1>8 DEF UniformTo, Boundary

LEMMA FreeUniform ==
  ASSUME HeapInv, NEW n \in Nat, NEW last \in Nat, UniformTo(last, n),
         NEW b \in owned, os_free(b)
  PROVE  UniformTo(last, n)'
<1>1. PICK h \in DOMAIN heap : /\ heap[h] \in [size : Nat, is_free : BOOLEAN]
                              /\ heap' = [heap EXCEPT ![h].is_free = TRUE]
  BY DEF HeapInv, Tiled, OwnersAgree, os_free
<1>2. /\ DOMAIN heap' = DOMAIN heap
      /\ \A x \in DOMAIN heap : heap'[x].size = heap[x].size
      /\ \A x \in DOMAIN heap \ {h} : heap'[x] = heap[x]
      /\ heap'[h].is_free
  BY <1>1
<1>3. PICK edge \in DOMAIN heap : edge = Boundary(last, n)
  BY UniformBlocks
<1>4. heap'[edge].is_free \/ heap'[edge].size \in n .. n + SIZEOF_HEADER
  BY <1>2, <1>3, UniformBlocks
<1>5. NextHeader(edge)' = HEAP_SIZE
  BY <1>2, <1>3 DEF UniformTo, NextHeader
<1>6. \A k \in 0 .. last - 1 : heap'[Boundary(k, n)].size = n
  <2> TAKE k \in 0 .. last - 1
  <2>1. k \in 0 .. last
    OBVIOUS
  <2> QED BY <1>2, <2>1, UniformBlocks
<1>7. DOMAIN heap' = {Boundary(k, n) : k \in 0 .. last}
  BY <1>2 DEF UniformTo
<1> QED BY <1>3, <1>4, <1>5, <1>6, <1>7 DEF UniformTo, Boundary

LEMMA UniformStart == HeapInit => UniformInv
<1> SUFFICES ASSUME HeapInit, NEW n \in sizes, n > 0
             PROVE  UniformTo(0, n)
  BY HeapAssumption DEF HeapInit, UniformInv
<1>1. n \in Nat /\ Boundary(0, n) = 0
  BY HeapAssumption, Boundaries DEF HeapInit
<1>2. DOMAIN heap = {0} /\ heap[0] = [size |-> HEAP_SIZE - SIZEOF_HEADER, is_free |-> TRUE]
  BY DEF HeapInit, OS_HeapInit
<1>3. NextHeader(0) = HEAP_SIZE
  BY <1>2, HeapAssumption DEF NextHeader
<1>4. {Boundary(k, n) : k \in 0 .. 0} = {0}
  <2>1. 0 .. 0 = {0}
    OBVIOUS
  <2> QED BY ONLY <1>1, <2>1
<1> QED BY <1>1, <1>2, <1>3, <1>4 DEF UniformTo

LEMMA UniformStep ==
  ASSUME HeapInv, UniformInv, [HeapNext]_heapVars
  PROVE  UniformInv'
<1>1. CASE UNCHANGED heapVars
  BY <1>1 DEF heapVars, UniformInv, UniformTo, Boundary, NextHeader
<1>2. CASE HeapNext
  <2>1. sizes' = sizes /\ HeapInv'
    BY <1>2, HeapStepInv DEF HeapNext
  <2> SUFFICES ASSUME NEW n \in sizes, n > 0, sizes = {n}
               PROVE  /\ \E last \in 0 .. HEAP_SIZE : UniformTo(last, n)'
                      /\ \A b \in owned' : b.size = n
    BY <2>1, Zenon DEF UniformInv
  <2>2. n \in Nat
    BY HeapAssumption DEF HeapInv
  <2>3. PICK last \in 0 .. HEAP_SIZE : UniformTo(last, n)
    BY DEF UniformInv
  <2>4. \A b \in owned : b.size = n
    BY DEF UniformInv
  <2>5. last \in Nat
    BY <2>3
  <2>6. ASSUME Grant(n)
        PROVE  /\ \E k \in 0 .. HEAP_SIZE : UniformTo(k, n)'
               /\ \A b \in owned' : b.size = n
    <3>1. PICK h \in DOMAIN heap : Fits(h, n) /\ Take(h, n)
      BY <2>6 DEF Grant
    <3>2. \A b \in owned' : b.size = n
      BY <2>4, <3>1 DEF Take
    <3>3. CASE heap[h].size - n > SIZEOF_HEADER
      <4>1. UniformTo(last + 1, n)'
        BY <2>1, <2>2, <2>3, <2>5, <3>1, <3>3, SplitUniform
      <4>2. last + 1 \in 0 .. HEAP_SIZE
        <5>1. last + 1 \in Nat /\ last + 1 <= HEAP_SIZE
          <6>1. PICK next \in Nat : next = last + 1
            BY <2>5
          <6>2. PICK j \in 0 .. last : h = Boundary(j, n)
            BY <2>2, <2>3, <2>5, UniformBlocks
          <6>3. j = last
            BY <2>2, <2>3, <2>5, <3>3, <6>2, UniformBlocks, HeapAssumption
          <6>4. /\ h + SIZEOF_HEADER + heap[h].size = HEAP_SIZE
                /\ heap[h].size \in Nat /\ h \in Nat
            BY <2>2, <2>3, <2>5, <6>2, <6>3, UniformBlocks, Boundaries
          <6>5. last <= h
            <7>1. \A k \in Nat : Boundary(k, n) \in Nat /\ k <= Boundary(k, n)
              BY <2>2, Boundaries, Zenon
            <7> QED BY ONLY <2>5, <6>2, <6>3, <7>1
          <6>6. SIZEOF_HEADER \in Nat \ {0} /\ HEAP_SIZE \in Nat
            BY HeapAssumption
          <6> QED BY ONLY <2>5, <6>4, <6>5, <6>6
        <5> QED BY ONLY <5>1, HeapAssumption
      <4> QED BY ONLY <3>2, <4>1, <4>2
    <3>4. CASE ~(heap[h].size - n > SIZEOF_HEADER)
      <4>1. UniformTo(last, n)'
        BY <2>2, <2>3, <2>5, <3>1, <3>4, WholeUniform
      <4> QED BY ONLY <2>3, <3>2, <4>1
    <3> QED BY <3>3, <3>4
  <2>7. ASSUME Refuse(n)
        PROVE  UniformTo(last, n)' /\ \A b \in owned' : b.size = n
    BY <2>3, <2>4, <2>7 DEF Refuse, UniformTo, Boundary, NextHeader
  <2>8. ASSUME NEW b \in owned, os_free(b)
        PROVE  UniformTo(last, n)' /\ \A c \in owned' : c.size = n
    BY <2>2, <2>3, <2>4, <2>5, <2>8, FreeUniform DEF os_free
  <2>9. Grant(n) \/ Refuse(n) \/ \E b \in owned : os_free(b)
    BY <1>2 DEF HeapNext, os_malloc
  <2> QED BY <2>3, <2>6, <2>7, <2>8, <2>9
<1> QED BY <1>1, <1>2

\* As many pointers are out as there are blocks in use.
LEMMA CountOwners ==
  ASSUME HeapInv, NEW n \in Nat, NEW count \in Nat, \A b \in owned : b.size = n,
         \A k \in 0 .. count - 1 : /\ Boundary(k, n) \in DOMAIN heap
                                  /\ ~heap[Boundary(k, n)].is_free,
         \A h \in DOMAIN heap : ~heap[h].is_free => \E k \in 0 .. count - 1 : h = Boundary(k, n)
  PROVE  Cardinality(owned) = count
<1> DEFINE slots == 0 .. count - 1
           pointer(k) == [data |-> Boundary(k, n) + SIZEOF_HEADER, size |-> n]
           f == [k \in slots |-> pointer(k)]
<1>1. SIZEOF_HEADER \in Nat \ {0}
  BY HeapAssumption
<1>2. \A b \in owned : b = [data |-> b.data, size |-> n] /\ b.data \in Nat
  BY DEF HeapInv, OwnersAgree
<1>3. \A k \in slots : Boundary(k, n) \in Nat
  <2>1. \A k \in Nat : Boundary(k, n) \in Nat
    BY Boundaries, Zenon
  <2> QED BY ONLY <2>1
<1>4. \A k \in slots : pointer(k) \in owned
  <2> TAKE k \in slots
  <2>1. PICK b \in owned : b.data = Boundary(k, n) + SIZEOF_HEADER
    BY DEF HeapInv, OwnersAgree
  <2> QED BY <1>2, <2>1
<1>5. \A b \in owned : \E k \in slots : b = pointer(k)
  <2> TAKE b \in owned
  <2>1. b.data - SIZEOF_HEADER \in DOMAIN heap /\ ~heap[b.data - SIZEOF_HEADER].is_free
    BY DEF HeapInv, OwnersAgree
  <2>2. PICK k \in slots : b.data - SIZEOF_HEADER = Boundary(k, n)
    BY <2>1
  <2>3. b.data = Boundary(k, n) + SIZEOF_HEADER
    BY ONLY <1>1, <1>2, <1>3, <2>2
  <2> QED BY ONLY <1>2, <2>2, <2>3
<1>6. \A j, k \in slots : pointer(j) = pointer(k) => j = k
  <2>1. \A j, k \in Nat : j < k => Boundary(j, n) + n + SIZEOF_HEADER <= Boundary(k, n)
    BY Boundaries, Zenon
  <2>2. \A j, k \in slots : j < k => Boundary(j, n) # Boundary(k, n)
    BY ONLY <1>1, <1>3, <2>1
  <2>3. \A j, k \in slots : pointer(j) = pointer(k) => Boundary(j, n) = Boundary(k, n)
    <3> TAKE j, k \in slots
    <3> HAVE pointer(j) = pointer(k)
    <3>1. Boundary(j, n) + SIZEOF_HEADER = Boundary(k, n) + SIZEOF_HEADER
      OBVIOUS
    <3> QED BY ONLY <1>1, <1>3, <3>1
  <2> HIDE DEF pointer
  <2> QED BY ONLY <2>2, <2>3
<1> HIDE DEF pointer
<1>7. f \in [slots -> owned]
  BY <1>4
<1>8. f \in Bijection(slots, owned)
  <2>1. \A j, k \in slots : f[j] = f[k] => j = k
    BY <1>6
  <2>2. \A b \in owned : \E k \in slots : f[k] = b
    BY <1>5
  <2> HIDE DEF f, slots
  <2> QED BY <1>7, <2>1, <2>2 DEF Bijection, Injection, Surjection, IsInjective
<1>9. IsFiniteSet(slots) /\ Cardinality(slots) = count
  BY FS_Interval
<1> HIDE DEF f, slots
<1>10. Cardinality(owned) = Cardinality(slots)
  BY <1>8, <1>9, FS_Bijection DEF ExistsBijection
<1> QED BY <1>9, <1>10

LEMMA Quotient ==
  ASSUME NEW step \in Nat \ {0}, NEW count \in Nat, NEW rest \in 0 .. step - 1
  PROVE  (count * step + rest) \div step = count
OBVIOUS

LEMMA UniformIsFull == HeapInv /\ UniformInv => UniformCapacity
<1> SUFFICES ASSUME HeapInv, UniformInv, NEW n \in sizes, n > 0, sizes = {n}, Refused(n)
             PROVE  Cardinality(owned) = HEAP_SIZE \div (n + SIZEOF_HEADER)
  BY DEF UniformCapacity
<1>1. n \in Nat \ {0} /\ SIZEOF_HEADER \in Nat \ {0} /\ HEAP_SIZE \in Nat
  BY HeapAssumption DEF HeapInv
<1>2. PICK last \in Nat : UniformTo(last, n)
  BY DEF UniformInv
<1>3. \A b \in owned : b.size = n
  BY DEF UniformInv
<1>4. PICK edge : edge = Boundary(last, n)
  OBVIOUS
<1>5. PICK rest : /\ edge + SIZEOF_HEADER + rest = HEAP_SIZE
                  /\ rest = heap[edge].size /\ rest \in Nat
                  /\ heap[edge].is_free \/ rest \in n .. n + SIZEOF_HEADER
  BY <1>1, <1>2, <1>4, UniformBlocks
<1>6. edge + SIZEOF_HEADER + rest = HEAP_SIZE /\ rest = heap[edge].size /\ rest \in Nat
  BY <1>5, Zenon
<1>7. \A k \in 0 .. last : Boundary(k, n) \in DOMAIN heap
  BY <1>1, <1>2, UniformBlocks
<1>8. \A h \in DOMAIN heap : \E k \in 0 .. last : h = Boundary(k, n)
  BY <1>1, <1>2, UniformBlocks
<1>9. \A k \in 0 .. last - 1 : ~heap[Boundary(k, n)].is_free
  <2> TAKE k \in 0 .. last - 1
  <2>1. heap[Boundary(k, n)].size = n /\ Boundary(k, n) \in DOMAIN heap
    BY <1>1, <1>2, <1>7, UniformBlocks
  <2> QED BY <1>1, <2>1 DEF Refused, Fits
<1>10. edge = last * (n + SIZEOF_HEADER) /\ edge \in Nat
  BY <1>1, <1>4, Boundaries DEF Boundary
\* The last block is in use: there is one more, and what is left behind it is
\* less than a header and a block.
<1>11. CASE ~heap[edge].is_free
  <2>1. Cardinality(owned) = last + 1
    <3>1. PICK count \in Nat : count = last + 1 /\ 0 .. count - 1 = 0 .. last
      BY <1>2
    <3>2. \A k \in 0 .. last : ~heap[Boundary(k, n)].is_free
      BY <1>4, <1>9, <1>11
    <3> QED BY <1>1, <1>3, <1>7, <1>8, <3>1, <3>2, CountOwners
  <2>2. PICK behind \in 0 .. (n + SIZEOF_HEADER) - 1 : rest = n + behind
    BY <1>1, <1>5, <1>11
  <2>3. HEAP_SIZE = (last + 1) * (n + SIZEOF_HEADER) + behind
    <3>1. (last + 1) * (n + SIZEOF_HEADER) = edge + (n + SIZEOF_HEADER)
      <4>1. last * (n + SIZEOF_HEADER) = edge /\ n + SIZEOF_HEADER \in Nat
        BY <1>1, <1>10
      <4> QED BY ONLY <1>2, <4>1
    <3>2. PICK full : full = (last + 1) * (n + SIZEOF_HEADER)
      OBVIOUS
    <3>3. full = edge + (n + SIZEOF_HEADER)
      BY <3>1, <3>2
    <3>4. edge \in Nat /\ behind \in Nat /\ rest = n + behind
          /\ edge + SIZEOF_HEADER + rest = HEAP_SIZE
      BY <1>1, <1>10, <1>6, <2>2
    <3>5. HEAP_SIZE = full + behind
      BY ONLY <1>1, <3>3, <3>4
    <3> QED BY ONLY <3>2, <3>5
  <2>4. n + SIZEOF_HEADER \in Nat \ {0} /\ last + 1 \in Nat
    BY <1>1, <1>2
  <2> QED BY <2>1, <2>2, <2>3, <2>4, Quotient
\* It is free, but too small.
<1>12. CASE heap[edge].is_free
  <2>1. edge \in DOMAIN heap /\ rest < n
    <3>1. last \in 0 .. last
      BY <1>2
    <3>2. edge \in DOMAIN heap
      BY <1>4, <1>7, <3>1
    <3>3. ~(heap[edge].size >= n)
      BY <1>12, <3>2 DEF Refused, Fits
    <3> QED BY <1>1, <1>6, <3>2, <3>3
  <2>2. Cardinality(owned) = last
    <3>1. \A k \in 0 .. last - 1 : Boundary(k, n) \in DOMAIN heap
      BY <1>7
    <3>2. \A h \in DOMAIN heap : ~heap[h].is_free => \E k \in 0 .. last - 1 : h = Boundary(k, n)
      BY <1>4, <1>8, <1>12
    <3> QED BY <1>1, <1>2, <1>3, <1>9, <3>1, <3>2, CountOwners
  <2>3. PICK behind \in 0 .. (n + SIZEOF_HEADER) - 1 : behind = SIZEOF_HEADER + rest
    BY <1>1, <1>6, <2>1
  <2>4. HEAP_SIZE = last * (n + SIZEOF_HEADER) + behind
    BY <1>1, <1>5, <1>10, <2>3
  <2>5. n + SIZEOF_HEADER \in Nat \ {0}
    BY <1>1
  <2> QED BY <1>2, <2>2, <2>3, <2>4, <2>5, Quotient
<1> QED BY <1>11, <1>12

\* A program with a single block size, whatever it has freed before, is refused
\* a block only when as many are in use as fit the array: for every size of the
\* array, of a header and of the blocks.
THEOREM UniformHeapFills == HeapSpec => []UniformCapacity
<1>1. HeapInit => HeapInv /\ UniformInv
  BY HeapInitInv, UniformStart
<1>2. HeapInv /\ UniformInv /\ [HeapNext]_heapVars => HeapInv' /\ UniformInv'
  BY HeapStepInv, UniformStep
<1>3. HeapInv /\ UniformInv => UniformCapacity
  BY UniformIsFull
<1> QED BY <1>1, <1>2, <1>3, PTL DEF HeapSpec
=============================================================================
