----------------------------- MODULE AppProofs ------------------------------
(***************************************************************************)
(* Theorems about the given task functions, for every set of applications  *)
(* that keeps to the assumptions of App.tla: no script faults, printed     *)
(* lines stay whole, and priority inversion is bounded.                    *)
(***************************************************************************)
EXTENDS App, KernelProofs, HeapProofs, SequenceTheorems

-----------------------------------------------------------------------------
(* The UART.                                                               *)

LEMMA TextFacts ==
  ASSUME NEW number \in Numbers
  PROVE  /\ Text(number) \in Seq(Characters) /\ Len(Text(number)) = 3 /\ Text(number) # <<>>
         /\ DOMAIN Text(number) = 1 .. 3
         /\ \A k \in 1 .. 3 : Text(number)[k] = [of |-> number, position |-> k]
<1>1. Text(number) \in [1 .. 3 -> Characters]
  BY DEF Text, Characters
<1>2. Text(number) \in Seq(Characters)
  BY <1>1, SeqDef
<1>3. Len(Text(number)) = 3
  BY <1>1, <1>2, LenProperties
<1> QED BY <1>1, <1>2, <1>3 DEF Text

\* A line that begins a number, character by character.
LEMMA WholeIff ==
  ASSUME NEW sent \in Seq(Characters), NEW number \in Numbers
  PROVE  sent = SubSeq(Text(number), 1, Len(sent))
           <=> \A i \in 1 .. Len(sent) : sent[i] = Text(number)[i]
<1> DEFINE n == Len(sent)
           text == Text(number)
<1>1. n \in Nat /\ sent = [i \in 1 .. n |-> sent[i]]
  BY LenProperties
<1>2. SubSeq(text, 1, n) = [i \in 1 .. (1 + n - 1) |-> text[i + 1 - 1]]
  OBVIOUS
<1>3. 1 + n - 1 = n /\ \A i \in 1 .. n : i + 1 - 1 = i
  BY <1>1
<1> HIDE DEF n, text
<1>4. SubSeq(text, 1, n) = [i \in 1 .. n |-> text[i]]
  BY <1>2, <1>3
<1>5. sent = SubSeq(text, 1, n) <=> \A i \in 1 .. n : sent[i] = text[i]
  BY <1>1, <1>4
<1> QED BY <1>5 DEF n, text

\* The buffer of a printer inside a call holds a whole number.
LEMMA BufferFacts ==
  ASSUME UartInv, printf_buffer # <<>>
  PROVE  \E number \in Numbers :
           /\ printf_buffer = Text(number) /\ Len(printf_buffer) = 3
           /\ DOMAIN printf_buffer = 1 .. 3
           /\ \A k \in 1 .. 3 : printf_buffer[k] = [of |-> number, position |-> k]
BY TextFacts DEF UartInv, UartTypeOK

LEMMA UartInitInv ==
  ASSUME UartInit
  PROVE  UartInv
<1>1. /\ printf_buffer = <<>> /\ fifo = <<>> /\ line = <<>>
      /\ ptr = [t \in Printers |-> 0] /\ Len(fifo) = 0 /\ Len(line) = 0
  BY DEF UartInit
<1>2. UartTypeOK
  BY <1>1 DEF UartTypeOK
<1>3. LinesWhole
  <2>1. PICK number \in Numbers : TRUE
    BY UartAssumption
  <2> QED BY <2>1, <1>1, <1>2, WholeIff DEF LinesWhole, UartTypeOK
<1>4. Before(line, fifo, Len(fifo)).position = 3
  BY <1>1 DEF Before
<1> QED BY <1>1, <1>2, <1>3, <1>4 DEF UartInv

\* Formatting a number while nobody is inside a call.
LEMMA FormatInv ==
  ASSUME UartInv, NEW t \in Printers, \A u \in Printers : ptr[u] # 0 => u = t, Format(t)
  PROVE  UartInv'
<1>1. PICK number \in Numbers : printf_buffer' = Text(number)
  BY DEF Format
<1>2. /\ UNCHANGED <<fifo, line>> /\ ptr' = [ptr EXCEPT ![t] = 1] /\ ptr[t] = 0
      /\ ptr \in [Printers -> 0 .. 4] /\ \A u \in Printers : ptr[u] = 0
  BY DEF Format, UartInv, UartTypeOK
<1>3. /\ ptr' \in [Printers -> 0 .. 4] /\ \A u \in Printers : ptr'[u] \in 0 .. 1
  BY <1>2
<1>4. UartTypeOK'
  BY <1>1, <1>2, <1>3 DEF UartInv, UartTypeOK
<1>5. LinesWhole' /\ Len(line') <= 3 /\ \A k : Before(line', fifo', k) = Before(line, fifo, k)
  BY <1>2 DEF UartInv, LinesWhole, Before
<1>6. Before(line, fifo, Len(fifo)).position = 3
  BY <1>2 DEF UartInv
<1>7. printf_buffer' # <<>>
  BY <1>1, TextFacts
<1> QED BY <1>2, <1>3, <1>4, <1>5, <1>6, <1>7 DEF UartInv

\* A character that is put continues the last one.
LEMMA PutInv ==
  ASSUME UartInv, NEW t \in Printers, \A u \in Printers : ptr[u] # 0 => u = t, Put(t)
  PROVE  UartInv'
<1> DEFINE n == Len(fifo)
           p == ptr[t]
           c == printf_buffer[p]
<1>1. PICK number \in Numbers :
        /\ printf_buffer = Text(number) /\ DOMAIN printf_buffer = 1 .. 3
        /\ \A k \in 1 .. 3 : printf_buffer[k] = [of |-> number, position |-> k]
  <2>1. printf_buffer # <<>>
    BY DEF Put
  <2> QED BY <2>1, BufferFacts
<1>2. /\ p \in 1 .. 3 /\ fifo' = Append(fifo, c) /\ ptr' = [ptr EXCEPT ![t] = p + 1]
      /\ UNCHANGED <<printf_buffer, line>> /\ ptr \in [Printers -> 0 .. 4]
      /\ fifo \in Seq(Characters) /\ c = [of |-> number, position |-> p] /\ c \in Characters
  BY <1>1 DEF Put, UART_OutChar, UartInv, UartTypeOK, Characters
<1> HIDE DEF p, c
<1>3. /\ n \in Nat /\ fifo' \in Seq(Characters) /\ Len(fifo') = n + 1 /\ fifo'[n + 1] = c
      /\ \A k \in 1 .. n : fifo'[k] = fifo[k]
  BY <1>2
<1>4. /\ \A k \in 0 .. n : Before(line', fifo', k) = Before(line, fifo, k)
      /\ Before(line', fifo', n + 1) = c
  <2>1. \A k \in 1 .. n : Before(line', fifo', k) = fifo'[k] /\ Before(line, fifo, k) = fifo[k]
    BY <1>3 DEF Before
  <2>2. Before(line', fifo', n + 1) = fifo'[n + 1] /\ Before(line', fifo', 0) = Before(line, fifo, 0)
    BY <1>2, <1>3 DEF Before
  <2>3. \A k \in 0 .. n : k = 0 \/ k \in 1 .. n
    BY <1>3
  <2> QED BY <2>1, <2>2, <2>3, <1>3
<1>5. Follows(Before(line, fifo, n), c)
  <2>1. CASE p = 1
    <3>1. Before(line, fifo, n).position = 3
      <4>1. \A u \in Printers : ptr[u] <= 1
        BY <2>1 DEF p
      <4> QED BY <4>1 DEF UartInv
    <3> QED BY <3>1, <2>1, <1>2 DEF Follows
  <2>2. CASE p # 1
    <3>1. p > 1 /\ p - 1 \in 1 .. 2
      BY <2>2, <1>2
    <3>2. Before(line, fifo, n) = printf_buffer[p - 1]
      BY <3>1 DEF UartInv, p
    <3>3. Before(line, fifo, n) = [of |-> number, position |-> p - 1]
      BY <3>1, <3>2, <1>1
    <3> QED BY <3>1, <3>3, <1>2 DEF Follows
  <2> QED BY <2>1, <2>2
<1>6. \A k \in 0 .. Len(fifo') - 1 : Follows(Before(line', fifo', k), fifo'[k + 1])
  BY <1>3, <1>4, <1>5 DEF UartInv
<1>7. ptr' \in [Printers -> 0 .. 4] /\ ptr'[t] = p + 1 /\ \A u \in Printers \ {t} : ptr'[u] = 0
  BY <1>2 DEF p
<1>8. UartTypeOK' /\ LinesWhole' /\ Len(line') <= 3
  BY <1>2, <1>3, <1>7 DEF UartInv, UartTypeOK, LinesWhole
<1>9. /\ Before(line', fifo', Len(fifo')) = printf_buffer'[p] /\ ~(p + 1 <= 1)
      /\ printf_buffer' # <<>>
  <2>1. printf_buffer' # <<>>
    BY <1>1, <1>2, TextFacts
  <2>2. ~(p + 1 <= 1)
    BY <1>2
  <2> QED BY <2>1, <2>2, <1>2, <1>3, <1>4 DEF c
<1>10. \A u \in Printers : ptr'[u] > 1 => u = t /\ ptr'[u] = p + 1
  BY <1>7
<1>11. \A u \in Printers :
         /\ ptr'[u] > 0 => printf_buffer' # <<>>
         /\ ptr'[u] > 1 => Before(line', fifo', Len(fifo')) = printf_buffer'[ptr'[u] - 1]
  <2> SUFFICES ASSUME NEW u \in Printers, ptr'[u] > 1
               PROVE  Before(line', fifo', Len(fifo')) = printf_buffer'[ptr'[u] - 1]
    BY <1>9
  <2>1. ptr'[u] - 1 = p
    BY <1>2, <1>10
  <2> QED BY <2>1, <1>9
<1>12. ~ \A u \in Printers : ptr'[u] <= 1
  BY <1>7, <1>9
<1> QED BY ONLY <1>6, <1>8, <1>11, <1>12 DEF UartInv

\* A call that returns has put the character that ends a line.
LEMMA ReturnInv ==
  ASSUME UartInv, NEW t \in Printers, \A u \in Printers : ptr[u] # 0 => u = t, PrintReturns(t)
  PROVE  UartInv'
<1>1. /\ UNCHANGED <<printf_buffer, fifo, line>> /\ ptr' = [ptr EXCEPT ![t] = 0]
      /\ ptr \in [Printers -> 0 .. 4] /\ ptr[t] > 1 /\ printf_buffer # <<>>
  BY DEF PrintReturns, UartInv, UartTypeOK
<1>2. PICK number \in Numbers :
        /\ Len(printf_buffer) = 3
        /\ \A k \in 1 .. 3 : printf_buffer[k] = [of |-> number, position |-> k]
  BY <1>1, BufferFacts
<1>3. ptr[t] = 4 /\ Before(line, fifo, Len(fifo)) = printf_buffer[3]
  BY <1>1, <1>2 DEF PrintReturns, UartInv
<1>4. Before(line, fifo, Len(fifo)).position = 3
  BY <1>2, <1>3
<1>5. ptr' \in [Printers -> 0 .. 4] /\ \A u \in Printers : ptr'[u] = 0
  BY <1>1
<1>6. UartTypeOK' /\ LinesWhole' /\ Len(line') <= 3 /\ \A k : Before(line', fifo', k) = Before(line, fifo, k)
  BY <1>1, <1>5 DEF UartInv, UartTypeOK, LinesWhole, Before
<1> QED BY <1>1, <1>4, <1>5, <1>6 DEF UartInv

\* What leaves the FIFO continues the line or, after its end, begins the next.
LEMMA TransmitInv ==
  ASSUME UartInv, Transmit
  PROVE  UartInv'
<1> DEFINE n == Len(fifo)
           d == Head(fifo)
           l == Len(line)
           fresh == line = <<>> \/ line[l].position = 3
<1>1. /\ fifo \in Seq(Characters) /\ fifo # <<>> /\ n \in Nat \ {0} /\ d = fifo[1] /\ d \in Characters
      /\ fifo' = Tail(fifo) /\ fifo' \in Seq(Characters) /\ Len(fifo') = n - 1
      /\ \A k \in 1 .. n - 1 : fifo'[k] = fifo[k + 1]
  BY DEF Transmit, UartInv, UartTypeOK
<1>2. /\ line \in Seq(Characters) /\ l \in 0 .. 3 /\ (line = <<>> <=> l = 0)
      /\ \A i \in 1 .. l : line[i] \in Characters
  <2>1. line \in Seq(Characters) /\ l \in Nat /\ l <= 3
    BY DEF UartInv, UartTypeOK
  <2> HIDE DEF l
  <2>2. l \in 0 .. 3
    BY <2>1
  <2> QED BY <2>1, <2>2, EmptySeq, ElementOfSeq DEF l
<1>3. line' = Append(IF fresh THEN <<>> ELSE line, d)
  <2>1. line # <<>> => (line[l].position < 3 <=> line[l].position # 3)
    BY <1>2 DEF Characters
  <2> QED BY <2>1 DEF Transmit
<1>4. Follows(Before(line, fifo, 0), d)
  BY <1>1 DEF UartInv
<1>5. /\ line' \in Seq(Characters) /\ line' # <<>> /\ line'[Len(line')] = d
      /\ Len(line') <= 3 /\ LinesWhole'
  <2>1. CASE fresh
    <3>1. line' = <<d>> /\ d.position = 1
      <4>1. Before(line, fifo, 0).position = 3
        BY <2>1 DEF Before
      <4>2. line' = Append(<<>>, d)
        BY <2>1, <1>3
      <4> QED BY <4>1, <4>2, <1>4 DEF Follows
    <3>2. d.of \in Numbers /\ d = [of |-> d.of, position |-> 1]
      BY <3>1, <1>1 DEF Characters
    <3>3. PICK number \in Numbers : d = [of |-> number, position |-> 1]
      BY <3>2
    <3>4. line' \in Seq(Characters) /\ Len(line') = 1 /\ line'[1] = d /\ line' # <<>>
      BY <3>1, <1>1
    <3>5. \A i \in 1 .. Len(line') : line'[i] = Text(number)[i]
      <4>1. Text(number)[1] = d
        BY <3>3 DEF Text
      <4>2. \A i \in 1 .. Len(line') : i = 1
        BY <3>4
      <4> QED BY <4>1, <4>2, <3>4
    <3>6. line' = SubSeq(Text(number), 1, Len(line'))
      BY <3>4, <3>5, WholeIff
    <3> QED BY <3>4, <3>6 DEF LinesWhole
  <2>2. CASE ~fresh
    <3>1. PICK number \in Numbers : line = SubSeq(Text(number), 1, l)
      BY DEF UartInv, LinesWhole
    <3>2. \A i \in 1 .. l : line[i] = [of |-> number, position |-> i]
      <4>1. \A i \in 1 .. l : line[i] = Text(number)[i] /\ i \in 1 .. 3
        BY <3>1, <1>2, WholeIff
      <4> QED BY <4>1, TextFacts
    <3>3. l \in 1 .. 2 /\ Before(line, fifo, 0) = [of |-> number, position |-> l]
      <4>1. l \in 1 .. 3 /\ line[l].position # 3 /\ Before(line, fifo, 0) = line[l]
        BY <2>2, <1>2 DEF Before
      <4>2. line[l] = [of |-> number, position |-> l]
        <5>1. l \in 1 .. l
          BY <4>1
        <5> HIDE DEF l
        <5> QED BY <5>1, <3>2
      <4>3. l # 3
        BY <4>1, <4>2
      <4> HIDE DEF l
      <4> QED BY <4>1, <4>2, <4>3
    <3>4. d.of = number /\ d.position = l + 1
      BY <3>3, <1>4 DEF Follows
    <3>5. d = [of |-> number, position |-> l + 1]
      BY <3>4, <1>1 DEF Characters
    <3>6. /\ line' \in Seq(Characters) /\ Len(line') = l + 1 /\ line'[l + 1] = d /\ line' # <<>>
          /\ \A i \in 1 .. l : line'[i] = line[i]
      BY <2>2, <1>1, <1>2, <1>3
    <3>7. \A i \in 1 .. Len(line') : line'[i] = Text(number)[i]
      <4>1. l + 1 \in 1 .. 3 /\ \A i \in 1 .. l : i \in 1 .. 3
        BY <3>3
      <4>2. /\ Text(number)[l + 1] = d
            /\ \A i \in 1 .. l : Text(number)[i] = line[i]
        BY <4>1, <3>2, <3>5, TextFacts
      <4>3. \A i \in 1 .. Len(line') : i = l + 1 \/ i \in 1 .. l
        BY <3>3, <3>6
      <4> QED BY <4>2, <4>3, <3>6
    <3>8. line' = SubSeq(Text(number), 1, Len(line'))
      BY <3>6, <3>7, WholeIff
    <3> QED BY <3>3, <3>6, <3>8 DEF LinesWhole
  <2> QED BY <2>1, <2>2
<1>6. \A k \in 0 .. n - 1 : Before(line', fifo', k) = Before(line, fifo, k + 1)
  BY <1>1, <1>5 DEF Before
<1>7. \A k \in 0 .. Len(fifo') - 1 : Follows(Before(line', fifo', k), fifo'[k + 1])
  <2> SUFFICES ASSUME NEW k \in 0 .. n - 2 PROVE Follows(Before(line', fifo', k), fifo'[k + 1])
    BY <1>1
  <2>1. Before(line', fifo', k) = Before(line, fifo, k + 1) /\ fifo'[k + 1] = fifo[k + 1 + 1] /\ k + 1 \in 0 .. n - 1
    BY <1>1, <1>6
  <2> QED BY <2>1 DEF UartInv
<1>8. Before(line', fifo', Len(fifo')) = Before(line, fifo, n) /\ UNCHANGED <<printf_buffer, ptr>>
  <2>1. n - 1 \in 0 .. n - 1 /\ n - 1 + 1 = n
    BY <1>1
  <2>2. Before(line', fifo', n - 1) = Before(line, fifo, n)
    BY <2>1, <1>6
  <2> QED BY <2>2, <1>1 DEF Transmit
<1>9. UartTypeOK'
  BY <1>1, <1>5, <1>8 DEF UartInv, UartTypeOK
<1>10. /\ \A t \in Printers :
            /\ ptr'[t] > 0 => printf_buffer' # <<>>
            /\ ptr'[t] > 1 => Before(line', fifo', Len(fifo')) = printf_buffer'[ptr'[t] - 1]
       /\ (\A t \in Printers : ptr'[t] <= 1) => Before(line', fifo', Len(fifo')).position = 3
  BY <1>8 DEF UartInv
<1> QED BY ONLY <1>5, <1>7, <1>9, <1>10 DEF UartInv

-----------------------------------------------------------------------------
(* The heap.                                                               *)

\* Taking n bytes leaves the room that was left beyond them: either another
\* block had it, or the remainder of the block taken.
LEMMA TakeKeepsRoom ==
  ASSUME HeapInv, NEW h \in DOMAIN heap, NEW n \in Nat, Fits(h, n), Take(h, n),
         NEW left \in Nat, left > SIZEOF_HEADER, RoomFor(left + n + SIZEOF_HEADER)
  PROVE  RoomFor(left)'
<1> DEFINE size == heap[h].size
           leftOver == h + SIZEOF_HEADER + n
<1>1. /\ SIZEOF_HEADER \in Nat \ {0}
      /\ h \in Nat /\ size \in Nat /\ size >= n /\ heap' = Carved(h, n)
      /\ \A g \in DOMAIN heap : g \in Nat /\ heap[g] \in [size : Nat, is_free : BOOLEAN]
      /\ \A g \in DOMAIN heap : h < g => NextHeader(h) <= g
  BY HeapAssumption DEF HeapInv, Tiled, Fits, Take
<1>2. PICK f \in DOMAIN heap :
        heap[f].is_free /\ left + n + SIZEOF_HEADER <= heap[f].size + SIZEOF_HEADER
  BY DEF RoomFor
<1>3. CASE f # h
  <2>1. f \in DOMAIN heap' /\ heap'[f] = heap[f]
    <3>1. CASE size - n > SIZEOF_HEADER
      <4>1. leftOver < NextHeader(h) /\ leftOver > h
        BY <1>1, <3>1 DEF NextHeader
      <4>2. f # leftOver
        BY <4>1, <1>1 DEF NextHeader
      <4> QED BY <3>1, <4>2, <1>1, <1>3 DEF Carved
    <3>2. CASE ~(size - n > SIZEOF_HEADER)
      BY <3>2, <1>1, <1>3 DEF Carved
    <3> QED BY <3>1, <3>2
  <2>2. left <= heap[f].size + SIZEOF_HEADER
    BY <1>1, <1>2
  <2> QED BY <1>2, <2>1, <2>2 DEF RoomFor
<1>4. CASE f = h
  <2>1. size - n >= left /\ size - n > SIZEOF_HEADER
    BY <1>1, <1>2, <1>4
  <2>2. /\ leftOver \in DOMAIN heap' /\ leftOver # h
        /\ heap'[leftOver] = [size |-> size - n - SIZEOF_HEADER, is_free |-> TRUE]
    BY <1>1, <2>1 DEF Carved
  <2>3. left <= heap'[leftOver].size + SIZEOF_HEADER /\ heap'[leftOver].is_free
    BY <1>1, <2>1, <2>2
  <2> QED BY <2>2, <2>3 DEF RoomFor
<1> QED BY <1>3, <1>4

\* Freeing a block takes no room away.
LEMMA FreeKeepsRoom ==
  ASSUME HeapInv, NEW b \in owned, os_free(b), NEW n \in Nat, RoomFor(n)
  PROVE  RoomFor(n)'
<1>1. \A g \in DOMAIN heap : heap[g] \in [size : Nat, is_free : BOOLEAN]
  BY DEF HeapInv, Tiled
<1>2. PICK f \in DOMAIN heap : heap[f].is_free /\ n <= heap[f].size + SIZEOF_HEADER
  BY DEF RoomFor
<1>3. f \in DOMAIN heap' /\ heap'[f].is_free /\ heap'[f].size = heap[f].size
  BY <1>1, <1>2 DEF os_free
<1> QED BY <1>2, <1>3 DEF RoomFor

\* With room for it a request is granted.
LEMMA RoomIsGranted ==
  ASSUME HeapInv, NEW n \in Nat, NEW needed \in Nat, n + SIZEOF_HEADER <= needed, RoomFor(needed)
  PROVE  ~Refused(n)
<1>1. PICK f \in DOMAIN heap : heap[f].is_free /\ needed <= heap[f].size + SIZEOF_HEADER
  BY DEF RoomFor
<1>2. heap[f].size \in Nat /\ SIZEOF_HEADER \in Nat
  BY HeapAssumption DEF HeapInv, Tiled
<1>3. heap[f].size >= n
  BY <1>1, <1>2
<1> QED BY <1>1, <1>3 DEF Refused, Fits

LEMMA InitialRoom ==
  ASSUME HeapInit, NEW n \in Nat, n <= HEAP_SIZE
  PROVE  RoomFor(n)
<1>1. 0 \in DOMAIN heap /\ heap[0] = [size |-> HEAP_SIZE - SIZEOF_HEADER, is_free |-> TRUE]
  BY DEF HeapInit, OS_HeapInit
<1>2. n <= heap[0].size + SIZEOF_HEADER
  BY <1>1, HeapAssumption
<1> QED BY <1>1, <1>2 DEF RoomFor

-----------------------------------------------------------------------------
(* The mutexes: Mutex_Lock makes the caller engaged and Mutex_Unlock ends  *)
(* that, whether anybody waits or not; a hand-over changes nothing for the *)
(* new owner, who was engaged already.                                     *)

LEMMA LockEngages ==
  ASSUME IInv, NEW m \in Mutexes, CurrentTask # Idle, Mutex_Lock(m)
  PROVE  /\ Engaged(m)' = Engaged(m) \cup {CurrentTask}
         /\ \A q \in Mutexes \ {m} : Engaged(q)' = Engaged(q)
<1>1. CurrentTask \in Tasks /\ mx \in [Mutexes -> MutexType]
  BY DEF IInv, TypeOK, CoreTypeOK
<1>2. CASE LockTake(m)
  <2>1. /\ mx'[m].owner = CurrentTask /\ mx'[m].waiting_tasks = mx[m].waiting_tasks
        /\ mx'[m].TaskTracker = mx[m].TaskTracker
        /\ \A q \in Mutexes \ {m} : mx'[q] = mx[q]
    BY <1>1, <1>2 DEF LockTake
  <2>2. \A t \in Tasks : mx[m].owner # t
    BY <1>1, <1>2, TasksAssumption DEF IInv, NoWaiterOnFree, LockTake, Tasks, NULL
  <2> QED BY <2>1, <2>2, <1>1 DEF Engaged, MutexWaiters
<1>3. CASE LockBlock(m)
  <2>1. /\ mx'[m].owner = mx[m].owner /\ mx'[m].TaskTracker = mx[m].TaskTracker + 1
        /\ mx'[m].waiting_tasks = Enlist(mx[m].waiting_tasks, mx[m].TaskTracker, CurrentTask)
        /\ \A q \in Mutexes \ {m} : mx'[q] = mx[q]
    BY <1>1, <1>3 DEF LockBlock
  <2>2. MutexWaiters(m)' = MutexWaiters(m) \cup {CurrentTask}
    <3>1. WellFormed(mx[m].waiting_tasks, mx[m].TaskTracker)
      BY DEF IInv, WellQueued
    <3>2. CurrentTask \notin MutexWaiters(m) /\ Idle \notin MutexWaiters(m)
      BY <1>3, CurrentIsFree, QueuedIff DEF LockBlock
    <3>3. mx[m].TaskTracker + 1 \in Tasks
      BY <3>1, <3>2, <1>1, QueueHasRoom DEF MutexWaiters
    <3> QED BY <1>1, <2>1, <3>1, <3>2, <3>3, EnlistAdds DEF MutexWaiters
  <2> QED BY <2>1, <2>2 DEF Engaged, MutexWaiters
<1> QED BY <1>2, <1>3 DEF Mutex_Lock

LEMMA UnlockDisengages ==
  ASSUME IInv, NEW m \in Mutexes, UnlockFree(m) \/ UnlockHandOver(m)
  PROVE  /\ Engaged(m)' = Engaged(m) \ {CurrentTask}
         /\ \A q \in Mutexes \ {m} : Engaged(q)' = Engaged(q)
<1>1. CurrentTask \in Tasks /\ mx \in [Mutexes -> MutexType] /\ mx[m].owner = CurrentTask
  BY DEF IInv, TypeOK, CoreTypeOK, UnlockFree, UnlockHandOver
<1>2. CurrentTask \notin MutexWaiters(m)
  BY CurrentIsFree, QueuedIff DEF UnlockFree, UnlockHandOver
<1>3. CASE UnlockFree(m)
  <2>1. /\ mx'[m].owner = NULL /\ mx'[m].TaskTracker = mx[m].TaskTracker
        /\ mx'[m].waiting_tasks = mx[m].waiting_tasks
        /\ \A q \in Mutexes \ {m} : mx'[q] = mx[q]
    BY <1>1, <1>3 DEF UnlockFree
  <2>2. \A t \in Tasks : NULL # t
    BY TasksAssumption DEF Tasks, NULL
  <2> QED BY <2>1, <2>2, <1>1, <1>2 DEF Engaged, MutexWaiters
<1>4. CASE UnlockHandOver(m)
  <2> DEFINE w == mx[m].waiting_tasks
             n == mx[m].TaskTracker
  <2>1. PICK k \in Tasks :
          /\ Winner(w, n, Restored(m), k)
          /\ mx' = [mx EXCEPT ![m] = [owner |-> w[k], counter |-> 0,
                                     waiting_tasks |-> FillHole(w, n, k), TaskTracker |-> n - 1,
                                     OriginalPriority |-> Restored(m)[w[k]]]]
    BY <1>4 DEF UnlockHandOver, HandedTo
  <2>2. WellFormed(w, n) /\ k \in 0 .. n - 1
    BY <2>1 DEF IInv, WellQueued, Winner
  <2>3. w[k] \in MutexWaiters(m) /\ w[k] \in Tasks
    BY <2>2 DEF WellFormed, MutexWaiters, Waiters
  <2>4. Waiters(FillHole(w, n, k), n - 1) = Waiters(w, n) \ {w[k]}
    BY <2>2, FillHoleRemoves
  <2>5. /\ mx'[m].owner = w[k] /\ MutexWaiters(m)' = MutexWaiters(m) \ {w[k]}
        /\ \A q \in Mutexes \ {m} : mx'[q] = mx[q]
    BY <2>1, <2>4, <1>1 DEF MutexWaiters
  <2> HIDE DEF w, n
  <2> QED BY <2>3, <2>5, <1>1, <1>2 DEF Engaged, MutexWaiters
<1> QED BY <1>3, <1>4

-----------------------------------------------------------------------------
(* The scripts.                                                            *)

\* Where a script goes on.
LEMMA NextPosition ==
  ASSUME AppTypeOK, NEW t \in Tasks \ {Idle}, Advance(t), app' = app
  PROVE  /\ AppTypeOK'
         /\ pc'[t] = After(app, t, pc[t])
         /\ \A u \in Tasks \ {Idle, t} : pc'[u] = pc[u]
<1>1. /\ app \in Applications /\ pc \in [Tasks -> Nat] /\ pc[t] \in Positions(app, t)
      /\ pc' = [pc EXCEPT ![t] = After(app, t, pc[t])]
  BY DEF AppTypeOK, Advance
<1>2. Len(app.Script[t]) \in Nat /\ app.LoopFrom[t] \in Positions(app, t)
  BY <1>1, ScriptAssumption
<1>3. After(app, t, pc[t]) \in Positions(app, t) /\ After(app, t, pc[t]) \in Nat
  BY <1>1, <1>2 DEF After, Positions
<1>4. pc'[t] = After(app, t, pc[t]) /\ \A u \in Tasks \ {t} : pc'[u] = pc[u]
  BY <1>1
<1>5. pc' \in [Tasks -> Nat]
  BY <1>1, <1>3
<1> QED BY <1>1, <1>3, <1>4, <1>5 DEF AppTypeOK

\* Steps that leave a script where it is, and steps of its own.
ScriptStays == UNCHANGED <<app, pc>>
ScriptMoves(t) == Advance(t) /\ app' = app

LEMMA TypesStay ==
  ASSUME AppTypeOK, ScriptStays
  PROVE  AppTypeOK'
BY DEF AppTypeOK, ScriptStays

\* Positions and arguments of the call in progress.
LEMMA CallFacts ==
  ASSUME AppTypeOK, NEW t \in Tasks \ {Idle}
  PROVE  /\ app \in Applications /\ pc[t] \in Positions(app, t)
         /\ GoodArgument(NextCall(t))
         /\ app.Holds[t][pc[t]] \subseteq Mutexes
         /\ app.Needs[t][pc[t]] \in Nat
BY ScriptAssumption, LockingAssumption, HeapUseAssumption DEF AppTypeOK, NextCall

-----------------------------------------------------------------------------
(* What each part of the invariant is about.                               *)

KernelPart == IInv /\ canary = [t \in Tasks |-> TRUE] /\ NeverFaults /\ ScriptsHold
HeapPart == HeapInv /\ sizes = Requests /\ RoomLeft
UartPart == UartInv /\ PrintersPrint

LEMMA AppInvParts == AppInv <=> AppTypeOK /\ KernelPart /\ HeapPart /\ UartPart
BY DEF AppInv, KernelPart, HeapPart, UartPart

\* As a script goes on it needs no more than before.
LEMMA NeedsShrink ==
  ASSUME AppTypeOK, ScriptStays \/ \E t \in Tasks \ {Idle} : ScriptMoves(t),
         NEW u \in Tasks \ {Idle}
  PROVE  /\ app.Needs[u][pc[u]] \in Nat /\ app'.Needs[u][pc'[u]] \in Nat
         /\ app'.Needs[u][pc'[u]] <= app.Needs[u][pc[u]]
<1>1. CASE ScriptStays
  BY <1>1, CallFacts DEF ScriptStays
<1>2. ASSUME NEW t \in Tasks \ {Idle}, ScriptMoves(t)
      PROVE  /\ app'.Needs[u][pc'[u]] \in Nat
             /\ app'.Needs[u][pc'[u]] <= app.Needs[u][pc[u]]
  <2>1. /\ app' = app /\ AppTypeOK' /\ pc'[t] = After(app, t, pc[t])
        /\ u # t => pc'[u] = pc[u]
    BY <1>2, NextPosition DEF ScriptMoves
  <2>2. app \in Applications /\ pc[u] \in Positions(app, u) /\ pc'[u] \in Positions(app, u)
    BY <2>1 DEF AppTypeOK
  <2> QED BY <2>1, <2>2, HeapUseAssumption
<1> QED BY <1>1, <1>2, CallFacts

\* Where there is room for more there is room for less.
LEMMA RoomForLess ==
  ASSUME HeapInv, NEW n \in Nat, NEW less \in Nat, less <= n, RoomFor(n)
  PROVE  RoomFor(less)
<1>1. PICK h \in DOMAIN heap : heap[h].is_free /\ n <= heap[h].size + SIZEOF_HEADER
  BY DEF RoomFor
<1>2. heap[h].size \in Nat /\ SIZEOF_HEADER \in Nat
  BY HeapAssumption DEF HeapInv, Tiled
<1> QED BY <1>1, <1>2 DEF RoomFor

\* Steps of the heap that take no room away.
LEMMA RoomLeftKept ==
  ASSUME AppTypeOK, HeapInv, RoomLeft, \A n \in Nat : RoomFor(n) => RoomFor(n)',
         ScriptStays \/ \E t \in Tasks \ {Idle} : ScriptMoves(t)
  PROVE  RoomLeft'
<1>1. ASSUME NEW u \in Tasks \ {Idle}, app'.Needs[u][pc'[u]] > SIZEOF_HEADER
      PROVE  \E h \in DOMAIN heap' :
               heap'[h].is_free /\ app'.Needs[u][pc'[u]] <= heap'[h].size + SIZEOF_HEADER
  <2>1. PICK now, then \in Nat : now = app.Needs[u][pc[u]] /\ then = app'.Needs[u][pc'[u]]
    BY NeedsShrink
  <2>2. then <= now /\ now > SIZEOF_HEADER
    BY <2>1, <1>1, NeedsShrink, HeapAssumption
  <2>3. RoomFor(then)
    BY <2>1, <2>2, RoomForLess DEF RoomLeft
  <2>4. RoomFor(then)'
    BY <2>1, <2>3
  <2> QED BY <2>1, <2>4 DEF RoomFor
<1> QED BY <1>1 DEF RoomLeft, RoomFor

LEMMA HeapPartKept ==
  ASSUME AppTypeOK, HeapPart, UNCHANGED heapVars,
         ScriptStays \/ \E t \in Tasks \ {Idle} : ScriptMoves(t)
  PROVE  HeapPart'
<1>1. UNCHANGED <<heap, sizes>> /\ HeapInv' /\ sizes' = Requests
  BY HeapStepInv DEF HeapPart, heapVars
<1>2. RoomLeft'
  BY <1>1, RoomLeftKept DEF HeapPart, RoomFor
<1> QED BY <1>1, <1>2 DEF HeapPart

\* Only a call that prints is inside UART_printf.
LEMMA UartPartKept ==
  ASSUME AppTypeOK, UartPart, UNCHANGED uartVars,
         ScriptStays \/ \E t \in Tasks \ {Idle} : ScriptMoves(t) /\ NextCall(t).call # "print"
  PROVE  UartPart'
<1>1. UNCHANGED <<printf_buffer, ptr, fifo, line>>
  BY DEF uartVars
<1>2. UartInv'
  BY <1>1 DEF UartPart, UartInv, UartTypeOK, LinesWhole
<1>3. ASSUME NEW u \in Printers, ptr'[u] # 0
      PROVE  u \in Tasks \ {Idle} /\ NextCall(u)'.call = "print"
  <2>1. u \in Tasks \ {Idle} /\ NextCall(u).call = "print"
    BY <1>1, <1>3 DEF UartPart, PrintersPrint
  <2>2. CASE ScriptStays
    BY <2>1, <2>2 DEF ScriptStays, NextCall
  <2>3. ASSUME NEW t \in Tasks \ {Idle}, ScriptMoves(t), NextCall(t).call # "print"
        PROVE  NextCall(u)'.call = "print"
    <3>1. u # t /\ app' = app /\ pc'[u] = pc[u]
      BY <2>1, <2>3, NextPosition DEF ScriptMoves
    <3> QED BY <2>1, <3>1 DEF NextCall
  <2> QED BY <2>1, <2>2, <2>3
<1> QED BY <1>2, <1>3 DEF UartPart, PrintersPrint

\* Who holds what changes with Mutex_Lock and Mutex_Unlock only.
LEMMA ScriptsHoldKept ==
  ASSUME AppTypeOK, ScriptsHold, UNCHANGED mx,
         ScriptStays \/ \E t \in Tasks \ {Idle} :
                          ScriptMoves(t) /\ NextCall(t).call \notin {"lock", "unlock"}
  PROVE  ScriptsHold'
<1>1. \A m \in Mutexes : Engaged(m)' = Engaged(m)
  BY DEF Engaged, MutexWaiters
<1>2. ASSUME NEW u \in Tasks \ {Idle} PROVE app'.Holds[u][pc'[u]] = app.Holds[u][pc[u]]
  <2>1. CASE ScriptStays
    BY <2>1 DEF ScriptStays
  <2>2. ASSUME NEW t \in Tasks \ {Idle}, ScriptMoves(t),
               NextCall(t).call \notin {"lock", "unlock"}
        PROVE  app'.Holds[u][pc'[u]] = app.Holds[u][pc[u]]
    <3>1. /\ app' = app /\ pc'[t] = After(app, t, pc[t])
          /\ u # t => pc'[u] = pc[u]
      BY <2>2, NextPosition DEF ScriptMoves
    <3>2. app.Holds[t][After(app, t, pc[t])] = HeldAfter(app, t, pc[t])
      BY LockingAssumption DEF AppTypeOK
    <3>3. HeldAfter(app, t, pc[t]) = app.Holds[t][pc[t]]
      <4>1. app.Script[t][pc[t]].call # "lock" /\ app.Script[t][pc[t]].call # "unlock"
        BY <2>2 DEF NextCall
      <4> QED BY <4>1 DEF HeldAfter
    <3> QED BY <3>1, <3>2, <3>3
  <2> QED BY <2>1, <2>2
<1> QED BY <1>1, <1>2 DEF ScriptsHold

-----------------------------------------------------------------------------
(* Each step of an application is a step of orderly clients of the kernel  *)
(* and a step of the heap, and no task faults.                             *)

\* What a task owns its script says it holds.
LEMMA OwnedIsHeld ==
  ASSUME AppTypeOK, ScriptsHold, NEW t \in Tasks \ {Idle}
  PROVE  OwnedBy(t) \subseteq app.Holds[t][pc[t]]
BY DEF ScriptsHold, Engaged, OwnedBy

\* In a critical section a task only works, ...
LEMMA CallsWithNone ==
  ASSUME AppTypeOK, ScriptsHold, NEW t \in Tasks \ {Idle}, NextCall(t).call \notin {"work", "unlock"}
  PROVE  OwnedBy(t) = {} /\ app.Holds[t][pc[t]] = {}
<1>1. app \in Applications /\ pc[t] \in Positions(app, t)
  BY DEF AppTypeOK
<1>2. app.Script[t][pc[t]].call \notin {"work", "unlock"}
  BY DEF NextCall
<1>3. app.Holds[t][pc[t]] = {}
  BY <1>1, <1>2, CriticalSectionAssumption
<1> QED BY <1>3, OwnedIsHeld

\* ... so Mutex_Lock is called by a task that owns no mutex, ...
LEMMA LocksWithNone ==
  ASSUME AppTypeOK, ScriptsHold, NEW t \in Tasks \ {Idle}, NextCall(t).call = "lock"
  PROVE  NextCall(t).arg \in Mutexes /\ OwnedBy(t) = {} /\ app.Holds[t][pc[t]] = {}
<1>1. NextCall(t).arg \in Mutexes
  BY CallFacts DEF GoodArgument
<1> QED BY <1>1, CallsWithNone

\* ... and Mutex_Unlock by one that owns that mutex and no other.
LEMMA UnlocksItsOwn ==
  ASSUME AppTypeOK, IInv, ScriptsHold, NEW t \in Tasks \ {Idle},
         ThreadMode, CurrentTask = t, NextCall(t).call = "unlock"
  PROVE  NextCall(t).arg \in Mutexes /\ OwnedBy(t) = {NextCall(t).arg}
<1>1. /\ app \in Applications /\ pc[t] \in Positions(app, t)
      /\ NextCall(t) = app.Script[t][pc[t]]
  BY DEF AppTypeOK, NextCall
<1>2. PICK m : m = NextCall(t).arg
  OBVIOUS
<1>3. m \in Mutexes /\ m \in app.Holds[t][pc[t]]
  BY <1>1, <1>2, CallFacts, LockingAssumption DEF GoodArgument
<1>4. t \in Engaged(m) /\ t \notin MutexWaiters(m)
  BY <1>3, CurrentIsFree, QueuedIff DEF ScriptsHold
<1>5. m \in OwnedBy(t)
  BY <1>3, <1>4 DEF Engaged, OwnedBy
<1>6. \A q \in app.Holds[t][pc[t]] : m = q
  BY <1>1, <1>3, CriticalSectionAssumption
<1> QED BY <1>2, <1>3, <1>5, <1>6, OwnedIsHeld

\* Where the script goes on after Mutex_Lock and Mutex_Unlock.
LEMMA HoldsNext ==
  ASSUME AppTypeOK, NEW t \in Tasks \ {Idle}, ScriptMoves(t)
  PROVE  /\ app'.Holds[t][pc'[t]] = HeldAfter(app, t, pc[t])
         /\ \A u \in Tasks \ {Idle, t} : app'.Holds[u][pc'[u]] = app.Holds[u][pc[u]]
<1>1. app.Holds[t][After(app, t, pc[t])] = HeldAfter(app, t, pc[t])
  BY LockingAssumption DEF AppTypeOK
<1> QED BY <1>1, NextPosition DEF ScriptMoves

\* Only the caller of Mutex_Lock is engaged from now on.
LEMMA LockKeepsScripts ==
  ASSUME AppTypeOK, IInv, ScriptsHold, NEW t \in Tasks \ {Idle}, CurrentTask = t,
         NEW m \in Mutexes, NextCall(t).call = "lock", NextCall(t).arg = m,
         Mutex_Lock(m), ScriptMoves(t)
  PROVE  ScriptsHold'
<1>1. /\ Engaged(m)' = Engaged(m) \cup {t}
      /\ \A q \in Mutexes \ {m} : Engaged(q)' = Engaged(q)
  BY LockEngages
<1>2. app'.Holds[t][pc'[t]] = app.Holds[t][pc[t]] \cup {m}
  BY HoldsNext DEF NextCall, HeldAfter
<1>3. ASSUME NEW u \in Tasks \ {Idle}, NEW q \in Mutexes
      PROVE  q \in app'.Holds[u][pc'[u]] <=> u \in Engaged(q)'
  <2>1. q \in app.Holds[u][pc[u]] <=> u \in Engaged(q)
    BY DEF ScriptsHold
  <2>2. CASE u = t
    BY <1>1, <1>2, <2>1, <2>2
  <2>3. CASE u # t
    BY <1>1, <2>1, <2>3, HoldsNext
  <2> QED BY <2>2, <2>3
<1>4. \A q \in Mutexes : Idle \notin Engaged(q)'
  BY <1>1 DEF ScriptsHold
<1> QED BY <1>3, <1>4 DEF ScriptsHold

\* The owner that calls Mutex_Unlock is engaged no more.
LEMMA UnlockKeepsScripts ==
  ASSUME AppTypeOK, IInv, ScriptsHold, NEW t \in Tasks \ {Idle}, CurrentTask = t,
         NEW m \in Mutexes, NextCall(t).call = "unlock", NextCall(t).arg = m,
         UnlockFree(m) \/ UnlockHandOver(m), ScriptMoves(t)
  PROVE  ScriptsHold'
<1>1. /\ Engaged(m)' = Engaged(m) \ {t}
      /\ \A q \in Mutexes \ {m} : Engaged(q)' = Engaged(q)
  BY UnlockDisengages
<1>2. app'.Holds[t][pc'[t]] = app.Holds[t][pc[t]] \ {m}
  BY HoldsNext DEF NextCall, HeldAfter
<1>3. ASSUME NEW u \in Tasks \ {Idle}, NEW q \in Mutexes
      PROVE  q \in app'.Holds[u][pc'[u]] <=> u \in Engaged(q)'
  <2>1. q \in app.Holds[u][pc[u]] <=> u \in Engaged(q)
    BY DEF ScriptsHold
  <2>2. CASE u = t
    BY <1>1, <1>2, <2>1, <2>2
  <2>3. CASE u # t
    BY <1>1, <2>1, <2>3, HoldsNext
  <2> QED BY <2>2, <2>3
<1>4. \A q \in Mutexes : Idle \notin Engaged(q)'
  BY <1>1 DEF ScriptsHold
<1> QED BY <1>3, <1>4 DEF ScriptsHold

\* A kernel call of a script is one of an orderly client, and is no
\* Mutex_Unlock that ends in OS_Fault.
LEMMA KernelCallOrderly ==
  ASSUME AppTypeOK, IInv, ScriptsHold, NEW t \in Tasks \ {Idle}, KernelStep(t), app' = app
  PROVE  [OrderlyNext]_vars /\ UNCHANGED <<canary, fault>> /\ ScriptsHold'
<1> DEFINE c == NextCall(t)
<1>1. /\ ThreadMode /\ CurrentTask = t /\ CurrentTask # Idle /\ ScriptMoves(t)
      /\ GoodArgument(c)
  BY CallFacts DEF KernelStep, Made, ScriptMoves
<1>2. UNCHANGED mx /\ c.call \notin {"lock", "unlock"} => ScriptsHold'
  BY <1>1, ScriptsHoldKept
<1> HIDE DEF c
<1>3. CASE c.call = "work" /\ UNCHANGED vars
  BY <1>2, <1>3 DEF vars, coreVars
<1>4. CASE c.call = "sleep" /\ OS_Sleep(c.arg) /\ UNCHANGED <<smp, mx>>
  <2>1. c.arg \in SleepTicks /\ UNCHANGED <<canary, fault>>
    BY <1>1, <1>4 DEF GoodArgument, OS_Sleep
  <2>2. SleepOrSignal
    BY <1>1, <1>4, <2>1 DEF SleepOrSignal
  <2> QED BY <1>2, <1>4, <2>1, <2>2 DEF OrderlyNext
<1>5. CASE \/ c.call = "wait" /\ OS_Wait(c.arg) /\ UNCHANGED mx
           \/ c.call = "signal" /\ OS_Signal(c.arg) /\ UNCHANGED mx
  <2>1. c.arg \in Semaphores
    BY <1>1, <1>5 DEF GoodArgument
  <2>2. UNCHANGED <<canary, fault>>
    BY <1>5 DEF OS_Wait, WaitTake, WaitBlock, OS_Signal, SignalStore, SignalWake, coreVars
  <2>3. SleepOrSignal
    BY <1>1, <1>5, <2>1 DEF SleepOrSignal
  <2> QED BY <1>2, <1>5, <2>2, <2>3 DEF OrderlyNext
<1>6. CASE c.call = "lock" /\ Mutex_Lock(c.arg) /\ UNCHANGED smp
  <2>1. PICK m \in Mutexes : m = c.arg
    BY <1>6, LocksWithNone DEF c
  <2>2. OwnedBy(CurrentTask) = {}
    BY <1>1, <1>6, LocksWithNone DEF c
  <2>3. Mutex_Lock(m)
    BY <1>6, <2>1
  <2>4. OrderlyMutexCall(m)
    BY <1>1, <1>6, <2>2, <2>3 DEF OrderlyMutexCall, NestingMutexCall
  <2>5. UNCHANGED <<canary, fault>>
    BY <2>3 DEF Mutex_Lock, LockTake, LockBlock, coreVars
  <2>6. ScriptsHold'
    BY <1>1, <1>6, <2>1, <2>3, LockKeepsScripts DEF c
  <2> QED BY <2>4, <2>5, <2>6 DEF OrderlyNext
<1>7. CASE c.call = "unlock" /\ Mutex_Unlock(c.arg) /\ UNCHANGED smp
  <2>1. c.arg \in Mutexes /\ OwnedBy(t) = {c.arg}
    BY <1>1, <1>7, UnlocksItsOwn DEF c
  <2>2. PICK m \in Mutexes : m = c.arg
    BY <2>1
  <2>3. Mutex_Unlock(m) /\ OwnedBy(CurrentTask) = {m}
    BY <1>1, <1>7, <2>1, <2>2
  <2>4. mx[m].owner = CurrentTask
    BY <2>3 DEF OwnedBy
  <2>5. UnlockFree(m) \/ UnlockHandOver(m)
    BY <2>3, <2>4 DEF Mutex_Unlock, UnlockFault
  <2>6. OrderlyMutexCall(m)
    BY <1>1, <1>7, <2>3 DEF OrderlyMutexCall, NestingMutexCall
  <2>7. UNCHANGED <<canary, fault>>
    BY <2>5 DEF UnlockFree, UnlockHandOver
  <2>8. ScriptsHold'
    BY <1>1, <1>7, <2>2, <2>5, UnlockKeepsScripts DEF c
  <2> QED BY <2>6, <2>7, <2>8 DEF OrderlyNext
<1> QED BY <1>3, <1>4, <1>5, <1>6, <1>7 DEF KernelStep, Made, c

\* The tick, the context switch: no canary is ever lost.
LEMMA BackgroundOrderly ==
  ASSUME AppTypeOK, ScriptsHold, canary = [t \in Tasks |-> TRUE], Tick \/ SwitchEntry \/ SwitchBody
  PROVE  [OrderlyNext]_vars /\ UNCHANGED <<canary, fault>> /\ ScriptsHold'
<1>1. Overran = {}
  BY DEF Overran
<1>2. UNCHANGED <<canary, fault, smp, mx>> /\ ScriptStays
  BY <1>1 DEF Tick, SysTick_Handler, SwitchEntry, PendSV_Entry, SwitchBody, PendSV_Handler,
              ScriptStays, scriptVars
<1>3. Background
  BY <1>2 DEF Background, Tick, SwitchEntry, SwitchBody
<1> QED BY <1>2, <1>3, ScriptsHoldKept DEF OrderlyNext

\* os_malloc finds a block for what a script asks for, and leaves room for
\* what it still will ask for.
LEMMA MallocKeepsRoom ==
  ASSUME AppTypeOK, HeapPart, NEW t \in Tasks \ {Idle}, NextCall(t).call = "malloc",
         NEW n \in Nat, n = NextCall(t).arg, ScriptMoves(t), os_malloc(n)
  PROVE  ~Refused(n) /\ RoomLeft'
<1>1. PICK now, left \in Nat :
        /\ now = app.Needs[t][pc[t]] /\ left = app'.Needs[t][pc'[t]]
        /\ n > 0 /\ left + n + SIZEOF_HEADER <= now
        /\ \A u \in Tasks \ {Idle, t} : app'.Needs[u][pc'[u]] = 0
  <2>1. /\ app \in Applications /\ pc[t] \in Positions(app, t) /\ app' = app /\ AppTypeOK'
        /\ pc'[t] = After(app, t, pc[t]) /\ app.Script[t][pc[t]] = NextCall(t)
    BY NextPosition DEF AppTypeOK, ScriptMoves, NextCall
  <2>2. \A u \in Tasks \ {Idle, t} : \A k \in Positions(app, u) : app.Needs[u][k] = 0
    BY <2>1, HeapUseAssumption
  <2>3. \A u \in Tasks \ {Idle, t} : app'.Needs[u][pc'[u]] = 0
    BY <2>1, <2>2 DEF AppTypeOK
  <2>4. app.Needs[t][After(app, t, pc[t])] + n + SIZEOF_HEADER <= app.Needs[t][pc[t]] /\ n > 0
    BY <2>1, HeapUseAssumption
  <2>5. app.Needs[t][pc[t]] \in Nat /\ app'.Needs[t][pc'[t]] \in Nat
    BY NeedsShrink
  <2> QED BY <2>1, <2>3, <2>4, <2>5
<1>2. SIZEOF_HEADER \in Nat /\ now > SIZEOF_HEADER
  BY <1>1, HeapAssumption
<1>3. RoomFor(now) /\ HeapInv
  BY <1>1, <1>2 DEF HeapPart, RoomLeft
<1>4. ~Refused(n)
  <2>1. n + SIZEOF_HEADER <= now
    BY <1>1, <1>2
  <2> QED BY <2>1, <1>1, <1>3, RoomIsGranted
<1>5. ASSUME left > SIZEOF_HEADER
      PROVE  RoomFor(left)'
  <2>1. left + n + SIZEOF_HEADER \in Nat
    BY <1>2
  <2>2. RoomFor(left + n + SIZEOF_HEADER)
    BY <2>1, <1>1, <1>3, RoomForLess
  <2>3. PICK h \in DOMAIN heap : Fits(h, n) /\ Take(h, n)
    BY <1>4 DEF os_malloc, Refuse, Grant
  <2> QED BY <2>2, <2>3, <1>3, <1>5, TakeKeepsRoom
<1>6. ASSUME NEW u \in Tasks \ {Idle}, app'.Needs[u][pc'[u]] > SIZEOF_HEADER
      PROVE  \E h \in DOMAIN heap' :
               heap'[h].is_free /\ app'.Needs[u][pc'[u]] <= heap'[h].size + SIZEOF_HEADER
  <2>1. u = t
    BY <1>1, <1>2, <1>6
  <2> QED BY <2>1, <1>1, <1>5, <1>6 DEF RoomFor
<1> QED BY <1>4, <1>6 DEF RoomLeft, RoomFor

\* While a script takes all it can get, nobody has any more to ask for.
LEMMA ExhaustKeepsRoom ==
  ASSUME AppTypeOK, NEW t \in Tasks \ {Idle}, NextCall(t).call = "exhaust", ScriptStays
  PROVE  RoomLeft'
<1>1. ASSUME NEW u \in Tasks \ {Idle} PROVE app'.Needs[u][pc'[u]] = 0
  <2>1. /\ app \in Applications /\ pc[t] \in Positions(app, t) /\ pc[u] \in Positions(app, u)
        /\ app.Script[t][pc[t]] = NextCall(t) /\ app' = app /\ pc' = pc
    BY DEF AppTypeOK, NextCall, ScriptStays
  <2>2. app.Needs[t][pc[t]] = 0
    BY <2>1, HeapUseAssumption
  <2>3. u # t => app.Needs[u][pc[u]] = 0
    BY <2>1, HeapUseAssumption
  <2> QED BY <2>1, <2>2, <2>3
<1>2. ~(0 > SIZEOF_HEADER)
  BY HeapAssumption
<1> QED BY <1>1, <1>2 DEF RoomLeft

\* A heap call of a script is one of the heap's, and no os_malloc that a
\* script relies on is refused.
LEMMA HeapCallGranted ==
  ASSUME AppTypeOK, HeapPart, NeverFaults, fault \in BOOLEAN, NEW t \in Tasks \ {Idle},
         HeapStep(t), UNCHANGED <<app, sizes>>
  PROVE  /\ [HeapNext]_heapVars /\ HeapPart' /\ UNCHANGED vars
         /\ \/ ScriptStays
            \/ ScriptMoves(t) /\ NextCall(t).call \notin {"lock", "unlock", "print"}
<1> DEFINE c == NextCall(t)
<1>1. HeapInv /\ sizes = Requests /\ RoomLeft /\ GoodArgument(c) /\ Requests \subseteq Nat
  BY CallFacts, HeapAssumption DEF HeapPart
<1>2. c.call \in {"malloc", "exhaust"} => c.arg \in Nat /\ c.arg \in sizes
  BY <1>1 DEF GoodArgument
<1> HIDE DEF c
<1>3. CASE /\ c.call = "malloc" /\ os_malloc(c.arg) /\ Advance(t) /\ fault' = Refused(c.arg)
           /\ UNCHANGED <<CurrentTask, state, priority, ticks, canary, pendsv, inPendSV, smp, mx>>
  <2>1. PICK n \in Nat : n = c.arg /\ n \in sizes
    BY <1>2, <1>3
  <2>2. os_malloc(n) /\ ScriptMoves(t)
    BY <1>3, <2>1 DEF ScriptMoves
  <2>3. ~Refused(n) /\ RoomLeft'
    BY <1>3, <2>1, <2>2, MallocKeepsRoom DEF c
  <2>4. [HeapNext]_heapVars
    BY <2>1, <2>2 DEF HeapNext
  <2>5. fault' = FALSE /\ fault = FALSE
    BY <1>3, <2>1, <2>3 DEF NeverFaults
  <2>6. UNCHANGED vars
    BY <1>3, <2>5 DEF vars, coreVars
  <2>7. HeapInv'
    BY <1>1, <2>4, HeapStepInv
  <2> QED BY <1>1, <1>3, <2>2, <2>3, <2>4, <2>6, <2>7 DEF HeapPart, c
<1>4. CASE c.call = "exhaust" /\ Grant(c.arg) /\ UNCHANGED <<vars, pc>>
  <2>1. ScriptStays
    BY <1>4 DEF ScriptStays
  <2>2. [HeapNext]_heapVars
    BY <1>2, <1>4 DEF HeapNext, os_malloc
  <2>3. HeapInv' /\ RoomLeft'
    BY <1>1, <1>4, <2>1, <2>2, HeapStepInv, ExhaustKeepsRoom DEF c
  <2> QED BY <1>1, <1>4, <2>1, <2>2, <2>3 DEF HeapPart
<1>5. CASE c.call = "exhaust" /\ Refuse(c.arg) /\ Advance(t) /\ UNCHANGED vars
  <2>1. ScriptMoves(t) /\ UNCHANGED heapVars
    BY <1>5 DEF ScriptMoves, Refuse, heapVars
  <2> QED BY <1>5, <2>1, HeapPartKept DEF c
<1>6. CASE c.call = "free" /\ (\E b \in owned : os_free(b)) /\ Advance(t) /\ UNCHANGED vars
  <2>1. PICK b \in owned : os_free(b)
    BY <1>6
  <2>2. ScriptMoves(t) /\ [HeapNext]_heapVars
    BY <1>6 DEF ScriptMoves, HeapNext
  <2>3. \A n \in Nat : RoomFor(n) => RoomFor(n)'
    BY <1>1, <2>1, FreeKeepsRoom
  <2>4. HeapInv' /\ RoomLeft'
    BY <1>1, <2>2, <2>3, HeapStepInv, RoomLeftKept
  <2> QED BY <1>1, <1>6, <2>2, <2>4 DEF HeapPart, c
<1> QED BY <1>3, <1>4, <1>5, <1>6 DEF HeapStep, Made, c

\* One task at a time is inside UART_printf.
LEMMA OnePrints ==
  ASSUME AppTypeOK, PrintersPrint, NEW t \in Tasks \ {Idle}, NextCall(t).call = "print"
  PROVE  t \in Printers /\ \A u \in Printers : ptr[u] # 0 => u = t
<1>1. ASSUME NEW u \in Tasks \ {Idle}, NextCall(u).call = "print"
      PROVE  t = u /\ t \in Printers
  <2>1. /\ app \in Applications /\ pc[t] \in Positions(app, t) /\ pc[u] \in Positions(app, u)
        /\ app.Script[t][pc[t]].call = "print" /\ app.Script[u][pc[u]].call = "print"
    BY <1>1 DEF AppTypeOK, NextCall
  <2> QED BY <2>1, PrintAssumption
<1> QED BY <1>1 DEF PrintersPrint

LEMMA PrintCallWhole ==
  ASSUME AppTypeOK, UartPart, NEW t \in Tasks \ {Idle}, PrintStep(t), app' = app
  PROVE  /\ UartPart' /\ UNCHANGED vars
         /\ \/ ScriptStays
            \/ ScriptMoves(t) /\ NextCall(t).call \notin {"lock", "unlock"}
<1>1. /\ UartInv /\ PrintersPrint /\ ptr \in [Printers -> 0 .. 4]
      /\ NextCall(t).call = "print" /\ UNCHANGED vars
      /\ t \in Printers /\ \A u \in Printers : ptr[u] # 0 => u = t
  BY OnePrints DEF UartPart, UartInv, UartTypeOK, PrintStep, Made
<1>2. CASE (Format(t) \/ Put(t)) /\ UNCHANGED pc
  <2>1. ScriptStays /\ UartInv'
    BY <1>1, <1>2, FormatInv, PutInv DEF ScriptStays
  <2>2. \A u \in Printers : ptr'[u] # 0 => u = t
    BY <1>1, <1>2 DEF Format, Put
  <2>3. NextCall(t)' = NextCall(t)
    BY <2>1 DEF ScriptStays, NextCall
  <2>4. PrintersPrint'
    BY <1>1, <2>2, <2>3 DEF PrintersPrint
  <2> QED BY <1>1, <2>1, <2>4 DEF UartPart
<1>3. CASE PrintReturns(t) /\ Advance(t)
  <2>1. ScriptMoves(t) /\ UartInv'
    BY <1>1, <1>3, ReturnInv DEF ScriptMoves
  <2>2. \A u \in Printers : ptr'[u] = 0
    BY <1>1, <1>3 DEF PrintReturns
  <2>3. PrintersPrint'
    BY <2>2 DEF PrintersPrint
  <2> QED BY <1>1, <2>1, <2>3 DEF UartPart
<1> QED BY <1>2, <1>3 DEF PrintStep

LEMMA SendingWhole ==
  ASSUME AppTypeOK, UartPart, Sending
  PROVE  UartPart'
<1>1. UartInv' /\ UNCHANGED <<app, pc, ptr>>
  BY TransmitInv DEF Sending, Transmit, UartPart, scriptVars
<1>2. \A u \in Printers : NextCall(u)' = NextCall(u)
  BY <1>1 DEF NextCall
<1> QED BY <1>1, <1>2 DEF UartPart, PrintersPrint

-----------------------------------------------------------------------------
(* The invariant.                                                          *)

LEMMA AppInitInv == AppInit => AppInv
<1> SUFFICES ASSUME AppInit PROVE AppInv
  OBVIOUS
<1>1. /\ Init /\ HeapInit /\ UartInit /\ sizes = Requests /\ app \in Applications
      /\ pc = [t \in Tasks |-> 1]
  BY DEF AppInit
<1>2. IInv /\ HeapInv /\ UartInv
  BY <1>1, InitInv, HeapInitInv, UartInitInv
<1>3. canary = [t \in Tasks |-> TRUE] /\ NeverFaults
  BY <1>1 DEF Init, CoreInit, NeverFaults
<1>4. \A t \in Tasks \ {Idle} : 1 \in Positions(app, t)
  BY <1>1, ScriptAssumption DEF Positions
<1>5. AppTypeOK
  BY <1>1, <1>4 DEF AppTypeOK
<1>6. ScriptsHold
  <2>1. \A m \in Mutexes : MutexWaiters(m) = {} /\ mx[m].owner = NULL
    BY <1>1 DEF Init, Mutex_Init, MutexWaiters, Waiters
  <2>2. \A m \in Mutexes : Engaged(m) = {}
    BY <2>1, TasksAssumption DEF Engaged, Tasks, NULL
  <2>3. \A t \in Tasks \ {Idle} : app.Holds[t][pc[t]] = {}
    BY <1>1, LockingAssumption
  <2> QED BY <2>2, <2>3 DEF ScriptsHold
<1>7. RoomLeft
  <2>1. \A t \in Tasks \ {Idle} : app.Needs[t][pc[t]] \in Nat /\ app.Needs[t][pc[t]] <= HEAP_SIZE
    BY <1>1, <1>4, HeapUseAssumption
  <2> QED BY <1>1, <2>1, InitialRoom DEF RoomLeft
<1>8. PrintersPrint
  BY <1>1 DEF UartInit, PrintersPrint
<1> QED BY <1>1, <1>2, <1>3, <1>5, <1>6, <1>7, <1>8 DEF AppInv

\* Every step keeps the invariant, and is a step of orderly clients of the
\* kernel and of callers of the heap.
LEMMA AppStep ==
  ASSUME AppInv, [AppNext]_appVars
  PROVE  AppInv' /\ [OrderlyNext]_vars /\ [HeapNext]_heapVars
<1>1. /\ AppTypeOK /\ KernelPart /\ HeapPart /\ UartPart /\ IInv /\ ScriptsHold /\ NeverFaults
      /\ canary = [t \in Tasks |-> TRUE] /\ fault \in BOOLEAN
  BY AppInvParts DEF KernelPart, IInv, TypeOK, CoreTypeOK
<1>2. ASSUME [OrderlyNext]_vars, UNCHANGED <<canary, fault>>, ScriptsHold'
      PROVE  KernelPart'
  <2>1. IInv'
    BY <1>1, <1>2, OrderlyIsNext, NextEffect
  <2> QED BY <1>1, <1>2, <2>1 DEF KernelPart, NeverFaults
<1>3. UNCHANGED vars => [OrderlyNext]_vars /\ UNCHANGED <<canary, fault, mx>>
  BY DEF vars, coreVars
<1>4. CASE Tick \/ SwitchEntry \/ SwitchBody
  <2>1. [OrderlyNext]_vars /\ KernelPart'
    BY <1>1, <1>2, <1>4, BackgroundOrderly
  <2>2. ScriptStays /\ UNCHANGED <<heapVars, uartVars>>
    BY <1>4 DEF Tick, SwitchEntry, SwitchBody, ScriptStays, scriptVars
  <2>3. AppTypeOK' /\ HeapPart' /\ UartPart'
    BY <1>1, <2>2, TypesStay, HeapPartKept, UartPartKept
  <2> QED BY <2>1, <2>2, <2>3, AppInvParts DEF AppInv, KernelPart, HeapPart, UartPart
<1>5. CASE Sending
  <2>1. ScriptStays /\ UNCHANGED <<vars, heapVars>>
    BY <1>5 DEF Sending, ScriptStays, scriptVars
  <2>2. KernelPart'
    BY <1>1, <1>2, <1>3, <2>1, ScriptsHoldKept
  <2>3. AppTypeOK' /\ HeapPart' /\ UartPart'
    BY <1>1, <1>5, <2>1, TypesStay, HeapPartKept, SendingWhole
  <2> QED BY <2>1, <2>2, <2>3 DEF AppInv, KernelPart, HeapPart, UartPart
<1>6. ASSUME NEW t \in Tasks \ {Idle}, KernelStep(t), UNCHANGED <<app, sizes, ranSinceTick>>
      PROVE  AppInv' /\ [OrderlyNext]_vars /\ [HeapNext]_heapVars
  <2>1. [OrderlyNext]_vars /\ KernelPart'
    BY <1>1, <1>2, <1>6, KernelCallOrderly
  <2>2. ScriptMoves(t) /\ UNCHANGED <<heapVars, uartVars>> /\ NextCall(t).call # "print"
    BY <1>6 DEF KernelStep, Made, ScriptMoves, heapVars
  <2>3. AppTypeOK'
    BY <1>1, <2>2, NextPosition DEF ScriptMoves
  <2>4. HeapPart' /\ UartPart'
    BY <1>1, <2>2, HeapPartKept, UartPartKept
  <2> QED BY <2>1, <2>2, <2>3, <2>4 DEF AppInv, KernelPart, HeapPart, UartPart
<1>7. ASSUME NEW t \in Tasks \ {Idle}, HeapStep(t), UNCHANGED <<app, sizes, ranSinceTick>>
      PROVE  AppInv' /\ [OrderlyNext]_vars /\ [HeapNext]_heapVars
  <2>1. /\ [HeapNext]_heapVars /\ HeapPart' /\ UNCHANGED vars
        /\ \/ ScriptStays
           \/ ScriptMoves(t) /\ NextCall(t).call \notin {"lock", "unlock", "print"}
    BY <1>1, <1>7, HeapCallGranted
  <2>2. KernelPart'
    BY <1>1, <1>2, <1>3, <2>1, ScriptsHoldKept
  <2>3. AppTypeOK'
    BY <1>1, <2>1, TypesStay, NextPosition DEF ScriptMoves
  <2>4. UartPart'
    BY <1>1, <1>7, <2>1, UartPartKept DEF HeapStep
  <2> QED BY <1>3, <2>1, <2>2, <2>3, <2>4 DEF AppInv, KernelPart, HeapPart, UartPart
<1>8. ASSUME NEW t \in Tasks \ {Idle}, PrintStep(t), UNCHANGED <<app, sizes, ranSinceTick>>
      PROVE  AppInv' /\ [OrderlyNext]_vars /\ [HeapNext]_heapVars
  <2>1. /\ UartPart' /\ UNCHANGED vars
        /\ \/ ScriptStays
           \/ ScriptMoves(t) /\ NextCall(t).call \notin {"lock", "unlock"}
    BY <1>1, <1>8, PrintCallWhole
  <2>2. UNCHANGED heapVars
    BY <1>8 DEF PrintStep, heapVars
  <2>3. KernelPart'
    BY <1>1, <1>2, <1>3, <2>1, ScriptsHoldKept
  <2>4. AppTypeOK'
    BY <1>1, <2>1, TypesStay, NextPosition DEF ScriptMoves
  <2>5. HeapPart'
    BY <1>1, <2>1, <2>2, HeapPartKept
  <2> QED BY <1>3, <2>1, <2>2, <2>3, <2>4, <2>5 DEF AppInv, KernelPart, HeapPart, UartPart
<1>9. CASE UNCHANGED appVars
  <2>1. ScriptStays /\ UNCHANGED <<vars, heapVars, uartVars>>
    BY <1>9 DEF appVars, ScriptStays, scriptVars
  <2>2. KernelPart'
    BY <1>1, <1>2, <1>3, <2>1, ScriptsHoldKept
  <2>3. AppTypeOK' /\ HeapPart' /\ UartPart'
    BY <1>1, <2>1, TypesStay, HeapPartKept, UartPartKept
  <2> QED BY <2>1, <2>2, <2>3 DEF AppInv, KernelPart, HeapPart, UartPart
<1> QED BY <1>4, <1>5, <1>6, <1>7, <1>8, <1>9 DEF AppNext, Step

-----------------------------------------------------------------------------
\* The scripts, the kernel, the heap and the UART stay in step.
THEOREM AppInvariant == AppSpec => []AppInv
<1>1. AppInv /\ [AppNext]_appVars => AppInv'
  BY AppStep
<1> QED BY AppInitInv, <1>1, PTL DEF AppSpec

\* The applications are orderly clients of the kernel and use the heap as its
\* callers may, so all that is proved of those holds of them.
THEOREM ApplicationsAreOrderly == AppSpec => OrderlySpec /\ HeapSpec
<1>1. AppInit => Init /\ HeapInit
  BY DEF AppInit
<1>2. AppInv /\ [AppNext]_appVars => [OrderlyNext]_vars /\ [HeapNext]_heapVars
  BY AppStep
<1> QED BY <1>1, <1>2, AppInvariant, PTL DEF AppSpec, OrderlySpec, HeapSpec

\* With ticks between the calls, but none inside one, no script halts in
\* OS_Fault: Mutex_Unlock is called by the owner only, and os_malloc finds a
\* block whenever a script relies on it (Kernel/Mutex.c, Kernel/os_malloc.c).
THEOREM ScriptsNeverFault == AppSpec => []NeverFaults
<1>1. AppInv => NeverFaults
  BY DEF AppInv
<1> QED BY AppInvariant, <1>1, PTL

\* Every line on the wire is one number, each character once and in order
\* (Drivers/uart.c), as long as one task prints.
THEOREM LinesStayWhole == AppSpec => []LinesWhole
<1>1. AppInv => LinesWhole
  BY DEF AppInv, UartInv
<1> QED BY AppInvariant, <1>1, PTL

-----------------------------------------------------------------------------
(* Bounded priority inversion.                                             *)

\* Steps after which nobody is blocked who was not, and that make no owner.
LEMMA NobodyNewBlocked ==
  ASSUME IInv, OwnersAwake, UNCHANGED mx,
         \A t \in Tasks : state'[t] = "BLOCKED" => state[t] = "BLOCKED" \/ OwnedBy(t) = {}
  PROVE  OwnersAwake'
<1> SUFFICES ASSUME NEW m \in Mutexes, mx[m].owner # NULL, state'[mx[m].owner] = "BLOCKED"
             PROVE  FALSE
  BY DEF OwnersAwake
<1>1. mx[m].owner \in Tasks /\ m \in OwnedBy(mx[m].owner)
  BY DEF IInv, TypeOK, MutexType, OwnedBy
<1> QED BY <1>1 DEF OwnersAwake

\* A mutex is taken by a task that runs, handed to one that becomes READY,
\* and the task that blocks on one owns none.
LEMMA LockKeepsAwake ==
  ASSUME IInv, OwnersAwake, NEW m \in Mutexes, OwnedBy(CurrentTask) = {}, Mutex_Lock(m)
  PROVE  OwnersAwake'
<1>1. /\ CurrentTask \in Tasks /\ mx \in [Mutexes -> MutexType] /\ state \in [Tasks -> States]
      /\ \A q \in Mutexes : mx[q].owner # CurrentTask /\ mx[q].owner \in Tasks \cup {NULL}
  BY DEF IInv, TypeOK, CoreTypeOK, MutexType, OwnedBy
<1>2. CASE LockTake(m)
  <2>1. /\ mx'[m].owner = CurrentTask /\ state' = state
        /\ \A q \in Mutexes \ {m} : mx'[q] = mx[q]
    BY <1>1, <1>2 DEF LockTake, coreVars
  <2>2. state[CurrentTask] # "BLOCKED"
    BY <1>2, CurrentIsFree DEF LockTake
  <2> QED BY <2>1, <2>2 DEF OwnersAwake
<1>3. CASE LockBlock(m)
  <2>1. \A q \in Mutexes : mx'[q].owner = mx[q].owner
    BY <1>1, <1>3 DEF LockBlock
  <2>2. \A t \in Tasks \ {CurrentTask} : state'[t] = state[t]
    BY <1>1, <1>3 DEF LockBlock
  <2> QED BY <1>1, <2>1, <2>2 DEF OwnersAwake
<1> QED BY <1>2, <1>3 DEF Mutex_Lock

LEMMA UnlockKeepsAwake ==
  ASSUME IInv, OwnersAwake, NEW m \in Mutexes, UnlockFree(m) \/ UnlockHandOver(m)
  PROVE  OwnersAwake'
<1>1. /\ mx \in [Mutexes -> MutexType] /\ state \in [Tasks -> States]
      /\ \A q \in Mutexes : mx[q].owner \in Tasks \cup {NULL}
  BY DEF IInv, TypeOK, CoreTypeOK, MutexType
<1>2. CASE UnlockFree(m)
  <2>1. /\ mx'[m].owner = NULL /\ state' = state
        /\ \A q \in Mutexes \ {m} : mx'[q] = mx[q]
    BY <1>1, <1>2 DEF UnlockFree
  <2> QED BY <2>1 DEF OwnersAwake
<1>3. CASE UnlockHandOver(m)
  <2>1. PICK k \in Tasks :
          /\ Winner(mx[m].waiting_tasks, mx[m].TaskTracker, Restored(m), k)
          /\ state' = [state EXCEPT ![mx[m].waiting_tasks[k]] = "READY"]
          /\ mx' = [mx EXCEPT ![m] = HandedTo(m, k)]
    BY <1>3 DEF UnlockHandOver
  <2>2. PICK w \in Tasks : w = mx[m].waiting_tasks[k]
    BY <2>1 DEF IInv, WellQueued, WellFormed, Winner
  <2>3. /\ mx'[m].owner = w /\ state'[w] = "READY"
        /\ \A q \in Mutexes \ {m} : mx'[q] = mx[q]
        /\ \A t \in Tasks \ {w} : state'[t] = state[t]
    BY <1>1, <2>1, <2>2 DEF HandedTo
  <2>4. ASSUME NEW q \in Mutexes, mx'[q].owner # NULL
        PROVE  state'[mx'[q].owner] # "BLOCKED"
    <3>1. CASE q = m
      BY <2>3, <3>1
    <3>2. CASE q # m
      <4>1. mx'[q] = mx[q] /\ mx[q].owner \in Tasks /\ state[mx[q].owner] # "BLOCKED"
        BY <1>1, <2>3, <2>4, <3>2 DEF OwnersAwake
      <4> QED BY <2>3, <4>1
    <3> QED BY <3>1, <3>2
  <2> QED BY <2>4 DEF OwnersAwake
<1> QED BY <1>2, <1>3

LEMMA AwakeStep ==
  ASSUME AppInv, OwnersAwake, [AppNext]_appVars
  PROVE  OwnersAwake'
<1>1. /\ AppTypeOK /\ IInv /\ ScriptsHold /\ HeapPart /\ NeverFaults /\ UartPart
      /\ fault \in BOOLEAN /\ CurrentTask \in Tasks /\ state \in [Tasks -> States]
  BY DEF AppInv, IInv, TypeOK, CoreTypeOK, HeapPart, UartPart
<1>2. CASE UNCHANGED vars
  BY <1>2 DEF vars, coreVars, OwnersAwake
<1>3. CASE Tick
  <2>1. PICK S \in SUBSET Tasks : Countdown(S)
    BY <1>3, TasksAssumption DEF Tick, SysTick_Handler, Overran, Tasks
  <2>2. \A t \in Tasks : state'[t] = "BLOCKED" => state[t] = "BLOCKED"
    BY <2>1 DEF Countdown
  <2> QED BY <1>1, <1>3, <2>2, NobodyNewBlocked DEF Tick
<1>4. CASE SwitchEntry
  BY <1>1, <1>4, NobodyNewBlocked DEF SwitchEntry, PendSV_Entry
<1>5. CASE SwitchBody
  BY <1>1, <1>5, ScheduleInv, NobodyNewBlocked DEF SwitchBody
<1>6. ASSUME NEW t \in Tasks \ {Idle}, KernelStep(t)
      PROVE  OwnersAwake'
  <2> DEFINE c == NextCall(t)
  <2>1. ThreadMode /\ CurrentTask = t
    BY <1>6 DEF KernelStep, Made
  <2>2. c.call \notin {"work", "unlock"} => OwnedBy(CurrentTask) = {}
    BY <1>1, <2>1, CallsWithNone
  <2> HIDE DEF c
  <2>3. CASE c.call \notin {"work", "unlock"} /\ UNCHANGED mx
             /\ \A u \in Tasks : state'[u] = "BLOCKED" => state[u] = "BLOCKED" \/ u = CurrentTask
    BY <1>1, <2>2, <2>3, NobodyNewBlocked
  <2>4. CASE \/ c.call = "sleep" /\ OS_Sleep(c.arg) /\ UNCHANGED <<smp, mx>>
             \/ c.call = "wait" /\ OS_Wait(c.arg) /\ UNCHANGED mx
    BY <1>1, <2>3, <2>4 DEF OS_Sleep, OS_Wait, WaitTake, WaitBlock, coreVars
  <2>5. CASE c.call = "signal" /\ OS_Signal(c.arg) /\ UNCHANGED mx
    BY <1>1, <2>3, <2>5 DEF OS_Signal, SignalStore, SignalWake, coreVars
  <2>6. CASE c.call = "lock" /\ Mutex_Lock(c.arg)
    <3>1. PICK m \in Mutexes : m = c.arg
      BY <1>1, <2>6, LocksWithNone DEF c
    <3> QED BY <1>1, <2>2, <2>6, <3>1, LockKeepsAwake
  <2>7. CASE c.call = "unlock" /\ Mutex_Unlock(c.arg)
    <3>1. PICK m \in Mutexes : m = c.arg /\ OwnedBy(t) = {m}
      BY <1>1, <2>1, <2>7, UnlocksItsOwn DEF c
    <3>2. UnlockFree(m) \/ UnlockHandOver(m)
      BY <2>1, <2>7, <3>1 DEF OwnedBy, Mutex_Unlock, UnlockFault
    <3> QED BY <1>1, <3>2, UnlockKeepsAwake
  <2> QED BY <1>2, <1>6, <2>4, <2>5, <2>6, <2>7 DEF KernelStep, Made, c
<1>7. ASSUME NEW t \in Tasks \ {Idle}, HeapStep(t) \/ PrintStep(t), UNCHANGED <<app, sizes>>
      PROVE  UNCHANGED vars
  BY <1>1, <1>7, HeapCallGranted, PrintCallWhole
<1> QED BY <1>2, <1>3, <1>4, <1>5, <1>6, <1>7 DEF AppNext, Step, Sending, appVars

\* A task never blocks in its critical section, and a hand-over wakes the new
\* owner: every owner can run.
THEOREM OwnersStayAwake == AppSpec => []OwnersAwake
<1>1. AppInit => OwnersAwake
  BY DEF AppInit, Init, Mutex_Init, OwnersAwake
<1>2. AppInv /\ OwnersAwake /\ [AppNext]_appVars => OwnersAwake'
  BY AwakeStep
<1> QED BY <1>1, <1>2, AppInvariant, PTL DEF AppSpec

LEMMA InversionBoundedBy ==
  AppInv /\ OrderlyInv /\ OwnersAwake => NoInversion
<1> SUFFICES ASSUME AppInv, OrderlyInv, OwnersAwake, ThreadMode, state[CurrentTask] = "RUNNING",
                    NEW m \in Mutexes, NEW t \in MutexWaiters(m), CurrentTask # mx[m].owner
             PROVE  BasePriority[CurrentTask] >= BasePriority[t]
  BY DEF NoInversion
<1> DEFINE o == mx[m].owner
<1>1. /\ IInv /\ CurrentTask \in Tasks /\ state \in [Tasks -> States]
      /\ priority \in [Tasks -> 0 .. Int8Max] /\ mx \in [Mutexes -> MutexType]
  BY DEF AppInv, IInv, TypeOK, CoreTypeOK
<1>2. t \in Tasks /\ o \in Tasks /\ o # NULL
  <2>1. t \in Tasks
    BY <1>1, QueuedIff, QueuedAreTasks
  <2>2. mx[m].TaskTracker # 0
    BY NoneWaits
  <2>3. mx[m].counter = 0 /\ mx[m].TaskTracker \in Tasks /\ mx[m].owner \in Tasks \cup {NULL}
    BY <1>1, <2>2 DEF IInv, NoWaiterOnFree, MutexType
  <2> QED BY <1>1, <2>1, <2>3 DEF IInv, NoWaiterOnFree
<1>3. priority[t] <= priority[o] /\ priority[o] <= priority[CurrentTask]
  <2>1. state[o] = "READY"
    BY <1>1, <1>2 DEF OwnersAwake, IInv, OneRunning, States
  <2> QED BY <1>2, <2>1 DEF OrderlyInv, OwnerInherits, HighestRuns
<1>4. priority[t] = BasePriority[t]
  <2>1. OwnedBy(t) = {}
    BY DEF OrderlyInv, OwnsOne, OwnersNeverWait, OwnedBy
  <2> QED BY <1>2, <2>1 DEF OrderlyInv, PriorityRestored
<1>5. priority[CurrentTask] = BasePriority[CurrentTask]
  <2>1. ASSUME NEW q \in OwnedBy(CurrentTask)
        PROVE  FALSE
    <3>1. q \in Mutexes /\ CurrentTask \in Engaged(q) /\ t \in Engaged(m)
      BY <1>1 DEF OwnedBy, Engaged
    <3>2. /\ CurrentTask \in Tasks \ {Idle} /\ q \in app.Holds[CurrentTask][pc[CurrentTask]]
          /\ t \in Tasks \ {Idle} /\ m \in app.Holds[t][pc[t]]
      BY <1>1, <1>2, <3>1 DEF AppInv, ScriptsHold
    <3>3. app \in Applications /\ pc[t] \in Positions(app, t)
          /\ pc[CurrentTask] \in Positions(app, CurrentTask)
      BY <3>2 DEF AppInv, AppTypeOK
    <3>4. m = q
      BY <3>2, <3>3, CriticalSectionAssumption
    <3> QED BY <3>1, <3>4 DEF OwnedBy
  <2> QED BY <1>1, <2>1 DEF OrderlyInv, PriorityRestored
<1>6. priority[t] \in Nat /\ priority[o] \in Nat /\ priority[CurrentTask] \in Nat
  BY <1>1, <1>2 DEF Int8Max
<1> HIDE DEF o
<1> QED BY <1>3, <1>4, <1>5, <1>6

\* Priority inversion is bounded (README.md; Kernel/Mutex.c): while a task
\* waits for a mutex, the CPU executes the owner, or a task that is at least
\* as important as the one that waits.
THEOREM InversionBounded == AppSpec => []NoInversion
<1>1. AppSpec => []OrderlyInv
  BY ApplicationsAreOrderly, OrderlyInvariant, PTL
<1> QED BY <1>1, AppInvariant, OwnersStayAwake, InversionBoundedBy, PTL
=============================================================================
