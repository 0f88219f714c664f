----------------------------- MODULE BootProofs -----------------------------
(***************************************************************************)
(* The boot, for every number of slots, of words on a task's stack, every  *)
(* divisor and every time-out: the clock it leaves behind, the state it    *)
(* hands to the kernel, and that a task goes on with what it was           *)
(* interrupted with.                                                       *)
(***************************************************************************)
EXTENDS Boot, SequenceTheorems, TLAPS

-----------------------------------------------------------------------------
(* PLL_Init and the oscillators.                                           *)

LEMMA ClockStarts == ClockInit => ClockInv
BY ClockAssumption DEF ClockInit, ClockInv

\* Every step of PLL_Init, of the crystal and of the PLL keeps ClockInv.
LEMMA ClockStep ==
  ASSUME ClockInv, PLL_Init \/ CrystalStarts \/ PLLLocks \/ UNCHANGED clockVars
  PROVE  ClockInv'
<1>1. psysdiv' = psysdiv
  BY DEF PLL_Init, PowerCrystal, UseCrystal, AcceptDivisor, RejectDivisor, Poll, GiveUp,
         UsePLL, CrystalStarts, PLLLocks, clockVars
<1>2. SYSCLK' = SYSCLK
  BY <1>1 DEF SYSCLK
<1>3. LockTimeout \in Nat /\ psysdiv' \in PSYSDIVs
  BY <1>1, ClockAssumption DEF ClockInv
<1>4. CASE PowerCrystal
  BY <1>2, <1>3, <1>4 DEF ClockInv, PowerCrystal
<1>11. CASE UseCrystal
  BY <1>2, <1>3, <1>11 DEF ClockInv, UseCrystal
<1>12. CASE CrystalStarts
  BY <1>2, <1>3, <1>12 DEF ClockInv, CrystalStarts
<1>5. CASE AcceptDivisor
  BY <1>2, <1>3, <1>5 DEF ClockInv, AcceptDivisor
<1>13. CASE RejectDivisor
  BY <1>2, <1>3, <1>13 DEF ClockInv, RejectDivisor
<1>6. CASE Poll
  <2>1. step = "await lock" /\ ~locked /\ source # "PLL" /\ lockedAt = LockTimeout
    BY <1>6 DEF ClockInv, Poll
  <2>2. UNCHANGED <<step, locked, source, lockedAt>>
    BY <1>6 DEF Poll
  <2>3. timeout \in 0 .. LockTimeout /\ timeout < LockTimeout /\ timeout' = timeout + 1
    BY <1>6 DEF ClockInv, Poll
  <2>4. timeout' \in 0 .. LockTimeout
    BY <2>3, ClockAssumption
  <2>5. lockedAt' \in 0 .. LockTimeout
    BY <1>6, ClockAssumption DEF ClockInv, Poll
  <2> QED BY <1>2, <1>3, <2>1, <2>2, <2>4, <2>5 DEF ClockInv
<1>9. CASE GiveUp
  <2>1. lockedAt' = LockTimeout
    BY <1>9 DEF ClockInv, GiveUp
  <2>2. source # "PLL" /\ source' = source
    BY <1>9 DEF ClockInv, GiveUp
  <2> QED BY <1>2, <1>3, <1>9, <2>1, <2>2 DEF ClockInv, GiveUp
<1>10. CASE PLLLocks
  <2>1. lockedAt' = timeout' /\ locked' /\ timeout' = timeout
    BY <1>10 DEF PLLLocks
  <2>2. source # "PLL" /\ source' = source
    BY <1>10 DEF ClockInv, PLLLocks
  <2> QED BY <1>2, <1>3, <1>10, <2>1, <2>2 DEF ClockInv, PLLLocks
<1>7. CASE UsePLL
  BY <1>2, <1>3, <1>7 DEF ClockInv, UsePLL
<1>8. CASE UNCHANGED clockVars
  BY <1>2, <1>3, <1>8 DEF ClockInv, clockVars
<1> QED BY <1>4, <1>5, <1>6, <1>7, <1>8, <1>9, <1>10, <1>11, <1>12, <1>13 DEF PLL_Init

\* PLL_Init has returned and the PLL locked in time: 120 MHz.
LEMMA FastClock ==
  ASSUME ClockInv, step = "return", psysdiv = PSYSDIV, lockedAt < LockTimeout
  PROVE  SysClk = 1000 * (RELOAD + 1)
<1>1. SYSCLK = 120000000
  BY DEF SYSCLK, FXTAL, PSYSDIV
<1>2. source = "PLL"
  BY <1>1, ClockAssumption DEF ClockInv, MaxClock
<1> QED BY <1>1, <1>2 DEF SysClk, RELOAD

-----------------------------------------------------------------------------
(* The frames and what they hold.                                          *)

LEMMA FrameSlots ==
  /\ Len(HardwareFrame) = 8 /\ DOMAIN HardwareFrame = 1 .. 8
  /\ Len(SoftwareFrame) = 8 /\ DOMAIN SoftwareFrame = 1 .. 8
  /\ \A k \in 1 .. 8 : HardwareFrame[k] = "xPSR" <=> k = 1
  /\ \A j, k \in 1 .. 8 : /\ HardwareFrame[j] # SoftwareFrame[k]
                          /\ HardwareFrame[j] = HardwareFrame[k] => j = k
                          /\ SoftwareFrame[j] = SoftwareFrame[k] => j = k
<1>1. Len(HardwareFrame) = 8 /\ DOMAIN HardwareFrame = 1 .. 8
  BY DEF HardwareFrame
<1>2. Len(SoftwareFrame) = 8 /\ DOMAIN SoftwareFrame = 1 .. 8
  BY DEF SoftwareFrame
<1>5. \A k \in 1 .. 8 : HardwareFrame[k] = "xPSR" <=> k = 1
  BY DEF HardwareFrame
<1>6. \A j, k \in 1 .. 8 : HardwareFrame[j] # SoftwareFrame[k]
  BY DEF HardwareFrame, SoftwareFrame
<1>7. \A j, k \in 1 .. 8 : HardwareFrame[j] = HardwareFrame[k] => j = k
  BY DEF HardwareFrame
<1>8. \A j, k \in 1 .. 8 : SoftwareFrame[j] = SoftwareFrame[k] => j = k
  BY DEF SoftwareFrame
<1> QED BY <1>1, <1>2, <1>5, <1>6, <1>7, <1>8

\* Every register is in one of the two frames and in one only.
LEMMA FrameOfRegister ==
  /\ "xPSR" \in Registers
  /\ \A k \in 1 .. 8 : HardwareFrame[k] \in Registers /\ SoftwareFrame[k] \in Registers
  /\ \A r \in Registers : InFrame(HardwareFrame, r) <=> ~InFrame(SoftwareFrame, r)
<1> DEFINE both == HardwareFrame \o SoftwareFrame
           S == {"xPSR", "PC", "LR", "R12", "R3", "R2", "R1", "R0",
                 "R11", "R10", "R9", "R8", "R7", "R6", "R5", "R4"}
<1>6. HardwareFrame \in Seq(S)
  BY DEF HardwareFrame
<1>7. SoftwareFrame \in Seq(S)
  BY DEF SoftwareFrame
<1>1. HardwareFrame \in Seq(S) /\ SoftwareFrame \in Seq(S)
      /\ Len(HardwareFrame) = 8 /\ Len(SoftwareFrame) = 8
  BY <1>6, <1>7, FrameSlots
<1>2. \A k \in 1 .. 16 : both[k] = IF k <= 8 THEN HardwareFrame[k] ELSE SoftwareFrame[k - 8]
  <2>1. \A k \in 1 .. Len(HardwareFrame) + Len(SoftwareFrame) :
          both[k] = IF k <= Len(HardwareFrame) THEN HardwareFrame[k]
                    ELSE SoftwareFrame[k - Len(HardwareFrame)]
    BY ONLY <1>1, ConcatProperties
  <2>2. Len(HardwareFrame) = 8 /\ Len(SoftwareFrame) = 8
    BY FrameSlots
  <2> HIDE DEF both, S
  <2> QED BY ONLY <2>1, <2>2
<1>3. \A k \in 1 .. 8 : both[k] = HardwareFrame[k] /\ both[k + 8] = SoftwareFrame[k]
  <2> HIDE DEF both
  <2> QED BY ONLY <1>2
<1>4. \A k \in 1 .. 8 : HardwareFrame[k] \in Registers /\ SoftwareFrame[k] \in Registers
  <2> TAKE k \in 1 .. 8
  <2>1. k \in 1 .. 16 /\ k + 8 \in 1 .. 16
    OBVIOUS
  <2>4. Registers = {both[n] : n \in 1 .. 16}
    BY DEF Registers
  <2>2. both[k] \in Registers /\ both[k + 8] \in Registers
    <3> HIDE DEF both
    <3> QED BY ONLY <2>1, <2>4
  <2> HIDE DEF both
  <2> QED BY ONLY <1>3, <2>2
<1>5. \A r \in Registers : \E k \in 1 .. 8 : r = HardwareFrame[k] \/ r = SoftwareFrame[k]
  <2> TAKE r \in Registers
  <2>1. PICK n \in 1 .. 16 : r = both[n]
    BY ONLY DEF Registers
  <2> HIDE DEF both
  <2>2. CASE n <= 8
    BY ONLY <1>2, <2>1, <2>2
  <2>3. CASE n > 8
    <3>1. n - 8 \in 1 .. 8 /\ r = SoftwareFrame[n - 8]
      BY ONLY <1>2, <2>1, <2>3
    <3> QED BY ONLY <3>1
  <2> QED BY <2>2, <2>3
<1> QED BY <1>4, <1>5, FrameSlots DEF InFrame

LEMMA WordsOf ==
  ASSUME NEW file, IsFile(file), NEW frame \in {HardwareFrame, SoftwareFrame}
  PROVE  /\ Words(frame, file) \in Seq(AnyWord) /\ Len(Words(frame, file)) = 8
         /\ \A k \in 1 .. 8 : Words(frame, file)[k] = file[frame[k]]
<1>1. DOMAIN frame = 1 .. 8 /\ \A k \in 1 .. 8 : frame[k] \in Registers
  BY FrameSlots, FrameOfRegister
<1>2. Words(frame, file) \in [1 .. 8 -> AnyWord]
  BY <1>1 DEF Words, IsFile
<1> QED BY <1>1, <1>2 DEF Words

LEMMA RegistersAreFile ==
  ASSUME NEW t \in Tasks \cup {NULL}, NEW value \in Nat
  PROVE  IsFile(RegistersOf(t, value))
BY FrameOfRegister DEF IsFile, RegistersOf, Word, AnyWord

\* Bit 9 is marked and cleared again.
LEMMA Bit9Marks ==
  ASSUME NEW word \in AnyWord
  PROVE  /\ Bit9(word) \in AnyWord /\ Padded(Bit9(word))
         /\ [Bit9(word) EXCEPT !.register = word.register] = word
BY DEF AnyWord, Bit9, Padded

\* A padded frame is one word longer, and bit 9 of its first register is set.
LEMMA PaddedFrame ==
  ASSUME NEW plain \in Seq(AnyWord), Len(plain) = 8, NEW frame,
         frame = <<Word(NULL, "padding", 0)>> \o [plain EXCEPT ![1] = Bit9(@)]
  PROVE  /\ frame \in Seq(AnyWord) /\ Len(frame) = 9
         /\ frame[2] = Bit9(plain[1]) /\ \A k \in 2 .. 8 : frame[1 + k] = plain[k]
<1> DEFINE first == Bit9(plain[1])
           marked == [plain EXCEPT ![1] = first]
           one == <<Word(NULL, "padding", 0)>>
<1>1. first \in AnyWord
  BY Bit9Marks, ElementOfSeq
<1> HIDE DEF first
<1>2. /\ marked \in Seq(AnyWord) /\ Len(marked) = 8
      /\ \A k \in 1 .. 8 : marked[k] = IF k = 1 THEN first ELSE plain[k]
  <2>1. 1 \in 1 .. Len(plain)
    OBVIOUS
  <2>2. /\ marked \in Seq(AnyWord) /\ Len(marked) = Len(plain)
        /\ \A k \in 1 .. Len(plain) : marked[k] = IF k = 1 THEN first ELSE plain[k]
    BY <1>1, <2>1, ExceptSeq
  <2> HIDE DEF marked
  <2> QED BY <2>2
<1>3. one \in Seq(AnyWord) /\ Len(one) = 1
  <2>1. Word(NULL, "padding", 0) \in AnyWord
    BY DEF Word, AnyWord
  <2> HIDE DEF AnyWord, Word
  <2> QED BY <2>1
<1>4. frame = one \o marked
  BY DEF first
<1> HIDE DEF one, marked
<1>5. /\ frame \in Seq(AnyWord) /\ Len(frame) = Len(one) + Len(marked)
      /\ \A i \in 1 .. Len(one) + Len(marked) :
           frame[i] = IF i <= Len(one) THEN one[i] ELSE marked[i - Len(one)]
  BY ONLY <1>2, <1>3, <1>4, ConcatProperties
<1>6. \A k \in 1 .. 8 : frame[1 + k] = marked[k]
  BY <1>2, <1>3, <1>5
<1> QED BY <1>2, <1>3, <1>5, <1>6 DEF first

\* Either way the last eight words of a frame are the registers in the order of
\* HardwareFrame.
LEMMA FrameShape ==
  ASSUME NEW file, IsFile(file), NEW frame \in Frames(file)
  PROVE  /\ frame \in Seq(AnyWord) /\ Len(frame) \in {8, 9}
         /\ \A k \in 2 .. 8 : frame[Len(frame) - 8 + k] = file[HardwareFrame[k]]
         /\ frame[Len(frame) - 7] =
              IF Len(frame) = 9 THEN Bit9(file[HardwareFrame[1]]) ELSE file[HardwareFrame[1]]
<1>1. PICK plain : /\ plain = Words(HardwareFrame, file)
                   /\ \/ frame = plain
                      \/ frame = <<Word(NULL, "padding", 0)>> \o [plain EXCEPT ![1] = Bit9(@)]
  BY DEF Frames
<1>2. plain \in Seq(AnyWord) /\ Len(plain) = 8
      /\ \A k \in 1 .. 8 : plain[k] = file[HardwareFrame[k]]
  BY <1>1, WordsOf
<1>3. CASE frame = plain
  <2>1. frame \in Seq(AnyWord) /\ Len(frame) = 8
    BY <1>2, <1>3
  <2>2. \A k \in 1 .. 8 : frame[Len(frame) - 8 + k] = file[HardwareFrame[k]]
    <3> TAKE k \in 1 .. 8
    <3>1. Len(frame) - 8 + k = k
      BY <2>1
    <3> QED BY ONLY <1>2, <1>3, <3>1
  <2>3. frame[Len(frame) - 8 + 1] = file[HardwareFrame[1]]
    BY <2>2
  <2> QED BY <2>1, <2>2, <2>3
<1>4. CASE frame # plain
  <2>1. /\ frame \in Seq(AnyWord) /\ Len(frame) = 9
        /\ frame[2] = Bit9(plain[1]) /\ \A k \in 2 .. 8 : frame[1 + k] = plain[k]
    BY <1>1, <1>2, <1>4, PaddedFrame
  <2> QED BY <1>2, <2>1
<1> QED BY <1>3, <1>4

\* What lies on top of a stack can be read, and taken off, again.
LEMMA TopOfStack ==
  ASSUME NEW base \in Seq(AnyWord), NEW top \in Seq(AnyWord)
  PROVE  /\ base \o top \in Seq(AnyWord)
         /\ Len(base) \in Nat /\ Len(top) \in Nat
         /\ Len(base \o top) = Len(base) + Len(top)
         /\ \A k \in 1 .. Len(top) : (base \o top)[Len(base) + k] = top[k]
         /\ SubSeq(base \o top, 1, Len(base)) = base
<1> DEFINE s == base \o top
           low == SubSeq(s, 1, Len(base))
<1>1. /\ s \in Seq(AnyWord) /\ Len(s) = Len(base) + Len(top)
      /\ \A i \in 1 .. Len(base) + Len(top) :
           s[i] = IF i <= Len(base) THEN base[i] ELSE top[i - Len(base)]
  BY ConcatProperties
<1>2. Len(base) \in Nat /\ Len(top) \in Nat
  BY LenProperties
<1> HIDE DEF s
<1>3. \A k \in 1 .. Len(top) : s[Len(base) + k] = top[k]
  BY <1>1, <1>2
<1>4. \A i \in 1 .. Len(base) : s[i] = base[i] /\ s[i] \in AnyWord
  BY <1>1, <1>2, ElementOfSeq
<1>5. /\ low \in Seq(AnyWord) /\ Len(low) = IF 1 <= Len(base) THEN Len(base) - 1 + 1 ELSE 0
      /\ \A i \in 1 .. Len(base) - 1 + 1 : low[i] = s[1 + i - 1]
  BY <1>2, <1>4, SubSeqProperties
<1> HIDE DEF low
<1>6. Len(low) = Len(base) /\ \A i \in 1 .. Len(base) : low[i] = base[i]
  BY <1>2, <1>4, <1>5
<1>7. low = base
  BY <1>5, <1>6, SeqEqual
<1> QED BY <1>1, <1>2, <1>3, <1>7 DEF s, low

\* The register file once a frame is loaded.
LEMMA LoadedAt ==
  ASSUME NEW frame \in {HardwareFrame, SoftwareFrame}, NEW s \in Seq(AnyWord), NEW file,
         NEW k \in 1 .. 8
  PROVE  Loaded(frame, s, file)[frame[k]] = s[Len(s) - 8 + k]
<1>1. DOMAIN frame = 1 .. 8 /\ Len(frame) = 8 /\ frame[k] \in Registers
  BY FrameSlots, FrameOfRegister
<1>2. \A j \in 1 .. 8 : frame[j] = frame[k] => j = k
  BY FrameSlots
<1>3. InFrame(frame, frame[k])
  BY <1>1 DEF InFrame
<1>4. PICK j : j = CHOOSE n \in DOMAIN frame : frame[n] = frame[k]
  OBVIOUS
<1>5. j = k
  BY <1>1, <1>2, <1>4
<1>6. Loaded(frame, s, file)[frame[k]] = s[Len(s) - Len(frame) + j]
  BY <1>1, <1>3, <1>4 DEF Loaded
<1> QED BY <1>1, <1>5, <1>6

LEMMA NotLoaded ==
  ASSUME NEW frame, NEW s, NEW file, NEW r \in Registers, ~InFrame(frame, r)
  PROVE  Loaded(frame, s, file)[r] = file[r]
BY DEF Loaded

\* The length of the frame at the end of s, and what the registers, if they are
\* those in before, become when it is popped.
FrameSize(s) == IF Padded(s[Len(s) - 7]) THEN 9 ELSE 8
Pops(s, before, after) ==
  after = [Loaded(HardwareFrame, s, before) EXCEPT !["xPSR"].register = "xPSR"]

\* Two register files with the same R4 to R11.
SameSoftware(file, other) ==
  \A r \in Registers : InFrame(SoftwareFrame, r) => file[r] = other[r]

\* An exception return takes off what the CPU has pushed, with the padding if
\* there is any.
LEMMA Popped ==
  ASSUME NEW file, IsFile(file), NEW frame \in Frames(file), NEW base \in Seq(AnyWord),
         NEW other, SameSoftware(other, file),
         NEW s \in Seq(AnyWord), s = base \o frame
  PROVE  /\ Len(s) = Len(base) + FrameSize(s) /\ SubSeq(s, 1, Len(base)) = base
         /\ Pops(s, other, file)
<1>1. /\ frame \in Seq(AnyWord) /\ Len(frame) \in {8, 9}
      /\ \A k \in 2 .. 8 : frame[Len(frame) - 8 + k] = file[HardwareFrame[k]]
      /\ frame[Len(frame) - 7] =
           IF Len(frame) = 9 THEN Bit9(file[HardwareFrame[1]]) ELSE file[HardwareFrame[1]]
  BY FrameShape
<1>2. /\ Len(base) \in Nat /\ Len(s) = Len(base) + Len(frame)
      /\ \A k \in 1 .. Len(frame) : s[Len(base) + k] = frame[k]
      /\ SubSeq(s, 1, Len(base)) = base
  BY <1>1, TopOfStack
<1>11. PICK n \in {8, 9}, b \in Nat, len \in Nat :
         n = Len(frame) /\ b = Len(base) /\ len = Len(s) /\ len = b + n
  <2>1. Len(frame) \in {8, 9} /\ Len(base) \in Nat /\ Len(s) = Len(base) + Len(frame)
    BY ONLY <1>1, <1>2, Zenon
  <2>2. Len(s) \in Nat
    BY ONLY <2>1
  <2> QED BY ONLY <2>1, <2>2, Zenon
<1>12. \A k \in 1 .. n : s[b + k] = frame[k]
  BY ONLY <1>2, <1>11
<1>5. PICK x \in Registers : x = "xPSR" /\ x = HardwareFrame[1]
  BY FrameSlots, FrameOfRegister
<1>3. \A k \in 2 .. 8 : s[Len(s) - 8 + k] = file[HardwareFrame[k]]
  <2> TAKE k \in 2 .. 8
  <2>1. PICK j : j = n - 8 + k
    OBVIOUS
  <2>5. len = b + n /\ (n = 8 \/ n = 9) /\ b \in Nat /\ k \in Nat /\ 2 <= k /\ k <= 8
    BY ONLY <1>11
  <2>4. j \in 1 .. n /\ len - 8 + k = b + j
    BY ONLY <2>1, <2>5
  <2>2. s[b + j] = frame[j]
    BY ONLY <1>12, <2>4
  <2>3. frame[n - 8 + k] = file[HardwareFrame[k]]
    BY ONLY <1>1, <1>11
  <2> QED BY ONLY <1>11, <2>1, <2>2, <2>3, <2>4
<1>4. s[Len(s) - 7] = IF n = 9 THEN Bit9(file[x]) ELSE file[x]
  <2>1. PICK j : j = n - 7
    OBVIOUS
  <2>4. j \in 1 .. n /\ len - 7 = b + j
    BY ONLY <2>1, <1>11
  <2>2. s[b + j] = frame[j]
    BY ONLY <1>12, <2>4
  <2>3. frame[n - 7] = IF n = 9 THEN Bit9(file[x]) ELSE file[x]
    BY ONLY <1>1, <1>5, <1>11
  <2> QED BY ONLY <1>11, <2>1, <2>2, <2>3, <2>4
<1>6. file[x] \in AnyWord /\ file[x].register = x
  BY <1>5 DEF IsFile
<1>13. PICK word : word = s[Len(s) - 7]
  OBVIOUS
<1>7. /\ Padded(word) <=> n = 9
      /\ [word EXCEPT !.register = x] = file[x]
  <2>1. CASE n = 9
    BY ONLY <1>4, <1>6, <1>13, <2>1, Bit9Marks
  <2>2. CASE n = 8
    <3>1. word = file[x]
      BY ONLY <1>4, <1>13, <2>2
    <3>2. ~Padded(file[x])
      BY ONLY <1>5, <1>6 DEF Padded
    <3>3. [file[x] EXCEPT !.register = x] = file[x]
      BY ONLY <1>6 DEF AnyWord
    <3> QED BY ONLY <2>2, <3>1, <3>2, <3>3
  <2> QED BY <1>11, <2>1, <2>2
<1>8. Len(s) = Len(base) + FrameSize(s)
  <2>1. n = FrameSize(s)
    BY ONLY <1>7, <1>11, <1>13 DEF FrameSize
  <2> QED BY ONLY <1>11, <1>13, <2>1
<1>9. \A r \in Registers : Loaded(HardwareFrame, s, other)[r] = IF r = x THEN word ELSE file[r]
  <2> TAKE r \in Registers
  <2>1. PICK value : value = Loaded(HardwareFrame, s, other)[r]
    OBVIOUS
  <2>2. CASE ~InFrame(HardwareFrame, r)
    <3>1. InFrame(HardwareFrame, x)
      BY <1>5, FrameSlots DEF InFrame
    <3>2. value = other[r]
      BY ONLY <2>1, <2>2, NotLoaded
    <3>3. other[r] = file[r]
      BY <2>2, FrameOfRegister DEF SameSoftware
    <3> QED BY ONLY <2>1, <2>2, <3>1, <3>2, <3>3
  <2>3. CASE InFrame(HardwareFrame, r)
    <3>1. PICK k \in 1 .. 8 : HardwareFrame[k] = r
      BY ONLY <2>3, FrameSlots DEF InFrame
    <3>2. value = s[Len(s) - 8 + k]
      <4>2. HardwareFrame \in {HardwareFrame, SoftwareFrame}
        OBVIOUS
      <4>1. Loaded(HardwareFrame, s, other)[HardwareFrame[k]] = s[Len(s) - 8 + k]
        BY ONLY <4>2, LoadedAt
      <4> QED BY ONLY <2>1, <3>1, <4>1
    <3>3. r = x <=> k = 1
      BY ONLY <1>5, <3>1, FrameSlots
    <3>4. CASE k = 1
      <4>1. len - 8 + k = len - 7
        BY ONLY <1>11, <3>4
      <4> QED BY ONLY <1>11, <1>13, <2>1, <3>2, <3>3, <3>4, <4>1
    <3>5. CASE k # 1
      <4>2. k \in 2 .. 8
        BY ONLY <3>5
      <4>1. value = file[HardwareFrame[k]]
        BY ONLY <1>3, <3>2, <4>2
      <4> QED BY ONLY <2>1, <3>1, <3>3, <3>5, <4>1
    <3> QED BY <3>4, <3>5
  <2> QED BY <2>2, <2>3
<1>10. [Loaded(HardwareFrame, s, other) EXCEPT ![x].register = x] = file
  <2> DEFINE loaded == Loaded(HardwareFrame, s, other)
             fixed == [loaded EXCEPT ![x].register = x]
  <2>1. DOMAIN loaded = Registers /\ loaded = [r \in Registers |-> loaded[r]]
    BY ONLY DEF Loaded
  <2>2. \A r \in Registers : loaded[r] = IF r = x THEN word ELSE file[r]
    BY <1>9
  <2> HIDE DEF loaded
  <2>3. fixed = [r \in Registers |->
                   IF r = x THEN [loaded[x] EXCEPT !.register = x] ELSE loaded[r]]
    BY <2>1
  <2>4. file = [r \in Registers |-> file[r]]
    BY DEF IsFile
  <2>5. \A r \in Registers :
          (IF r = x THEN [loaded[x] EXCEPT !.register = x] ELSE loaded[r]) = file[r]
    BY <1>7, <2>2
  <2> QED BY <2>3, <2>4, <2>5 DEF loaded
<1>14. Pops(s, other, file)
  BY ONLY <1>5, <1>10 DEF Pops
<1> QED BY ONLY <1>2, <1>8, <1>14

\* PendSV takes off what it has put on a stack.
LEMMA Repopped ==
  ASSUME NEW file, IsFile(file), NEW base \in Seq(AnyWord),
         NEW s, s = base \o Words(SoftwareFrame, file)
  PROVE  /\ s \in Seq(AnyWord) /\ Len(s) = Len(base) + 8
         /\ SubSeq(s, 1, Len(s) - 8) = base
         /\ IsFile(Loaded(SoftwareFrame, s, RegistersOf(NULL, 0)))
         /\ \A r \in Registers : InFrame(SoftwareFrame, r) =>
              Loaded(SoftwareFrame, s, RegistersOf(NULL, 0))[r] = file[r]
<1>1. PICK words : words = Words(SoftwareFrame, file)
  OBVIOUS
<1>2. /\ words \in Seq(AnyWord) /\ Len(words) = 8
      /\ \A k \in 1 .. 8 : words[k] = file[SoftwareFrame[k]]
  BY <1>1, WordsOf
<1>3. /\ s \in Seq(AnyWord) /\ Len(base) \in Nat /\ Len(s) = Len(base) + Len(words)
      /\ \A k \in 1 .. Len(words) : s[Len(base) + k] = words[k]
      /\ SubSeq(s, 1, Len(base)) = base
  BY <1>1, <1>2, TopOfStack
<1>4. PICK b \in Nat, len \in Nat : b = Len(base) /\ len = Len(s) /\ len = b + 8
  <2>1. Len(base) \in Nat /\ Len(s) = Len(base) + 8 /\ Len(s) \in Nat
    BY ONLY <1>2, <1>3
  <2> QED BY ONLY <2>1, Zenon
<1>5. SubSeq(s, 1, Len(s) - 8) = base
  <2>1. len - 8 = b
    BY ONLY <1>4
  <2> QED BY ONLY <1>3, <1>4, <2>1
<1>6. PICK other, loaded : /\ other = RegistersOf(NULL, 0) /\ IsFile(other)
                           /\ loaded = Loaded(SoftwareFrame, s, other)
  BY RegistersAreFile
<1>7. ASSUME NEW r \in Registers, InFrame(SoftwareFrame, r)
      PROVE  loaded[r] = file[r]
  <2>1. PICK k \in 1 .. 8 : SoftwareFrame[k] = r
    BY ONLY <1>7, FrameSlots DEF InFrame
  <2>2. loaded[r] = s[Len(s) - 8 + k]
    <3>1. SoftwareFrame \in {HardwareFrame, SoftwareFrame} /\ s \in Seq(AnyWord)
      BY <1>3
    <3>2. Loaded(SoftwareFrame, s, other)[SoftwareFrame[k]] = s[Len(s) - 8 + k]
      BY ONLY <3>1, LoadedAt
    <3> QED BY ONLY <1>6, <2>1, <3>2
  <2>3. len - 8 + k = b + k
    BY ONLY <1>4
  <2>4. s[b + k] = words[k]
    BY ONLY <1>2, <1>3, <1>4
  <2> QED BY ONLY <1>2, <1>4, <2>1, <2>2, <2>3, <2>4
<1>8. ASSUME NEW r \in Registers
      PROVE  loaded[r] \in AnyWord /\ loaded[r].register = r
  <2>1. CASE InFrame(SoftwareFrame, r)
    <3>1. loaded[r] = file[r]
      BY <1>7, <2>1
    <3> QED BY <3>1 DEF IsFile
  <2>2. CASE ~InFrame(SoftwareFrame, r)
    <3>1. loaded[r] = other[r]
      BY ONLY <1>6, <2>2, NotLoaded
    <3>2. other[r] \in AnyWord /\ other[r].register = r
      BY <1>6 DEF IsFile
    <3> QED BY ONLY <3>1, <3>2
  <2> QED BY <2>1, <2>2
<1>9. loaded = [r \in Registers |-> loaded[r]]
  BY ONLY <1>6 DEF Loaded
<1>10. IsFile(loaded)
  <2>1. loaded \in [Registers -> AnyWord]
    BY ONLY <1>8, <1>9
  <2> QED BY <1>8, <2>1 DEF IsFile
<1>11. s \in Seq(AnyWord) /\ Len(s) = Len(base) + 8
  BY ONLY <1>3, <1>4
<1>12. /\ IsFile(Loaded(SoftwareFrame, s, RegistersOf(NULL, 0)))
       /\ \A r \in Registers : InFrame(SoftwareFrame, r) =>
            Loaded(SoftwareFrame, s, RegistersOf(NULL, 0))[r] = file[r]
  BY ONLY <1>6, <1>7, <1>10
<1> QED BY <1>5, <1>11, <1>12

-----------------------------------------------------------------------------
(* The steps of the launched system.                                       *)

\* What ContextInv says of the flags of the kernel.
Flags ==
  /\ inPendSV => stacked
  /\ Overran # {} => ~(pendsv /\ inPendSV)
  /\ PSP = NullPsp => ~pendsv /\ ~inPendSV

LEMMA OwnPsp == \A t \in Tasks : \A n : [task |-> t, depth |-> n] # NullPsp
BY TasksAssumption DEF NullPsp, NULL, Tasks

LEMMA FlagsOfInv == ContextInv => Flags
<1> SUFFICES ASSUME ContextInv PROVE Flags
  OBVIOUS
<1>1. (inPendSV => stacked) /\ (Overran # {} => ~(pendsv /\ inPendSV))
  BY DEF ContextInv
<1>2. PSP = NullPsp => ~pendsv /\ ~inPendSV
  BY OwnPsp DEF ContextInv
<1> QED BY <1>1, <1>2 DEF Flags

\* The registers and the stacks are not touched.
LEMMA ContextUntouched ==
  ASSUME ContextInv, UNCHANGED <<contextVars, CurrentTask, canary>>, Flags'
  PROVE  ContextInv'
<1>1. UNCHANGED <<psp, stack, PSP, cpu, stacked, left, CurrentTask, canary>>
  BY DEF contextVars
<1>2. Overran' = Overran
  BY <1>1 DEF Overran
<1>3. \A t \in Tasks : (HalfSaved(t) => HalfSaved(t)') /\ (Saved(t) => Saved(t)')
                       /\ (InRegisters(t) => InRegisters(t)')
  BY <1>1 DEF HalfSaved, Saved, InRegisters
<1>4. /\ CurrentTask' \in Tasks /\ IsFile(cpu') /\ psp' \in [Tasks -> StackPointers]
      /\ stack' \in [Tasks -> Seq(AnyWord)] /\ DOMAIN left' = Tasks
      /\ \A t \in Tasks : /\ left'[t] = [cpu |-> left'[t].cpu, stack |-> left'[t].stack]
                          /\ IsFile(left'[t].cpu) /\ left'[t].stack \in Seq(AnyWord)
  BY <1>1 DEF ContextInv
<1>5. \A t \in Tasks \ {CurrentTask'} : Saved(t)' \/ (psp'[t] = NullPsp /\ ~canary'[t])
  BY <1>1, <1>3 DEF ContextInv
<1>6. (inPendSV' => stacked') /\ (Overran' # {} => ~(pendsv' /\ inPendSV'))
  BY DEF Flags
<1>7. \/ /\ PSP' = [task |-> CurrentTask', depth |-> Len(stack'[CurrentTask'])]
         /\ stacked' => HalfSaved(CurrentTask)' /\ InRegisters(CurrentTask)'
      \/ PSP' = NullPsp /\ stacked' /\ ~canary'[CurrentTask'] /\ ~pendsv' /\ ~inPendSV'
  <2>1. CASE PSP = NullPsp
    <3>1. stacked /\ ~canary[CurrentTask]
      BY <2>1, OwnPsp DEF ContextInv
    <3>2. ~pendsv' /\ ~inPendSV'
      BY <1>1, <2>1 DEF Flags, NullPsp
    <3> QED BY <1>1, <2>1, <3>1, <3>2
  <2>2. CASE PSP # NullPsp
    <3>1. /\ CurrentTask \in Tasks
          /\ PSP = [task |-> CurrentTask, depth |-> Len(stack[CurrentTask])]
          /\ stacked => HalfSaved(CurrentTask) /\ InRegisters(CurrentTask)
      BY <2>2 DEF ContextInv
    <3>2. stacked' => HalfSaved(CurrentTask)' /\ InRegisters(CurrentTask)'
      BY <1>1, <3>1 DEF HalfSaved, InRegisters
    <3> QED BY <1>1, <3>1, <3>2
  <2> QED BY <2>1, <2>2
<1> QED BY <1>4, <1>5, <1>6, <1>7 DEF ContextInv

\* The CPU pushes a frame onto the stack of the task it interrupts.
LEMMA ContextInterrupted ==
  ASSUME ContextInv, Interrupt, ~stacked, UNCHANGED <<CurrentTask, canary>>, Flags'
  PROVE  ContextInv'
<1>1. PICK c \in Tasks : c = CurrentTask
  BY DEF ContextInv
<1>2. PICK base \in Seq(AnyWord) : base = stack[c]
  BY <1>1 DEF ContextInv
<1>3. PSP = [task |-> c, depth |-> Len(base)]
  BY <1>1, <1>2 DEF ContextInv
<1>4. Below(PSP, stack) = base
  BY <1>2, <1>3, SubSeqFull DEF Below
<1>5. IsFile(cpu)
  BY DEF ContextInv
<1>6. PICK pushed \in Frames(cpu) :
        /\ stack' = [stack EXCEPT ![c] = base \o pushed]
        /\ PSP' = [PSP EXCEPT !.depth = @ + Len(pushed)]
        /\ stacked' = TRUE
        /\ left' = [left EXCEPT ![c] = [cpu |-> cpu, stack |-> base]]
        /\ UNCHANGED <<psp, cpu>>
  BY <1>1, <1>3, <1>4 DEF Interrupt, Frames
<1>7. pushed \in Seq(AnyWord)
  BY <1>5, FrameShape
<1>8. base \o pushed \in Seq(AnyWord) /\ Len(base \o pushed) = Len(base) + Len(pushed)
  BY <1>7, TopOfStack
<1>9. /\ CurrentTask' \in Tasks /\ IsFile(cpu') /\ psp' \in [Tasks -> StackPointers]
  BY <1>6 DEF ContextInv
<1>10. stack' \in [Tasks -> Seq(AnyWord)] /\ stack'[c] = base \o pushed
  BY <1>6, <1>8 DEF ContextInv
<1>11. DOMAIN left' = Tasks /\ left'[c] = [cpu |-> cpu, stack |-> base]
       /\ \A t \in Tasks \ {c} : left'[t] = left[t]
  BY <1>6 DEF ContextInv
<1>12. \A t \in Tasks : /\ left'[t] = [cpu |-> left'[t].cpu, stack |-> left'[t].stack]
                        /\ IsFile(left'[t].cpu) /\ left'[t].stack \in Seq(AnyWord)
  <2> TAKE t \in Tasks
  <2>1. CASE t = c
    BY ONLY <1>5, <1>11, <2>1
  <2>2. CASE t # c
    <3>1. left'[t] = left[t]
      BY <1>11, <2>2
    <3> QED BY <3>1 DEF ContextInv
  <2> QED BY <2>1, <2>2
<1>13. \A t \in Tasks \ {c} : Saved(t)' \/ (psp'[t] = NullPsp /\ ~canary'[t])
  <2> TAKE t \in Tasks \ {c}
  <2>1. stack'[t] = stack[t] /\ left'[t] = left[t] /\ psp'[t] = psp[t]
    BY <1>6, <1>11 DEF ContextInv
  <2>2. Saved(t) \/ (psp[t] = NullPsp /\ ~canary[t])
    BY <1>1 DEF ContextInv
  <2> QED BY <2>1, <2>2 DEF Saved
<1>14. PSP' = [task |-> c, depth |-> Len(stack'[c])]
  BY <1>3, <1>6, <1>8, <1>10
<1>15. HalfSaved(CurrentTask)'
  BY <1>1, <1>6, <1>10, <1>11 DEF HalfSaved
<1>16. InRegisters(CurrentTask)'
  BY <1>1, <1>6, <1>11 DEF InRegisters
<1>17. (inPendSV' => stacked') /\ (Overran' # {} => ~(pendsv' /\ inPendSV'))
  BY DEF Flags
<1> QED BY <1>1, <1>9, <1>10, <1>11, <1>12, <1>13, <1>14, <1>15, <1>16, <1>17 DEF ContextInv

\* PendSV leaves the old task with all of its context on its stack, and the new
\* one with half of it: what SwitchBody stores and loads are the same eight words.
LEMMA ContextSwitched ==
  ASSUME ContextInv, SwitchBody
  PROVE  ContextInv'
<1>1. PICK c \in Tasks, n \in Tasks : c = CurrentTask /\ n = CurrentTask'
  BY DEF ContextInv, SwitchBody, PendSV_Handler, OS_Schedule
<1>2. /\ inPendSV /\ ~inPendSV' /\ UNCHANGED <<pendsv, canary>> /\ UNCHANGED <<stacked, left>>
  BY DEF SwitchBody, PendSV_Handler
<1>3. stacked /\ PSP # NullPsp
  BY <1>2, FlagsOfInv DEF Flags
<1>4. PICK base \in Seq(AnyWord) : base = stack[c]
  BY <1>1 DEF ContextInv
<1>5. /\ PSP = [task |-> c, depth |-> Len(base)] /\ IsFile(cpu)
      /\ HalfSaved(c) /\ InRegisters(c) /\ IsFile(left[c].cpu)
  BY <1>1, <1>3, <1>4 DEF ContextInv
<1>6. Below(PSP, stack) = base
  BY <1>4, <1>5, SubSeqFull DEF Below
<1>7. PICK words : /\ words = Words(SoftwareFrame, cpu) /\ words \in Seq(AnyWord)
                   /\ Len(words) = 8 /\ words = Words(SoftwareFrame, left[c].cpu)
  <2>1. \A k \in DOMAIN SoftwareFrame : cpu[SoftwareFrame[k]] = left[c].cpu[SoftwareFrame[k]]
    BY <1>5, FrameSlots, FrameOfRegister DEF InRegisters, InFrame
  <2> QED BY <1>5, <2>1, WordsOf DEF Words
<1>8. PICK top \in Seq(AnyWord) : top = base \o words /\ Len(top) = Len(base) + 8
  <2>1. words \in Seq(AnyWord) /\ Len(words) = 8
    BY <1>7
  <2>2. base \o words \in Seq(AnyWord) /\ Len(base \o words) = Len(base) + Len(words)
    BY ONLY <2>1, TopOfStack
  <2> QED BY ONLY <2>1, <2>2
<1>9. PICK kept, new :
        /\ kept = [stack EXCEPT ![c] = top] /\ new = psp'[n]
        /\ psp' = [psp EXCEPT ![c] = [task |-> c, depth |-> Len(top)]]
        /\ \/ /\ new # NullPsp
              /\ cpu' = Reloaded(new, kept)
              /\ PSP' = [new EXCEPT !.depth = @ - 8]
              /\ stack' = [kept EXCEPT ![new.task] = SubSeq(@, 1, new.depth - 8)]
           \/ /\ new = NullPsp
              /\ cpu' = RegistersOf(NULL, 0) /\ PSP' = NullPsp /\ stack' = kept
  <2>1. StoredPsp = [psp EXCEPT ![c] = [task |-> c, depth |-> Len(top)]]
    <3>1. [PSP EXCEPT !.depth = @ + 8] = [task |-> c, depth |-> Len(top)]
      BY ONLY <1>5, <1>8
    <3> QED BY ONLY <1>1, <3>1 DEF StoredPsp
  <2>2. [stack EXCEPT ![PSP.task] = Below(PSP, stack) \o Words(SoftwareFrame, cpu)]
          = [stack EXCEPT ![c] = top]
    BY <1>5, <1>6, <1>7, <1>8
  <2> QED BY <1>1, <2>1, <2>2 DEF SwitchBody
<1>10. /\ kept \in [Tasks -> Seq(AnyWord)] /\ kept[c] = top
       /\ \A t \in Tasks \ {c} : kept[t] = stack[t] /\ psp'[t] = psp[t]
  BY <1>9 DEF ContextInv
<1>11. psp' \in [Tasks -> StackPointers] /\ psp'[c] = [task |-> c, depth |-> Len(top)]
  BY <1>8, <1>9 DEF ContextInv, StackPointers
<1>12. ASSUME NEW t \in Tasks
       PROVE  \/ /\ \E frame \in Frames(left[t].cpu) :
                      kept[t] = (left[t].stack \o frame) \o Words(SoftwareFrame, left[t].cpu)
                 /\ psp'[t] = [task |-> t, depth |-> Len(kept[t])]
              \/ t # c /\ psp'[t] = NullPsp /\ ~canary[t]
  <2>1. CASE t = c
    BY <1>4, <1>5, <1>7, <1>8, <1>10, <1>11, <2>1 DEF HalfSaved
  <2>2. CASE t # c
    <3>1. Saved(t) \/ (psp[t] = NullPsp /\ ~canary[t])
      BY <1>1, <2>2 DEF ContextInv
    <3>2. kept[t] = stack[t] /\ psp'[t] = psp[t]
      BY <1>10, <2>2
    <3> QED BY ONLY <2>2, <3>1, <3>2 DEF Saved
  <2> QED BY <2>1, <2>2
<1>13. ASSUME NEW t \in Tasks, t # n, stack'[t] = kept[t]
       PROVE  Saved(t)' \/ (psp'[t] = NullPsp /\ ~canary'[t])
  BY <1>2, <1>12, <1>13 DEF Saved
<1>14. DOMAIN left' = Tasks
       /\ \A t \in Tasks : /\ left'[t] = [cpu |-> left'[t].cpu, stack |-> left'[t].stack]
                           /\ IsFile(left'[t].cpu) /\ left'[t].stack \in Seq(AnyWord)
  BY <1>2 DEF ContextInv
<1>15. CASE new = NullPsp
  <2>1. ~canary[n]
    <3>1. psp'[n] = NullPsp
      BY <1>9, <1>15
    <3>2. psp'[n] # [task |-> n, depth |-> Len(kept[n])]
      BY ONLY <3>1, OwnPsp
    <3> QED BY ONLY <1>12, <3>2
  <2>2. ~pendsv'
    BY <1>2, <2>1 DEF ContextInv, Overran
  <2>3. IsFile(cpu')
    BY <1>9, <1>15, RegistersAreFile
  <2>4. stack' = kept /\ PSP' = NullPsp
    BY <1>9, <1>15
  <2> QED BY <1>1, <1>2, <1>3, <1>10, <1>11, <1>13, <1>14, <2>1, <2>2, <2>3, <2>4 DEF ContextInv
<1>16. CASE new # NullPsp
  <2>1. PICK frame \in Frames(left[n].cpu) :
          kept[n] = (left[n].stack \o frame) \o Words(SoftwareFrame, left[n].cpu)
    BY <1>9, <1>12, <1>16
  <2>2. PICK s : s = kept[n] /\ new = [task |-> n, depth |-> Len(s)]
    BY <1>9, <1>12, <1>16
  <2>3. IsFile(left[n].cpu) /\ left[n].stack \in Seq(AnyWord)
    BY DEF ContextInv
  <2>4. PICK low \in Seq(AnyWord) : low = left[n].stack \o frame
    BY <2>3, FrameShape, TopOfStack
  <2>5. PICK loaded :
          /\ loaded = Loaded(SoftwareFrame, s, RegistersOf(NULL, 0)) /\ IsFile(loaded)
          /\ s \in Seq(AnyWord) /\ Len(s) = Len(low) + 8 /\ SubSeq(s, 1, Len(s) - 8) = low
          /\ \A r \in Registers : InFrame(SoftwareFrame, r) => loaded[r] = left[n].cpu[r]
    <3>1. PICK file : file = left[n].cpu /\ IsFile(file)
      BY <2>3
    <3>2. s = low \o Words(SoftwareFrame, file)
      BY ONLY <2>1, <2>2, <2>4, <3>1
    <3>3. s \in Seq(AnyWord) /\ Len(s) = Len(low) + 8 /\ SubSeq(s, 1, Len(s) - 8) = low
      BY ONLY <3>1, <3>2, Repopped
    <3>4. IsFile(Loaded(SoftwareFrame, s, RegistersOf(NULL, 0)))
      BY ONLY <3>1, <3>2, Repopped
    <3>6. IsFile(file)
      BY <3>1
    <3>5. \A r \in Registers : InFrame(SoftwareFrame, r) =>
            Loaded(SoftwareFrame, s, RegistersOf(NULL, 0))[r] = file[r]
      BY ONLY <3>2, <3>6, Repopped
    <3> QED BY ONLY <3>1, <3>3, <3>4, <3>5, Zenon
  <2>6. Below(new, kept) = s
    BY <2>2, <2>5, SubSeqFull DEF Below
  <2>7. /\ cpu' = loaded
        /\ PSP' = [task |-> n, depth |-> Len(s) - 8]
        /\ stack' = [kept EXCEPT ![n] = low]
    <3>1. cpu' = Reloaded(new, kept) /\ PSP' = [new EXCEPT !.depth = @ - 8]
          /\ stack' = [kept EXCEPT ![new.task] = SubSeq(@, 1, new.depth - 8)]
      BY <1>9, <1>16
    <3>2. cpu' = loaded
      BY ONLY <2>5, <2>6, <3>1 DEF Reloaded
    <3>3. PSP' = [task |-> n, depth |-> Len(s) - 8]
      BY ONLY <2>2, <3>1
    <3>4. stack' = [kept EXCEPT ![n] = SubSeq(s, 1, Len(s) - 8)]
      BY ONLY <2>2, <3>1
    <3> QED BY ONLY <2>5, <3>2, <3>3, <3>4
  <2>8. stack' \in [Tasks -> Seq(AnyWord)] /\ stack'[n] = low
        /\ \A t \in Tasks \ {n} : stack'[t] = kept[t]
    BY <1>10, <2>7
  <2>9. HalfSaved(CurrentTask)' /\ InRegisters(CurrentTask)' /\ IsFile(cpu')
    BY <1>1, <1>2, <2>4, <2>5, <2>7, <2>8 DEF HalfSaved, InRegisters
  <2>10. PSP' = [task |-> n, depth |-> Len(stack'[n])]
    BY <2>4, <2>5, <2>7, <2>8
  <2>11. \A t \in Tasks \ {n} : Saved(t)' \/ (psp'[t] = NullPsp /\ ~canary'[t])
    BY <1>13, <2>8
  <2> QED BY <1>1, <1>2, <1>11, <1>14, <2>8, <2>9, <2>10, <2>11 DEF ContextInv
<1> QED BY <1>15, <1>16

\* What a task goes on with when the last exception returns.
GoesOn ==
  /\ cpu' = left[CurrentTask].cpu
  /\ stack'[CurrentTask] = left[CurrentTask].stack
  /\ PSP' = [task |-> CurrentTask, depth |-> Len(left[CurrentTask].stack)]

LEMMA ReturnGoesOn ==
  ASSUME ContextInv, ExceptionReturn
  PROVE  GoesOn /\ stack' = [stack EXCEPT ![CurrentTask] = left[CurrentTask].stack]
<1>1. PICK c \in Tasks : c = CurrentTask
  BY DEF ContextInv
<1>2. PICK s \in Seq(AnyWord) : s = stack[c]
  BY <1>1 DEF ContextInv
<1>3. stacked /\ PSP # NullPsp
  BY DEF ExceptionReturn
<1>4. /\ PSP = [task |-> c, depth |-> Len(s)] /\ HalfSaved(c) /\ InRegisters(c)
  BY <1>1, <1>2, <1>3 DEF ContextInv
<1>5. PICK file : file = left[c].cpu /\ IsFile(file)
  BY DEF ContextInv
<1>15. PICK base \in Seq(AnyWord) : base = left[c].stack
  BY DEF ContextInv
<1>6. PICK frame \in Frames(file) : s = base \o frame
  BY <1>2, <1>4, <1>5, <1>15 DEF HalfSaved
<1>7. Below(PSP, stack) = s
  BY <1>2, <1>4, SubSeqFull DEF Below
<1>8. PICK size :
        /\ size = FrameSize(s) /\ Pops(s, cpu, cpu')
        /\ PSP' = [PSP EXCEPT !.depth = @ - size]
        /\ stack' = [stack EXCEPT ![c] = SubSeq(s, 1, Len(s) - size)]
  BY <1>4, <1>7 DEF ExceptionReturn, FrameSize, Pops
<1>9. SameSoftware(cpu, file)
  BY <1>4, <1>5 DEF InRegisters, SameSoftware
<1>16. IsFile(file)
  BY ONLY <1>5
<1>17. Len(s) = Len(base) + FrameSize(s)
  BY ONLY <1>6, <1>9, <1>16, Popped
<1>18. SubSeq(s, 1, Len(base)) = base
  BY ONLY <1>6, <1>9, <1>16, Popped
<1>10. Len(s) - size = Len(base) /\ SubSeq(s, 1, Len(s) - size) = base
  <2>1. Len(base) \in Nat /\ size \in {8, 9} /\ Len(s) = Len(base) + size
    BY ONLY <1>8, <1>17, LenProperties DEF FrameSize
  <2>2. Len(s) - size = Len(base)
    BY ONLY <2>1
  <2> QED BY ONLY <1>18, <2>2
<1>11. Pops(s, cpu, file)
  BY ONLY <1>6, <1>9, <1>16, Popped
<1>12. cpu' = file
  BY ONLY <1>8, <1>11 DEF Pops
<1>13. PSP' = [task |-> c, depth |-> Len(base)]
  BY ONLY <1>4, <1>8, <1>10
<1>14. stack' = [stack EXCEPT ![c] = base] /\ stack'[c] = base
  BY <1>8, <1>10 DEF ContextInv
<1> QED BY ONLY <1>1, <1>5, <1>12, <1>13, <1>14, <1>15 DEF GoesOn

LEMMA ContextReturned ==
  ASSUME ContextInv, ExceptionReturn
  PROVE  ContextInv'
<1>1. PICK c \in Tasks : c = CurrentTask /\ c = CurrentTask'
  BY DEF ContextInv, ExceptionReturn, coreVars
<1>2. PICK base \in Seq(AnyWord) : base = left[c].stack /\ IsFile(left[c].cpu)
  BY DEF ContextInv
<1>3. /\ cpu' = left[c].cpu /\ stack' = [stack EXCEPT ![c] = base]
      /\ PSP' = [task |-> c, depth |-> Len(base)]
  BY <1>1, <1>2, ReturnGoesOn DEF GoesOn
<1>4. /\ ~stacked' /\ left' = [left EXCEPT ![c] = NotLeft]
      /\ UNCHANGED <<psp, canary>> /\ ~inPendSV'
  BY <1>1 DEF ExceptionReturn, coreVars
<1>5. stack' \in [Tasks -> Seq(AnyWord)] /\ stack'[c] = base
      /\ \A t \in Tasks \ {c} : stack'[t] = stack[t]
  BY <1>3 DEF ContextInv
<1>6. DOMAIN left' = Tasks /\ left'[c] = NotLeft /\ \A t \in Tasks \ {c} : left'[t] = left[t]
  BY <1>4 DEF ContextInv
<1>7. /\ NotLeft = [cpu |-> NotLeft.cpu, stack |-> NotLeft.stack]
      /\ IsFile(NotLeft.cpu) /\ NotLeft.stack \in Seq(AnyWord)
  <2>1. NotLeft.cpu = RegistersOf(NULL, 0) /\ NotLeft.stack = <<>>
        /\ NotLeft = [cpu |-> NotLeft.cpu, stack |-> NotLeft.stack]
    BY ONLY DEF NotLeft
  <2>2. IsFile(RegistersOf(NULL, 0))
    BY RegistersAreFile
  <2>3. <<>> \in Seq(AnyWord)
    BY EmptySeq
  <2> QED BY ONLY <2>1, <2>2, <2>3
<1>8. \A t \in Tasks : /\ left'[t] = [cpu |-> left'[t].cpu, stack |-> left'[t].stack]
                       /\ IsFile(left'[t].cpu) /\ left'[t].stack \in Seq(AnyWord)
  <2> TAKE t \in Tasks
  <2>1. CASE t = c
    BY ONLY <1>6, <1>7, <2>1
  <2>2. CASE t # c
    BY <1>6, <2>2 DEF ContextInv
  <2> QED BY <2>1, <2>2
<1>9. \A t \in Tasks \ {c} : Saved(t)' \/ (psp'[t] = NullPsp /\ ~canary'[t])
  <2> TAKE t \in Tasks \ {c}
  <2>1. Saved(t) \/ (psp[t] = NullPsp /\ ~canary[t])
    BY <1>1 DEF ContextInv
  <2> QED BY <1>4, <1>5, <1>6, <2>1 DEF Saved
<1>10. IsFile(cpu') /\ psp' \in [Tasks -> StackPointers]
  BY <1>2, <1>3, <1>4 DEF ContextInv
<1>11. PSP' = [task |-> c, depth |-> Len(stack'[c])]
  BY ONLY <1>3, <1>5
<1> QED BY <1>1, <1>4, <1>5, <1>6, <1>8, <1>9, <1>10, <1>11 DEF ContextInv

\* Task code uses its registers and its stack as it likes.
LEMMA ContextWorked ==
  ASSUME ContextInv, Work
  PROVE  ContextInv'
<1>1. PICK c \in Tasks : c = CurrentTask /\ c = CurrentTask'
  BY DEF ContextInv, Work, coreVars
<1>2. ~stacked /\ ~stacked' /\ ~inPendSV' /\ UNCHANGED <<psp, left, canary>>
  BY DEF Work, ThreadMode, coreVars
<1>3. PSP = [task |-> c, depth |-> Len(stack[c])]
  BY <1>1, <1>2 DEF ContextInv
<1>4. PICK value \in 1 .. 2, depth \in 0 .. MaxDepth :
        /\ cpu' = RegistersOf(c, value)
        /\ PSP' = [PSP EXCEPT !.depth = depth]
        /\ stack' = [stack EXCEPT ![c] = [k \in 1 .. depth |-> Word(c, "local", k)]]
  <2>1. PSP.task = c
    BY ONLY <1>3
  <2> QED BY ONLY <1>1, <2>1, Work DEF Work
<1>5. depth \in Nat /\ value \in Nat
  BY StackAssumption
<1>6. PICK own : own = [k \in 1 .. depth |-> Word(c, "local", k)]
  OBVIOUS
<1>7. own \in Seq(AnyWord) /\ Len(own) = depth
  <2>1. \A k \in 1 .. depth : Word(c, "local", k) \in AnyWord
    BY DEF Word, AnyWord
  <2>2. own \in [1 .. depth -> AnyWord]
    BY ONLY <1>6, <2>1
  <2> QED BY ONLY <1>5, <2>2
<1>8. stack' \in [Tasks -> Seq(AnyWord)] /\ stack'[c] = own
      /\ \A t \in Tasks \ {c} : stack'[t] = stack[t]
  BY <1>4, <1>6, <1>7 DEF ContextInv
<1>9. PSP' = [task |-> c, depth |-> Len(stack'[c])]
  BY ONLY <1>3, <1>4, <1>7, <1>8
<1>10. \A t \in Tasks \ {c} : Saved(t)' \/ (psp'[t] = NullPsp /\ ~canary'[t])
  <2> TAKE t \in Tasks \ {c}
  <2>1. Saved(t) \/ (psp[t] = NullPsp /\ ~canary[t])
    BY <1>1 DEF ContextInv
  <2> QED BY <1>2, <1>8, <2>1 DEF Saved
<1>11. IsFile(cpu')
  BY <1>4, <1>5, RegistersAreFile
<1>12. psp' \in [Tasks -> StackPointers] /\ DOMAIN left' = Tasks
       /\ \A t \in Tasks : /\ left'[t] = [cpu |-> left'[t].cpu, stack |-> left'[t].stack]
                           /\ IsFile(left'[t].cpu) /\ left'[t].stack \in Seq(AnyWord)
  BY <1>2 DEF ContextInv
<1> QED BY <1>1, <1>2, <1>8, <1>9, <1>10, <1>11, <1>12 DEF ContextInv

\* An exception comes while a task runs, or on top of another one.
LEMMA ContextEntered ==
  ASSUME ContextInv, Interrupt, UNCHANGED <<CurrentTask, canary>>, Flags'
  PROVE  ContextInv'
<1>1. CASE stacked
  <2>1. UNCHANGED contextVars
    BY <1>1 DEF Interrupt
  <2> QED BY <2>1, ContextUntouched
<1>2. CASE ~stacked
  BY <1>2, ContextInterrupted
<1> QED BY <1>1, <1>2

LEMMA InterruptStacks == Interrupt => stacked'
BY DEF Interrupt, contextVars

\* Whatever interrupts a task, it has a stack.
LEMMA InterruptKeepsPSP ==
  ASSUME ContextInv, Interrupt, PSP' = NullPsp
  PROVE  PSP = NullPsp
<1>1. CASE stacked
  BY <1>1 DEF Interrupt, contextVars
<1>2. CASE ~stacked
  <2>1. CurrentTask \in Tasks /\ PSP = [task |-> CurrentTask, depth |-> Len(stack[CurrentTask])]
    BY <1>2 DEF ContextInv
  <2>2. PICK n : PSP' = [PSP EXCEPT !.depth = n]
    BY <1>2 DEF Interrupt
  <2>3. PSP' = [task |-> CurrentTask, depth |-> n]
    BY <2>1, <2>2
  <2> QED BY <2>1, <2>3, OwnPsp
<1> QED BY <1>1, <1>2

LEMMA ContextStep ==
  ASSUME ContextInv, ContextNext
  PROVE  ContextInv'
<1>1. Flags
  BY FlagsOfInv
<1>2. CASE Tick
  <2>1. UNCHANGED <<CurrentTask, canary, inPendSV>> /\ Interrupt
        /\ (Overran # {} => pendsv' = pendsv)
    BY <1>2 DEF Tick, SysTick_Handler
  <2>2. Overran' = Overran
    BY <2>1 DEF Overran
  <2>3. PSP' = NullPsp => ~pendsv' /\ ~inPendSV'
    <3>1. SUFFICES ASSUME PSP' = NullPsp PROVE ~pendsv' /\ ~inPendSV'
      OBVIOUS
    <3>2. PSP = NullPsp
      BY <2>1, <3>1, InterruptKeepsPSP
    <3>3. ~canary[CurrentTask] /\ CurrentTask \in Tasks
      BY <3>2, OwnPsp DEF ContextInv
    <3>4. Overran # {}
      BY <3>3 DEF Overran
    <3> QED BY <1>1, <2>1, <3>2, <3>4 DEF Flags
  <2>4. Flags'
    BY <1>1, <2>1, <2>2, <2>3, InterruptStacks DEF Flags
  <2> QED BY <2>1, <2>4, ContextEntered
<1>3. CASE SwitchEntry
  <2>1. /\ UNCHANGED <<CurrentTask, canary>> /\ Interrupt
        /\ pendsv /\ ~pendsv'
    BY <1>3 DEF SwitchEntry, PendSV_Entry
  <2>2. PSP' # NullPsp
    BY <1>1, <2>1, InterruptKeepsPSP DEF Flags
  <2>3. Flags'
    BY <2>1, <2>2, InterruptStacks DEF Flags
  <2> QED BY <2>1, <2>3, ContextEntered
<1>4. CASE SwitchBody
  BY <1>4, ContextSwitched
<1>5. CASE ExceptionReturn
  BY <1>5, ContextReturned
<1>6. CASE HardFault
  <2>1. UNCHANGED <<CurrentTask, canary, pendsv, inPendSV, contextVars>>
    BY <1>6 DEF HardFault
  <2>2. Flags'
    BY <1>1, <2>1 DEF Flags, Overran, contextVars
  <2> QED BY <2>1, <2>2, ContextUntouched
<1>7. CASE Work
  BY <1>7, ContextWorked
<1>8. CASE Sleep
  <2>1. /\ UNCHANGED <<CurrentTask, canary, contextVars>> /\ ~stacked /\ ~inPendSV'
    BY <1>8 DEF Sleep, OS_Sleep, ThreadMode
  <2>2. PSP # NullPsp
    BY <2>1, OwnPsp DEF ContextInv
  <2>3. Flags'
    BY <2>1, <2>2 DEF Flags, contextVars, NullPsp
  <2> QED BY <2>1, <2>3, ContextUntouched
<1> QED BY <1>2, <1>3, <1>4, <1>5, <1>6, <1>7, <1>8 DEF ContextNext

\* Only an exception return goes back to a task.
LEMMA OnlyReturnResumes ==
  ASSUME ContextNext, stacked, ~stacked'
  PROVE  ExceptionReturn
BY InterruptStacks DEF ContextNext, Tick, SwitchEntry, SwitchBody, HardFault, Work, Sleep,
   contextVars

-----------------------------------------------------------------------------
(* The calls of main.                                                      *)

LEMMA Positions ==
  ASSUME main \in 1 .. 13
  PROVE  /\ At("PLL_Init") => main = 1
         /\ At("Init_OS") => main = 7
         /\ At("Mutex_Init") => main = 8
         /\ At("OS_SemaphoreInit") => main = 9
         /\ At("Create_Tasks") => main = 10
         /\ At("Start_OS") => main = 12
         /\ At("DWT_Init") \/ At("OS_HeapInit") \/ At("SysTick_Init") => main \in {2, 6, 11}
         /\ \A p \in Peripherals : At(p) => main \in {3, 4, 5}
         /\ Launched <=> main = 13
<1>1. main \in {1, 2, 3, 4, 5, 6, 7, 8, 9, 10, 11, 12, 13} /\ Len(Calls) = 12
  BY DEF Calls
<1> QED BY <1>1 DEF At, Launched, Calls, Peripherals

\* What Create_Task and Init_OS forge.
LEMMA ForgedStack ==
  ASSUME NEW t \in Tasks
  PROVE  /\ Forged(t) \in Seq(AnyWord) /\ Len(Forged(t)) = 16
         /\ IsFile(RegistersOf(t, 0))
         /\ Words(HardwareFrame, RegistersOf(t, 0)) \in Seq(AnyWord)
         /\ SubSeq(Forged(t), 1, 8) = Words(HardwareFrame, RegistersOf(t, 0))
<1>1. PICK file : file = RegistersOf(t, 0) /\ IsFile(file)
  BY RegistersAreFile
<1>2. PICK upper, lower : /\ upper = Words(HardwareFrame, file)
                          /\ lower = Words(SoftwareFrame, file)
  OBVIOUS
<1>3. upper \in Seq(AnyWord) /\ Len(upper) = 8 /\ lower \in Seq(AnyWord) /\ Len(lower) = 8
  BY <1>1, <1>2, WordsOf
<1>4. Forged(t) = upper \o lower
  BY <1>1, <1>2 DEF Forged
<1>5. /\ upper \o lower \in Seq(AnyWord) /\ Len(upper \o lower) = Len(upper) + Len(lower)
      /\ SubSeq(upper \o lower, 1, Len(upper)) = upper
  BY ONLY <1>3, TopOfStack
<1>6. Len(upper \o lower) = 16 /\ SubSeq(upper \o lower, 1, 8) = upper
  BY ONLY <1>3, <1>5
<1> QED BY ONLY <1>1, <1>2, <1>3, <1>4, <1>5, <1>6, Zenon

LEMMA EntryContext ==
  ASSUME NEW t \in Tasks, NEW context \in {NotLeft, AtEntry(t)}
  PROVE  /\ context = [cpu |-> context.cpu, stack |-> context.stack]
         /\ IsFile(context.cpu) /\ context.stack \in Seq(AnyWord)
<1>1. IsFile(RegistersOf(NULL, 0)) /\ IsFile(RegistersOf(t, 0))
  BY RegistersAreFile
<1>2. <<>> \in Seq(AnyWord)
  BY EmptySeq
<1>3. PICK file : IsFile(file) /\ context = [cpu |-> file, stack |-> <<>>]
  <2>1. CASE context = NotLeft
    BY ONLY <1>1, <2>1 DEF NotLeft
  <2>2. CASE context = AtEntry(t)
    BY ONLY <1>1, <2>2 DEF AtEntry
  <2> QED BY <2>1, <2>2
<1>4. context.cpu = file /\ context.stack = <<>>
      /\ context = [cpu |-> context.cpu, stack |-> context.stack]
  BY ONLY <1>3
<1> QED BY ONLY <1>2, <1>3, <1>4

\* A slot that Create_Task has filled is ready to be switched to.
LEMMA CreatedIsSaved ==
  ASSUME NEW t \in Tasks, Created(t)
  PROVE  Saved(t)
<1>1. PICK file : file = RegistersOf(t, 0)
  OBVIOUS
<1>2. /\ psp[t] = [task |-> t, depth |-> 16] /\ stack[t] = Forged(t)
      /\ left[t].cpu = file /\ left[t].stack = <<>>
  BY <1>1 DEF Created, AtEntry
<1>3. Words(HardwareFrame, file) \in Seq(AnyWord) /\ Len(Forged(t)) = 16
  BY <1>1, ForgedStack
<1>4. <<>> \o Words(HardwareFrame, file) = Words(HardwareFrame, file)
  BY ONLY <1>3, ConcatEmptySeq
<1>5. Words(HardwareFrame, file) \in Frames(file)
  BY DEF Frames
<1>6. stack[t] = Words(HardwareFrame, file) \o Words(SoftwareFrame, file)
  BY <1>1, <1>2 DEF Forged
<1> QED BY ONLY <1>2, <1>3, <1>4, <1>5, <1>6 DEF Saved

LEMMA BootStarts ==
  ASSUME BootInit
  PROVE  BootInv
<1>1. ClockInv /\ main = 1 /\ program \in Programs /\ ~Launched
  BY ClockStarts DEF BootInit, Launched, Calls
<1>2. NullPsp \in StackPointers /\ <<>> \in Seq(AnyWord)
  BY EmptySeq DEF NullPsp, StackPointers
<1>3. Booting
  BY <1>1, <1>2 DEF BootInit, Booting, Blank, Int8Max
<1> QED BY <1>1, <1>3 DEF BootInv

\* Calls of main that touch neither the tasks nor the objects.
LEMMA BootingGoesOn ==
  ASSUME Booting, main \in 1 .. 13, UNCHANGED <<vars, contextVars, program>>,
         main' = main \/ (main' = main + 1 /\ main \notin {7, 8, 10})
  PROVE  Booting'
<1>1. UNCHANGED <<CurrentTask, state, priority, ticks, canary, pendsv, inPendSV, fault, smp, mx>>
  BY DEF vars, coreVars
<1>2. UNCHANGED <<psp, stack, PSP, cpu, stacked, left, program>>
  BY DEF contextVars
<1>3. \A t \in Tasks : (Blank(t) => Blank(t)') /\ (Created(t) => Created(t)')
  BY <1>1, <1>2 DEF Blank, Created
<1>4. /\ (main <= 8) = (main' <= 8) /\ (main > 7 => main' > 7)
      /\ (main <= 7 => main' <= 7) /\ (main <= 10 => main' <= 10)
  OBVIOUS
<1>5. ASSUME NEW t \in Tasks
      PROVE  \/ Blank(t)' /\ (t = Idle => main' <= 7) /\ (t \in program' => main' <= 10)
             \/ Created(t)' /\ main' > 7 /\ t \in program' \cup {Idle}
  <2>1. \/ Blank(t) /\ (t = Idle => main <= 7) /\ (t \in program => main <= 10)
        \/ Created(t) /\ main > 7 /\ t \in program \cup {Idle}
    BY DEF Booting
  <2> QED BY <1>2, <1>3, <1>4, <2>1
<1>6. mx' = [m \in Mutexes |->
        [owner |-> NULL, counter |-> IF main' <= 8 THEN 0 ELSE 1, waiting_tasks |-> NoWaiters,
         TaskTracker |-> 0, OriginalPriority |-> 0]]
  BY <1>1, <1>4 DEF Booting
<1>7. /\ ~pendsv' /\ ~inPendSV' /\ ~fault' /\ ~stacked'
      /\ cpu' = RegistersOf(NULL, 1)
      /\ state' = [t \in Tasks |-> "READY"] /\ ticks' = [t \in Tasks |-> 0]
      /\ priority' \in [Tasks -> 0 .. Int8Max] /\ canary' \in [Tasks -> BOOLEAN]
      /\ psp' \in [Tasks -> StackPointers] /\ stack' \in [Tasks -> Seq(AnyWord)]
      /\ DOMAIN left' = Tasks /\ \A t \in Tasks : left'[t] \in {NotLeft, AtEntry(t)}
      /\ smp' = [s \in Semaphores |->
           [counter |-> 0, waiting_tasks |-> NoWaiters, TaskTracker |-> 0]]
  BY <1>1, <1>2 DEF Booting
<1> QED BY <1>5, <1>6, <1>7 DEF Booting

\* Init_OS and Create_Task forge what the invariant says of a created slot.
LEMMA TaskCreated ==
  ASSUME NEW t \in Tasks, BasePriority \in [Tasks -> 0 .. Int8Max],
         stack' = [stack EXCEPT ![t] = Forged(t)], stack \in [Tasks -> Seq(AnyWord)],
         canary' = [canary EXCEPT ![t] = TRUE], canary \in [Tasks -> BOOLEAN],
         left' = [left EXCEPT ![t] = AtEntry(t)], DOMAIN left = Tasks,
         psp'[t] = [task |-> t, depth |-> 16], priority'[t] = BasePriority[t]
  PROVE  /\ stack' \in [Tasks -> Seq(AnyWord)] /\ canary' \in [Tasks -> BOOLEAN]
         /\ DOMAIN left' = Tasks /\ Created(t)'
         /\ \A u \in Tasks \ {t} : stack'[u] = stack[u] /\ canary'[u] = canary[u]
                                    /\ left'[u] = left[u]
<1>1. Forged(t) \in Seq(AnyWord)
  BY ForgedStack
<1>2. stack' \in [Tasks -> Seq(AnyWord)] /\ stack'[t] = Forged(t)
      /\ \A u \in Tasks \ {t} : stack'[u] = stack[u]
  BY <1>1
<1>3. canary' \in [Tasks -> BOOLEAN] /\ canary'[t] /\ \A u \in Tasks \ {t} : canary'[u] = canary[u]
  OBVIOUS
<1>4. DOMAIN left' = Tasks /\ left'[t] = AtEntry(t) /\ \A u \in Tasks \ {t} : left'[u] = left[u]
  OBVIOUS
<1>5. Created(t)'
  BY <1>2, <1>3, <1>4 DEF Created
<1> QED BY <1>2, <1>3, <1>4, <1>5

LEMMA IdleIsTask == Idle \in Tasks /\ Idle # NULL
BY TasksAssumption DEF Idle, Tasks, NULL

LEMMA InitOSStep ==
  ASSUME Booting, main \in 1 .. 13, program \in Programs, Init_OS
  PROVE  Booting' /\ main' = main + 1 /\ main < 12
<1>1. main = 7 /\ main' = 8
  BY Positions DEF Init_OS, Return
<1>2. \A t \in Tasks : Blank(t)
  BY <1>1 DEF Booting
<1>3. Idle \in Tasks /\ Idle \notin program
  BY ProgramsAssumption, IdleIsTask
<1>4. [task |-> Idle, depth |-> 16] \in StackPointers /\ NullPsp \in StackPointers
  BY <1>3 DEF StackPointers, NullPsp
<1>5. /\ psp' \in [Tasks -> StackPointers] /\ psp'[Idle] = [task |-> Idle, depth |-> 16]
      /\ \A t \in Tasks \ {Idle} : psp'[t] = NullPsp
  BY <1>3, <1>4 DEF Init_OS
<1>6. /\ state' = [t \in Tasks |-> "READY"] /\ ticks' = [t \in Tasks |-> 0]
      /\ priority' = [t \in Tasks |-> 0]
      /\ priority' \in [Tasks -> 0 .. Int8Max] /\ priority'[Idle] = BasePriority[Idle]
  BY <1>3, PriorityAssumption DEF Init_OS, Int8Max
<1>7. /\ stack' \in [Tasks -> Seq(AnyWord)] /\ canary' \in [Tasks -> BOOLEAN]
      /\ DOMAIN left' = Tasks /\ Created(Idle)'
      /\ \A u \in Tasks \ {Idle} : stack'[u] = stack[u] /\ canary'[u] = canary[u]
                                   /\ left'[u] = left[u]
  <2>1. /\ stack' = [stack EXCEPT ![Idle] = Forged(Idle)] /\ stack \in [Tasks -> Seq(AnyWord)]
        /\ canary' = [canary EXCEPT ![Idle] = TRUE] /\ canary \in [Tasks -> BOOLEAN]
        /\ left' = [left EXCEPT ![Idle] = AtEntry(Idle)] /\ DOMAIN left = Tasks
    BY DEF Booting, Init_OS
  <2> QED BY <1>3, <1>5, <1>6, <2>1, TaskCreated, PriorityAssumption
<1>8. \A t \in Tasks \ {Idle} : Blank(t)'
  BY <1>2, <1>5, <1>6, <1>7 DEF Blank
<1>9. \A t \in Tasks : left'[t] \in {NotLeft, AtEntry(t)}
  <2>1. left'[Idle] = AtEntry(Idle)
    BY <1>7 DEF Created
  <2> QED BY <1>7, <2>1 DEF Booting
<1>10. UNCHANGED <<pendsv, inPendSV, fault, smp, mx, cpu, stacked, program>>
  BY DEF Init_OS
<1>11. mx' = [m \in Mutexes |->
        [owner |-> NULL, counter |-> IF main' <= 8 THEN 0 ELSE 1, waiting_tasks |-> NoWaiters,
         TaskTracker |-> 0, OriginalPriority |-> 0]]
  BY <1>1, <1>10 DEF Booting
<1>12. \A t \in Tasks :
       \/ Blank(t)' /\ (t = Idle => main' <= 7) /\ (t \in program' => main' <= 10)
       \/ Created(t)' /\ main' > 7 /\ t \in program' \cup {Idle}
  BY <1>1, <1>7, <1>8
<1>13. /\ ~pendsv' /\ ~inPendSV' /\ ~fault' /\ ~stacked' /\ cpu' = RegistersOf(NULL, 1)
       /\ smp' = [s \in Semaphores |->
            [counter |-> 0, waiting_tasks |-> NoWaiters, TaskTracker |-> 0]]
  BY <1>10 DEF Booting
<1> QED BY <1>1, <1>5, <1>6, <1>7, <1>9, <1>11, <1>12, <1>13 DEF Booting

LEMMA InitObjectsStep ==
  ASSUME Booting, main \in 1 .. 13, InitObjects
  PROVE  Booting' /\ main' = main + 1 /\ main < 12
<1>0. /\ Return /\ UNCHANGED <<coreVars, contextVars, clockVars, program, enabled, ready>>
      /\ At("Mutex_Init") \/ At("OS_SemaphoreInit")
  BY Zenon DEF InitObjects
<1>1. main \in {8, 9} /\ main' = main + 1
  BY <1>0, Positions DEF Return
<1>2. UNCHANGED <<CurrentTask, state, priority, ticks, canary, pendsv, inPendSV, fault,
                  psp, stack, PSP, cpu, stacked, left, program>>
  BY <1>0 DEF coreVars, contextVars
<1>3. /\ smp' = [s \in Semaphores |->
           [counter |-> 0, waiting_tasks |-> NoWaiters, TaskTracker |-> 0]]
      /\ mx' = [m \in Mutexes |->
           [owner |-> NULL, counter |-> 1, waiting_tasks |-> NoWaiters,
            TaskTracker |-> 0, OriginalPriority |-> 0]]
  <2> DEFINE Mutex(n) == [owner |-> NULL, counter |-> n, waiting_tasks |-> NoWaiters,
                          TaskTracker |-> 0, OriginalPriority |-> 0]
             Semaphore == [counter |-> 0, waiting_tasks |-> NoWaiters, TaskTracker |-> 0]
  <2>1. CASE main = 8
    <3>1. UNCHANGED smp
          /\ mx' = [m \in Mutexes |-> [mx[m] EXCEPT !.counter = 1, !.TaskTracker = 0]]
      <4>1. ~At("OS_SemaphoreInit")
        BY <2>1, Positions
      <4> QED BY ONLY <4>1, InitObjects, Zenon DEF InitObjects
    <3>2. smp = [s \in Semaphores |->
                   [counter |-> 0, waiting_tasks |-> NoWaiters, TaskTracker |-> 0]]
          /\ mx = [m \in Mutexes |-> Mutex(0)]
      BY <2>1 DEF Booting
    <3>3. [Mutex(0) EXCEPT !.counter = 1, !.TaskTracker = 0] = Mutex(1)
      <4>1. PICK S, Lists : S = {0, 1, NULL} /\ Lists = {NoWaiters}
        OBVIOUS
      <4>2. PICK r \in [owner : S, counter : S, waiting_tasks : Lists, TaskTracker : S,
                        OriginalPriority : S] : r = Mutex(0)
        BY ONLY <4>1
      <4>3. 0 \in S /\ 1 \in S
        BY ONLY <4>1
      <4>4. r \in [owner : S, counter : S, waiting_tasks : Lists, TaskTracker : S,
                   OriginalPriority : S]
        OBVIOUS
      <4>5. r.owner = NULL /\ r.waiting_tasks = NoWaiters /\ r.OriginalPriority = 0
        BY ONLY <4>2
      <4>6. PICK q : q = [r EXCEPT !.counter = 1]
                     /\ q \in [owner : S, counter : S, waiting_tasks : Lists,
                               TaskTracker : S, OriginalPriority : S]
        <5>1. [r EXCEPT !.counter = 1]
              \in [owner : S, counter : S, waiting_tasks : Lists, TaskTracker : S,
                  OriginalPriority : S]
          BY ONLY <4>3, <4>4
        <5> QED BY ONLY <5>1, Zenon
      <4>7. q = [owner |-> r.owner, counter |-> 1, waiting_tasks |-> r.waiting_tasks,
                 TaskTracker |-> r.TaskTracker, OriginalPriority |-> r.OriginalPriority]
        BY ONLY <4>3, <4>4, <4>6
      <4>8. q \in [owner : S, counter : S, waiting_tasks : Lists, TaskTracker : S,
                   OriginalPriority : S]
        BY ONLY <4>6
      <4>9. [q EXCEPT !.TaskTracker = 0]
            = [owner |-> q.owner, counter |-> q.counter, waiting_tasks |-> q.waiting_tasks,
               TaskTracker |-> 0, OriginalPriority |-> q.OriginalPriority]
        BY ONLY <4>3, <4>8
      <4>10. q.owner = NULL /\ q.counter = 1 /\ q.waiting_tasks = NoWaiters
             /\ q.OriginalPriority = 0
        BY ONLY <4>5, <4>7
      <4>11. [q EXCEPT !.TaskTracker = 0] = Mutex(1)
        BY ONLY <4>9, <4>10, Zenon
      <4> QED BY ONLY <4>2, <4>6, <4>11, Zenon
    <3>4. \A m \in Mutexes : mx[m] = Mutex(0)
      BY ONLY <3>2
    <3>5. \A m \in Mutexes : [mx[m] EXCEPT !.counter = 1, !.TaskTracker = 0] = Mutex(1)
      BY ONLY <3>3, <3>4, Zenon
    <3>6. mx' = [m \in Mutexes |-> Mutex(1)]
      BY ONLY <3>1, <3>5, Zenon
    <3> QED BY ONLY <3>1, <3>2, <3>6 DEF Mutex
  <2>2. CASE main = 9
    <3>1. UNCHANGED mx
          /\ smp' = [s \in Semaphores |-> [smp[s] EXCEPT !.counter = 0, !.TaskTracker = 0]]
      <4>1. ~At("Mutex_Init")
        BY <2>2, Positions
      <4> QED BY ONLY <4>1, InitObjects, Zenon DEF InitObjects
    <3>2. /\ smp = [s \in Semaphores |-> Semaphore]
          /\ mx = [m \in Mutexes |->
               [owner |-> NULL, counter |-> 1, waiting_tasks |-> NoWaiters,
                TaskTracker |-> 0, OriginalPriority |-> 0]]
      BY <2>2 DEF Booting
    <3>3. [Semaphore EXCEPT !.counter = 0, !.TaskTracker = 0] = Semaphore
      <4>1. PICK S, Lists : S = {0} /\ Lists = {NoWaiters}
        OBVIOUS
      <4>2. PICK r \in [counter : S, waiting_tasks : Lists, TaskTracker : S] : r = Semaphore
        BY ONLY <4>1
      <4>3. [r EXCEPT !.counter = 0] = r /\ [r EXCEPT !.TaskTracker = 0] = r
        BY ONLY <4>1, <4>2
      <4>4. [r EXCEPT !.counter = 0, !.TaskTracker = 0] = r
        BY ONLY <4>3, Zenon
      <4> QED BY ONLY <4>2, <4>4, Zenon
    <3>4. \A s \in Semaphores : smp[s] = Semaphore
      BY ONLY <3>2
    <3>5. \A s \in Semaphores : [smp[s] EXCEPT !.counter = 0, !.TaskTracker = 0] = Semaphore
      BY ONLY <3>3, <3>4, Zenon
    <3> HIDE DEF Semaphore
    <3>6. smp' = [s \in Semaphores |-> Semaphore]
      BY ONLY <3>1, <3>5, Zenon
    <3> QED BY ONLY <3>1, <3>2, <3>6 DEF Semaphore
  <2> QED BY <1>1, <2>1, <2>2
<1>4. mx' = [m \in Mutexes |->
        [owner |-> NULL, counter |-> IF main' <= 8 THEN 0 ELSE 1, waiting_tasks |-> NoWaiters,
         TaskTracker |-> 0, OriginalPriority |-> 0]]
  BY <1>1, <1>3
<1>5. \A t \in Tasks : (Blank(t) => Blank(t)') /\ (Created(t) => Created(t)')
  BY <1>2 DEF Blank, Created
<1>6. ASSUME NEW t \in Tasks
      PROVE  \/ Blank(t)' /\ (t = Idle => main' <= 7) /\ (t \in program' => main' <= 10)
             \/ Created(t)' /\ main' > 7 /\ t \in program' \cup {Idle}
  <2>1. \/ Blank(t) /\ (t = Idle => main <= 7) /\ (t \in program => main <= 10)
        \/ Created(t) /\ main > 7 /\ t \in program \cup {Idle}
    BY DEF Booting
  <2> QED BY <1>1, <1>2, <1>5, <2>1
<1>7. /\ ~pendsv' /\ ~inPendSV' /\ ~fault' /\ ~stacked'
      /\ cpu' = RegistersOf(NULL, 1)
      /\ state' = [t \in Tasks |-> "READY"] /\ ticks' = [t \in Tasks |-> 0]
      /\ priority' \in [Tasks -> 0 .. Int8Max] /\ canary' \in [Tasks -> BOOLEAN]
      /\ psp' \in [Tasks -> StackPointers] /\ stack' \in [Tasks -> Seq(AnyWord)]
      /\ DOMAIN left' = Tasks /\ \A t \in Tasks : left'[t] \in {NotLeft, AtEntry(t)}
  BY <1>2 DEF Booting
<1> QED BY <1>1, <1>3, <1>4, <1>6, <1>7 DEF Booting

\* One more slot is filled.
LEMMA CreateTaskStep ==
  ASSUME Booting, main = 10, main' = main, program \in Programs, NEW t \in program,
         Create_Task(t, BasePriority[t]), UNCHANGED <<smp, mx, program>>
  PROVE  Booting'
<1>1. program \subseteq Tasks \ {Idle} /\ t \in Tasks /\ t # Idle
  BY ProgramsAssumption
<1>2. /\ stack' = [stack EXCEPT ![t] = Forged(t)]
      /\ psp' = [psp EXCEPT ![t] = [task |-> t, depth |-> 16]]
      /\ state' = [state EXCEPT ![t] = "READY"]
      /\ priority' = [priority EXCEPT ![t] = BasePriority[t]]
      /\ canary' = [canary EXCEPT ![t] = TRUE]
      /\ left' = [left EXCEPT ![t] = AtEntry(t)]
      /\ UNCHANGED <<CurrentTask, ticks, pendsv, inPendSV, fault, PSP, cpu, stacked>>
  BY DEF Create_Task
<1>3. /\ priority \in [Tasks -> 0 .. Int8Max] /\ canary \in [Tasks -> BOOLEAN]
      /\ psp \in [Tasks -> StackPointers] /\ stack \in [Tasks -> Seq(AnyWord)]
      /\ DOMAIN left = Tasks
  BY DEF Booting
<1>4. BasePriority \in [Tasks -> 0 .. Int8Max]
  BY PriorityAssumption DEF Int8Max
<1>5. [task |-> t, depth |-> 16] \in StackPointers
  BY <1>1 DEF StackPointers
<1>6. /\ psp' \in [Tasks -> StackPointers] /\ psp'[t] = [task |-> t, depth |-> 16]
      /\ \A u \in Tasks \ {t} : psp'[u] = psp[u]
  BY <1>1, <1>2, <1>3, <1>5
<1>7. /\ priority' \in [Tasks -> 0 .. Int8Max] /\ priority'[t] = BasePriority[t]
      /\ \A u \in Tasks \ {t} : priority'[u] = priority[u]
  BY <1>1, <1>2, <1>3, <1>4
<1>8. state' = [u \in Tasks |-> "READY"] /\ ticks' = [u \in Tasks |-> 0]
  BY <1>1, <1>2 DEF Booting
<1>9. /\ stack' \in [Tasks -> Seq(AnyWord)] /\ canary' \in [Tasks -> BOOLEAN]
      /\ DOMAIN left' = Tasks /\ Created(t)'
      /\ \A u \in Tasks \ {t} : stack'[u] = stack[u] /\ canary'[u] = canary[u]
                                 /\ left'[u] = left[u]
  BY <1>1, <1>2, <1>3, <1>4, <1>6, <1>7, TaskCreated
<1>10. \A u \in Tasks \ {t} : (Blank(u) => Blank(u)') /\ (Created(u) => Created(u)')
  BY <1>6, <1>7, <1>9 DEF Blank, Created
<1>11. ASSUME NEW u \in Tasks
       PROVE  \/ Blank(u)' /\ (u = Idle => main' <= 7) /\ (u \in program' => main' <= 10)
              \/ Created(u)' /\ main' > 7 /\ u \in program' \cup {Idle}
  <2>1. CASE u = t
    BY <1>9, <2>1
  <2>2. CASE u # t
    <3>1. \/ Blank(u) /\ (u = Idle => main <= 7) /\ (u \in program => main <= 10)
          \/ Created(u) /\ main > 7 /\ u \in program \cup {Idle}
      BY DEF Booting
    <3> QED BY <1>10, <2>2, <3>1
  <2> QED BY <2>1, <2>2
<1>12. \A u \in Tasks : left'[u] \in {NotLeft, AtEntry(u)}
  <2>1. left'[t] = AtEntry(t)
    BY <1>9 DEF Created
  <2> QED BY <1>9, <2>1 DEF Booting
<1>13. mx' = [m \in Mutexes |->
         [owner |-> NULL, counter |-> IF main' <= 8 THEN 0 ELSE 1, waiting_tasks |-> NoWaiters,
          TaskTracker |-> 0, OriginalPriority |-> 0]]
  BY DEF Booting
<1>14. /\ ~pendsv' /\ ~inPendSV' /\ ~fault' /\ ~stacked' /\ cpu' = RegistersOf(NULL, 1)
       /\ smp' = [s \in Semaphores |->
            [counter |-> 0, waiting_tasks |-> NoWaiters, TaskTracker |-> 0]]
  BY <1>2 DEF Booting
<1> QED BY <1>6, <1>7, <1>8, <1>9, <1>11, <1>12, <1>13, <1>14 DEF Booting

LEMMA CreateTasksStep ==
  ASSUME Booting, main \in 1 .. 13, program \in Programs, Create_Tasks
  PROVE  Booting' /\ main' \in {main, main + 1} /\ main < 12
<1>1. main = 10 /\ UNCHANGED <<smp, mx, program>>
  BY Positions DEF Create_Tasks
<1>2. CASE \E t \in program : Create_Task(t, BasePriority[t]) /\ UNCHANGED main
  BY <1>1, <1>2, CreateTaskStep
<1>3. CASE /\ \A t \in program : psp[t] # NullPsp
           /\ main' = main + 1 /\ UNCHANGED <<coreVars, contextVars>>
  <2>1. UNCHANGED <<CurrentTask, state, priority, ticks, canary, pendsv, inPendSV, fault,
                    psp, stack, PSP, cpu, stacked, left>>
    BY <1>3 DEF coreVars, contextVars
  <2>2. \A t \in Tasks : (Blank(t) => Blank(t)') /\ (Created(t) => Created(t)')
    BY <2>1 DEF Blank, Created
  <2>3. \A t \in Tasks : Blank(t) => t \notin program
    BY <1>3 DEF Blank
  <2>4. ASSUME NEW t \in Tasks
        PROVE  \/ Blank(t)' /\ (t = Idle => main' <= 7) /\ (t \in program' => main' <= 10)
               \/ Created(t)' /\ main' > 7 /\ t \in program' \cup {Idle}
    <3>1. \/ Blank(t) /\ (t = Idle => main <= 7) /\ (t \in program => main <= 10)
          \/ Created(t) /\ main > 7 /\ t \in program \cup {Idle}
      BY DEF Booting
    <3> QED BY <1>1, <1>3, <2>2, <2>3, <3>1
  <2>5. mx' = [m \in Mutexes |->
          [owner |-> NULL, counter |-> IF main' <= 8 THEN 0 ELSE 1, waiting_tasks |-> NoWaiters,
           TaskTracker |-> 0, OriginalPriority |-> 0]]
    BY <1>1, <1>3 DEF Booting
  <2>6. /\ ~pendsv' /\ ~inPendSV' /\ ~fault' /\ ~stacked'
        /\ cpu' = RegistersOf(NULL, 1)
        /\ state' = [t \in Tasks |-> "READY"] /\ ticks' = [t \in Tasks |-> 0]
        /\ priority' \in [Tasks -> 0 .. Int8Max] /\ canary' \in [Tasks -> BOOLEAN]
        /\ psp' \in [Tasks -> StackPointers] /\ stack' \in [Tasks -> Seq(AnyWord)]
        /\ DOMAIN left' = Tasks /\ \A t \in Tasks : left'[t] \in {NotLeft, AtEntry(t)}
        /\ smp' = [s \in Semaphores |->
             [counter |-> 0, waiting_tasks |-> NoWaiters, TaskTracker |-> 0]]
    BY <1>1, <2>1 DEF Booting
  <2>7. Booting'
    BY <2>4, <2>5, <2>6 DEF Booting
  <2> QED BY <1>1, <1>3, <2>7
<1> QED BY <1>1, <1>2, <1>3 DEF Create_Tasks, Return

\* The first task is launched with half of its forged frame on its stack and the
\* other half in no register yet: it starts with R4 to R11 as main leaves them.
LEMMA LaunchStep ==
  ASSUME Booting, main \in 1 .. 13, program \in Programs, Launch
  PROVE  ContextInv' /\ main = 12 /\ main' = 13
<1>1. main = 12 /\ main' = 13
  BY Positions DEF Launch, Return
<1>2. 0 \in program /\ 0 \in Tasks
  BY ProgramsAssumption
<1>3. Created(0)
  BY <1>1, <1>2 DEF Booting
<1>4. psp[0] = [task |-> 0, depth |-> 16] /\ stack[0] = Forged(0) /\ left[0] = AtEntry(0)
  BY <1>3 DEF Created
<1>5. PICK forged : forged = RegistersOf(0, 0) /\ IsFile(forged)
  BY <1>2, RegistersAreFile
<1>6. PICK frame \in Seq(AnyWord) : frame = Words(HardwareFrame, forged) /\ Len(frame) = 8
  BY <1>5, WordsOf
<1>7. IsFile(cpu)
  BY RegistersAreFile DEF Booting
<1>8. PICK file : file = [r \in Registers |->
                           IF InFrame(HardwareFrame, r) THEN forged[r] ELSE cpu[r]]
  OBVIOUS
<1>9. IsFile(file)
  BY ONLY <1>5, <1>7, <1>8 DEF IsFile
<1>10. /\ CurrentTask' = 0
       /\ PSP' = [psp[0] EXCEPT !.depth = @ - 8]
       /\ stack' = [stack EXCEPT ![0] = Below(PSP', stack)]
       /\ stacked' = TRUE
       /\ UNCHANGED <<canary, pendsv, inPendSV, psp, cpu>>
  BY DEF Launch, Start_OS
<1>11. PSP' = [task |-> 0, depth |-> 8]
  BY <1>4, <1>10
<1>12. Below(PSP', stack) = frame
  <2>1. SubSeq(Forged(0), 1, 8) = frame
    BY <1>2, <1>5, <1>6, ForgedStack
  <2> QED BY <1>4, <1>11, <2>1 DEF Below
<1>13. /\ stack' \in [Tasks -> Seq(AnyWord)] /\ stack'[0] = frame
       /\ \A t \in Tasks \ {0} : stack'[t] = stack[t]
  BY <1>2, <1>10, <1>12 DEF Booting
<1>14. left' = [left EXCEPT ![0] = [AtEntry(0) EXCEPT !.cpu = file]]
  <2>1. left' = [left EXCEPT ![0].cpu =
          [r \in Registers |-> IF InFrame(HardwareFrame, r) THEN @[r] ELSE cpu[r]]]
    BY Zenon DEF Launch, Start_OS
  <2>2. AtEntry(0).cpu = forged
    BY <1>5 DEF AtEntry
  <2> QED BY <1>4, <1>8, <2>1, <2>2, Zenon
<1>15. [AtEntry(0) EXCEPT !.cpu = file] = [cpu |-> file, stack |-> <<>>]
  BY ONLY DEF AtEntry
<1>16. /\ DOMAIN left' = Tasks /\ left'[0] = [cpu |-> file, stack |-> <<>>]
       /\ \A t \in Tasks \ {0} : left'[t] = left[t]
  <2>1. DOMAIN left = Tasks
    BY DEF Booting
  <2> QED BY ONLY <1>2, <1>14, <1>15, <2>1
<1>17. ASSUME NEW t \in Tasks
       PROVE  /\ left'[t] = [cpu |-> left'[t].cpu, stack |-> left'[t].stack]
              /\ IsFile(left'[t].cpu) /\ left'[t].stack \in Seq(AnyWord)
  <2>1. CASE t = 0
    <3>1. <<>> \in Seq(AnyWord)
      BY EmptySeq
    <3>2. left'[0].cpu = file /\ left'[0].stack = <<>>
      BY ONLY <1>16
    <3> QED BY ONLY <1>9, <1>16, <2>1, <3>1, <3>2
  <2>2. CASE t # 0
    <3>1. left'[t] = left[t] /\ left[t] \in {NotLeft, AtEntry(t)}
      BY <1>16, <2>2 DEF Booting
    <3> QED BY <3>1, EntryContext
  <2> QED BY <2>1, <2>2
<1>18. \A t \in Tasks \ {0} : Saved(t)' \/ (psp'[t] = NullPsp /\ ~canary'[t])
  <2> TAKE t \in Tasks \ {0}
  <2>1. stack'[t] = stack[t] /\ left'[t] = left[t] /\ psp' = psp /\ canary' = canary
    BY <1>10, <1>13, <1>16
  <2>2. Saved(t) \/ (psp[t] = NullPsp /\ ~canary[t])
    BY CreatedIsSaved DEF Booting, Blank
  <2> QED BY <2>1, <2>2 DEF Saved
<1>19. Words(HardwareFrame, file) = frame
  <2>1. \A k \in 1 .. 8 : file[HardwareFrame[k]] = forged[HardwareFrame[k]]
    <3> TAKE k \in 1 .. 8
    <3>1. HardwareFrame[k] \in Registers /\ InFrame(HardwareFrame, HardwareFrame[k])
      BY FrameOfRegister, FrameSlots DEF InFrame
    <3>2. PICK r \in Registers : r = HardwareFrame[k]
      BY <3>1
    <3> QED BY ONLY <1>8, <3>1, <3>2
  <2>2. DOMAIN HardwareFrame = 1 .. 8
    BY FrameSlots
  <2> QED BY ONLY <1>6, <2>1, <2>2 DEF Words
<1>20. HalfSaved(CurrentTask)'
  <2>1. frame \in Frames(file)
    BY <1>19 DEF Frames
  <2>2. <<>> \o frame = frame
    BY ONLY <1>6, ConcatEmptySeq
  <2>3. left'[0].cpu = file /\ left'[0].stack = <<>>
    BY ONLY <1>16
  <2> QED BY ONLY <1>10, <1>13, <2>1, <2>2, <2>3 DEF HalfSaved
<1>21. InRegisters(CurrentTask)'
  <2> SUFFICES ASSUME NEW r \in Registers, InFrame(SoftwareFrame, r)
               PROVE  cpu'[r] = left'[0].cpu[r]
    BY <1>10 DEF InRegisters
  <2>1. ~InFrame(HardwareFrame, r)
    BY FrameOfRegister
  <2>2. left'[0].cpu = file
    BY ONLY <1>16
  <2>3. cpu' = cpu
    BY <1>10
  <2> QED BY ONLY <1>8, <2>1, <2>2, <2>3
<1>22. ~pendsv' /\ ~inPendSV' /\ IsFile(cpu') /\ psp' \in [Tasks -> StackPointers]
  BY <1>7, <1>10 DEF Booting
<1>23. PSP' = [task |-> 0, depth |-> Len(stack'[0])]
  BY <1>6, <1>11, <1>13
<1>24. ContextInv'
  BY <1>2, <1>10, <1>13, <1>16, <1>17, <1>18, <1>20, <1>21, <1>22, <1>23 DEF ContextInv
<1> QED BY <1>1, <1>24

LEMMA LockingKeepsStep == CrystalStarts \/ PLLLocks => step' = step
BY Zenon DEF CrystalStarts, PLLLocks

LEMMA StillStacked == UNCHANGED contextVars /\ stacked => stacked'
BY DEF contextVars

LEMMA InitPositions ==
  ASSUME main \in 1 .. 13
  PROVE  /\ Init_OS => main = 7 /\ UNCHANGED <<clockVars, program>>
         /\ InitObjects => main \in {8, 9} /\ UNCHANGED <<clockVars, program>>
         /\ Create_Tasks => main = 10 /\ UNCHANGED <<clockVars, program>>
<1>1. InitObjects => /\ At("Mutex_Init") \/ At("OS_SemaphoreInit")
                     /\ UNCHANGED <<coreVars, contextVars, clockVars, program, enabled, ready>>
  BY Zenon DEF InitObjects
<1>2. Init_OS => At("Init_OS") /\ UNCHANGED <<clockVars, program>>
  BY DEF Init_OS
<1>3. Create_Tasks => At("Create_Tasks") /\ UNCHANGED <<clockVars, program>>
  BY DEF Create_Tasks
<1> QED BY <1>1, <1>2, <1>3, Positions

\* main does nothing more once it has launched the first task.
LEMMA MainIsOver ==
  ASSUME main \in 1 .. 13, Main
  PROVE  main # 13
<1>1. CASE InitClock \/ OtherCall \/ Launch
  BY <1>1, Positions DEF InitClock, OtherCall, Launch
<1>2. CASE Init_OS \/ InitObjects \/ Create_Tasks
  BY <1>2, InitPositions
<1>3. CASE \E p \in Peripherals : EnablePeripheral(p) \/ InitPeripheral(p)
  BY <1>3, Positions DEF EnablePeripheral, InitPeripheral
<1> QED BY <1>1, <1>2, <1>3 DEF Main

LEMMA BootStep ==
  ASSUME BootInv, [BootNext]_bootVars
  PROVE  BootInv'
<1>1. /\ ClockInv /\ program \in Programs /\ main \in 1 .. 13
      /\ main > 1 => step = "return"
      /\ Launched => ContextInv
      /\ ~Launched => Booting
  BY DEF BootInv
<1>2. /\ (Launched <=> main = 13)
      /\ main' \in 1 .. 13 => (Launched' <=> main' = 13)
  BY <1>1, Positions DEF Launched, Calls
\* Calls of main, up to the last one.
<1>3. ASSUME ~Launched, main < 12, Booting', main' \in {main, main + 1},
             UNCHANGED program, ClockInv', main' > 1 => step' = "return"
      PROVE  BootInv'
  BY <1>1, <1>2, <1>3 DEF BootInv
<1>4. UNCHANGED clockVars => ClockInv' /\ step' = step
  BY <1>1, ClockStep DEF clockVars
<1>5. CASE InitClock
  <2>1. main = 1 /\ ~Launched /\ UNCHANGED <<vars, contextVars, program>>
    BY <1>1, <1>2, <1>5, Positions DEF InitClock
  <2>2. ClockInv' /\ main' \in {main, main + 1} /\ (main' > 1 => step' = "return")
    BY <1>1, <1>4, <1>5, <2>1, ClockStep DEF InitClock, Return, clockVars
  <2>3. Booting'
    BY <1>1, <2>1, <2>2, BootingGoesOn
  <2> QED BY <1>3, <2>1, <2>2, <2>3
<1>6. CASE OtherCall \/ \E p \in Peripherals : EnablePeripheral(p) \/ InitPeripheral(p)
  <2>1. /\ main \in {2, 3, 4, 5, 6, 11} /\ main' \in {main, main + 1} /\ ~Launched
        /\ UNCHANGED <<vars, contextVars, clockVars, program>>
    BY <1>1, <1>2, <1>6, Positions DEF OtherCall, EnablePeripheral, InitPeripheral, Return
  <2>2. Booting'
    BY <1>1, <2>1, BootingGoesOn
  <2>3. ClockInv' /\ step' = "return"
    BY <1>1, <1>4, <2>1
  <2>4. main < 12
    BY <2>1
  <2> QED BY <1>3, <2>1, <2>2, <2>3, <2>4
<1>7. CASE Init_OS \/ InitObjects \/ Create_Tasks
  <2>1. main \in {7, 8, 9, 10} /\ ~Launched /\ UNCHANGED <<clockVars, program>>
    BY <1>1, <1>2, <1>7, InitPositions
  <2>2. Booting' /\ main' \in {main, main + 1} /\ main < 12
    BY <1>1, <1>7, <2>1, InitOSStep, InitObjectsStep, CreateTasksStep
  <2>3. ClockInv' /\ step' = "return"
    BY <1>1, <1>4, <2>1
  <2> QED BY <1>3, <2>1, <2>2, <2>3
<1>8. CASE Launch
  <2>1. main = 12
    BY <1>1, <1>8, Positions DEF Launch
  <2>2. ContextInv' /\ main' = 13
    BY <1>1, <1>2, <1>8, <2>1, LaunchStep
  <2>3. UNCHANGED <<clockVars, program>>
    BY <1>8 DEF Launch
  <2> QED BY <1>1, <1>2, <1>4, <2>1, <2>2, <2>3 DEF BootInv
<1>9. CASE OscillatorStarts
  <2>1. ClockInv' /\ (CrystalStarts \/ PLLLocks)
        /\ UNCHANGED <<vars, contextVars, main, program>>
    BY <1>1, <1>9, ClockStep DEF OscillatorStarts
  <2>2. step' = step
    BY <2>1, LockingKeepsStep
  <2>3. Launched' = Launched
    BY <2>1 DEF Launched
  <2>4. IF Launched' THEN ContextInv' ELSE Booting'
    <3>1. CASE Launched
      <4>1. UNCHANGED <<contextVars, CurrentTask, canary, pendsv, inPendSV>>
        BY <2>1 DEF vars, coreVars
      <4>2. Flags'
        BY <1>1, <3>1, <4>1, FlagsOfInv DEF Flags, Overran, contextVars
      <4> QED BY <1>1, <2>3, <3>1, <4>1, <4>2, ContextUntouched
    <3>2. CASE ~Launched
      BY <1>1, <2>1, <2>3, <3>2, BootingGoesOn
    <3> QED BY <3>1, <3>2
  <2> QED BY <1>1, <2>1, <2>2, <2>4 DEF BootInv
<1>10. CASE PeripheralReady \/ UNCHANGED bootVars
  <2>1. UNCHANGED <<vars, contextVars, clockVars, main, program>>
    BY <1>10 DEF PeripheralReady, bootVars
  <2>2. Launched' = Launched
    BY <2>1 DEF Launched
  <2>3. IF Launched' THEN ContextInv' ELSE Booting'
    <3>1. CASE Launched
      <4>1. UNCHANGED <<contextVars, CurrentTask, canary, pendsv, inPendSV>>
        BY <2>1 DEF vars, coreVars
      <4>2. Flags'
        BY <1>1, <3>1, <4>1, FlagsOfInv DEF Flags, Overran, contextVars
      <4> QED BY <1>1, <2>2, <3>1, <4>1, <4>2, ContextUntouched
    <3>2. CASE ~Launched
      BY <1>1, <2>1, <2>2, <3>2, BootingGoesOn
    <3> QED BY <3>1, <3>2
  <2> QED BY <1>1, <1>4, <2>1, <2>3 DEF BootInv
<1>11. CASE Run
  <2>1. Launched /\ ContextNext /\ UNCHANGED <<clockVars, main, program>>
    BY <1>11 DEF Run
  <2>2. Launched' /\ ContextInv'
    BY <1>1, <2>1, ContextStep DEF Launched
  <2> QED BY <1>1, <1>4, <2>1, <2>2 DEF BootInv
<1> QED BY <1>5, <1>6, <1>7, <1>8, <1>9, <1>10, <1>11 DEF BootNext, Main

-----------------------------------------------------------------------------
(* Slots that no Create_Task fills.                                        *)

\* A task that executes has a stack, so it was created.
LEMMA ExecutesCreated ==
  ASSUME BootInv, ForgottenBlank, Launched, PSP # NullPsp
  PROVE  CurrentTask \notin Forgotten
BY DEF ForgottenBlank

LEMMA PSPWhileExecuting ==
  ASSUME ContextInv, inPendSV \/ ~stacked
  PROVE  PSP # NullPsp
<1>1. CurrentTask \in Tasks
  BY DEF ContextInv
<1> QED BY <1>1, OwnPsp DEF ContextInv

\* PendSV saves through the psp of a created slot, and what it loads of another
\* one is no stack.
LEMMA SwitchForgets ==
  ASSUME BootInv, ForgottenBlank, Launched, SwitchBody, UNCHANGED <<main, program>>
  PROVE  ForgottenBlank'
<1>1. ContextInv
  BY DEF BootInv
<1>2. inPendSV /\ canary' = canary /\ Forgotten' = Forgotten
  BY DEF SwitchBody, PendSV_Handler, Forgotten
<1>3. PSP # NullPsp
  BY <1>1, <1>2, PSPWhileExecuting
<1>4. CurrentTask \notin Forgotten
  BY <1>3, ExecutesCreated
<1>5. SUFFICES ASSUME NEW t \in Forgotten
               PROVE  psp'[t] = NullPsp /\ ~canary'[t] /\ (t = CurrentTask' => PSP' = NullPsp)
  BY <1>2 DEF ForgottenBlank
<1>6. psp[t] = NullPsp /\ ~canary[t] /\ t # CurrentTask
  BY <1>4, <1>5 DEF ForgottenBlank
<1>7. t \in Tasks /\ DOMAIN psp = Tasks
  BY <1>1, <1>5 DEF Forgotten, ContextInv
<1>8. psp'[t] = NullPsp
  BY <1>6, <1>7 DEF SwitchBody, StoredPsp
<1>9. t = CurrentTask' => PSP' = NullPsp
  BY <1>8 DEF SwitchBody
<1> QED BY <1>2, <1>6, <1>8, <1>9

\* No other exception and no task touches such a slot.
LEMMA ContextForgets ==
  ASSUME BootInv, ForgottenBlank, Launched, ContextNext, UNCHANGED <<main, program>>
  PROVE  ForgottenBlank'
<1>1. ContextInv
  BY DEF BootInv
<1>2. CASE SwitchBody
  BY <1>2, SwitchForgets
<1>3. ASSUME UNCHANGED <<CurrentTask, canary, psp>>, PSP = NullPsp => PSP' = NullPsp
      PROVE  ForgottenBlank'
  BY <1>3 DEF ForgottenBlank, Forgotten
<1>4. ASSUME UNCHANGED <<CurrentTask, canary, psp>>, PSP # NullPsp
      PROVE  ForgottenBlank'
  <2>1. PSP = NullPsp => PSP' = NullPsp
    BY <1>4
  <2> QED BY <1>3, <1>4, <2>1
<1>5. CASE Tick \/ SwitchEntry
  <2>1. UNCHANGED <<CurrentTask, canary>> /\ Interrupt
    BY <1>5 DEF Tick, SwitchEntry, SysTick_Handler, PendSV_Entry
  <2>2. CASE stacked
    <3>1. UNCHANGED contextVars
      BY <2>1, <2>2 DEF Interrupt
    <3> QED BY <1>3, <2>1, <3>1 DEF contextVars
  <2>3. CASE ~stacked
    <3>1. psp' = psp
      BY <2>1, <2>3 DEF Interrupt
    <3>2. PSP # NullPsp
      BY <1>1, <2>3, PSPWhileExecuting
    <3> QED BY <1>4, <2>1, <3>1, <3>2
  <2> QED BY <2>2, <2>3
<1>6. CASE ExceptionReturn
  BY <1>4, <1>6 DEF ExceptionReturn, coreVars
<1>7. CASE HardFault
  BY <1>3, <1>7 DEF HardFault, contextVars
<1>8. CASE Work
  <2>1. PSP # NullPsp
    BY <1>1, <1>8, PSPWhileExecuting DEF Work
  <2> QED BY <1>4, <1>8, <2>1 DEF Work, coreVars
<1>9. CASE Sleep
  BY <1>3, <1>9 DEF Sleep, OS_Sleep, contextVars
<1> QED BY <1>2, <1>5, <1>6, <1>7, <1>8, <1>9 DEF ContextNext

\* The launch finds every slot created or blank, and loads slot 0.
LEMMA LaunchForgets ==
  ASSUME BootInv, ~Launched, Launch
  PROVE  ForgottenBlank'
<1>1. Booting /\ program \in Programs
  BY DEF BootInv
<1>2. UNCHANGED <<canary, psp, program>> /\ CurrentTask' = 0
  BY DEF Launch, Start_OS
<1>3. 0 \notin Forgotten /\ Forgotten' = Forgotten
  BY <1>1, <1>2, ProgramsAssumption DEF Forgotten
<1>4. \A t \in Forgotten : psp[t] = NullPsp /\ ~canary[t]
  BY <1>1 DEF Booting, Blank, Created, Forgotten
<1> QED BY <1>2, <1>3, <1>4 DEF ForgottenBlank

LEMMA BootForgets ==
  ASSUME BootInv, ForgottenBlank, [BootNext]_bootVars
  PROVE  ForgottenBlank'
<1>1. main \in 1 .. 13 /\ (Launched <=> main = 13)
  BY Positions DEF BootInv
<1>2. ASSUME UNCHANGED <<CurrentTask, canary, psp, PSP, main, program>>
      PROVE  ForgottenBlank'
  BY <1>2 DEF ForgottenBlank, Forgotten, Launched
<1>3. CASE UNCHANGED bootVars \/ OscillatorStarts \/ PeripheralReady
  BY <1>2, <1>3 DEF bootVars, OscillatorStarts, PeripheralReady, vars, coreVars, contextVars
<1>4. CASE Run
  BY <1>4, ContextForgets DEF Run
<1>5. CASE Main
  <2>1. main # 13 /\ ~Launched
    BY <1>1, <1>5, MainIsOver
  <2>2. CASE Launch
    BY <2>1, <2>2, LaunchForgets
  <2>3. CASE ~Launch
    <3>1. main' \in {main, main + 1} /\ main < 12
      <4>1. CASE InitClock \/ OtherCall
        BY <1>1, <4>1, Positions DEF InitClock, OtherCall, Return
      <4>2. CASE \E p \in Peripherals : EnablePeripheral(p) \/ InitPeripheral(p)
        BY <1>1, <4>2, Positions DEF EnablePeripheral, InitPeripheral, Return
      <4>3. CASE Init_OS \/ InitObjects \/ Create_Tasks
        <5>1. main \in 1 .. 13 /\ Booting /\ program \in Programs
          BY <1>1, <2>1 DEF BootInv
        <5> QED BY <4>3, <5>1, InitOSStep, InitObjectsStep, CreateTasksStep
      <4> QED BY <1>5, <2>3, <4>1, <4>2, <4>3 DEF Main
    <3>2. main' \in 1 .. 13 /\ main' # 13
      BY <1>1, <3>1
    <3>3. ~Launched'
      BY <3>2, Positions DEF Launched, Calls
    <3> QED BY <3>3 DEF ForgottenBlank
  <2> QED BY <2>2, <2>3
<1> QED BY <1>3, <1>4, <1>5 DEF BootNext

-----------------------------------------------------------------------------
(* The theorems.                                                           *)

\* In every reachable state the clock is as PLL_Init has it at that point, and
\* either main is still setting up the slots and objects, each call having left
\* what it should, or a task is launched and every slot holds what the next
\* switch will need.
THEOREM BootInvariant == BootSpec => []BootInv
<1>1. BootInit => BootInv
  BY BootStarts
<1>2. BootInv /\ [BootNext]_bootVars => BootInv'
  BY BootStep
<1> QED BY <1>1, <1>2, PTL DEF BootSpec

\* For every time-out: if the PLL locks before PLL_Init has counted to it, the
\* launched system is ticked once a millisecond.
THEOREM MillisecondTick == BootSpec => []TickIsMillisecond
<1>1. BootInv => TickIsMillisecond
  <2> SUFFICES ASSUME BootInv, Launched, psysdiv = PSYSDIV, lockedAt < LockTimeout
               PROVE  SysClk = 1000 * (RELOAD + 1)
    BY DEF TickIsMillisecond
  <2>1. ClockInv /\ step = "return"
    BY Positions DEF BootInv
  <2> QED BY <2>1, FastClock
<1> QED BY <1>1, BootInvariant, PTL

\* For every number of slots, of words on their stacks and every alignment of
\* these: a task goes on with the registers, the stack and the stack pointer it
\* was interrupted with.
THEOREM ContextSafety == BootSpec => ContextKept
<1>1. ASSUME BootInv, [BootNext]_bootVars, stacked, ~stacked'
      PROVE  GoesOn
  <2>1. Launched
    BY <1>1 DEF BootInv, Booting
  <2>2. main = 13
    BY <1>1, <2>1, Positions DEF BootInv
  <2>3. BootNext
    BY <1>1, StillStacked DEF bootVars
  <2>4. ~Main
    BY <1>1, <2>2, MainIsOver DEF BootInv
  <2>5. ContextNext
    <3>1. ~OscillatorStarts /\ ~PeripheralReady
      BY <1>1, StillStacked DEF OscillatorStarts, PeripheralReady
    <3> QED BY <2>3, <2>4, <3>1 DEF BootNext, Run
  <2>6. ContextInv
    BY <1>1, <2>1 DEF BootInv
  <2> QED BY <1>1, <2>5, <2>6, OnlyReturnResumes, ReturnGoesOn
<1>2. BootInv /\ [BootNext]_bootVars
      => [stacked /\ ~stacked' =>
            /\ cpu' = left[CurrentTask].cpu
            /\ stack'[CurrentTask] = left[CurrentTask].stack
            /\ PSP' = [task |-> CurrentTask, depth |-> Len(left[CurrentTask].stack)]]_bootVars
  BY <1>1 DEF GoesOn
<1> QED BY <1>2, BootInvariant, PTL DEF BootSpec, ContextKept

\* If main fills all the slots, Start_OS hands over the state in which the
\* models of the kernel begin.
THEOREM KernelEntry == BootSpec => BootsIntoKernel
<1>1. ASSUME BootInv, BootNext, ~Launched, Launched', program = Tasks \ {Idle}
      PROVE  Init'
  <2>1. main \in 1 .. 13 /\ program \in Programs /\ Booting
    BY <1>1 DEF BootInv
  <2>2. main # 13 /\ (main' \in 1 .. 13 => main' = 13)
    BY <1>1, <2>1, Positions DEF Launched, Calls
  <2>3. Launch
    <3>1. CASE Main
      <4>1. ~InitClock /\ ~OtherCall
        BY <1>1, <2>1, <2>2, Positions DEF InitClock, OtherCall, Return
      <4>2. ~Init_OS /\ ~InitObjects /\ ~Create_Tasks
        BY <2>1, <2>2, InitOSStep, InitObjectsStep, CreateTasksStep
      <4>3. ASSUME NEW p \in Peripherals PROVE ~EnablePeripheral(p) /\ ~InitPeripheral(p)
        BY <1>1, <2>1, <2>2, Positions DEF EnablePeripheral, InitPeripheral, Return
      <4> QED BY <3>1, <4>1, <4>2, <4>3 DEF Main
    <3>2. CASE ~Main
      <4>1. main' = main
        BY <1>1, <3>2 DEF BootNext, OscillatorStarts, PeripheralReady, Run
      <4> QED BY <1>1, <4>1 DEF Launched
    <3> QED BY <3>1, <3>2
  <2>4. main = 12 /\ CurrentTask' = 0
        /\ UNCHANGED <<state, priority, ticks, canary, pendsv, inPendSV, fault, smp, mx>>
    BY <2>1, <2>3, Positions DEF Launch, Start_OS
  <2>5. \A t \in Tasks : Created(t)
    BY <1>1, <2>1, <2>4 DEF Booting
  <2>6. priority = BasePriority
    <3>1. \A t \in Tasks : priority[t] = BasePriority[t]
      BY <2>5 DEF Created
    <3>2. priority \in [Tasks -> 0 .. Int8Max] /\ BasePriority \in [Tasks -> 0 .. Int8Max]
      BY <2>1, PriorityAssumption DEF Booting
    <3> QED BY ONLY <3>1, <3>2
  <2>7. canary = [t \in Tasks |-> TRUE]
    <3>1. \A t \in Tasks : canary[t]
      BY <2>5 DEF Created
    <3>2. canary \in [Tasks -> BOOLEAN]
      BY <2>1 DEF Booting
    <3> QED BY ONLY <3>1, <3>2
  <2>8. CoreInit'
    BY <2>1, <2>4, <2>6, <2>7 DEF Booting, CoreInit
  <2>9. OS_SemaphoreInit' /\ Mutex_Init'
    BY <2>1, <2>4 DEF Booting, OS_SemaphoreInit, Mutex_Init
  <2> QED BY <2>8, <2>9 DEF Init
<1>2. BootInv /\ [BootNext]_bootVars
      => [~Launched /\ Launched' /\ program = Tasks \ {Idle} => Init']_bootVars
  BY <1>1
<1> QED BY <1>2, BootInvariant, PTL DEF BootSpec, BootsIntoKernel

\* For every set of slots that main fills: a slot that is left out keeps its null
\* psp and its missing canary.
THEOREM ForgottenStayBlank == BootSpec => [](BootInv /\ ForgottenBlank)
<1>1. BootInit => ForgottenBlank
  <2>1. BootInit => main = 1
    BY DEF BootInit
  <2>2. main = 1 => ~Launched
    BY Positions
  <2> QED BY <2>1, <2>2 DEF ForgottenBlank
<1>2. BootInv /\ ForgottenBlank /\ [BootNext]_bootVars => ForgottenBlank'
  BY BootForgets
<1> QED BY <1>1, <1>2, BootInvariant, PTL DEF BootSpec

\* The safety half of UnfilledHalts (Kernel/os_core.c, os_asm.s): before the halt
\* the scheduler may switch to a slot that no Create_Task filled, but not one
\* instruction is executed there.
THEOREM ForgottenDoNotRun == BootSpec => []ForgottenNeverRun
<1>1. BootInv /\ ForgottenBlank => ForgottenNeverRun
  <2> SUFFICES ASSUME BootInv, ForgottenBlank, Launched, ~stacked
               PROVE  CurrentTask \notin Forgotten
    BY DEF ForgottenNeverRun
  <2>1. PSP # NullPsp
    BY PSPWhileExecuting DEF BootInv
  <2> QED BY <2>1, ExecutesCreated
<1> QED BY <1>1, ForgottenStayBlank, PTL

\* SysTick_Handler looks at every canary: the system is halted with its first
\* tick, not only when it gets to the slot.
THEOREM MissingCanaryHalts == BootSpec => FirstTickHalts
<1>1. ASSUME ForgottenBlank, LaunchedTick, Forgotten # {}
      PROVE  fault'
  <2>1. Launched /\ SysTick_Handler
    BY <1>1 DEF LaunchedTick, Tick
  <2>2. Overran # {}
    BY <1>1, <2>1 DEF ForgottenBlank, Forgotten, Overran
  <2> QED BY <2>1, <2>2 DEF SysTick_Handler, OS_Fault
<1>2. ForgottenBlank /\ [BootNext]_bootVars => [LaunchedTick /\ Forgotten # {} => fault']_bootVars
  BY <1>1
<1> QED BY <1>2, ForgottenStayBlank, PTL DEF BootSpec, FirstTickHalts

=============================================================================
