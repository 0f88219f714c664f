------------------------------- MODULE Clock --------------------------------
(***************************************************************************)
(* PLL_Init (Drivers/PLL.c): from the internal oscillator to the crystal   *)
(* and from there to the PLL.  It waits for the crystal without a limit    *)
(* and for the PLL with one; when that runs out, or the divisor asks for   *)
(* more than 120 MHz, it returns with the CPU on the crystal.  The flash   *)
(* timing it writes for each divisor is left out: nothing in the           *)
(* repository says what the flash needs.                                   *)
(***************************************************************************)
EXTENDS Integers

CONSTANTS
  PSYSDIVs,   \* the divisors it may be compiled with
  LockTimeout \* how often it looks for the lock: 0xFFFF

ASSUME ClockAssumption == PSYSDIVs \subseteq Nat /\ LockTimeout \in Nat \ {0}

VARIABLES
  step,         \* where PLL_Init is
  crystalReady, \* RIS.MOSCPUPRIS
  locked,       \* PLLSTAT.LOCK
  source,       \* what clocks the CPU
  psysdiv,      \* PSYSDIV
  timeout,
  lockedAt      \* history: the value of timeout when the PLL locked

clockVars == <<step, crystalReady, locked, source, psysdiv, timeout, lockedAt>>

\* Frequencies are in Hz.
FXTAL == 25000000
MaxClock == 120000000

\* Q = 0, N = 4, MINT = 96, MFRAC = 0.
SYSCLK == ((FXTAL \div 5) * 96) \div (psysdiv + 1)

SysClk == CASE source = "PIOSC" -> 16000000
            [] source = "MOSC"  -> FXTAL
            [] source = "PLL"   -> SYSCLK

ClockInit ==
  /\ step = "reset"
  /\ crystalReady = FALSE /\ locked = FALSE
  /\ source = "PIOSC"
  /\ psysdiv \in PSYSDIVs
  /\ timeout = 0 /\ lockedAt = LockTimeout

PowerCrystal ==
  /\ step = "reset" /\ step' = "await crystal"
  /\ UNCHANGED <<crystalReady, locked, source, psysdiv, timeout, lockedAt>>

CrystalStarts ==
  /\ step = "await crystal" /\ ~crystalReady /\ crystalReady' = TRUE
  /\ UNCHANGED <<step, locked, source, psysdiv, timeout, lockedAt>>

UseCrystal ==
  /\ step = "await crystal" /\ crystalReady
  /\ source' = "MOSC"
  /\ step' = "check divisor"
  /\ UNCHANGED <<crystalReady, locked, psysdiv, timeout, lockedAt>>

\* The PLL is powered, the flash timing written, and the wait begins.
AcceptDivisor ==
  /\ step = "check divisor" /\ SYSCLK <= MaxClock
  /\ step' = "await lock"
  /\ UNCHANGED <<crystalReady, locked, source, psysdiv, timeout, lockedAt>>

RejectDivisor ==
  /\ step = "check divisor" /\ SYSCLK > MaxClock
  /\ step' = "return"
  /\ UNCHANGED <<crystalReady, locked, source, psysdiv, timeout, lockedAt>>

PLLLocks ==
  /\ step = "await lock" /\ ~locked /\ locked' = TRUE
  /\ lockedAt' = timeout
  /\ UNCHANGED <<step, crystalReady, source, psysdiv, timeout>>

Poll ==
  /\ step = "await lock" /\ ~locked /\ timeout < LockTimeout
  /\ timeout' = timeout + 1
  /\ UNCHANGED <<step, crystalReady, locked, source, psysdiv, lockedAt>>

\* Mutants: one look too early; and only if the PLL has locked.
GiveUpEarly ==
  /\ step = "await lock" /\ timeout >= LockTimeout - 1
  /\ step' = "return"
  /\ UNCHANGED <<crystalReady, locked, source, psysdiv, timeout, lockedAt>>
GiveUpIfLocked ==
  /\ step = "await lock" /\ timeout = LockTimeout /\ locked
  /\ step' = "return"
  /\ UNCHANGED <<crystalReady, locked, source, psysdiv, timeout, lockedAt>>

\* Also when the lock comes with the very last count.
GiveUp ==
  /\ step = "await lock" /\ timeout = LockTimeout
  /\ step' = "return"
  /\ UNCHANGED <<crystalReady, locked, source, psysdiv, timeout, lockedAt>>

UsePLL ==
  /\ step = "await lock" /\ locked /\ timeout < LockTimeout
  /\ source' = "PLL"
  /\ step' = "return"
  /\ UNCHANGED <<crystalReady, locked, psysdiv, timeout, lockedAt>>

PLL_Init ==
  \/ PowerCrystal \/ UseCrystal \/ AcceptDivisor \/ RejectDivisor
  \/ Poll \/ GiveUp \/ UsePLL

-----------------------------------------------------------------------------
\* The inductive invariant (BootProofs.tla): the CPU is clocked by the PLL only
\* after a wait that found it locked, the count stands still once that is so,
\* and PLL_Init leaves the crystal in charge only for one of its two reasons.
ClockInv ==
  /\ psysdiv \in PSYSDIVs
  /\ timeout \in 0 .. LockTimeout /\ lockedAt \in 0 .. LockTimeout
  /\ source \in {"PIOSC", "MOSC", "PLL"}
  /\ source = "PLL" => locked /\ step = "return"
  /\ IF locked THEN lockedAt = timeout /\ step \in {"await lock", "return"}
               ELSE lockedAt = LockTimeout
  /\ step = "return" => source = "PLL" \/ lockedAt = LockTimeout \/ SYSCLK > MaxClock
=============================================================================
