SPECIFICATION NestingSpec
CONSTANTS
  NUMBER_OF_TASKS = 4
  BasePriority <- Ladder
  SleepTicks = {1}
  Overrunning = {}
  Semaphores = {}
  Mutexes = {m1, m2}
INVARIANTS
  PriorityRestored
