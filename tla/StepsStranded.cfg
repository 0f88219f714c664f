SPECIFICATION StepsSpec
CONSTANTS
  NUMBER_OF_TASKS = 3
  BasePriority <- Pair
  SleepTicks = {1}
  Overrunning = {}
  Semaphores = {s1}
  Mutexes = {m1}
INVARIANTS
  NoTaskStranded
CHECK_DEADLOCK FALSE
