SPECIFICATION OrderlySpec
CONSTANTS
  NUMBER_OF_TASKS = 5
  BasePriority <- MainPriorities
  SleepTicks = {1}
  Overrunning = {0}
  Semaphores = {s1}
  Mutexes = {m1, m2}
INVARIANTS
  OwnerInherits PriorityRestored HighestRuns OwnersNeverWait
CHECK_DEADLOCK FALSE
