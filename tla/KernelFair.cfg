SPECIFICATION FairSpec
CONSTANTS
  NUMBER_OF_TASKS = 4
  BasePriority <- Tie
  SleepTicks = {1, 2}
  Overrunning = {0, 1}
  Semaphores = {s1}
  Mutexes = {m1}
PROPERTIES
  SleepersWake OverrunHalts TopTasksTakeTurns
CHECK_DEADLOCK FALSE
