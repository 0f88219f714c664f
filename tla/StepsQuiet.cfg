SPECIFICATION QuietSpec
CONSTANTS
  NUMBER_OF_TASKS = 4
  BasePriority <- Tie
  SleepTicks = {1}
  Overrunning = {}
  Semaphores = {s1}
  Mutexes = {m1}
INVARIANTS
  HoldersOwn CountersBinary NoTaskStranded
PROPERTIES
  CallsAreActions
CHECK_DEADLOCK FALSE
