SPECIFICATION BootSpec
CONSTANTS
  NUMBER_OF_TASKS = 4
  BasePriority <- ThreeTasks
  SleepTicks = {1}
  Overrunning = {}
  Semaphores = {smpObject}
  Mutexes = {Mx}
  OddSlots = {1, 3}
  MaxDepth = 1
  Programs <- TwoPrograms
  PSYSDIVs = {2, 3}
  LockTimeout = 2
INVARIANTS
  TickIsMillisecond
PROPERTIES
  ContextKept BootsIntoKernel BootCompletes UnfilledHalts
CHECK_DEADLOCK FALSE
