SPECIFICATION AppSpec
CONSTANTS
  NUMBER_OF_TASKS = 5
  BasePriority <- MainPriorities
  SleepTicks = {1, 2, 4, 5, 8}
  Overrunning = {}
  Mx = Mx
  smpObject = smpObject
  Semaphores = {smpObject}
  Mutexes = {Mx}
  HEAP_SIZE = 1024
  SIZEOF_HEADER = 8
  Requests = {4, 8, 20, 50}
  Printers = {1}
  Numbers = {479, 480}
  FIFO_DEPTH = 2
  Applications <- AllApplications
INVARIANTS NeverFaults NoInversion LinesWhole
PROPERTIES WaiterGetsLock WaiterGetsSignal
