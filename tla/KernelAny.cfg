SPECIFICATION Spec
CONSTANTS
  NUMBER_OF_TASKS = 4
  BasePriority <- Tie
  SleepTicks = {1, 2}
  Overrunning = {}
  Semaphores = {s1}
  Mutexes = {m1, m2}
INVARIANTS
  TypeOK OneRunning BlockedLeavesCPU NoLostTask WaitersBlocked WaitsOnce NoWaiterOnFree
  PrioritiesLent
PROPERTIES
  WokenForAReason ImplementsLock ImplementsSemaphore
CHECK_DEADLOCK FALSE
