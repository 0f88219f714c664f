SPECIFICATION LoopsSpec
CONSTANTS
  NUMBER_OF_TASKS = 4
  Priorities = {0, 1, 127}
  HEAP_SIZE = 41
  SIZEOF_HEADER = 8
  Requests = {0, 1, 12, 24}
INVARIANTS
  WakesWinner HeadersSafe UniformCapacity
PROPERTIES
  LoopSelects WalkIsFirstFit ImplementsAllocator WalkReturns
CHECK_DEADLOCK FALSE
