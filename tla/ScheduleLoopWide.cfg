SPECIFICATION Spec
CONSTANTS
  NUMBER_OF_TASKS = 3
  Priorities = {0, 1, 200}
PROPERTY SwitchesToHighest
CHECK_DEADLOCK FALSE
