SPECIFICATION Spec
CONSTANTS
  MAX_NUM_PROCESSES = 3
  MAX_TTY = 2
INVARIANT SwitchKeepsControl
CHECK_DEADLOCK FALSE
