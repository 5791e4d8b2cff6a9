SPECIFICATION FairSpec
CONSTANTS
  MAX_NUM_PROCESSES = 3
  MAX_TTY = 2
PROPERTY TickMovesOn
CHECK_DEADLOCK FALSE
