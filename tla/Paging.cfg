\* Three slots and two terminals: a chain of three on one, or chains on both,
\* and terminal switches that meet a full process table.
SPECIFICATION PagedSpec
CONSTANTS
  MAX_NUM_PROCESSES = 3
  MAX_TTY = 2
INVARIANTS
  FirstShellStays
  OneProcessLoaded
  Sessions
  NoSlotLeaked
  UserReach
  VidmapStays
PROPERTIES
  HaltReturnsToParent
  ImplementsTtySessions
CHECK_DEADLOCK FALSE
