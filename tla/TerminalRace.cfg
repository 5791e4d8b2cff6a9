\* One key in a window of terminal_read.
SPECIFICATION MCSpec
CONSTANTS
  MAX_BUFFER_SIZE = 3
  MAX_TTY = 1
  Chars = {"a", "b"}
  Lengths = {1, 2, 4}
  MaxRaces = 1
  MaxOverflows = 0
  MaxGrown = 0
  Setups <- Racing
PROPERTIES TakesOnlyWhatItReturns
