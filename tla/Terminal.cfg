\* One terminal with a key in a window of terminal_read and a character beyond
\* the row, with two characters or with one and a read of length -1; and two
\* terminals with none of them.
SPECIFICATION MCSpec
CONSTANTS
  MAX_BUFFER_SIZE = 2
  MAX_TTY = 2
  Chars = {"a", "b"}
  Lengths <- SomeLengths
  MaxRaces = 1
  MaxOverflows = 1
  MaxGrown = 1
  Setups <- BusyAndQuiet
INVARIANTS TypeOK CopyFits
PROPERTIES ImplementsTtyInput WakesOnce TailRecovers ReadReturns
