\* A screen of 3 cells, pictures of up to 3 characters in rows that overlap,
\* files of up to 6 characters through a buffer of 3, copies within 17 bytes,
\* words of 2 hexadecimal digits.
SPECIFICATION MCSpec
CONSTANTS
  CELLS = 3
  WORD = 8
  Requests <- FishBlinkers
  COLS = 1
  OFFSET = 1
  EXTRA = 2
  WAIT = 2
  LENGTH = 1
  EXTRA_ON = 2
  EXTRA_OFF = 1
  BUFSIZE = 3
  PictureLength = 3
  FileLength = 6
  Memory = 7
  WIDTH = 2
INVARIANTS
  ListSound
  ShowsStatus
  FramesLaid
  PrintsMatches
  NumbersReadBack
  CopiesExactly
PROPERTY ProgramsEnd
CHECK_DEADLOCK FALSE
