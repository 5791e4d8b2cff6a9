\* Three columns, so that a tab leaves the row; two rows; two terminals. The
\* blanks come from clears, backspaces and scrolls.
SPECIFICATION Spec
CONSTANTS
  NUM_COLS = 3
  NUM_ROWS = 2
  MAX_TTY = 2
  Glyphs = {"a"}
INVARIANTS
  CursorInRange
  StoresOnScreen
PROPERTY ScreensKept
