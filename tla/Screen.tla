------------------------------- MODULE Screen --------------------------------
(***************************************************************************)
(* The text screen (lib.c): putc, bksp, clear and the terminal switch's    *)
(* switch_screen, which keeps a copy of the video memory and of the cursor *)
(* for every terminal. All of them run with interrupts off, from an        *)
(* interrupt handler or between the cli and sti of terminal_write.         *)
(*                                                                         *)
(* A cell is named by its column and row, and stands for the character and *)
(* the attribute byte at it.                                               *)
(***************************************************************************)
EXTENDS Integers

CONSTANTS
  NUM_COLS, NUM_ROWS,
  MAX_TTY,
  Glyphs               \* the characters that are printed, a space too

Blank == " "           \* what clear writes
Zero == "\\0"          \* what static memory holds
TAB == 4

\* screen_loc_buf's entries are chars: a cursor fits for screens up to these.
ASSUME ScreenAssumption ==
  /\ NUM_COLS \in 2..128
  /\ NUM_ROWS \in 1..127
  /\ MAX_TTY \in Nat \ {0}

Ttys == 0..(MAX_TTY - 1)
Cols == 0..(NUM_COLS - 1)
Rows == 0..(NUM_ROWS - 1)
Contents == Glyphs \cup {Blank, Zero}

VARIABLES
  video,               \* the video memory
  screen_x, screen_y,  \* the cursor
  screen_buf,          \* saved video memory, per terminal
  screen_loc_buf,      \* saved cursor, per terminal
  active_tty,
  opened,              \* terminals that have a shell
  stored               \* history: the cell the last character went to

vars == <<video, screen_x, screen_y, screen_buf, screen_loc_buf, active_tty,
          opened, stored>>
cursorVars == <<screen_x, screen_y>>
ttyVars == <<screen_buf, screen_loc_buf, active_tty, opened>>

AllBlank == [c \in Cols \X Rows |-> Blank]

\* After terminal_open's clear and the first shell.
Init ==
  /\ video = AllBlank
  /\ screen_x = 0
  /\ screen_y = 0
  /\ screen_buf = [t \in Ttys |-> [c \in Cols \X Rows |-> Zero]]
  /\ screen_loc_buf = [t \in Ttys |-> [x |-> 0, y |-> 0]]
  /\ active_tty = 0
  /\ opened = {0}
  /\ stored = <<0, 0>>

-----------------------------------------------------------------------------
\* Every row moves up one, and the last is blanked.
Scrolled ==
  [c \in Cols \X Rows |->
     IF c[2] < NUM_ROWS - 1 THEN video[<<c[1], c[2] + 1>>] ELSE Blank]

\* Lines 245-262 of putc, the cursor being at column x of row y: wrap, then
\* scroll if that leaves the screen. The scroll moves up one row only, and
\* takes the column back to 0.
Settle(x, y) ==
  LET wrap == x >= NUM_COLS
      row == IF wrap THEN y + 1 ELSE y
      col == IF wrap THEN 0 ELSE x
  IN  IF row >= NUM_ROWS
      THEN [x |-> 0, y |-> row - 1, video |-> Scrolled]
      ELSE [x |-> col, y |-> row, video |-> video]

\* putc of a newline or carriage return, or of a tab.
Moves(x, y) ==
  LET at == Settle(x, y) IN
  /\ screen_x' = at.x
  /\ screen_y' = at.y
  /\ video' = at.video
  /\ UNCHANGED <<ttyVars, stored>>

PutNewline == Moves(0, screen_y + 1)
PutTab == Moves(screen_x + TAB, screen_y)

\* Mutant: a character that ends a row leaves the cursor beyond it.
PutUnwrapped(c) ==
  LET at == Settle(screen_x, screen_y) IN
  /\ video' = [at.video EXCEPT ![<<at.x, at.y>>] = c]
  /\ stored' = <<at.x, at.y>>
  /\ screen_x' = at.x + 1
  /\ screen_y' = at.y
  /\ UNCHANGED ttyVars

\* putc of any other character but NUL.
PutGlyph(c) ==
  LET at == Settle(screen_x, screen_y)
      full == at.x + 1 = NUM_COLS
  IN  /\ video' = [at.video EXCEPT ![<<at.x, at.y>>] = c]
      /\ stored' = <<at.x, at.y>>
      /\ screen_x' = IF full THEN 0 ELSE at.x + 1
      /\ screen_y' = IF full THEN at.y + 1 ELSE at.y
      /\ UNCHANGED ttyVars

Erase(x, y) ==
  /\ screen_x' = x
  /\ screen_y' = y
  /\ video' = [video EXCEPT ![<<x, y>>] = Blank]
  /\ stored' = <<x, y>>
  /\ UNCHANGED ttyVars

\* Where the search for the end of row y's text stops: at the column after
\* the last character, or at column 1.
EndOfRow(x, y) ==
  /\ x \in 1..(NUM_COLS - 1)
  /\ x = 1 \/ video[<<x - 1, y>>] # Blank
  /\ \A k \in (x + 1)..(NUM_COLS - 1) : video[<<k - 1, y>>] = Blank

\* Mutant: the first row has one before it.
BkspUnchecked ==
  \/ /\ screen_x > 0
     /\ Erase(screen_x - 1, screen_y)
  \/ /\ screen_x = 0
     /\ screen_y = 0
     /\ Erase(NUM_COLS - 1, -1)

bksp ==
  \/ /\ screen_x > 0
     /\ Erase(screen_x - 1, screen_y)
  \/ /\ screen_x = 0
     /\ screen_y = 0
     /\ Erase(0, 0)
  \/ /\ screen_x = 0
     /\ screen_y > 0
     /\ \E x \in Cols : EndOfRow(x, screen_y - 1) /\ Erase(x, screen_y - 1)

clear ==
  /\ video' = AllBlank
  /\ screen_x' = 0
  /\ screen_y' = 0
  /\ UNCHANGED <<ttyVars, stored>>

\* Mutant: the cursor is saved after the clear.
SwitchClearsFirst(t) ==
  /\ screen_buf' = [screen_buf EXCEPT ![active_tty] = video]
  /\ screen_loc_buf' = [screen_loc_buf EXCEPT ![active_tty] = [x |-> 0, y |-> 0]]
  /\ active_tty' = t
  /\ video' = screen_buf'[t]
  /\ screen_x' = screen_loc_buf'[t].x
  /\ screen_y' = screen_loc_buf'[t].y
  /\ opened' = opened \cup {t}
  /\ UNCHANGED stored

\* switch_to_tty: switch_screen, then a clear if there is nothing on the new
\* terminal yet; the shell run there finds a process slot or does not.
SwitchToTty(t) ==
  /\ screen_buf' = [screen_buf EXCEPT ![active_tty] = video]
  /\ screen_loc_buf' =
       [screen_loc_buf EXCEPT ![active_tty] = [x |-> screen_x, y |-> screen_y]]
  /\ active_tty' = t
  /\ \/ /\ t \in opened
        /\ video' = screen_buf'[t]
        /\ screen_x' = screen_loc_buf'[t].x
        /\ screen_y' = screen_loc_buf'[t].y
        /\ UNCHANGED opened
     \/ /\ t \notin opened
        /\ video' = AllBlank
        /\ screen_x' = 0
        /\ screen_y' = 0
        /\ opened' \in {opened, opened \cup {t}}
  /\ UNCHANGED stored

Next ==
  \/ PutNewline
  \/ PutTab
  \/ \E c \in Glyphs : PutGlyph(c)
  \/ bksp
  \/ clear
  \/ \E t \in Ttys : SwitchToTty(t)

Spec == Init /\ [][Next]_vars

-----------------------------------------------------------------------------
(***************************************************************************)
(* Properties                                                              *)
(***************************************************************************)
Cursor(x, y) == x \in Cols /\ y \in 0..NUM_ROWS /\ (y = NUM_ROWS => x = 0)

\* The type of the state.
TypeOK ==
  /\ video \in [Cols \X Rows -> Contents]
  /\ screen_x \in Int /\ screen_y \in Int
  /\ screen_buf \in [Ttys -> [Cols \X Rows -> Contents]]
  /\ screen_loc_buf \in [Ttys -> [x : Int, y : Int]]
  /\ active_tty \in Ttys
  /\ opened \subseteq Ttys

\* The cursor, on the screen or saved, is a cell of the screen, or the start
\* of the row below it, whatever is printed, erased, tabbed and scrolled
\* (lib.c:73-89, 234-274).
CursorInRange ==
  /\ Cursor(screen_x, screen_y)
  /\ \A t \in Ttys : Cursor(screen_loc_buf[t].x, screen_loc_buf[t].y)

\* putc and bksp store inside the screen: never beyond its last row, where
\* the cursor may be, nor before its first (lib.c:86-87, 265-266).
StoresOnScreen == stored \in Cols \X Rows

\* What terminal t shows, or will show when it is switched to.
View(t) == IF t = active_tty
           THEN [video |-> video, x |-> screen_x, y |-> screen_y]
           ELSE [video |-> screen_buf[t], x |-> screen_loc_buf[t].x,
                 y |-> screen_loc_buf[t].y]

\* Output reaches the terminal on the screen only, and switching away from an
\* opened terminal and back brings back its text and its cursor (lib.c:30-39,
\* task_switch.c:10-15).
ScreensKept ==
  [][ \A t \in opened : (t # active_tty \/ active_tty' # active_tty)
        => View(t)' = View(t) ]_vars

=============================================================================
