---------------------------- MODULE ScreenProofs -----------------------------
(***************************************************************************)
(* For screens of every size and any number of terminals: the cursor stays *)
(* in range, characters are stored on the screen, and no terminal's screen *)
(* is lost by output to another or by a switch.                            *)
(***************************************************************************)
EXTENDS Screen, TLAPS

\* The inductive invariant. TypeOK alone is inductive only with the cursor's
\* range: a store needs its cell, and a cell is inside because of that range.
Inv == TypeOK /\ CursorInRange /\ StoresOnScreen

Screens == [Cols \X Rows -> Contents]

\* Scrolling makes a screen of a screen.
LEMMA ScrolledType ==
  ASSUME video \in Screens
  PROVE  Scrolled \in Screens
<1> SUFFICES ASSUME NEW c \in Cols \X Rows
             PROVE  (IF c[2] < NUM_ROWS - 1 THEN video[<<c[1], c[2] + 1>>] ELSE Blank)
                      \in Contents
  BY DEF Scrolled, Screens
<1>1. c[1] \in Cols /\ c[2] \in Rows
  OBVIOUS
<1>2. CASE c[2] < NUM_ROWS - 1
  <2>1. c[2] + 1 \in Rows
    BY <1>1, <1>2, ScreenAssumption DEF Rows
  <2>2. <<c[1], c[2] + 1>> \in Cols \X Rows
    BY <1>1, <2>1
  <2> QED  BY <1>2, <2>2 DEF Screens
<1>3. CASE ~(c[2] < NUM_ROWS - 1)
  BY <1>3 DEF Contents
<1> QED  BY <1>2, <1>3

\* putc's wrap and scroll bring any place at most one row below the screen,
\* or one column's move beyond a row, back to a place the cursor may be at.
LEMMA SettleCursor ==
  ASSUME video \in Screens, NEW x \in Nat, NEW y \in 0..(NUM_ROWS + 1),
         y = NUM_ROWS + 1 => x = 0
  PROVE  /\ Cursor(Settle(x, y).x, Settle(x, y).y)
         /\ Settle(x, y).video \in Screens
<1>1. Scrolled \in Screens
  BY ScrolledType
<1>2. Cursor(Settle(x, y).x, Settle(x, y).y)
  BY ScreenAssumption DEF Settle, Cursor, Cols
<1>3. Settle(x, y).video \in Screens
  BY <1>1, ScreenAssumption DEF Settle
<1> QED  BY <1>2, <1>3

\* From where the cursor is, they bring it to a cell of the screen.
LEMMA SettleCell ==
  ASSUME NEW x, NEW y, Cursor(x, y)
  PROVE  Settle(x, y).x \in Cols /\ Settle(x, y).y \in Rows
BY ScreenAssumption DEF Settle, Cursor, Cols, Rows

\* A screen with one cell changed is a screen.
LEMMA StoreType ==
  ASSUME NEW s \in Screens, NEW c \in Contents, NEW cell
  PROVE  [s EXCEPT ![cell] = c] \in Screens
BY DEF Screens

LEMMA InitInv == Init => Inv
<1> SUFFICES ASSUME Init PROVE Inv
  OBVIOUS
<1>1. 0 \in Cols /\ 0 \in Rows /\ 0 \in Ttys
  BY ScreenAssumption DEF Cols, Rows, Ttys
<1>2. TypeOK
  BY <1>1 DEF Init, TypeOK, AllBlank, Contents
<1>3. CursorInRange
  BY <1>1, ScreenAssumption DEF Init, CursorInRange, Cursor, Cols, Rows
<1>4. StoresOnScreen
  BY <1>1 DEF Init, StoresOnScreen
<1> QED  BY <1>2, <1>3, <1>4 DEF Inv

\* A step that leaves the terminals alone need only keep the screen in use.
LEMMA OnScreen ==
  ASSUME Inv, UNCHANGED ttyVars, video' \in Screens, Cursor(screen_x', screen_y'),
         stored' \in Cols \X Rows
  PROVE  Inv'
<1>1. screen_x' \in Int /\ screen_y' \in Int
  BY ScreenAssumption DEF Cursor, Cols
<1>2. TypeOK'
  BY <1>1 DEF Inv, TypeOK, ttyVars, Screens
<1>3. CursorInRange'
  BY DEF Inv, CursorInRange, ttyVars
<1>4. StoresOnScreen'
  BY DEF StoresOnScreen
<1> QED  BY <1>2, <1>3, <1>4 DEF Inv

LEMMA MovesInv ==
  ASSUME Inv, NEW x \in Nat, NEW y \in 0..(NUM_ROWS + 1),
         y = NUM_ROWS + 1 => x = 0, Moves(x, y)
  PROVE  Inv'
<1>1. video \in Screens
  BY DEF Inv, TypeOK, Screens
<1>2. /\ Cursor(Settle(x, y).x, Settle(x, y).y)
      /\ Settle(x, y).video \in Screens
  BY <1>1, SettleCursor
<1>3. Cursor(screen_x', screen_y') /\ video' \in Screens
  BY <1>2 DEF Moves
<1>4. UNCHANGED ttyVars /\ stored' \in Cols \X Rows
  BY DEF Moves, Inv, StoresOnScreen
<1> QED  BY <1>3, <1>4, OnScreen

LEMMA PutGlyphInv ==
  ASSUME Inv, NEW c \in Glyphs, PutGlyph(c)
  PROVE  Inv'
<1> DEFINE at == Settle(screen_x, screen_y)
<1>1. video \in Screens /\ Cursor(screen_x, screen_y)
  BY DEF Inv, TypeOK, Screens, CursorInRange
<1>2. at.x \in Cols /\ at.y \in Rows
  BY <1>1, SettleCell
<1>3. at.video \in Screens
  <2>1. screen_x \in Nat /\ screen_y \in 0..(NUM_ROWS + 1) /\ screen_y # NUM_ROWS + 1
    BY <1>1, ScreenAssumption DEF Cursor, Cols
  <2> QED  BY <1>1, <2>1, SettleCursor
<1>4. video' \in Screens
  <2>1. video' = [at.video EXCEPT ![<<at.x, at.y>>] = c] /\ c \in Contents
    BY DEF PutGlyph, Contents
  <2> HIDE DEF at
  <2> QED  BY <1>3, <2>1, StoreType
<1>5. Cursor(screen_x', screen_y')
  <2>1. /\ screen_x' = IF at.x + 1 = NUM_COLS THEN 0 ELSE at.x + 1
        /\ screen_y' = IF at.x + 1 = NUM_COLS THEN at.y + 1 ELSE at.y
    BY DEF PutGlyph
  <2> HIDE DEF at
  <2> QED  BY <1>2, <2>1, ScreenAssumption DEF Cursor, Cols, Rows
<1>6. UNCHANGED ttyVars /\ stored' \in Cols \X Rows
  BY <1>2 DEF PutGlyph
<1> QED  BY <1>4, <1>5, <1>6, OnScreen

LEMMA EraseInv ==
  ASSUME Inv, NEW x \in Cols, NEW y \in Rows, Erase(x, y)
  PROVE  Inv'
<1>1. video \in Screens /\ Blank \in Contents
  BY DEF Inv, TypeOK, Screens, Contents
<1>2. video' \in Screens
  BY <1>1, StoreType DEF Erase
<1>3. Cursor(screen_x', screen_y')
  BY ScreenAssumption DEF Erase, Cursor, Rows
<1>4. UNCHANGED ttyVars /\ stored' \in Cols \X Rows
  BY DEF Erase
<1> QED  BY <1>2, <1>3, <1>4, OnScreen

LEMMA BkspInv ==
  ASSUME Inv, bksp
  PROVE  Inv'
<1>1. Cursor(screen_x, screen_y)
  BY DEF Inv, CursorInRange
<1>2. CASE screen_x > 0 /\ Erase(screen_x - 1, screen_y)
  <2>1. screen_x - 1 \in Cols /\ screen_y \in Rows
    BY <1>1, <1>2, ScreenAssumption DEF Cursor, Cols, Rows
  <2> QED  BY <1>2, <2>1, EraseInv
<1>3. CASE Erase(0, 0)
  <2>1. 0 \in Cols /\ 0 \in Rows
    BY ScreenAssumption DEF Cols, Rows
  <2> QED  BY <1>3, <2>1, EraseInv
<1>4. CASE screen_y > 0 /\ \E x \in Cols : EndOfRow(x, screen_y - 1) /\ Erase(x, screen_y - 1)
  <2>1. PICK x \in Cols : Erase(x, screen_y - 1)
    BY <1>4
  <2>2. screen_y - 1 \in Rows
    BY <1>1, <1>4, ScreenAssumption DEF Cursor, Rows
  <2> QED  BY <2>1, <2>2, EraseInv
<1> QED  BY <1>2, <1>3, <1>4 DEF bksp

LEMMA ClearInv ==
  ASSUME Inv, clear
  PROVE  Inv'
<1>1. AllBlank \in Screens
  BY DEF AllBlank, Screens, Contents
<1>2. Cursor(0, 0)
  BY ScreenAssumption DEF Cursor, Cols
<1>3. stored' \in Cols \X Rows
  BY DEF clear, Inv, StoresOnScreen
<1> QED  BY <1>1, <1>2, <1>3, OnScreen DEF clear

LEMMA SwitchInv ==
  ASSUME Inv, NEW t \in Ttys, SwitchToTty(t)
  PROVE  Inv'
<1> DEFINE Locs == [x : Int, y : Int]
<1>1. active_tty \in Ttys /\ video \in Screens /\ screen_buf \in [Ttys -> Screens]
  BY DEF Inv, TypeOK, Screens
<1>2. /\ screen_loc_buf \in [Ttys -> Locs]
      /\ Cursor(screen_x, screen_y)
      /\ \A u \in Ttys : Cursor(screen_loc_buf[u].x, screen_loc_buf[u].y)
      /\ [x |-> screen_x, y |-> screen_y] \in Locs
  BY DEF Inv, TypeOK, CursorInRange
<1>3. screen_buf' \in [Ttys -> Screens]
  BY <1>1 DEF SwitchToTty
<1>4. screen_loc_buf' =
        [screen_loc_buf EXCEPT ![active_tty] = [x |-> screen_x, y |-> screen_y]]
  BY DEF SwitchToTty
<1>5. screen_loc_buf' \in [Ttys -> Locs]
  BY <1>2, <1>4
<1>6. \A u \in Ttys : Cursor(screen_loc_buf'[u].x, screen_loc_buf'[u].y)
  <2> SUFFICES ASSUME NEW u \in Ttys
               PROVE  Cursor(screen_loc_buf'[u].x, screen_loc_buf'[u].y)
    OBVIOUS
  <2>1. CASE u = active_tty
    <3>1. screen_loc_buf'[u] = [x |-> screen_x, y |-> screen_y]
      BY <1>2, <1>4, <2>1
    <3> QED  BY <1>2, <3>1
  <2>2. CASE u # active_tty
    <3>1. screen_loc_buf'[u] = screen_loc_buf[u]
      BY <1>2, <1>4, <2>2
    <3> QED  BY <1>2, <3>1
  <2> QED  BY <2>1, <2>2
<1>7. AllBlank \in Screens /\ Cursor(0, 0)
  BY ScreenAssumption DEF AllBlank, Screens, Contents, Cursor, Cols
<1>8. video' \in Screens /\ Cursor(screen_x', screen_y') /\ opened' \subseteq Ttys
  <2>1. CASE t \in opened
    BY <1>3, <1>6, <2>1 DEF SwitchToTty, Inv, TypeOK
  <2>2. CASE t \notin opened
    BY <1>7, <2>2 DEF SwitchToTty, Inv, TypeOK
  <2> QED  BY <2>1, <2>2
<1>9. screen_x' \in Int /\ screen_y' \in Int
  BY <1>8, ScreenAssumption DEF Cursor, Cols
<1>10. active_tty' \in Ttys /\ stored' = stored
  BY DEF SwitchToTty
<1>11. TypeOK'
  BY <1>3, <1>5, <1>8, <1>9, <1>10 DEF TypeOK, Screens
<1>12. CursorInRange'
  BY <1>6, <1>8 DEF CursorInRange
<1> QED  BY <1>10, <1>11, <1>12 DEF Inv, StoresOnScreen

LEMMA NextInv == Inv /\ [Next]_vars => Inv'
<1> SUFFICES ASSUME Inv, [Next]_vars PROVE Inv'
  OBVIOUS
<1>1. Cursor(screen_x, screen_y)
  BY DEF Inv, CursorInRange
<1>2. CASE PutNewline
  <2>1. 0 \in Nat /\ screen_y + 1 \in 0..(NUM_ROWS + 1)
    BY <1>1, ScreenAssumption DEF Cursor
  <2> QED  BY <1>2, <2>1, MovesInv DEF PutNewline
<1>3. CASE PutTab
  <2>1. /\ screen_x + TAB \in Nat
        /\ screen_y \in 0..(NUM_ROWS + 1)
        /\ screen_y # NUM_ROWS + 1
    BY <1>1, ScreenAssumption DEF Cursor, Cols, TAB
  <2> QED  BY <1>3, <2>1, MovesInv DEF PutTab
<1>4. ASSUME NEW c \in Glyphs, PutGlyph(c) PROVE Inv'
  BY <1>4, PutGlyphInv
<1>5. CASE bksp
  BY <1>5, BkspInv
<1>6. CASE clear
  BY <1>6, ClearInv
<1>7. ASSUME NEW t \in Ttys, SwitchToTty(t) PROVE Inv'
  BY <1>7, SwitchInv
<1>8. CASE UNCHANGED vars
  BY <1>8 DEF vars, Inv, TypeOK, CursorInRange, StoresOnScreen
<1> QED  BY <1>2, <1>3, <1>4, <1>5, <1>6, <1>7, <1>8 DEF Next

\* The state keeps its type, the cursor its range, and every store its cell.
THEOREM Invariance == Spec => []Inv
BY InitInv, NextInv, PTL DEF Spec

\* The cursor of every terminal is in range for every size of screen.
THEOREM CursorStaysInRange == Spec => []CursorInRange
<1>1. Inv => CursorInRange
  BY DEF Inv
<1> QED  BY <1>1, Invariance, PTL

\* No character is stored outside the screen, for every size of screen.
THEOREM StoresStayOnScreen == Spec => []StoresOnScreen
<1>1. Inv => StoresOnScreen
  BY DEF Inv
<1> QED  BY <1>1, Invariance, PTL

-----------------------------------------------------------------------------
Kept == \A t \in opened : (t # active_tty \/ active_tty' # active_tty)
          => View(t)' = View(t)

\* Saving and loading in switch_screen change no opened terminal's view.
LEMMA SwitchKeeps ==
  ASSUME Inv, NEW u \in Ttys, SwitchToTty(u), NEW t \in opened
  PROVE  View(t)' = View(t)
<1>1. /\ active_tty \in Ttys /\ t \in Ttys /\ active_tty' = u
      /\ screen_buf \in [Ttys -> Screens]
      /\ screen_loc_buf \in [Ttys -> [x : Int, y : Int]]
  BY DEF Inv, TypeOK, SwitchToTty, Screens
<1>2. /\ screen_buf' = [screen_buf EXCEPT ![active_tty] = video]
      /\ screen_loc_buf' =
           [screen_loc_buf EXCEPT ![active_tty] = [x |-> screen_x, y |-> screen_y]]
  BY DEF SwitchToTty
<1>3. /\ View(t).video = screen_buf'[t]
      /\ View(t).x = screen_loc_buf'[t].x
      /\ View(t).y = screen_loc_buf'[t].y
  BY <1>1, <1>2 DEF View
<1>4. /\ View(t)'.video = screen_buf'[t]
      /\ View(t)'.x = screen_loc_buf'[t].x
      /\ View(t)'.y = screen_loc_buf'[t].y
  <2>1. CASE t = u
    BY <1>1, <2>1 DEF View, SwitchToTty
  <2>2. CASE t # u
    BY <1>1, <2>2 DEF View
  <2> QED  BY <2>1, <2>2
<1>5. /\ View(t) = [video |-> View(t).video, x |-> View(t).x, y |-> View(t).y]
      /\ View(t)' = [video |-> View(t)'.video, x |-> View(t)'.x, y |-> View(t)'.y]
  BY DEF View
<1> QED  BY <1>3, <1>4, <1>5

LEMMA KeptStep == Inv /\ [Next]_vars => [Kept]_vars
<1> SUFFICES ASSUME Inv, [Next]_vars PROVE Kept \/ UNCHANGED vars
  OBVIOUS
<1>1. ASSUME NEW u \in Ttys, SwitchToTty(u) PROVE Kept
  BY <1>1, SwitchKeeps DEF Kept
<1>2. CASE UNCHANGED ttyVars
  BY <1>2 DEF Kept, View, ttyVars
<1>3. PutNewline \/ PutTab \/ clear => UNCHANGED ttyVars
  BY DEF PutNewline, PutTab, Moves, clear
<1>4. \A c \in Glyphs : PutGlyph(c) => UNCHANGED ttyVars
  BY DEF PutGlyph
<1>5. bksp => UNCHANGED ttyVars
  BY DEF bksp, Erase
<1> QED  BY <1>1, <1>2, <1>3, <1>4, <1>5 DEF Next

\* No terminal's screen is lost, for every size of screen and every number of
\* terminals.
THEOREM ScreensAreKept == Spec => ScreensKept
<1>1. Inv /\ [Next]_vars => [Kept]_vars
  BY KeptStep
<1>2. Spec => [][Kept]_vars
  BY <1>1, Invariance, PTL DEF Spec
<1> QED  BY <1>2 DEF ScreensKept, Kept

=============================================================================
