-------------------------------- MODULE Fish --------------------------------
(***************************************************************************)
(* The fish program (fish.c): add_frames reads two pictures a character at *)
(* a time, row by row in lockstep, and adds a blinker for each cell that   *)
(* is not blank in both; main then runs WAIT ticks four times, with one    *)
(* more blinker added, synchronised and removed in between.                *)
(***************************************************************************)
EXTENDS Blink, Lines

CONSTANTS
  COLS,        \* 80: the width of a row
  OFFSET,      \* 40: the column of the pictures
  EXTRA,       \* 6*80+60: the cell of the blinker that main adds
  WAIT,        \* 100: the ticks between two steps of main
  LENGTH,      \* 15: both lengths of a picture's blinkers
  EXTRA_ON, EXTRA_OFF  \* 7 and 6: the lengths of the one that main adds

ASSUME FishAssumption ==
  /\ COLS \in Nat \ {0} /\ OFFSET \in Nat \ {0} /\ WAIT \in Nat \ {0} /\ CELLS <= WORD
  /\ EXTRA \in 1..(CELLS - 1) /\ {LENGTH, EXTRA_ON, EXTRA_OFF} \subseteq 0..(WORD - 1)

VARIABLES
  frames,  \* the two files: their text, and whether they exist
  pos,     \* their descriptors: the position, and whether they are open
  opened,
  c, eof,  \* c0 and c1, eof0 and eof1
  row, col,
  stage,   \* where main is
  i        \* the ticks of a wait

frameVars == <<frames, pos, opened, c, eof, row, col>>
fishVars == <<blinkVars, frameVars, stage, i>>

F == {0, 1}

FishInit(files) ==
  /\ BlinkInit
  /\ frames = files
  /\ pos = [f \in F |-> 0] /\ opened = [f \in F |-> TRUE]
  /\ c = [f \in F |-> 48] /\ eof = [f \in F |-> FALSE]
  /\ row = 0 /\ col = 0 /\ i = 0
  /\ stage = "open"

\* A picture that cannot be opened ends the program; vidmap before it takes an
\* address of the program's own page, which it never refuses.
OpenFrames ==
  /\ stage = "open"
  /\ stage' = IF \A f \in F : frames[f].exists THEN "frames" ELSE "halted"
  /\ UNCHANGED <<blinkVars, frameVars, i>>

\* The read of one character: a closed descriptor refuses it and leaves the
\* character as it was, the end of the file counts as the end of the line.
Reads(f) == c[f] # NL /\ opened[f]
AtEnd(f) == Reads(f) /\ pos[f] = Len(frames[f].text)
NextChar(f) ==
  IF ~Reads(f) THEN c[f] ELSE IF AtEnd(f) THEN NL ELSE frames[f].text[pos[f] + 1]

Blank(ch) == ch \in {SPACE, NL}
Drawn(ch) == IF ch = NL THEN SPACE ELSE ch

ReadBoth ==
  /\ pos' = [f \in F |-> IF Reads(f) /\ ~AtEnd(f) THEN pos[f] + 1 ELSE pos[f]]
  /\ eof' = [f \in F |-> eof[f] \/ AtEnd(f)]

\* Mutant: only the first picture decides whether the cell is blank.
CellOfFirst ==
  /\ stage = "frames"
  /\ \E f \in F : NextChar(f) # NL
  /\ ReadBoth
  /\ c' = [f \in F |-> NextChar(f)]
  /\ \/ /\ ~Blank(NextChar(0))
        /\ mp1_ioctl_add([location |-> (row * COLS + col + OFFSET) % WORD,
                          on_char |-> Drawn(NextChar(0)), off_char |-> Drawn(NextChar(1)),
                          on_length |-> LENGTH, off_length |-> LENGTH])
     \/ Blank(NextChar(0)) /\ UNCHANGED blinkVars
  /\ col' = col + 1
  /\ UNCHANGED <<frames, opened, row, stage, i>>

\* A bound on col that the code does not reach: no row is longer than its text.
MaxCol == Len(frames[0].text) + Len(frames[1].text)

Cell ==
  /\ stage = "frames" /\ col <= MaxCol
  /\ \E f \in F : NextChar(f) # NL
  /\ ReadBoth
  /\ c' = [f \in F |-> NextChar(f)]
  /\ \/ /\ \E f \in F : ~Blank(NextChar(f))
        /\ mp1_ioctl_add([location |-> (row * COLS + col + OFFSET) % WORD,
                          on_char |-> Drawn(NextChar(0)), off_char |-> Drawn(NextChar(1)),
                          on_length |-> LENGTH, off_length |-> LENGTH])
     \/ (\A f \in F : Blank(NextChar(f))) /\ UNCHANGED blinkVars
  /\ col' = col + 1
  /\ UNCHANGED <<frames, opened, row, stage, i>>

\* Mutant: a picture that has ended is read again.
EndRowRestarts ==
  /\ stage = "frames"
  /\ \A f \in F : NextChar(f) = NL
  /\ ReadBoth
  /\ c' = [f \in F |-> 48]
  /\ opened' = [f \in F |-> ~eof'[f]]
  /\ row' = row + 1 /\ col' = 0
  /\ stage' = IF \A f \in F : eof'[f] THEN "wait" ELSE "frames"
  /\ UNCHANGED <<blinkVars, frames, i>>

\* Both rows have ended: the pictures that have ended are closed, again in
\* every row, and stay at the end of a line.
EndRow ==
  /\ stage = "frames"
  /\ \A f \in F : NextChar(f) = NL
  /\ ReadBoth
  /\ c' = [f \in F |-> IF eof'[f] THEN NL ELSE 48]
  /\ opened' = [f \in F |-> ~eof'[f]]
  /\ row' = row + 1 /\ col' = 0
  /\ stage' = IF \A f \in F : eof'[f] THEN "wait" ELSE "frames"
  /\ UNCHANGED <<blinkVars, frames, i>>

-----------------------------------------------------------------------------
\* Four times: WAIT reads of the RTC, each followed by the tasklet.
Tick ==
  /\ stage \in {"wait", "added", "synced", "removed"} /\ i < WAIT
  /\ mp1_rtc_tasklet
  /\ i' = i + 1
  /\ UNCHANGED <<frameVars, stage>>

AfterWait(from, to) == stage = from /\ i = WAIT /\ stage' = to /\ i' = 0 /\ UNCHANGED frameVars

\* What main does between the waits.
AddExtra ==
  /\ AfterWait("wait", "added")
  /\ mp1_ioctl_add([location |-> EXTRA, on_char |-> 73, off_char |-> 77,
                    on_length |-> EXTRA_ON, off_length |-> EXTRA_OFF])
SyncExtra == AfterWait("added", "synced") /\ mp1_ioctl_sync(OFFSET, EXTRA)
RemoveExtra == AfterWait("synced", "removed") /\ mp1_ioctl_remove(EXTRA)
CloseRtc == AfterWait("removed", "done") /\ UNCHANGED blinkVars

FishNext ==
  \/ OpenFrames \/ Cell \/ EndRow \/ Tick
  \/ AddExtra \/ SyncExtra \/ RemoveExtra \/ CloseRtc

Files == [F -> [exists : BOOLEAN, text : Seq(Bytes)]]
FishSpec == (\E files \in Files : FishInit(files)) /\ [][FishNext]_fishVars

-----------------------------------------------------------------------------
\* What the picture t shows in a cell of its own.
Picture(t, r, k) ==
  IF r < Len(Lines(t)) /\ k < Len(Lines(t)[r + 1]) THEN Lines(t)[r + 1][k + 1] ELSE SPACE

\* The blinkers of two pictures: a cell for each place where one of them is
\* not blank, as far as the screen goes.
Wanted ==
  LET text(f) == frames[f].text
  IN  {w \in {<<r * COLS + k + OFFSET, Picture(text(0), r, k), Picture(text(1), r, k)>> :
                r, k \in 0..MaxCol} :
         w[1] < CELLS /\ ~(Blank(w[2]) /\ Blank(w[3]))}

\* Pictures for which the locations are what add_frames means: no row is wider
\* than the screen, so no two cells share a location, and no location wraps.
PicturesFit ==
  \A f \in F : LET lines == Lines(frames[f].text)
               IN  \A n \in DOMAIN lines : /\ Len(lines[n]) <= COLS
                                           /\ (n - 1) * COLS + Len(lines[n]) + OFFSET <= WORD

\* When add_frames is done, the list holds the blinkers of the two pictures
\* and no other: rows stay in step though one picture's row, or one whole
\* picture, is shorter, and though the last line may have no newline. It takes
\* pictures of fewer than WORD cells (fish.c:98-147).
FramesLaid ==
  stage = "wait" /\ i = 0 =>
    {<<blink_array[s].location, blink_array[s].on_char, blink_array[s].off_char>> : s \in Linked}
      = Wanted
=============================================================================
