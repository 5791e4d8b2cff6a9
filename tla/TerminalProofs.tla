--------------------------- MODULE TerminalProofs ----------------------------
(***************************************************************************)
(* For rows of every size, any number of terminals, any lengths and any    *)
(* number of keys in the windows of terminal_read: indices stay in range,  *)
(* a read fits its buffer, one Enter wakes one read, damage to tail does   *)
(* not outlive the next read, and until the first key in a window the      *)
(* buffers implement a line of input per terminal.                         *)
(***************************************************************************)
EXTENDS Terminal, TLAPS

Byte == Chars \cup {Zero}

\* The places of terminal_read before and after actual_copy is computed.
Early == {"user", "spin", "clear", "check", "compare", "bound"}
Copying == {"copy", "shift", "load", "store"}

Places == Early \cup Copying

Frames == [nbytes : Lengths \cup {0}, i : Int, actual_copy : Int, loaded : Int,
           dest : Seq(Byte), races : Int]

\* TypeOK without the ranges of the indices.
Shape ==
  /\ terminal_buffer \in [Cells -> Byte]
  /\ tail \in [Ttys -> Int]
  /\ enter_status \in {0, 1}
  /\ active_tty \in Ttys
  /\ pc \in [Ttys -> Places]
  /\ frame \in [Ttys -> Frames]
  /\ got \in [Ttys -> Seq(Byte)]
  /\ fresh \in BOOLEAN
  /\ races \in 0..MaxRaces
  /\ overflows \in 0..MaxOverflows
  /\ grown \in 0..MaxGrown

\* The keys that fell in a window since terminal t's read was called.
Raced(t) == races - frame[t].races

\* What terminal_read keeps in its own locals between its steps.
CopyInv(t) ==
  LET f == frame[t] IN
  /\ pc[t] # "user" => f.nbytes \in Lengths
  /\ pc[t] \in Early => f.i = 0 /\ f.dest = <<>>
  /\ pc[t] = "copy" =>
       f.i >= 0 /\ (f.i = 0 \/ f.i <= f.actual_copy) /\ Len(f.dest) = f.i
  /\ pc[t] = "shift" => f.i >= f.actual_copy
  /\ pc[t] \in {"shift", "load", "store"} =>
       \/ f.actual_copy >= 0 /\ Len(f.dest) = f.actual_copy + 1
       \/ f.actual_copy < 0 /\ Len(f.dest) = 1

\* What it takes is at most what was asked for and what tail promises, each up
\* to one for every key in a window; a negative length or actual_copy, which is
\* that length or comes from a tail below -1, does not raise tail beyond its
\* range when it is subtracted.
TakeInv(t) ==
  LET f == frame[t] IN
  /\ pc[t] \in Early \ {"user"} /\ f.nbytes < 0 =>
       tail[t] - f.nbytes <= MAX_BUFFER_SIZE + Drift
  /\ pc[t] = "bound" => tail[t] + 1 <= f.nbytes + Raced(t)
  /\ pc[t] \in Copying => f.actual_copy <= f.nbytes + Raced(t)
  /\ pc[t] \in {"copy", "shift", "load"} =>
       /\ f.actual_copy <= tail[t] + 1 + Raced(t)
       /\ f.actual_copy < 0 => tail[t] - f.actual_copy <= MAX_BUFFER_SIZE + Drift
  /\ pc[t] = "store" =>
       /\ f.actual_copy <= f.loaded + 1 + Raced(t)
       /\ f.actual_copy < 0 => f.loaded - f.actual_copy <= MAX_BUFFER_SIZE + Drift

FrameInv(t) == CopyInv(t) /\ TakeInv(t)

\* Until a key falls in a window, an Enter that is still set is one that no
\* read has seen, or one that the read on the screen is about to clear.
WakeInv ==
  races = 0 =>
    /\ enter_status = 1 => fresh \/ pc[active_tty] = "clear"
    /\ \A t \in Ttys : pc[t] = "clear" => t = active_tty

Inv == TypeOK /\ (\A t \in Ttys : FrameInv(t)) /\ WakeInv

-----------------------------------------------------------------------------
(***************************************************************************)
(* Indices                                                                 *)
(***************************************************************************)
\* An index at most as far out of its row as keys in windows and negative
\* lengths put it is one of Cells.
LEMMA CellType ==
  ASSUME NEW t \in Ttys, NEW k \in (-MaxDrift)..(MAX_BUFFER_SIZE + MaxDrift)
  PROVE  Cell(t, k) \in Cells
<1> USE TerminalAssumption
<1> DEFINE B == MAX_BUFFER_SIZE
<1>1. t \in Nat /\ MAX_TTY - 1 - t \in Nat /\ B \in Nat
  BY DEF Ttys
<1>2. t * B \in Nat /\ (MAX_TTY - 1 - t) * B \in Nat
  BY <1>1
<1>3. (MAX_TTY - 1 - t) * B = MAX_TTY * B - B - t * B
  BY <1>1
<1> QED  BY <1>1, <1>2, <1>3 DEF Cell, Cells, MaxDrift

\* Different terminals' rows do not share a byte, nor do two indices of a row.
LEMMA CellInjective ==
  ASSUME NEW t \in Ttys, NEW u \in Ttys,
         NEW j \in 0..(MAX_BUFFER_SIZE - 1), NEW k \in 0..(MAX_BUFFER_SIZE - 1),
         Cell(t, j) = Cell(u, k)
  PROVE  t = u /\ j = k
<1> USE TerminalAssumption
<1> DEFINE B == MAX_BUFFER_SIZE
<1>1. ASSUME NEW a \in Nat, NEW b \in Nat, a < b
      PROVE  a * B + B <= b * B
  <2>1. (b - a - 1) * B \in Nat
    BY <1>1
  <2>2. (b - a - 1) * B = b * B - a * B - B
    BY <1>1
  <2> QED  BY <1>1, <2>1, <2>2
<1>2. t * B + j = u * B + k /\ t \in Nat /\ u \in Nat /\ t * B \in Nat /\ u * B \in Nat
  BY DEF Cell, Ttys
<1>3. ~(t < u)
  BY <1>1, <1>2
<1>4. ~(u < t)
  BY <1>1, <1>2
<1>5. t = u
  BY <1>2, <1>3, <1>4
<1> QED  BY <1>2, <1>5

LEMMA PlacesAre ==
  Places = {"user", "spin", "clear", "check", "compare", "bound", "copy", "shift",
            "load", "store"}
BY DEF Places, Early, Copying

LEMMA TypeShape == TypeOK => Shape
BY PlacesAre DEF TypeOK, Shape, Frames, Byte

LEMMA InitInv == Init => Inv
<1> SUFFICES ASSUME Init PROVE Inv
  OBVIOUS
<1>1. 0 \in Ttys
  BY TerminalAssumption DEF Ttys
<1>2. NoFrame \in [nbytes : Lengths \cup {0}, i : Int, actual_copy : Int,
                   loaded : Int, dest : Seq(Byte), races : Int]
  BY DEF NoFrame
<1>3. fresh \in BOOLEAN
  BY DEF Init
<1>6. ASSUME NEW t \in Ttys PROVE InRange(t)
  BY TerminalAssumption DEF Init, NoFrame, InRange, Drift
<1>4. TypeOK
  BY <1>1, <1>2, <1>3, <1>6, TerminalAssumption DEF Init, TypeOK, Byte
<1>5. ASSUME NEW t \in Ttys PROVE FrameInv(t)
  BY DEF Init, FrameInv, CopyInv, TakeInv, Drift, NoFrame, Early, Copying
<1> QED  BY <1>4, <1>5 DEF Inv, WakeInv, Init

-----------------------------------------------------------------------------
(***************************************************************************)
(* The steps                                                               *)
(***************************************************************************)
\* The types of one terminal's state.
LEMMA Types ==
  ASSUME TypeOK, NEW t \in Ttys
  PROVE  /\ tail[t] \in Int /\ races \in Nat /\ races <= MaxRaces
         /\ grown \in Nat /\ grown <= MaxGrown
         /\ frame[t].nbytes \in Int /\ frame[t].i \in Int
         /\ frame[t].actual_copy \in Int /\ frame[t].loaded \in Int
         /\ frame[t].dest \in Seq(Byte) /\ frame[t].races \in Int
         /\ Len(frame[t].dest) \in Nat
         /\ InRange(t)
<1>1. frame[t] \in [nbytes : Lengths \cup {0}, i : Int, actual_copy : Int,
                    loaded : Int, dest : Seq(Byte), races : Int]
  BY DEF TypeOK, Byte
<1>2. frame[t].nbytes \in Lengths \cup {0}
  BY <1>1
<1>3. frame[t].nbytes \in Int
  <2>1. Lengths \cup {0} \subseteq Int
    BY TerminalAssumption
  <2> QED  BY <1>2, <2>1
<1>4. /\ frame[t].i \in Int /\ frame[t].actual_copy \in Int
      /\ frame[t].loaded \in Int /\ frame[t].races \in Int
      /\ frame[t].dest \in Seq(Byte)
  BY <1>1
<1>5. Len(frame[t].dest) \in Nat
  BY <1>4
<1>6. /\ races \in Nat /\ races <= MaxRaces /\ grown \in Nat /\ grown <= MaxGrown
      /\ tail[t] \in Int /\ InRange(t)
  BY TerminalAssumption DEF TypeOK
<1> QED  BY <1>3, <1>4, <1>5, <1>6

\* A terminal that a step leaves alone keeps its invariant, whether the step is
\* a race or not.
LEMMA Kept ==
  ASSUME TypeOK, NEW t \in Ttys, FrameInv(t), races' \in {races, races + 1},
         grown' \in Nat, grown' = grown \/ grown' > grown,
         tail'[t] = tail[t], frame'[t] = frame[t], pc'[t] = pc[t]
  PROVE  FrameInv(t)' /\ InRange(t)'
<1>1. races \in Nat /\ grown \in Nat /\ MAX_BUFFER_SIZE \in Nat /\ InRange(t)
  BY Types, TerminalAssumption
<1>3. /\ tail[t] \in Int /\ frame[t].nbytes \in Int
      /\ frame[t].actual_copy \in Int /\ frame[t].loaded \in Int
      /\ frame[t].races \in Int
  BY Types
<1>2. InRange(t)'
  BY <1>1, <1>3 DEF InRange, Drift
<1>4. CopyInv(t)'
  BY DEF FrameInv, CopyInv
<1>5. TakeInv(t)'
  BY <1>1, <1>3 DEF FrameInv, TakeInv, Drift, Raced
<1> QED  BY <1>2, <1>4, <1>5 DEF FrameInv

\* What a step of terminal a, or a key typed there, has to keep.
LEMMA Combine ==
  ASSUME Inv, NEW a \in Ttys, Shape', races' \in {races, races + 1},
         grown' = grown \/ grown' > grown,
         \A t \in Ttys \ {a} :
           tail'[t] = tail[t] /\ frame'[t] = frame[t] /\ pc'[t] = pc[t],
         InRange(a)', CopyInv(a)', TakeInv(a)', WakeInv'
  PROVE  Inv'
<1>1. ASSUME NEW t \in Ttys
      PROVE  FrameInv(t)' /\ InRange(t)'
  <2>1. CASE t = a
    BY <2>1 DEF FrameInv
  <2>2. CASE t # a
    <3>1. grown' \in Nat
      BY TerminalAssumption DEF Shape
    <3> QED  BY <2>2, <3>1, Kept DEF Inv
  <2> QED  BY <2>1, <2>2
<1>2. TypeOK'
  BY <1>1, PlacesAre DEF TypeOK, Shape, Frames, Byte
<1> QED  BY <1>1, <1>2 DEF Inv

\* The numbers of terminal a's state, as the steps below need them.
LEMMA Numbers ==
  ASSUME Inv, NEW a \in Ttys
  PROVE  /\ races \in Nat /\ MAX_BUFFER_SIZE \in Nat \ {0} /\ tail[a] \in Int
         /\ grown \in Nat
         /\ frame[a].nbytes \in Int /\ frame[a].actual_copy \in Int
         /\ frame[a].loaded \in Int /\ frame[a].races \in 0..races
         /\ frame[a].i \in Int
         /\ InRange(a) /\ CopyInv(a) /\ TakeInv(a)
BY Types, TerminalAssumption DEF Inv, FrameInv, InRange, Drift

\* A character typed.
LEMMA KeyCharInv ==
  ASSUME Inv, NEW c \in Chars, NEW a \in Ttys, a = active_tty, KeyChar(c)
  PROVE  Inv'
<1>1. Shape
  BY TypeShape DEF Inv
<1>2. CASE tail[a] >= MAX_BUFFER_SIZE
  <2>1. UNCHANGED vars
    BY <1>2, Numbers DEF KeyChar, vars, readVars
  <2> QED
    BY <2>1 DEF Inv, TypeOK, FrameInv, CopyInv, TakeInv, WakeInv, Raced, InRange, Drift,
       vars, readVars
<1>3. CASE tail[a] < MAX_BUFFER_SIZE
  <2>1. /\ tail' = [tail EXCEPT ![a] = @ + 1]
        /\ terminal_buffer' = [terminal_buffer EXCEPT ![Cell(a, tail[a] + 1)] = c]
        /\ races' \in {races, races + 1} /\ races' <= MaxRaces
        /\ CharRaces(a) => races' = races + 1
        /\ UNCHANGED <<enter_status, active_tty, pc, frame, got, fresh, grown>>
    BY <1>3, Numbers DEF KeyChar, Race, readVars
  <2>2. overflows' \in 0..MaxOverflows
    BY <1>1, <1>3, Numbers, TerminalAssumption DEF KeyChar, Shape
  <2>3. tail'[a] = tail[a] + 1 /\ frame'[a] = frame[a] /\ pc'[a] = pc[a]
    BY <1>1, <2>1 DEF Shape
  <2>4. Shape'
    <3>1. terminal_buffer' \in [Cells -> Byte]
      BY <1>1, <2>1 DEF Shape, Byte
    <3>2. tail' \in [Ttys -> Int]
      BY <1>1, <2>1 DEF Shape
    <3> QED  BY <1>1, <2>1, <2>2, <3>1, <3>2, Numbers DEF Shape
  <2>5. InRange(a)'
    BY <1>3, <2>1, <2>3, Numbers DEF InRange, Drift
  <2>6. CopyInv(a)'
    BY <2>3, Numbers DEF CopyInv
  <2>7. TakeInv(a)'
    BY <1>3, <2>1, <2>3, Numbers DEF TakeInv, InRange, Drift, Raced, CharRaces
  <2>8. WakeInv'
    BY <2>1, Numbers DEF WakeInv, Inv
  <2> QED  BY <1>1, <2>1, <2>4, <2>5, <2>6, <2>7, <2>8, Combine DEF Shape
<1> QED  BY <1>2, <1>3, Numbers

\* A character erased.
LEMMA KeyBackspaceInv ==
  ASSUME Inv, NEW a \in Ttys, a = active_tty, KeyBackspace
  PROVE  Inv'
<1>1. Shape
  BY TypeShape DEF Inv
<1>2. /\ tail[a] > -1
      /\ tail' = [tail EXCEPT ![a] = @ - 1]
      /\ races' \in {races, races + 1} /\ races' <= MaxRaces
      /\ BackspaceRaces(a) => races' = races + 1
      /\ UNCHANGED <<terminal_buffer, enter_status, active_tty, pc, frame, got, fresh,
                     overflows, grown>>
  BY Numbers DEF KeyBackspace, Race, readVars
<1>3. tail'[a] = tail[a] - 1 /\ frame'[a] = frame[a] /\ pc'[a] = pc[a]
  BY <1>1, <1>2 DEF Shape
<1>4. Shape'
  BY <1>1, <1>2, Numbers DEF Shape
<1>5. InRange(a)'
  BY <1>2, <1>3, Numbers DEF InRange, Drift
<1>6. CopyInv(a)'
  BY <1>3, Numbers DEF CopyInv
<1>7. TakeInv(a)'
  BY <1>2, <1>3, Numbers DEF TakeInv, Drift, Raced, BackspaceRaces
<1>8. WakeInv'
  BY <1>2, Numbers DEF WakeInv, Inv
<1> QED  BY <1>1, <1>2, <1>4, <1>5, <1>6, <1>7, <1>8, Combine DEF Shape

LEMMA KeyEnterInv ==
  ASSUME Inv, KeyEnter
  PROVE  Inv'
<1>1. TypeOK'
  BY DEF Inv, KeyEnter, TypeOK, InRange, Drift, readVars
<1>2. ASSUME NEW t \in Ttys PROVE FrameInv(t)'
  BY DEF Inv, KeyEnter, FrameInv, CopyInv, TakeInv, Drift, Raced, readVars
<1>3. WakeInv'
  BY DEF Inv, KeyEnter, WakeInv, readVars
<1> QED  BY <1>1, <1>2, <1>3 DEF Inv

\* A switch: from a place before "clear", or with a race, the Enter that is set
\* is not taken along.
LEMMA KeySwitchInv ==
  ASSUME Inv, NEW s \in Ttys, KeySwitch(s)
  PROVE  Inv'
<1>1. Shape /\ races \in Nat /\ grown \in Nat
  BY TypeShape DEF Inv, Shape
<1>2. /\ active_tty' = s
      /\ races' \in {races, races + 1} /\ races' <= MaxRaces
      /\ SwitchRaces(s) => races' = races + 1
      /\ UNCHANGED <<terminal_buffer, tail, enter_status, pc, frame, got, fresh, overflows,
                     grown>>
  BY <1>1 DEF KeySwitch, Race, readVars
<1>3. Shape'
  BY <1>1, <1>2 DEF Shape
<1>4. FrameInv(s)' /\ InRange(s)'
  BY <1>1, <1>2, Kept DEF Inv
<1>5. WakeInv'
  BY <1>1, <1>2 DEF WakeInv, Inv, SwitchRaces
<1> QED  BY <1>1, <1>2, <1>3, <1>4, <1>5, Combine DEF FrameInv

LEMMA CallInv ==
  ASSUME Inv, NEW t \in Ttys, NEW n \in Lengths, Call(t, n)
  PROVE  Inv'
<1>1. Shape
  BY TypeShape DEF Inv
<1>2. /\ pc[t] = "user" /\ pc' = [pc EXCEPT ![t] = "spin"]
      /\ frame' = [frame EXCEPT ![t].nbytes = n, ![t].races = races]
      /\ grown' = grown + (IF n < 0 THEN -n ELSE 0) /\ grown' <= MaxGrown
      /\ UNCHANGED <<terminal_buffer, tail, enter_status, got, active_tty, fresh, races,
                     overflows>>
  BY DEF Call, At, Goto
<1>11. /\ n \in Int /\ grown \in Nat /\ grown' \in Nat
       /\ grown' = grown \/ grown' > grown
       /\ n < 0 => grown' = grown - n
  BY <1>2, Numbers, TerminalAssumption
<1>3. frame[t] \in Frames /\ pc'[t] = "spin"
  BY <1>1, <1>2 DEF Shape
<1>4. frame'[t] = [frame[t] EXCEPT !.nbytes = n, !.races = races]
  BY <1>1, <1>2 DEF Shape
<1>5. /\ frame'[t].nbytes = n /\ frame'[t].races = races
      /\ frame'[t].i = frame[t].i /\ frame'[t].actual_copy = frame[t].actual_copy
      /\ frame'[t].loaded = frame[t].loaded /\ frame'[t].dest = frame[t].dest
  BY <1>3, <1>4 DEF Frames
<1>6. Shape'
  <2>1. n \in Lengths \cup {0} /\ races \in Int
    BY Numbers
  <2>2. frame'[t] \in Frames
    BY <1>3, <1>4, <2>1 DEF Frames
  <2>3. frame' \in [Ttys -> Frames]
    BY <1>1, <1>2, <2>2 DEF Shape
  <2>4. pc' \in [Ttys -> Places]
    BY <1>1, <1>2 DEF Shape, Places, Early
  <2> QED  BY <1>1, <1>2, <1>11, <2>3, <2>4 DEF Shape
<1>7. InRange(t)'
  BY <1>2, <1>5, <1>11, Numbers DEF InRange, Drift
<1>8. CopyInv(t)'
  BY <1>2, <1>3, <1>5, Numbers DEF CopyInv, Early
<1>9. TakeInv(t)'
  BY <1>2, <1>3, <1>5, <1>11, Numbers DEF TakeInv, InRange, Drift, Copying
<1>10. WakeInv'
  BY <1>1, <1>2 DEF WakeInv, Inv, Shape
<1> QED  BY <1>1, <1>2, <1>6, <1>7, <1>8, <1>9, <1>10, <1>11, Combine DEF Shape

\* A step that moves terminal_read from one place before actual_copy is computed
\* to another and changes neither its frame nor tail.
LEMMA EarlyInv ==
  ASSUME Inv, NEW t \in Ttys, NEW place \in {"clear", "check", "compare", "bound"},
         pc[t] \in Early \ {"user"}, pc' = [pc EXCEPT ![t] = place],
         place = "bound" => tail[t] + 1 <= frame[t].nbytes,
         enter_status' \in {0, 1}, fresh' \in BOOLEAN, WakeInv',
         UNCHANGED <<terminal_buffer, tail, frame, got, active_tty, races, overflows, grown>>
  PROVE  Inv'
<1>1. Shape
  BY TypeShape DEF Inv
<1>2. pc'[t] = place /\ pc' \in [Ttys -> Places]
  BY <1>1 DEF Shape, Places, Early
<1>3. Shape'
  BY <1>1, <1>2 DEF Shape
<1>4. InRange(t)'
  BY Numbers DEF InRange, Drift
<1>5. CopyInv(t)'
  BY <1>2, Numbers DEF CopyInv, Early
<1>6. TakeInv(t)'
  BY <1>2, Numbers DEF TakeInv, Drift, Copying, Raced
<1> QED  BY <1>1, <1>2, <1>3, <1>4, <1>5, <1>6, Combine DEF Shape

LEMMA SpinInv ==
  ASSUME Inv, NEW t \in Ttys, Spin(t)
  PROVE  Inv'
<1>1. Shape
  BY TypeShape DEF Inv
<1>2. WakeInv'
  BY <1>1 DEF Spin, At, Goto, WakeInv, Inv, Shape
<1> QED
  BY <1>1, <1>2, EarlyInv DEF Spin, At, Goto, Early, Shape

LEMMA ClearEnterInv ==
  ASSUME Inv, NEW t \in Ttys, ClearEnter(t)
  PROVE  Inv'
<1>1. Shape
  BY TypeShape DEF Inv
<1>2. WakeInv'
  BY <1>1 DEF ClearEnter, At, Goto, WakeInv, Inv, Shape, keyVars
<1> QED
  BY <1>1, <1>2, EarlyInv DEF ClearEnter, At, Goto, Early, Shape, keyVars

\* Going back to the program: the frame is gone, whatever tail becomes within
\* its range.
LEMMA ReturnInv ==
  ASSUME Inv, NEW t \in Ttys, NEW string \in Seq(Byte), Return(t, string),
         pc[t] # "clear", NEW v \in (-(Drift + 1))..(MAX_BUFFER_SIZE + Drift),
         tail' = [tail EXCEPT ![t] = v],
         UNCHANGED <<terminal_buffer, enter_status, keyVars>>
  PROVE  Inv'
<1>1. Shape
  BY TypeShape DEF Inv
<1>2. NoFrame \in Frames
  BY DEF NoFrame, Frames
<1>3. /\ pc'[t] = "user" /\ frame'[t] = NoFrame /\ tail'[t] = v /\ v \in Int
      /\ races' = races /\ grown' = grown
  BY <1>1, Numbers DEF Return, Goto, Shape, keyVars, Drift
<1>4. Shape'
  <2>1. pc' \in [Ttys -> Places] /\ tail' \in [Ttys -> Int]
    BY <1>1, <1>3 DEF Return, Goto, Shape, Places, Early
  <2>2. frame' \in [Ttys -> Frames] /\ got' \in [Ttys -> Seq(Byte)]
    BY <1>1, <1>2 DEF Return, Shape
  <2> QED  BY <1>1, <2>1, <2>2 DEF Shape, keyVars
<1>5. InRange(t)'
  BY <1>3, Numbers DEF InRange, Drift, NoFrame
<1>6. CopyInv(t)'
  BY <1>3 DEF CopyInv, NoFrame
<1>7. TakeInv(t)'
  BY <1>3 DEF TakeInv, Drift, Copying
<1>8. WakeInv'
  BY <1>1, <1>3 DEF WakeInv, Return, Goto, Inv, Shape, keyVars
<1> QED
  BY <1>1, <1>3, <1>4, <1>5, <1>6, <1>7, <1>8, Combine DEF Return, Goto, Shape

LEMMA CheckEmptyInv ==
  ASSUME Inv, NEW t \in Ttys, CheckEmpty(t)
  PROVE  Inv'
<1>1. Shape
  BY TypeShape DEF Inv
<1>2. CASE tail[t] = -1 /\ Return(t, <<>>)
  <2>1. tail[t] \in (-(Drift + 1))..(MAX_BUFFER_SIZE + Drift)
    BY Numbers DEF InRange, Drift
  <2>2. tail' = [tail EXCEPT ![t] = tail[t]]
    BY <1>1 DEF CheckEmpty, Shape
  <2>3. <<>> \in Seq(Byte) /\ pc[t] = "check"
    BY DEF CheckEmpty, At
  <2> QED
    BY <1>2, <2>1, <2>2, <2>3, ReturnInv DEF CheckEmpty
<1>3. CASE Goto(t, "compare") /\ UNCHANGED <<frame, got>>
  <2>1. WakeInv'
    BY <1>1, <1>3 DEF CheckEmpty, At, Goto, WakeInv, Inv, Shape, keyVars
  <2> QED
    BY <1>1, <1>3, <2>1, EarlyInv DEF CheckEmpty, At, Goto, Early, Shape, keyVars
<1> QED  BY <1>2, <1>3 DEF CheckEmpty

\* actual_copy computed: at most what was asked for and what tail promises, up
\* to the races so far.
LEMMA TakeStepInv ==
  ASSUME Inv, NEW t \in Ttys, NEW n \in Int, pc[t] \in {"compare", "bound"},
         pc' = [pc EXCEPT ![t] = "copy"],
         frame' = [frame EXCEPT ![t].actual_copy = n],
         n <= frame[t].nbytes + Raced(t), n <= tail[t] + 1,
         n >= 0 \/ n = frame[t].nbytes \/ n = tail[t] + 1,
         UNCHANGED <<terminal_buffer, tail, enter_status, got, keyVars>>
  PROVE  Inv'
<1>1. Shape
  BY TypeShape DEF Inv
<1>2. /\ frame[t] \in Frames /\ pc'[t] = "copy" /\ races' = races /\ grown' = grown
      /\ tail'[t] = tail[t]
  BY <1>1 DEF Shape, keyVars
<1>3. frame'[t] = [frame[t] EXCEPT !.actual_copy = n]
  BY <1>1 DEF Shape
<1>4. /\ frame'[t].nbytes = frame[t].nbytes /\ frame'[t].races = frame[t].races
      /\ frame'[t].i = frame[t].i /\ frame'[t].actual_copy = n
      /\ frame'[t].loaded = frame[t].loaded /\ frame'[t].dest = frame[t].dest
  BY <1>2, <1>3 DEF Frames
<1>5. Shape'
  <2>1. frame'[t] \in Frames
    BY <1>2, <1>3 DEF Frames
  <2>2. frame' \in [Ttys -> Frames] /\ pc' \in [Ttys -> Places]
    BY <1>1, <2>1 DEF Shape, Places, Copying
  <2> QED  BY <1>1, <2>2 DEF Shape, keyVars
<1>6. InRange(t)'
  BY <1>2, <1>4, Numbers DEF InRange, Drift
<1>7. CopyInv(t)'
  <2>1. frame[t].i = 0 /\ frame[t].dest = <<>> /\ frame[t].nbytes \in Lengths
    BY Numbers DEF CopyInv, Early
  <2> QED  BY <1>2, <1>4, <2>1 DEF CopyInv, Early
<1>8. TakeInv(t)'
  BY <1>2, <1>4, Numbers DEF TakeInv, Drift, Raced, Early
<1>9. WakeInv'
  BY <1>1, <1>2 DEF WakeInv, Inv, Shape, keyVars
<1> QED
  BY <1>1, <1>2, <1>5, <1>6, <1>7, <1>8, <1>9, Combine DEF Shape

LEMMA CompareInv ==
  ASSUME Inv, NEW t \in Ttys, Compare(t)
  PROVE  Inv'
<1>1. Shape
  BY TypeShape DEF Inv
<1>2. CASE /\ frame[t].nbytes < tail[t] + 1
           /\ Goto(t, "copy")
           /\ frame' = [frame EXCEPT ![t].actual_copy = frame[t].nbytes]
  <2> DEFINE n == frame[t].nbytes
  <2>1. /\ n \in Int /\ n = frame[t].nbytes /\ n <= frame[t].nbytes + Raced(t)
        /\ n <= tail[t] + 1
    BY <1>2, Numbers DEF Raced
  <2>2. /\ pc[t] \in {"compare", "bound"} /\ pc' = [pc EXCEPT ![t] = "copy"]
        /\ frame' = [frame EXCEPT ![t].actual_copy = n]
        /\ UNCHANGED <<terminal_buffer, tail, enter_status, got, keyVars>>
    BY <1>2 DEF Compare, At, Goto
  <2> HIDE DEF n
  <2> QED  BY <2>1, <2>2, TakeStepInv
<1>3. CASE frame[t].nbytes >= tail[t] + 1 /\ Goto(t, "bound") /\ UNCHANGED frame
  <2>1. WakeInv'
    BY <1>1, <1>3 DEF Compare, At, Goto, WakeInv, Inv, Shape, keyVars
  <2>2. tail[t] + 1 <= frame[t].nbytes
    BY <1>3, Numbers
  <2> QED
    BY <1>1, <1>3, <2>1, <2>2, EarlyInv DEF Compare, At, Goto, Early, Shape, keyVars
<1> QED  BY <1>2, <1>3 DEF Compare

LEMMA BoundInv ==
  ASSUME Inv, NEW t \in Ttys, Bound(t)
  PROVE  Inv'
<1> DEFINE n == tail[t] + 1
<1>1. n \in Int /\ n <= frame[t].nbytes + Raced(t) /\ n <= tail[t] + 1
  BY Numbers DEF Bound, At, TakeInv, Drift
<1>2. /\ pc[t] \in {"compare", "bound"} /\ pc' = [pc EXCEPT ![t] = "copy"]
      /\ frame' = [frame EXCEPT ![t].actual_copy = n]
      /\ n = tail[t] + 1
      /\ UNCHANGED <<terminal_buffer, tail, enter_status, got, keyVars>>
  BY DEF Bound, At, Goto
<1> HIDE DEF n
<1> QED  BY <1>1, <1>2, TakeStepInv

\* A step of the loops and of the end of terminal_read, and what it may change
\* of its frame.
LEMMA LoopInv ==
  ASSUME Inv, NEW t \in Ttys, pc[t] \in {"copy", "shift", "load"},
         NEW place \in {"copy", "shift", "load", "store"}, pc' = [pc EXCEPT ![t] = place],
         \A u \in Ttys \ {t} : frame'[u] = frame[u],
         frame' \in [Ttys -> Frames],
         frame'[t].nbytes = frame[t].nbytes, frame'[t].races = frame[t].races,
         frame'[t].actual_copy = frame[t].actual_copy,
         frame'[t].loaded \in {frame[t].loaded, tail[t]},
         place = "store" => frame'[t].loaded = tail[t],
         terminal_buffer' \in [Cells -> Byte], CopyInv(t)',
         UNCHANGED <<tail, enter_status, got, keyVars>>
  PROVE  Inv'
<1>1. Shape
  BY TypeShape DEF Inv
<1>2. pc'[t] = place /\ races' = races /\ grown' = grown /\ tail'[t] = tail[t]
  BY <1>1 DEF Shape, keyVars
<1>3. Shape'
  <2>1. pc' \in [Ttys -> Places]
    BY <1>1 DEF Shape, Places, Copying
  <2> QED  BY <1>1, <2>1 DEF Shape, keyVars
<1>4. InRange(t)'
  BY <1>2, Numbers DEF InRange, Drift
<1>5. TakeInv(t)'
  BY <1>2, Numbers DEF TakeInv, Drift, Raced, Early, Copying
<1>6. WakeInv'
  BY <1>1, <1>2 DEF WakeInv, Inv, Shape, keyVars
<1> QED
  BY <1>1, <1>2, <1>3, <1>4, <1>5, <1>6, Combine DEF Shape

\* Copying one character reads a byte of Cells.
LEMMA CopyInvStep ==
  ASSUME Inv, NEW t \in Ttys, Copy(t)
  PROVE  Inv'
<1> DEFINE f == frame[t]
<1>1. Shape /\ f \in Frames /\ f.dest \in Seq(Byte) /\ Len(f.dest) \in Nat
  BY TypeShape, Types DEF Inv, Shape
<1>2. pc[t] = "copy" /\ f.i \in Nat /\ Len(f.dest) = f.i /\ races <= MaxRaces /\ grown <= MaxGrown
  BY <1>1, Numbers DEF Copy, At, CopyInv, Shape
<1>5. /\ f.actual_copy \in Int /\ f.actual_copy <= MAX_BUFFER_SIZE + Drift + 1
      /\ races \in Nat /\ MAX_BUFFER_SIZE \in Nat /\ MaxRaces \in Nat
      /\ grown \in Nat /\ MaxGrown \in Nat
      /\ f.nbytes \in Lengths
  BY <1>2, Numbers, TerminalAssumption DEF InRange, Drift, CopyInv
<1>3. CASE /\ f.i <= f.actual_copy - 1
           /\ frame' = [frame EXCEPT
                         ![t].dest = Append(@, terminal_buffer[Cell(t, f.i)]),
                         ![t].i = @ + 1]
           /\ UNCHANGED pc
  <2> DEFINE b == terminal_buffer[Cell(t, f.i)]
  <2>1. f.i \in (-MaxDrift)..(MAX_BUFFER_SIZE + MaxDrift)
    <3>1. f.i <= f.actual_copy - 1
      BY <1>3
    <3> HIDE DEF f
    <3> QED  BY <1>2, <1>5, <3>1 DEF Drift, MaxDrift
  <2>2. b \in Byte
    BY <1>1, <2>1, CellType DEF Shape
  <2>3. Append(f.dest, b) \in Seq(Byte) /\ Len(Append(f.dest, b)) = f.i + 1
    BY <1>1, <1>2, <2>2
  <2>4. frame'[t] = [f EXCEPT !.dest = Append(f.dest, b), !.i = f.i + 1]
    BY <1>1, <1>3 DEF Shape
  <2>5. /\ frame'[t].nbytes = f.nbytes /\ frame'[t].races = f.races
        /\ frame'[t].actual_copy = f.actual_copy /\ frame'[t].loaded = f.loaded
        /\ frame'[t].i = f.i + 1 /\ frame'[t].dest = Append(f.dest, b)
    BY <1>1, <2>4 DEF Frames
  <2>6. frame'[t] \in Frames
    <3>1. f.i + 1 \in Int
      BY <1>2
    <3> HIDE DEF b, f
    <3> QED  BY <1>1, <2>3, <2>4, <3>1 DEF Frames
  <2>7. frame' \in [Ttys -> Frames] /\ \A u \in Ttys \ {t} : frame'[u] = frame[u]
    BY <1>1, <1>3, <2>6 DEF Shape
  <2>8. CopyInv(t)'
    <3>1. pc'[t] = "copy"
      BY <1>2, <1>3
    <3>2. f.i + 1 >= 0 /\ f.i + 1 <= f.actual_copy
      BY <1>2, <1>3, <1>5
    <3> HIDE DEF b
    <3> QED  BY <1>5, <2>3, <2>5, <3>1, <3>2 DEF CopyInv, Early
  <2>9. /\ pc' = [pc EXCEPT ![t] = "copy"] /\ terminal_buffer' \in [Cells -> Byte]
        /\ UNCHANGED <<tail, enter_status, got, keyVars>>
    BY <1>1, <1>2, <1>3 DEF Copy, Shape
  <2> QED  BY <1>2, <2>5, <2>7, <2>8, <2>9, LoopInv
<1>4. CASE /\ f.i > f.actual_copy - 1
           /\ frame' = [frame EXCEPT ![t].dest = Append(@, Zero),
                                     ![t].i = f.actual_copy]
           /\ Goto(t, "shift")
  <2>3. Append(f.dest, Zero) \in Seq(Byte) /\ Len(Append(f.dest, Zero)) = f.i + 1
    BY <1>1, <1>2 DEF Byte
  <2>4. frame'[t] = [f EXCEPT !.dest = Append(f.dest, Zero), !.i = f.actual_copy]
    BY <1>1, <1>4 DEF Shape
  <2>5. /\ frame'[t].nbytes = f.nbytes /\ frame'[t].races = f.races
        /\ frame'[t].actual_copy = f.actual_copy /\ frame'[t].loaded = f.loaded
        /\ frame'[t].i = f.actual_copy /\ frame'[t].dest = Append(f.dest, Zero)
    BY <1>1, <2>4 DEF Frames
  <2>6. frame'[t] \in Frames
    BY <1>1, <1>5, <2>3, <2>4 DEF Frames
  <2>7. frame' \in [Ttys -> Frames] /\ \A u \in Ttys \ {t} : frame'[u] = frame[u]
    BY <1>1, <1>4, <2>6 DEF Shape
  <2>8. CopyInv(t)'
    <3>1. pc'[t] = "shift"
      BY <1>1, <1>4 DEF Goto, Shape
    <3>2. f.i = 0 \/ f.i <= f.actual_copy
      BY <1>2, Numbers DEF CopyInv
    <3>3. \/ f.actual_copy >= 0 /\ f.i + 1 = f.actual_copy + 1
          \/ f.actual_copy < 0 /\ f.i + 1 = 1
      <4>1. f.i > f.actual_copy - 1
        BY <1>4
      <4> HIDE DEF f
      <4> QED  BY <1>2, <1>5, <3>2, <4>1
    <3> QED  BY <1>5, <2>3, <2>5, <3>1, <3>3 DEF CopyInv, Early
  <2>9. /\ pc' = [pc EXCEPT ![t] = "shift"] /\ terminal_buffer' \in [Cells -> Byte]
        /\ UNCHANGED <<tail, enter_status, got, keyVars>>
    BY <1>1, <1>2, <1>4 DEF Copy, Shape, Goto
  <2> QED  BY <1>2, <2>5, <2>7, <2>8, <2>9, LoopInv
<1> QED  BY <1>3, <1>4 DEF Copy

\* Shifting one character reads and writes bytes of Cells.
LEMMA ShiftInv ==
  ASSUME Inv, NEW t \in Ttys, Shift(t)
  PROVE  Inv'
<1> DEFINE f == frame[t]
<1>1. Shape /\ f \in Frames
  BY TypeShape DEF Inv, Shape
<1>2. /\ pc[t] = "shift" /\ CopyInv(t)
      /\ f.actual_copy \in Int /\ f.i \in Int /\ f.i >= f.actual_copy
  BY Numbers DEF Shift, At, CopyInv
<1>3. CASE /\ f.i <= tail[t]
           /\ terminal_buffer' = [terminal_buffer EXCEPT
                                    ![Cell(t, f.i - f.actual_copy)] =
                                      terminal_buffer[Cell(t, f.i)]]
           /\ frame' = [frame EXCEPT ![t].i = @ + 1]
           /\ UNCHANGED pc
  <2>1. f.i \in (-MaxDrift)..(MAX_BUFFER_SIZE + MaxDrift)
    <3>1. /\ f.actual_copy >= -Drift /\ tail[t] <= MAX_BUFFER_SIZE + Drift
          /\ races \in Nat /\ races <= MaxRaces /\ MaxRaces \in Nat
          /\ grown \in Nat /\ grown <= MaxGrown /\ MaxGrown \in Nat
          /\ MAX_BUFFER_SIZE \in Nat /\ tail[t] \in Int
      BY <1>1, Numbers, TerminalAssumption DEF InRange, Drift, Shape
    <3>2. f.i <= tail[t]
      BY <1>3
    <3> HIDE DEF f
    <3> QED  BY <1>2, <3>1, <3>2 DEF Drift, MaxDrift
  <2>2. terminal_buffer[Cell(t, f.i)] \in Byte
    BY <1>1, <2>1, CellType DEF Shape
  <2>3. terminal_buffer' \in [Cells -> Byte]
    BY <1>1, <1>3, <2>2 DEF Shape
  <2>4. frame'[t] = [f EXCEPT !.i = f.i + 1]
    BY <1>1, <1>3 DEF Shape
  <2>5. /\ frame'[t].nbytes = f.nbytes /\ frame'[t].races = f.races
        /\ frame'[t].actual_copy = f.actual_copy /\ frame'[t].loaded = f.loaded
        /\ frame'[t].i = f.i + 1 /\ frame'[t].dest = f.dest
    BY <1>1, <2>4 DEF Frames
  <2>6. frame'[t] \in Frames
    BY <1>1, <1>2, <2>4 DEF Frames
  <2>7. frame' \in [Ttys -> Frames] /\ \A u \in Ttys \ {t} : frame'[u] = frame[u]
    BY <1>1, <1>3, <2>6 DEF Shape
  <2>8. CopyInv(t)'
    <3>1. pc'[t] = "shift" /\ f.i + 1 >= f.actual_copy
      BY <1>2, <1>3
    <3> QED  BY <1>2, <2>5, <3>1 DEF CopyInv, Early
  <2>9. /\ pc' = [pc EXCEPT ![t] = "shift"]
        /\ UNCHANGED <<tail, enter_status, got, keyVars>>
    BY <1>1, <1>2, <1>3 DEF Shift, Shape
  <2> QED  BY <1>2, <2>3, <2>5, <2>7, <2>8, <2>9, LoopInv
<1>4. CASE /\ Goto(t, "load")
           /\ UNCHANGED <<terminal_buffer, frame>>
  <2>1. pc'[t] = "load"
    BY <1>1, <1>4 DEF Goto, Shape
  <2>2. CopyInv(t)'
    BY <1>2, <1>4, <2>1 DEF CopyInv, Early
  <2>3. /\ pc' = [pc EXCEPT ![t] = "load"]
        /\ UNCHANGED <<tail, enter_status, got, keyVars>>
    BY <1>4 DEF Shift, Goto
  <2> QED  BY <1>1, <1>2, <1>4, <2>2, <2>3, LoopInv DEF Shape
<1> QED  BY <1>3, <1>4 DEF Shift

LEMMA LoadTailInv ==
  ASSUME Inv, NEW t \in Ttys, LoadTail(t)
  PROVE  Inv'
<1> DEFINE f == frame[t]
<1>1. Shape /\ f \in Frames /\ tail[t] \in Int
  BY TypeShape DEF Inv, Shape
<1>2. pc[t] = "load" /\ CopyInv(t) /\ frame' = [frame EXCEPT ![t].loaded = tail[t]]
  BY Numbers DEF LoadTail, At
<1>3. frame'[t] = [f EXCEPT !.loaded = tail[t]]
  BY <1>1, <1>2 DEF Shape
<1>4. /\ frame'[t].nbytes = f.nbytes /\ frame'[t].races = f.races
      /\ frame'[t].actual_copy = f.actual_copy /\ frame'[t].loaded = tail[t]
      /\ frame'[t].i = f.i /\ frame'[t].dest = f.dest
  BY <1>1, <1>3 DEF Frames
<1>5. frame'[t] \in Frames
  BY <1>1, <1>3 DEF Frames
<1>6. frame' \in [Ttys -> Frames] /\ \A u \in Ttys \ {t} : frame'[u] = frame[u]
  BY <1>1, <1>2, <1>5 DEF Shape
<1>7. pc'[t] = "store" /\ pc' = [pc EXCEPT ![t] = "store"]
  BY <1>1 DEF LoadTail, Goto, Shape
<1>8. CopyInv(t)'
  BY <1>2, <1>4, <1>7 DEF CopyInv, Early
<1>9. terminal_buffer' \in [Cells -> Byte] /\ UNCHANGED <<tail, enter_status, got, keyVars>>
  BY <1>1 DEF LoadTail, Shape
<1> QED  BY <1>2, <1>4, <1>6, <1>7, <1>8, <1>9, LoopInv

\* The end: what tail becomes is in range because actual_copy was.
LEMMA StoreTailInv ==
  ASSUME Inv, NEW t \in Ttys, StoreTail(t)
  PROVE  Inv'
<1> DEFINE f == frame[t]
           v == f.loaded - f.actual_copy
           string == SubSeq(f.dest, 1, Len(f.dest) - 1)
<1>1. pc[t] = "store" /\ tail' = [tail EXCEPT ![t] = v] /\ Return(t, string)
      /\ UNCHANGED <<terminal_buffer, enter_status, keyVars>>
  BY DEF StoreTail, At
<1>2. string \in Seq(Byte)
  <2>1. f.dest \in Seq(Byte) /\ Len(f.dest) \in Nat
    BY Types DEF Inv
  <2>2. Len(f.dest) - 1 \in Int /\ Len(f.dest) - 1 <= Len(f.dest)
    BY <2>1
  <2> QED  BY <2>1, <2>2
<1>3. v \in (-(Drift + 1))..(MAX_BUFFER_SIZE + Drift)
  <2>1. /\ f.actual_copy <= f.loaded + 1 + (races - f.races)
        /\ f.actual_copy < 0 => f.loaded - f.actual_copy <= MAX_BUFFER_SIZE + Drift
    BY <1>1, Numbers DEF TakeInv, Drift, Raced
  <2>2. /\ f.loaded \in Int /\ f.actual_copy \in Int /\ f.races \in 0..races
        /\ races \in Nat /\ grown \in Nat /\ MAX_BUFFER_SIZE \in Nat
        /\ f.loaded <= MAX_BUFFER_SIZE + Drift
    BY Numbers DEF InRange, Drift
  <2> HIDE DEF f
  <2> QED  BY <2>1, <2>2 DEF Drift
<1> HIDE DEF string, v
<1> QED  BY <1>1, <1>2, <1>3, ReturnInv

LEMMA NextInv == Inv /\ [Next]_vars => Inv'
<1> SUFFICES ASSUME Inv, [Next]_vars PROVE Inv'
  OBVIOUS
<1>1. CASE UNCHANGED vars
  BY <1>1 DEF Inv, TypeOK, FrameInv, CopyInv, TakeInv, WakeInv, Raced, InRange, Drift, vars,
     readVars
<1>2. CASE Keyboard
  <2>1. active_tty \in Ttys
    BY DEF Inv, TypeOK
  <2> QED
    BY <1>2, <2>1, KeyCharInv, KeyBackspaceInv, KeyEnterInv, KeySwitchInv DEF Keyboard
<1>3. ASSUME NEW t \in Ttys, Reader(t) PROVE Inv'
  BY <1>3, SpinInv, ClearEnterInv, CheckEmptyInv, CompareInv, BoundInv, CopyInvStep,
     ShiftInv, LoadTailInv, StoreTailInv DEF Reader
<1> QED  BY <1>1, <1>2, <1>3, CallInv DEF Next

LEMMA Invariance == Spec => []Inv
BY InitInv, NextInv, PTL DEF Spec

-----------------------------------------------------------------------------
(***************************************************************************)
(* What follows for every number of keys in windows                        *)
(***************************************************************************)
\* tail and what terminal_read computes from it stay in range, and every index
\* stays inside the array but for one byte on either side for each key in a
\* window and for each byte of a negative length (terminal.c:13-75).
THEOREM TypeCorrect == Spec => []TypeOK
<1>1. Inv => TypeOK
  BY DEF Inv
<1> QED  BY <1>1, Invariance, PTL

\* terminal_read never writes more than the length asked for (none for a
\* negative one), the NUL, and one byte for each key in a window of this read
\* (terminal.c:25-29).
THEOREM ReadFits == Spec => []CopyFits
<1>1. ASSUME Inv, NEW t \in Ttys
      PROVE  Len(frame[t].dest) <= (IF frame[t].nbytes < 0 THEN 0 ELSE frame[t].nbytes)
                                     + 1 + (races - frame[t].races)
  <2> DEFINE f == frame[t]
             n == Len(f.dest)
  <2> SUFFICES n <= (IF f.nbytes < 0 THEN 0 ELSE f.nbytes) + 1 + (races - f.races)
    OBVIOUS
  <2>1. /\ f.nbytes \in Int /\ races \in Nat /\ f.races \in 0..races
        /\ f.actual_copy \in Int /\ f.i \in Int /\ n \in Nat
    BY <1>1, Numbers, Types DEF Inv
  <2>2. CASE pc[t] \in Early
    <3>1. n = 0
      BY <1>1, <2>2, Numbers DEF CopyInv
    <3> HIDE DEF n, f
    <3> QED  BY <2>1, <3>1
  <2>3. CASE pc[t] \in Copying
    <3>1. f.actual_copy <= f.nbytes + (races - f.races)
      BY <1>1, <2>3, Numbers DEF TakeInv, Drift, Raced
    <3>2. n = 0 \/ n <= f.actual_copy + 1 \/ n = 1
      BY <1>1, <2>1, <2>3, Numbers DEF CopyInv, Copying
    <3> HIDE DEF n, f
    <3> QED  BY <2>1, <3>1, <3>2
  <2>4. pc[t] \in Places
    BY <1>1, TypeShape DEF Inv, Shape
  <2> QED  BY <2>2, <2>3, <2>4 DEF Places
<1>2. Inv => CopyFits
  BY <1>1 DEF CopyFits
<1> QED  BY <1>2, Invariance, PTL

\* One Enter wakes one read until a key falls in a window (terminal.c:8, 20-21).
THEOREM EnterWakesOnce == Spec => WakesOnce
<1> DEFINE Wake == \A t \in Ttys :
                     pc[t] = "spin" /\ pc'[t] = "clear" /\ races = 0 => fresh
<1>1. ASSUME Inv, Next, NEW t \in Ttys, pc[t] = "spin", pc'[t] = "clear", races = 0
      PROVE  fresh
  <2>1. Shape
    BY <1>1, TypeShape DEF Inv
  <2>2. ASSUME NEW s \in Ttys, s # t, Reader(s) \/ \E n \in Lengths : Call(s, n)
        PROVE  pc'[t] = pc[t]
    BY <2>1, <2>2 DEF Reader, Spin, ClearEnter, CheckEmpty, Compare, Bound, Copy, Shift,
       LoadTail, StoreTail, Call, Goto, Return, Shape
  <2>3. CASE Keyboard
    BY <1>1, <2>3 DEF Keyboard, KeyChar, KeyBackspace, KeyEnter, KeySwitch, readVars
  <2>4. CASE Reader(t) \/ \E n \in Lengths : Call(t, n)
    <3>1. t = active_tty /\ enter_status = 1
      BY <1>1, <2>1, <2>4 DEF Reader, Spin, ClearEnter, CheckEmpty, Compare, Bound,
         Copy, Shift, LoadTail, StoreTail, Call, At
    <3> QED  BY <1>1, <3>1 DEF Inv, WakeInv
  <2> QED  BY <1>1, <2>2, <2>3, <2>4 DEF Next
<1>2. Inv /\ [Next]_vars => [Wake]_vars
  BY <1>1
<1> QED  BY <1>2, Invariance, PTL DEF Spec, WakesOnce

\* A read without a key in its windows leaves tail at -1 or at an index of the
\* row, whatever earlier races left there (terminal.c:23-33).
THEOREM ReadRepairsTail == Spec => TailRecovers
<1> DEFINE Recovers == \A t \in Ttys :
                         pc[t] # "user" /\ pc'[t] = "user" /\ frame[t].races = races
                           => tail'[t] >= -1
<1>1. ASSUME Inv, Next, NEW t \in Ttys, pc[t] # "user", pc'[t] = "user",
             frame[t].races = races
      PROVE  tail'[t] >= -1
  <2>1. Shape
    BY <1>1, TypeShape DEF Inv
  <2>2. ASSUME NEW s \in Ttys, s # t, Reader(s) \/ \E n \in Lengths : Call(s, n)
        PROVE  pc'[t] = pc[t]
    BY <2>1, <2>2 DEF Reader, Spin, ClearEnter, CheckEmpty, Compare, Bound, Copy, Shift,
       LoadTail, StoreTail, Call, Goto, Return, Shape
  <2>3. CASE Keyboard
    BY <1>1, <2>3 DEF Keyboard, KeyChar, KeyBackspace, KeyEnter, KeySwitch, readVars
  <2>4. CASE Reader(t) \/ \E n \in Lengths : Call(t, n)
    <3>1. (CheckEmpty(t) /\ tail[t] = -1) \/ StoreTail(t)
      BY <1>1, <2>1, <2>4 DEF Reader, Spin, ClearEnter, CheckEmpty, Compare, Bound,
         Copy, Shift, LoadTail, Call, Goto, Shape
    <3>2. CASE CheckEmpty(t) /\ tail[t] = -1
      BY <3>2 DEF CheckEmpty
    <3>3. CASE StoreTail(t)
      <4>1. pc[t] = "store" /\ tail'[t] = frame[t].loaded - frame[t].actual_copy
        BY <2>1, <3>3 DEF StoreTail, At, Shape
      <4>2. frame[t].actual_copy <= frame[t].loaded + 1 + (races - frame[t].races)
        BY <1>1, <4>1, Numbers DEF TakeInv, Drift, Raced
      <4>3. /\ races \in Nat /\ frame[t].loaded \in Int /\ frame[t].actual_copy \in Int
        BY <1>1, Numbers
      <4> QED  BY <1>1, <4>1, <4>2, <4>3
    <3> QED  BY <3>1, <3>2, <3>3
  <2> QED  BY <1>1, <2>2, <2>3, <2>4 DEF Next
<1>2. Inv /\ [Next]_vars => [Recovers]_vars
  BY <1>1
<1> QED  BY <1>2, Invariance, PTL DEF Spec, TailRecovers

-----------------------------------------------------------------------------
(***************************************************************************)
(* Parts of a row as sequences                                             *)
(***************************************************************************)
Columns == 0..(MAX_BUFFER_SIZE - 1)
Buffers == [Cells -> Byte]

\* D is B with v stored at column j of terminal t's row; and what that comes to
\* for every row.
Store(B, D, t, j, v) == D = [B EXCEPT ![Cell(t, j)] = v]
Stored(B, D, t, j, v) ==
  \A u \in Ttys, k \in Columns :
    D[Cell(u, k)] = IF u = t /\ k = j THEN v ELSE B[Cell(u, k)]

\* Sequence h is g with c behind it.
Extends(h, g, c) == h = Append(g, c)

LEMMA IsSeq ==
  ASSUME NEW m \in Nat, NEW g \in [1..m -> Byte]
  PROVE  g \in Seq(Byte) /\ Len(g) = m
OBVIOUS

\* A sequence that continues another by one element.
LEMMA SeqAppend ==
  ASSUME NEW m \in Nat, NEW g \in [1..m -> Byte], NEW h \in [1..(m + 1) -> Byte],
         \A k \in 1..m : h[k] = g[k]
  PROVE  h = Append(g, h[m + 1])
<1> DEFINE c == h[m + 1]
<1>1. c \in Byte
  OBVIOUS
<1>2. g \in Seq(Byte) /\ Len(g) = m
  BY IsSeq
<1>3. Append(g, c) = [k \in 1..(m + 1) |-> IF k = m + 1 THEN c ELSE g[k]]
  BY <1>1, <1>2
<1>4. ASSUME NEW k \in 1..(m + 1)
      PROVE  h[k] = IF k = m + 1 THEN c ELSE g[k]
  <2>1. k = m + 1 \/ k \in 1..m
    OBVIOUS
  <2> QED  BY <2>1
<1> QED  BY <1>3, <1>4

\* A part of a sequence.
LEMMA SeqPart ==
  ASSUME NEW m \in Nat, NEW g \in [1..m -> Byte], NEW a \in 1..(m + 1), NEW b \in 0..m,
         NEW h \in [1..(b - a + 1) -> Byte],
         \A k \in 1..(b - a + 1) : h[k] = g[k + a - 1]
  PROVE  h = SubSeq(g, a, b)
<1>1. g \in Seq(Byte) /\ Len(g) = m
  BY IsSeq
<1>2. SubSeq(g, a, b) = [k \in 1..(b - a + 1) |-> g[k + a - 1]]
  BY <1>1
<1> QED  BY <1>2

\* Every column is a byte of the buffer.
LEMMA ColumnCell ==
  ASSUME NEW t \in Ttys, NEW k \in Columns
  PROVE  Cell(t, k) \in Cells
BY CellType, TerminalAssumption DEF Columns, MaxDrift

\* The columns a part of a row is made of.
LEMMA RowColumns ==
  ASSUME NEW m \in Int, NEW n \in Nat, n + m <= MAX_BUFFER_SIZE, NEW s \in Int,
         NEW k \in 1..m
  PROVE  (IF k <= s THEN k - 1 ELSE n + k - 1) \in Columns
BY TerminalAssumption DEF Columns

LEMMA RowType ==
  ASSUME NEW B \in Buffers, NEW t \in Ttys, NEW m \in Int, NEW n \in Nat,
         n + m <= MAX_BUFFER_SIZE, NEW s \in Int
  PROVE  /\ Row(B, t, m, n, s) \in [1..m -> Byte]
         /\ \A k \in 1..m : Row(B, t, m, n, s)[k] =
                              B[Cell(t, IF k <= s THEN k - 1 ELSE n + k - 1)]
<1>1. \A k \in 1..m : Cell(t, IF k <= s THEN k - 1 ELSE n + k - 1) \in Cells
  BY RowColumns, ColumnCell
<1> QED  BY <1>1 DEF Row, Buffers

LEMMA RowSeq ==
  ASSUME NEW B \in Buffers, NEW t \in Ttys, NEW m \in Nat, NEW n \in Nat,
         n + m <= MAX_BUFFER_SIZE, NEW s \in Int
  PROVE  Row(B, t, m, n, s) \in Seq(Byte) /\ Len(Row(B, t, m, n, s)) = m
<1> DEFINE g == Row(B, t, m, n, s)
<1>1. g \in [1..m -> Byte]
  BY RowType
<1> HIDE DEF g
<1>2. g \in Seq(Byte) /\ Len(g) = m
  BY <1>1, IsSeq
<1> QED  BY <1>2 DEF g

\* Buffers that agree on the columns of a row have the same parts of it.
Agree(B, D, t) == \A k \in Columns : D[Cell(t, k)] = B[Cell(t, k)]

LEMMA RowSame ==
  ASSUME NEW B, NEW D, NEW t \in Ttys, NEW m \in Int, NEW n \in Nat,
         n + m <= MAX_BUFFER_SIZE, NEW s \in Int, Agree(B, D, t)
  PROVE  Row(D, t, m, n, s) = Row(B, t, m, n, s)
BY RowColumns DEF Row, Agree

\* A character stored behind a part that the shift has not passed extends it.
LEMMA RowAppend ==
  ASSUME NEW B \in Buffers, NEW D \in Buffers, NEW t \in Ttys, NEW m \in Nat,
         NEW n \in Nat, n + m < MAX_BUFFER_SIZE, NEW s \in Int, s <= m, NEW c,
         NEW j, j = n + m, Stored(B, D, t, j, c)
  PROVE  Extends(Row(D, t, m + 1, n, s), Row(B, t, m, n, s), c)
<1> DEFINE g == Row(B, t, m, n, s)
           h == Row(D, t, m + 1, n, s)
<1>1. /\ g \in [1..m -> Byte]
      /\ \A k \in 1..m : g[k] = B[Cell(t, IF k <= s THEN k - 1 ELSE n + k - 1)]
  <2>1. m \in Int /\ n + m <= MAX_BUFFER_SIZE
    BY TerminalAssumption
  <2> QED  BY <2>1, RowType
<1>2. h \in [1..(m + 1) -> Byte]
  <2>1. m + 1 \in Int /\ n + (m + 1) <= MAX_BUFFER_SIZE
    BY TerminalAssumption
  <2> QED  BY <2>1, RowType
<1>3. ASSUME NEW k \in 1..(m + 1)
      PROVE  h[k] = D[Cell(t, IF k <= s THEN k - 1 ELSE n + k - 1)]
  BY DEF Row
<1> HIDE DEF g, h
<1>4. ASSUME NEW k \in 1..m
      PROVE  h[k] = g[k]
  <2> DEFINE i == IF k <= s THEN k - 1 ELSE n + k - 1
  <2>1. i \in Columns /\ i # j /\ k \in 1..(m + 1)
    BY TerminalAssumption DEF Columns
  <2>2. D[Cell(t, i)] = B[Cell(t, i)]
    BY <2>1 DEF Stored
  <2> QED  BY <1>1, <1>3, <2>1, <2>2
<1>5. h[m + 1] = c
  <2>1. j \in Columns /\ ~(m + 1 <= s) /\ n + (m + 1) - 1 = j
    BY TerminalAssumption DEF Columns
  <2>2. h[m + 1] = D[Cell(t, j)]
    BY <1>3, <2>1
  <2> QED  BY <2>1, <2>2 DEF Stored
<1>6. h = Append(g, c)
  BY <1>1, <1>2, <1>4, <1>5, SeqAppend
<1> QED  BY <1>6 DEF g, h, Extends

\* A part of a part of a row that starts at its front.
LEMMA RowFront ==
  ASSUME NEW B \in Buffers, NEW t \in Ttys, NEW m \in Nat, NEW n \in Nat,
         n + m <= MAX_BUFFER_SIZE, NEW s \in Int, NEW b \in 0..m
  PROVE  Row(B, t, b, n, s) = SubSeq(Row(B, t, m, n, s), 1, b)
<1> DEFINE g == Row(B, t, m, n, s)
           h == Row(B, t, b, n, s)
<1>1. g \in [1..m -> Byte] /\ h \in [1..b -> Byte]
  <2>1. m \in Int /\ b \in Int /\ n + b <= MAX_BUFFER_SIZE
    BY TerminalAssumption
  <2> QED  BY <2>1, RowType
<1>2. \A k \in 1..b : h[k] = g[k]
  BY DEF Row
<1> HIDE DEF g, h
<1>3. b - 1 + 1 = b /\ 1 \in 1..(m + 1)
  OBVIOUS
<1>4. h \in [1..(b - 1 + 1) -> Byte]
  BY <1>1, <1>3
<1>5. \A k \in 1..(b - 1 + 1) : h[k] = g[k + 1 - 1]
  BY <1>2
<1>6. h = SubSeq(g, 1, b)
  BY <1>1, <1>3, <1>4, <1>5, SeqPart
<1> QED  BY <1>6 DEF g, h

\* And what is behind it.
LEMMA RowRest ==
  ASSUME NEW B \in Buffers, NEW t \in Ttys, NEW m \in Nat, m <= MAX_BUFFER_SIZE,
         NEW b \in 0..m
  PROVE  Row(B, t, m - b, b, 0) = SubSeq(Row(B, t, m, 0, 0), b + 1, m)
<1> DEFINE g == Row(B, t, m, 0, 0)
           h == Row(B, t, m - b, b, 0)
<1>1. g \in [1..m -> Byte] /\ h \in [1..(m - b) -> Byte]
  <2>1. /\ m \in Int /\ m - b \in Int /\ b \in Nat /\ 0 \in Nat /\ 0 \in Int
        /\ 0 + m <= MAX_BUFFER_SIZE /\ b + (m - b) <= MAX_BUFFER_SIZE
    BY TerminalAssumption
  <2> QED  BY <2>1, RowType
<1>2. ASSUME NEW k \in 1..(m - b)
      PROVE  h[k] = g[k + (b + 1) - 1]
  <2>1. h[k] = B[Cell(t, b + k - 1)]
    BY DEF Row
  <2>2. k + (b + 1) - 1 \in 1..m /\ 0 + (k + (b + 1) - 1) - 1 = b + k - 1
    OBVIOUS
  <2>3. ASSUME NEW i \in 1..m
        PROVE  g[i] = B[Cell(t, 0 + i - 1)]
    BY DEF Row
  <2> HIDE DEF g, h
  <2> QED  BY <2>1, <2>2, <2>3
<1> HIDE DEF g, h
<1>3. m - (b + 1) + 1 = m - b /\ b + 1 \in 1..(m + 1) /\ m \in 0..m
  OBVIOUS
<1>4. /\ h \in [1..(m - (b + 1) + 1) -> Byte]
      /\ \A k \in 1..(m - (b + 1) + 1) : h[k] = g[k + (b + 1) - 1]
  BY <1>1, <1>2, <1>3
<1>5. h = SubSeq(g, b + 1, m)
  BY <1>1, <1>3, <1>4, SeqPart
<1> QED  BY <1>5 DEF g, h

\* One step of the shift moves one character of the part and loses none.
LEMMA RowShift ==
  ASSUME NEW B, NEW D, NEW t \in Ttys, NEW m \in Int, NEW n \in Nat,
         n + m <= MAX_BUFFER_SIZE, NEW s \in Nat, s < m,
         NEW v, v = B[Cell(t, n + s)], Stored(B, D, t, s, v)
  PROVE  Row(D, t, m, n, s + 1) = Row(B, t, m, n, s)
<1>1. ASSUME NEW k \in 1..m
      PROVE  D[Cell(t, IF k <= s + 1 THEN k - 1 ELSE n + k - 1)] =
             B[Cell(t, IF k <= s THEN k - 1 ELSE n + k - 1)]
  <2>1. CASE k <= s
    <3>1. k - 1 \in Columns /\ k - 1 # s /\ k <= s + 1
      BY <2>1, TerminalAssumption DEF Columns
    <3> QED  BY <2>1, <3>1 DEF Stored
  <2>2. CASE k = s + 1
    <3>1. k - 1 \in Columns /\ k - 1 = s /\ ~(k <= s) /\ n + k - 1 = n + s
      BY <2>2, TerminalAssumption DEF Columns
    <3> QED  BY <2>2, <3>1 DEF Stored
  <2>3. CASE k > s + 1
    <3>1. n + k - 1 \in Columns /\ n + k - 1 # s /\ ~(k <= s) /\ ~(k <= s + 1)
      BY <2>3, TerminalAssumption DEF Columns
    <3> QED  BY <3>1 DEF Stored
  <2> QED  BY <2>1, <2>2, <2>3
<1> QED  BY <1>1 DEF Row

\* When all of the part has moved, it is the front of the row.
LEMMA RowMoved ==
  ASSUME NEW B, NEW t \in Ttys, NEW m \in Int, NEW n \in Nat, NEW s \in Int, m <= s
  PROVE  Row(B, t, m, 0, 0) = Row(B, t, m, n, s)
<1>1. ASSUME NEW k \in 1..m
      PROVE  (IF k <= s THEN k - 1 ELSE n + k - 1) = IF k <= 0 THEN k - 1 ELSE 0 + k - 1
  OBVIOUS
<1> QED  BY <1>1 DEF Row

-----------------------------------------------------------------------------
(***************************************************************************)
(* The lines of input                                                      *)
(***************************************************************************)
\* Until a key falls in a window or beyond a row, tail is an index of the row
\* or -1, the copy holds the row's first characters, the shift has passed the
\* last one when it ends, and tail is what terminal_read loaded.
LineOK(t) ==
  /\ tail[t] < MAX_BUFFER_SIZE
  /\ pc[t] = "copy" => frame[t].dest = Row(terminal_buffer, t, frame[t].i, 0, 0)
  /\ pc[t] \in {"load", "store"} => frame[t].i > tail[t]
  /\ pc[t] = "store" => frame[t].loaded = tail[t]

LineInv == Clean => \A t \in Ttys : LineOK(t)

\* What Inv and LineOK say of a terminal while no key has gone wrong.
LEMMA CleanFacts ==
  ASSUME Inv, Clean, NEW t \in Ttys, LineOK(t)
  PROVE  /\ MAX_BUFFER_SIZE \in Nat /\ MAX_BUFFER_SIZE > 0
         /\ tail[t] \in Int /\ tail[t] >= -1 /\ tail[t] < MAX_BUFFER_SIZE
         /\ frame[t].actual_copy \in Int /\ frame[t].i \in Int
         /\ frame[t].nbytes \in Nat /\ frame[t].dest \in Seq(Byte)
         /\ pc[t] \in Places /\ terminal_buffer \in Buffers
         /\ pc[t] = "bound" => tail[t] + 1 <= frame[t].nbytes
         /\ pc[t] \in Copying =>
              /\ frame[t].actual_copy >= 0 /\ frame[t].actual_copy <= tail[t] + 1
              /\ frame[t].actual_copy <= frame[t].nbytes
         /\ pc[t] = "copy" => frame[t].i >= 0 /\ frame[t].i <= frame[t].actual_copy
         /\ pc[t] \in {"shift", "load", "store"} =>
              Len(frame[t].dest) = frame[t].actual_copy + 1
         /\ pc[t] = "shift" => frame[t].i >= frame[t].actual_copy
         /\ Gone(t) \in Nat /\ Gone(t) <= tail[t] + 1
         /\ tail[t] + 1 - Gone(t) \in Nat
         /\ Gone(t) + (tail[t] + 1 - Gone(t)) <= MAX_BUFFER_SIZE
         /\ Moved(t) \in Int
<1> DEFINE f == frame[t]
<1>1. /\ MAX_BUFFER_SIZE \in Nat /\ MAX_BUFFER_SIZE > 0 /\ tail[t] \in Int
      /\ races = 0 /\ grown = 0 /\ f.races = 0 /\ f.nbytes \in Nat /\ f.actual_copy \in Int
      /\ f.loaded \in Int /\ f.i \in Int /\ f.dest \in Seq(Byte)
      /\ pc[t] \in Places /\ terminal_buffer \in Buffers
  BY Numbers, Types, TypeShape DEF Inv, InRange, Drift, Clean, Shape, Buffers
<1>2. tail[t] >= -1 /\ f.actual_copy >= 0
  BY <1>1, Numbers DEF InRange, Drift
<1>3. tail[t] < MAX_BUFFER_SIZE /\ (pc[t] = "store" => f.loaded = tail[t])
  BY DEF LineOK
<1>4. /\ pc[t] = "bound" => tail[t] + 1 <= f.nbytes
      /\ pc[t] \in Copying => f.actual_copy <= tail[t] + 1 /\ f.actual_copy <= f.nbytes
  BY <1>1, <1>3, Numbers DEF TakeInv, Drift, Raced, Copying
<1>5. /\ pc[t] = "copy" => f.i >= 0 /\ f.i <= f.actual_copy
      /\ pc[t] \in {"shift", "load", "store"} => Len(f.dest) = f.actual_copy + 1
      /\ pc[t] = "shift" => f.i >= f.actual_copy
  BY <1>1, <1>2, Numbers DEF CopyInv
<1>6. Gone(t) \in Int /\ Gone(t) >= 0 /\ Gone(t) <= tail[t] + 1 /\ Moved(t) \in Int
  BY <1>1, <1>2, <1>4 DEF Gone, Moved, Copying
<1>7. ASSUME NEW n \in Int, n = Gone(t)
      PROVE  n \in Nat /\ tail[t] + 1 - n \in Nat /\ n + (tail[t] + 1 - n) <= MAX_BUFFER_SIZE
  BY <1>1, <1>2, <1>3, <1>6, <1>7
<1> QED  BY <1>1, <1>2, <1>3, <1>4, <1>5, <1>6, <1>7

\* Writing one byte of a row changes that byte and no other of any row.
LEMMA WriteCell ==
  ASSUME NEW B \in Buffers, NEW D, NEW t \in Ttys, NEW j \in Columns, NEW v,
         Store(B, D, t, j, v)
  PROVE  Stored(B, D, t, j, v)
<1> SUFFICES ASSUME NEW u \in Ttys, NEW k \in Columns
             PROVE  D[Cell(u, k)] = IF u = t /\ k = j THEN v ELSE B[Cell(u, k)]
  BY DEF Stored
<1>1. Cell(u, k) \in Cells
  BY ColumnCell
<1>2. Cell(u, k) = Cell(t, j) => u = t /\ k = j
  BY CellInjective DEF Columns
<1> QED  BY <1>1, <1>2 DEF Buffers, Store

\* A terminal whose state and row a step leaves alone keeps its line.
LEMMA SameLine ==
  ASSUME Inv, Clean, NEW u \in Ttys, LineOK(u),
         tail'[u] = tail[u], frame'[u] = frame[u], pc'[u] = pc[u], got'[u] = got[u],
         \A k \in Columns : terminal_buffer'[Cell(u, k)] = terminal_buffer[Cell(u, k)]
  PROVE  Pending(u)' = Pending(u) /\ Taken(u)' = Taken(u) /\ LineOK(u)'
<1>1. Gone(u)' = Gone(u) /\ Moved(u)' = Moved(u)
  BY DEF Gone, Moved
<1>2. ASSUME NEW m \in Int, NEW n \in Nat, n + m <= MAX_BUFFER_SIZE, NEW s \in Int
      PROVE  Row(terminal_buffer', u, m, n, s) = Row(terminal_buffer, u, m, n, s)
  <2>1. Agree(terminal_buffer, terminal_buffer', u)
    BY DEF Agree
  <2>2. m \in Int /\ n \in Nat /\ n + m <= MAX_BUFFER_SIZE /\ s \in Int
    BY <1>2
  <2> QED  BY <2>1, <2>2, RowSame
<1>3. Pending(u)' = Pending(u)
  <2>1. /\ Gone(u) \in Nat /\ Moved(u) \in Int /\ tail[u] + 1 - Gone(u) \in Int
        /\ Gone(u) + (tail[u] + 1 - Gone(u)) <= MAX_BUFFER_SIZE
    BY CleanFacts
  <2> QED  BY <1>1, <1>2, <2>1 DEF Pending
<1>4. ASSUME pc[u] = "copy"
      PROVE  /\ Row(terminal_buffer', u, frame[u].actual_copy, 0, 0)
                  = Row(terminal_buffer, u, frame[u].actual_copy, 0, 0)
             /\ Row(terminal_buffer', u, frame[u].i, 0, 0)
                  = Row(terminal_buffer, u, frame[u].i, 0, 0)
  <2>1. /\ frame[u].actual_copy \in Int /\ frame[u].i \in Int /\ MAX_BUFFER_SIZE \in Nat
        /\ tail[u] \in Int
    BY CleanFacts
  <2>2. /\ frame[u].i <= frame[u].actual_copy
        /\ frame[u].actual_copy <= tail[u] + 1 /\ tail[u] < MAX_BUFFER_SIZE
    BY <1>4, CleanFacts DEF Copying
  <2>3. 0 + frame[u].actual_copy <= MAX_BUFFER_SIZE /\ 0 + frame[u].i <= MAX_BUFFER_SIZE
    BY <2>1, <2>2
  <2> QED  BY <1>2, <2>1, <2>3
<1>5. Taken(u)' = Taken(u)
  BY <1>4 DEF Taken
<1>6. LineOK(u)'
  BY <1>4 DEF LineOK
<1> QED  BY <1>3, <1>5, <1>6

\* What a step of terminal a, or a key typed there, does to all the lines.
OthersKept(a) ==
  \A u \in Ttys \ {a} :
    /\ tail'[u] = tail[u] /\ frame'[u] = frame[u] /\ pc'[u] = pc[u] /\ got'[u] = got[u]
    /\ \A k \in Columns : terminal_buffer'[Cell(u, k)] = terminal_buffer[Cell(u, k)]

OtherLinesKept(a) ==
  \A u \in Ttys \ {a} : Pending(u)' = Pending(u) /\ Taken(u)' = Taken(u)

LEMMA OtherLines ==
  ASSUME Inv, Clean, LineInv, NEW a \in Ttys, OthersKept(a), LineOK(a)'
  PROVE  LineInv' /\ OtherLinesKept(a)
<1>1. ASSUME NEW u \in Ttys, u # a
      PROVE  LineOK(u)' /\ Pending(u)' = Pending(u) /\ Taken(u)' = Taken(u)
  BY <1>1, SameLine DEF LineInv, OthersKept
<1>2. ASSUME NEW u \in Ttys PROVE LineOK(u)'
  BY <1>1
<1> QED  BY <1>1, <1>2 DEF LineInv, OtherLinesKept

\* The abstract steps, from what they do to the line of one terminal.
LEMMA AbstractType ==
  ASSUME NEW a \in Ttys, a = active_tty, active_tty' = a, NEW c \in Chars,
         OtherLinesKept(a), Pending(a)' = Append(Pending(a), c), Taken(a)' = Taken(a)
  PROVE  Abstract!Type(c)
BY DEF Abstract!Type, OtherLinesKept

LEMMA AbstractErase ==
  ASSUME NEW a \in Ttys, a = active_tty, active_tty' = a, Pending(a) # <<>>,
         OtherLinesKept(a), Taken(a)' = Taken(a),
         Pending(a)' = SubSeq(Pending(a), 1, Len(Pending(a)) - 1)
  PROVE  Abstract!Erase
BY DEF Abstract!Erase, OtherLinesKept

LEMMA AbstractRead ==
  ASSUME NEW a \in Ttys, a = active_tty, active_tty' = a, NEW n \in Lengths \cap Nat, NEW k,
         k = (IF n < Len(Pending(a)) THEN n ELSE Len(Pending(a))),
         OtherLinesKept(a), Taken(a)' = SubSeq(Pending(a), 1, k),
         Pending(a)' = SubSeq(Pending(a), k + 1, Len(Pending(a)))
  PROVE  Abstract!Read
BY DEF Abstract!Read, OtherLinesKept

LEMMA AbstractStutter ==
  ASSUME NEW a \in Ttys, UNCHANGED active_tty, OtherLinesKept(a),
         Pending(a)' = Pending(a), Taken(a)' = Taken(a)
  PROVE  UNCHANGED Abstract!vars
BY DEF Abstract!vars, OtherLinesKept

\* What a step has to do: keep the lines in order, and change them as the
\* abstract specification says or not at all.
LineStep == LineInv' /\ (Abstract!Next \/ UNCHANGED Abstract!vars)

\* A character typed is stored behind the row's last, which is behind the line's
\* last wherever the shift is, short of having passed it.
LEMMA KeyCharLine ==
  ASSUME Inv, LineInv, Clean', NEW c \in Chars, KeyChar(c), NEW a \in Ttys,
         a = active_tty
  PROVE  /\ LineStep
         /\ tail' # tail => Abstract!Type(c)
<1>1. Shape
  BY TypeShape DEF Inv
<1>2. CASE tail[a] >= MAX_BUFFER_SIZE
  <2>1. UNCHANGED vars
    BY <1>2, Numbers DEF KeyChar, vars, readVars
  <2> QED
    BY <2>1 DEF vars, readVars, LineStep, LineInv, LineOK, Clean, Pending, Gone, Moved,
       Taken, Abstract!vars
<1>3. CASE tail[a] < MAX_BUFFER_SIZE
  <2> DEFINE j == tail[a] + 1
  <2>1. /\ tail' = [tail EXCEPT ![a] = j]
        /\ terminal_buffer' = [terminal_buffer EXCEPT ![Cell(a, j)] = c]
        /\ UNCHANGED <<pc, frame, got, active_tty>>
    BY <1>3, Numbers DEF KeyChar, readVars
  <2>2. races = 0 /\ overflows = 0 /\ ~CharRaces(a) /\ j < MAX_BUFFER_SIZE
    <3>1. races \in Nat /\ overflows \in Nat /\ MAX_BUFFER_SIZE \in Nat /\ tail[a] \in Int
      BY <1>1, Numbers, TerminalAssumption DEF Shape
    <3> QED  BY <1>3, <3>1 DEF KeyChar, Race, Clean
  <2>3. Clean /\ LineOK(a)
    BY <1>3, <2>2 DEF Clean, LineInv, KeyChar
  <2>4. j \in Columns
    BY <2>2, <2>3, CleanFacts DEF Columns
  <2>5. Stored(terminal_buffer, terminal_buffer', a, j, c)
    <3>1. terminal_buffer \in Buffers
      BY <1>1 DEF Shape, Buffers
    <3>2. Store(terminal_buffer, terminal_buffer', a, j, c)
      BY <2>1 DEF Store
    <3> HIDE DEF j
    <3> QED  BY <2>4, <3>1, <3>2, WriteCell
  <2>6. tail'[a] = j
    BY <1>1, <2>1 DEF Shape
  <2>7. ASSUME NEW i \in Int, i <= frame[a].actual_copy, pc[a] = "copy"
        PROVE  Row(terminal_buffer', a, i, 0, 0) = Row(terminal_buffer, a, i, 0, 0)
    <3>1. \A k \in 1..i : k - 1 \in Columns /\ k - 1 # j
      <4>1. frame[a].actual_copy \in Int /\ tail[a] \in Int /\ MAX_BUFFER_SIZE \in Nat
        BY <2>3, CleanFacts
      <4>2. frame[a].actual_copy <= tail[a] + 1
        BY <2>3, <2>7, CleanFacts DEF Copying
      <4> QED  BY <2>2, <2>7, <4>1, <4>2 DEF Columns
    <3>2. \A k \in 1..i : ~(k <= 0) /\ 0 + k - 1 = k - 1
      OBVIOUS
    <3> QED  BY <2>5, <3>1, <3>2 DEF Row, Stored
  <2>8. LineOK(a)'
    <3>1. pc[a] \notin {"load", "store"}
      BY <2>2 DEF CharRaces
    <3>2. pc[a] = "copy" =>
            frame[a].dest = Row(terminal_buffer', a, frame[a].i, 0, 0)
      BY <2>3, <2>7, CleanFacts DEF LineOK
    <3> QED  BY <2>1, <2>2, <2>6, <3>1, <3>2 DEF LineOK
  <2>9. LineInv' /\ OtherLinesKept(a)
    <3>1. OthersKept(a)
      BY <1>1, <2>1, <2>5 DEF Shape, OthersKept, Stored
    <3> QED  BY <2>3, <2>8, <3>1, OtherLines
  <2>10. Taken(a)' = Taken(a)
    <3>1. pc[a] = "copy" => Row(terminal_buffer', a, frame[a].actual_copy, 0, 0)
                              = Row(terminal_buffer, a, frame[a].actual_copy, 0, 0)
      <4>1. frame[a].actual_copy \in Int /\ frame[a].actual_copy <= frame[a].actual_copy
        BY <2>3, CleanFacts
      <4> QED  BY <2>7, <4>1
    <3> QED  BY <2>1, <3>1 DEF Taken
  <2>11. Pending(a)' = Append(Pending(a), c)
    <3>1. /\ Gone(a) \in Nat /\ tail[a] + 1 - Gone(a) \in Nat /\ Moved(a) \in Int
          /\ tail[a] \in Int /\ frame[a].i \in Int /\ frame[a].actual_copy \in Int
          /\ MAX_BUFFER_SIZE \in Nat
      BY <2>3, CleanFacts
    <3>2. Moved(a) <= tail[a] + 1 - Gone(a)
      <4>1. pc[a] = "shift" => frame[a].i <= j
        BY <2>2, <3>1 DEF CharRaces
      <4> QED  BY <2>2, <3>1, <4>1 DEF Gone, Moved, CharRaces
    <3>3. ASSUME NEW n \in Nat, n = Gone(a), NEW s \in Int, s = Moved(a),
                 NEW m \in Nat, m = tail[a] + 1 - n
          PROVE  Pending(a)' = Append(Pending(a), c)
      <4>1. Gone(a)' = n /\ Moved(a)' = s
        BY <2>1, <3>3 DEF Gone, Moved
      <4>2. tail'[a] + 1 - n = m + 1 /\ n + m = j /\ n + m < MAX_BUFFER_SIZE /\ s <= m
        BY <2>2, <2>6, <3>1, <3>2, <3>3
      <4>3. Pending(a) = Row(terminal_buffer, a, m, n, s)
        BY <3>3 DEF Pending
      <4>4. Pending(a)' = Row(terminal_buffer', a, m + 1, n, s)
        BY <4>1, <4>2 DEF Pending
      <4>5. terminal_buffer \in Buffers /\ terminal_buffer' \in Buffers
        BY <1>1, <2>1 DEF Shape, Buffers, Byte
      <4>6. Extends(Row(terminal_buffer', a, m + 1, n, s), Row(terminal_buffer, a, m, n, s), c)
        <5>1. j = n + m /\ n + m < MAX_BUFFER_SIZE /\ s <= m
          BY <3>1, <4>2
        <5> HIDE DEF j
        <5> QED  BY <2>5, <4>5, <5>1, RowAppend
      <4> QED  BY <4>3, <4>4, <4>6 DEF Extends
    <3> QED  BY <3>1, <3>3
  <2>12. Abstract!Type(c)
    BY <2>1, <2>9, <2>10, <2>11, AbstractType
  <2> QED  BY <2>9, <2>12 DEF LineStep, Abstract!Next
<1> QED  BY <1>2, <1>3, Numbers

\* A character erased is the line's last: short of a race the row's last has
\* not been taken by the read.
LEMMA KeyBackspaceLine ==
  ASSUME Inv, LineInv, Clean', KeyBackspace, NEW a \in Ttys, a = active_tty
  PROVE  LineStep
<1>1. Shape
  BY TypeShape DEF Inv
<1>2. /\ tail[a] > -1 /\ tail' = [tail EXCEPT ![a] = @ - 1]
      /\ UNCHANGED <<terminal_buffer, pc, frame, got, active_tty>>
  BY DEF KeyBackspace, readVars
<1>3. races = 0 /\ overflows = 0 /\ ~BackspaceRaces(a)
  <2>1. races \in Nat /\ overflows \in Nat
    BY <1>1, Numbers, TerminalAssumption DEF Shape
  <2> QED  BY <2>1 DEF KeyBackspace, Race, Clean
<1>4. Clean /\ LineOK(a)
  BY <1>3 DEF Clean, LineInv, KeyBackspace
<1>5. tail'[a] = tail[a] - 1
  BY <1>1, <1>2 DEF Shape
<1>6. /\ Gone(a) \in Nat /\ tail[a] + 1 - Gone(a) \in Nat /\ Moved(a) \in Int
      /\ tail[a] \in Int /\ frame[a].i \in Int /\ frame[a].actual_copy \in Int
      /\ MAX_BUFFER_SIZE \in Nat /\ terminal_buffer \in Buffers
      /\ Gone(a) + (tail[a] + 1 - Gone(a)) <= MAX_BUFFER_SIZE
  BY <1>4, CleanFacts
<1>7. LineOK(a)'
  <2>1. tail'[a] < MAX_BUFFER_SIZE
    BY <1>4, <1>5, <1>6 DEF LineOK
  <2>2. pc[a] # "store"
    BY <1>3 DEF BackspaceRaces
  <2>3. pc[a] = "load" => frame[a].i > tail'[a]
    BY <1>4, <1>5, <1>6 DEF LineOK
  <2> QED  BY <1>2, <1>4, <2>1, <2>2, <2>3 DEF LineOK
<1>8. LineInv' /\ OtherLinesKept(a)
  BY <1>1, <1>2, <1>4, <1>7, OtherLines DEF Shape, OthersKept
<1>9. Taken(a)' = Taken(a)
  BY <1>2 DEF Taken
<1>10. Gone(a) <= tail[a]
  BY <1>2, <1>3, <1>6 DEF Gone, BackspaceRaces
<1>11. ASSUME NEW n \in Nat, n = Gone(a), NEW s \in Int, s = Moved(a),
              NEW m \in Nat, m = tail[a] + 1 - n
       PROVE  /\ Pending(a) # <<>>
              /\ Pending(a)' = SubSeq(Pending(a), 1, Len(Pending(a)) - 1)
  <2>1. Gone(a)' = n /\ Moved(a)' = s
    BY <1>2, <1>11 DEF Gone, Moved
  <2>2. tail'[a] + 1 - n = m - 1 /\ m > 0 /\ n + m <= MAX_BUFFER_SIZE /\ m - 1 \in 0..m
    BY <1>5, <1>6, <1>10, <1>11
  <2>3. Pending(a) = Row(terminal_buffer, a, m, n, s)
    BY <1>11 DEF Pending
  <2>4. Pending(a)' = Row(terminal_buffer, a, m - 1, n, s)
    BY <1>2, <2>1, <2>2 DEF Pending
  <2>5. Len(Row(terminal_buffer, a, m, n, s)) = m
    BY <1>6, <2>2, RowSeq
  <2>6. Row(terminal_buffer, a, m - 1, n, s)
          = SubSeq(Row(terminal_buffer, a, m, n, s), 1, m - 1)
    <3>1. terminal_buffer \in Buffers /\ n + m <= MAX_BUFFER_SIZE /\ m - 1 \in 0..m
      BY <1>6, <2>2
    <3> QED  BY <3>1, RowFront, Zenon
  <2>7. Len(<<>>) = 0 /\ m # 0
    BY <2>2
  <2>8. Pending(a) # <<>>
    BY <2>3, <2>5, <2>7
  <2> QED  BY <2>3, <2>4, <2>5, <2>6, <2>8
<1>12. Pending(a) # <<>> /\ Pending(a)' = SubSeq(Pending(a), 1, Len(Pending(a)) - 1)
  BY <1>6, <1>11
<1>13. Abstract!Erase
  BY <1>2, <1>8, <1>9, <1>12, AbstractErase
<1> QED  BY <1>8, <1>13 DEF LineStep, Abstract!Next

\* Enter and a switch touch no line.
LEMMA KeyOtherLine ==
  ASSUME Inv, LineInv, Clean', KeyEnter \/ \E t \in Ttys : KeySwitch(t)
  PROVE  LineStep
<1>1. Shape
  BY TypeShape DEF Inv
<1>2. UNCHANGED <<terminal_buffer, tail, pc, frame, got>> /\ active_tty' \in Ttys
  BY <1>1 DEF KeyEnter, KeySwitch, readVars, Shape
<1>3. /\ LineInv'
      /\ \A u \in Ttys : Pending(u)' = Pending(u) /\ Taken(u)' = Taken(u)
  <2>1. Clean
    <3>1. races \in Nat /\ overflows \in Nat
      BY <1>1, TerminalAssumption DEF Shape
    <3> QED  BY <3>1 DEF KeyEnter, KeySwitch, Race, Clean
  <2> QED  BY <1>2, <2>1 DEF LineInv, LineOK, Pending, Taken, Gone, Moved
<1>4. Abstract!Switch
  BY <1>2, <1>3 DEF Abstract!Switch
<1> QED  BY <1>3, <1>4 DEF LineStep, Abstract!Next

\* A step of terminal a's read leaves the other terminals alone, and the buffer
\* too unless it is one of the shift.
LEMMA ReaderOthers ==
  ASSUME Shape, NEW a \in Ttys, Reader(a) \/ \E n \in Lengths : Call(a, n)
  PROVE  /\ a = active_tty /\ active_tty' = a /\ races' = races /\ overflows' = overflows
         /\ grown' = 0 => grown = 0
         /\ \A u \in Ttys \ {a} :
              tail'[u] = tail[u] /\ frame'[u] = frame[u] /\ pc'[u] = pc[u] /\ got'[u] = got[u]
         /\ terminal_buffer' = terminal_buffer \/ Shift(a)
<1>1. a = active_tty /\ active_tty' = a /\ races' = races /\ overflows' = overflows
  BY DEF Reader, Spin, ClearEnter, CheckEmpty, Compare, Bound, Copy, Shift, LoadTail,
     StoreTail, Call, At, keyVars
<1>5. grown' = 0 => grown = 0
  <2>1. CASE Reader(a)
    BY <2>1 DEF Reader, Spin, ClearEnter, CheckEmpty, Compare, Bound, Copy, Shift, LoadTail,
       StoreTail, keyVars
  <2>2. ASSUME NEW n \in Lengths, Call(a, n) PROVE grown' = 0 => grown = 0
    <3>1. n \in Int /\ grown \in Nat
      BY TerminalAssumption DEF Shape
    <3>2. grown' = grown + (IF n < 0 THEN -n ELSE 0)
      BY <2>2 DEF Call
    <3> QED  BY <3>1, <3>2
  <2> QED  BY <2>1, <2>2
<1>2. ASSUME NEW u \in Ttys, u # a
      PROVE  tail'[u] = tail[u] /\ pc'[u] = pc[u] /\ got'[u] = got[u]
  BY <1>2 DEF Reader, Spin, ClearEnter, CheckEmpty, Compare, Bound, Copy, Shift, LoadTail,
     StoreTail, Call, Goto, Return, Shape
<1>3. ASSUME NEW u \in Ttys, u # a
      PROVE  frame'[u] = frame[u]
  BY <1>3 DEF Reader, Spin, ClearEnter, CheckEmpty, Compare, Bound, Copy, Shift, LoadTail,
     StoreTail, Call, Return, Shape
<1>4. terminal_buffer' = terminal_buffer \/ Shift(a)
  BY DEF Reader, Spin, ClearEnter, CheckEmpty, Compare, Bound, Copy, LoadTail, StoreTail,
     Call
<1> QED  BY <1>1, <1>2, <1>3, <1>4, <1>5

\* A step that does not touch the buffer leaves the other lines alone.
LEMMA ReaderLine ==
  ASSUME Inv, LineInv, Clean', NEW a \in Ttys,
         Reader(a) \/ \E n \in Lengths : Call(a, n),
         terminal_buffer' = terminal_buffer, LineOK(a)'
  PROVE  LineInv' /\ OtherLinesKept(a) /\ a = active_tty /\ active_tty' = a
<1>1. Shape
  BY TypeShape DEF Inv
<1>2. Clean
  BY <1>1, ReaderOthers DEF Clean
<1>3. OthersKept(a) /\ a = active_tty /\ active_tty' = a
  BY <1>1, ReaderOthers DEF OthersKept
<1> QED  BY <1>2, <1>3, OtherLines

\* A step that also leaves its own line alone is no step of the abstract
\* specification.
LEMMA ReaderStutters ==
  ASSUME Inv, LineInv, Clean', NEW a \in Ttys,
         Reader(a) \/ \E n \in Lengths : Call(a, n),
         terminal_buffer' = terminal_buffer, LineOK(a)',
         Pending(a)' = Pending(a), Taken(a)' = Taken(a)
  PROVE  LineStep
<1>1. LineInv' /\ OtherLinesKept(a) /\ a = active_tty /\ active_tty' = a
  BY ReaderLine
<1> QED  BY <1>1, AbstractStutter DEF LineStep

\* The steps before actual_copy is computed.
LEMMA EarlyLine ==
  ASSUME Inv, LineInv, Clean', NEW a \in Ttys,
         Reader(a) \/ \E n \in Lengths : Call(a, n),
         pc[a] \in Early, pc'[a] \in Early,
         tail' = tail, got' = got, terminal_buffer' = terminal_buffer
  PROVE  LineStep
<1>1. Clean
  BY TypeShape, ReaderOthers DEF Inv, Clean
<1>2. LineOK(a)'
  BY <1>1 DEF LineInv, LineOK, Early
<1>3. Pending(a)' = Pending(a) /\ Taken(a)' = Taken(a)
  BY DEF Pending, Gone, Moved, Taken, Early
<1> QED  BY <1>2, <1>3, ReaderStutters

LEMMA WaitLine ==
  ASSUME Inv, LineInv, Clean', NEW a \in Ttys,
         Spin(a) \/ ClearEnter(a) \/ \E n \in Lengths : Call(a, n)
  PROVE  LineStep
<1>1. Shape
  BY TypeShape DEF Inv
<1>2. pc[a] \in Early /\ pc'[a] \in Early
  BY <1>1 DEF Spin, ClearEnter, Call, At, Goto, Early, Shape
<1>3. tail' = tail /\ got' = got /\ terminal_buffer' = terminal_buffer
  BY DEF Spin, ClearEnter, Call
<1> QED  BY <1>2, <1>3, EarlyLine DEF Reader

\* What actual_copy takes, and what an empty line returns, is the front of the
\* line, as long as it is and as long as was asked for.
LEMMA TakeLine ==
  ASSUME Inv, LineInv, Clean', NEW a \in Ttys, Reader(a),
         pc[a] \in {"check", "compare", "bound"},
         tail' = tail, terminal_buffer' = terminal_buffer, LineOK(a)',
         NEW k \in Nat, NEW m \in Nat, m = tail[a] + 1,
         k = (IF frame[a].nbytes < m THEN frame[a].nbytes ELSE m),
         Gone(a)' = k, Moved(a)' = 0, Taken(a)' = Row(terminal_buffer, a, k, 0, 0)
  PROVE  LineStep
<1>1. Clean
  BY TypeShape, ReaderOthers DEF Inv, Clean
<1>2. /\ m <= MAX_BUFFER_SIZE /\ MAX_BUFFER_SIZE \in Nat /\ terminal_buffer \in Buffers
      /\ frame[a].nbytes \in Nat
  BY <1>1, CleanFacts DEF LineInv
<1>3. frame[a].nbytes \in Lengths
  BY Numbers DEF CopyInv
<1>4. Pending(a) = Row(terminal_buffer, a, m, 0, 0)
  BY DEF Pending, Gone, Moved
<1>5. k \in 0..m /\ 0 + m <= MAX_BUFFER_SIZE
  BY <1>2
<1>6. Len(Row(terminal_buffer, a, m, 0, 0)) = m
  BY <1>2, <1>5, RowSeq
<1>7. Row(terminal_buffer, a, k, 0, 0) = SubSeq(Row(terminal_buffer, a, m, 0, 0), 1, k)
  BY <1>2, <1>5, RowFront
<1>8. Row(terminal_buffer, a, m - k, k, 0)
        = SubSeq(Row(terminal_buffer, a, m, 0, 0), k + 1, m)
  BY <1>2, <1>5, RowRest
<1>9. Pending(a)' = Row(terminal_buffer, a, m - k, k, 0)
  <2>1. tail'[a] + 1 = m
    OBVIOUS
  <2>2. tail'[a] \in Int /\ m \in Int /\ k \in Int
    BY Numbers
  <2>3. ASSUME NEW x \in Int, x + 1 = m PROVE x + 1 - k = m - k
    BY <2>3
  <2> QED  BY <2>1, <2>2, <2>3 DEF Pending
<1>10. /\ Taken(a)' = SubSeq(Pending(a), 1, k)
       /\ Pending(a)' = SubSeq(Pending(a), k + 1, Len(Pending(a)))
       /\ k = (IF frame[a].nbytes < Len(Pending(a)) THEN frame[a].nbytes
               ELSE Len(Pending(a)))
  BY <1>4, <1>6, <1>7, <1>8, <1>9
<1>11. LineInv' /\ OtherLinesKept(a) /\ a = active_tty /\ active_tty' = a
  BY ReaderLine
<1>12. Abstract!Read
  BY <1>2, <1>3, <1>10, <1>11, AbstractRead
<1> QED  BY <1>11, <1>12 DEF LineStep, Abstract!Next

LEMMA CheckEmptyLine ==
  ASSUME Inv, LineInv, Clean', NEW a \in Ttys, CheckEmpty(a)
  PROVE  LineStep
<1>1. Shape
  BY TypeShape DEF Inv
<1>2. /\ pc[a] = "check" /\ tail' = tail /\ terminal_buffer' = terminal_buffer
      /\ Reader(a)
  BY DEF CheckEmpty, At, Reader
<1>3. Clean
  BY <1>1, <1>2, ReaderOthers DEF Clean
<1>4. CASE tail[a] # -1
  <2>1. got' = got /\ pc'[a] = "compare"
    BY <1>1, <1>4 DEF CheckEmpty, Goto, Shape
  <2> QED  BY <1>2, <2>1, EarlyLine DEF Early
<1>5. CASE tail[a] = -1
  <2>1. pc'[a] = "user" /\ got'[a] = <<>>
    BY <1>1, <1>5 DEF CheckEmpty, Goto, Return, Shape
  <2>2. LineOK(a)'
    BY <1>2, <1>3, <2>1 DEF LineInv, LineOK
  <2>3. Gone(a)' = 0 /\ Moved(a)' = 0 /\ Taken(a)' = <<>>
    BY <2>1 DEF Gone, Moved, Taken
  <2>4. 0 = tail[a] + 1 /\ 0 = (IF frame[a].nbytes < 0 THEN frame[a].nbytes ELSE 0)
    BY <1>3, <1>5, Numbers DEF InRange, Clean
  <2>5. Row(terminal_buffer, a, 0, 0, 0) = <<>>
    BY DEF Row
  <2> QED  BY <1>2, <2>2, <2>3, <2>4, <2>5, TakeLine
<1> QED  BY <1>4, <1>5

\* actual_copy computed, in either branch.
LEMMA ActualCopyLine ==
  ASSUME Inv, LineInv, Clean', NEW a \in Ttys, Reader(a),
         pc[a] \in {"compare", "bound"}, pc'[a] = "copy",
         tail' = tail, terminal_buffer' = terminal_buffer,
         NEW k \in Nat, NEW m \in Nat, m = tail[a] + 1,
         k = (IF frame[a].nbytes < m THEN frame[a].nbytes ELSE m),
         frame'[a].actual_copy = k, frame'[a].i = frame[a].i,
         frame'[a].dest = frame[a].dest
  PROVE  LineStep
<1>1. Clean
  BY TypeShape, ReaderOthers DEF Inv, Clean
<1>2. frame[a].i = 0 /\ frame[a].dest = <<>>
  BY Numbers DEF CopyInv, Early
<1>3. Row(terminal_buffer, a, 0, 0, 0) = <<>>
  BY DEF Row
<1>4. LineOK(a)'
  BY <1>1, <1>2, <1>3 DEF LineInv, LineOK
<1>5. /\ Gone(a)' = k /\ Moved(a)' = 0
      /\ Taken(a)' = Row(terminal_buffer, a, k, 0, 0)
  BY DEF Gone, Moved, Taken
<1> QED  BY <1>4, <1>5, TakeLine

LEMMA CompareLine ==
  ASSUME Inv, LineInv, Clean', NEW a \in Ttys, Compare(a)
  PROVE  LineStep
<1>1. Shape
  BY TypeShape DEF Inv
<1>2. /\ pc[a] = "compare" /\ tail' = tail /\ terminal_buffer' = terminal_buffer
      /\ got' = got /\ Reader(a)
  BY DEF Compare, At, Reader
<1>3. frame[a].nbytes \in Nat /\ tail[a] \in Int /\ frame[a] \in Frames
  <2>1. grown = 0
    BY <1>1, <1>2, ReaderOthers DEF Clean
  <2> QED  BY <1>1, <2>1, Numbers DEF Shape, InRange
<1>4. CASE frame[a].nbytes >= tail[a] + 1
  <2>1. pc'[a] = "bound"
    BY <1>1, <1>3, <1>4 DEF Compare, Goto, Shape
  <2> QED  BY <1>2, <2>1, EarlyLine DEF Early
<1>5. CASE frame[a].nbytes < tail[a] + 1
  <2>4. ~(frame[a].nbytes >= tail[a] + 1)
    BY <1>3, <1>5
  <2>1. pc'[a] = "copy" /\ frame'[a] = [frame[a] EXCEPT !.actual_copy = frame[a].nbytes]
    BY <1>1, <2>4 DEF Compare, Goto, Shape
  <2>2. /\ frame'[a].actual_copy = frame[a].nbytes /\ frame'[a].i = frame[a].i
        /\ frame'[a].dest = frame[a].dest
    BY <1>3, <2>1 DEF Frames
  <2>3. tail[a] + 1 \in Nat
    BY <1>3, <1>5
  <2> QED  BY <1>2, <1>3, <1>5, <2>1, <2>2, <2>3, ActualCopyLine
<1> QED  BY <1>3, <1>4, <1>5

LEMMA BoundLine ==
  ASSUME Inv, LineInv, Clean', NEW a \in Ttys, Bound(a)
  PROVE  LineStep
<1>1. Shape
  BY TypeShape DEF Inv
<1>2. /\ pc[a] = "bound" /\ tail' = tail /\ terminal_buffer' = terminal_buffer
      /\ Reader(a)
  BY DEF Bound, At, Reader
<1>3. Clean /\ LineOK(a) /\ frame[a] \in Frames
  BY <1>1, <1>2, ReaderOthers DEF Clean, LineInv, Shape
<1>4. pc'[a] = "copy" /\ frame'[a] = [frame[a] EXCEPT !.actual_copy = tail[a] + 1]
  BY <1>1 DEF Bound, Goto, Shape
<1>5. /\ frame'[a].actual_copy = tail[a] + 1 /\ frame'[a].i = frame[a].i
      /\ frame'[a].dest = frame[a].dest
  BY <1>3, <1>4 DEF Frames
<1>6. tail[a] + 1 <= frame[a].nbytes /\ tail[a] \in Int /\ tail[a] >= -1
      /\ frame[a].nbytes \in Nat
  BY <1>2, <1>3, CleanFacts
<1>7. /\ tail[a] + 1 \in Nat
      /\ tail[a] + 1 = IF frame[a].nbytes < tail[a] + 1 THEN frame[a].nbytes
                       ELSE tail[a] + 1
  BY <1>6
<1> QED  BY <1>2, <1>4, <1>5, <1>7, ActualCopyLine

\* The copy reads the characters already taken; the NUL behind them is not one.
LEMMA CopyLine ==
  ASSUME Inv, LineInv, Clean', NEW a \in Ttys, Copy(a)
  PROVE  LineStep
<1> DEFINE f == frame[a]
<1>1. Shape
  BY TypeShape DEF Inv
<1>2. /\ pc[a] = "copy" /\ tail' = tail /\ terminal_buffer' = terminal_buffer
      /\ got' = got /\ Reader(a)
  BY DEF Copy, At, Reader
<1>3. Clean /\ LineOK(a) /\ f \in Frames
  BY <1>1, <1>2, ReaderOthers DEF Clean, LineInv, Shape
<1>4. /\ f.i \in Nat /\ f.actual_copy \in Int /\ f.i <= f.actual_copy
      /\ f.actual_copy <= tail[a] + 1 /\ tail[a] \in Int /\ tail[a] < MAX_BUFFER_SIZE
      /\ MAX_BUFFER_SIZE \in Nat /\ terminal_buffer \in Buffers
  BY <1>2, <1>3, CleanFacts DEF Copying
<1>5. f.dest = Row(terminal_buffer, a, f.i, 0, 0)
  BY <1>2, <1>3 DEF LineOK
<1>6. CASE /\ f.i <= f.actual_copy - 1
           /\ frame' = [frame EXCEPT
                         ![a].dest = Append(@, terminal_buffer[Cell(a, f.i)]),
                         ![a].i = @ + 1]
           /\ UNCHANGED pc
  <2> DEFINE c == terminal_buffer[Cell(a, f.i)]
             d == Append(f.dest, c)
  <2>1. frame'[a] = [f EXCEPT !.dest = d, !.i = f.i + 1] /\ pc' = pc
    BY <1>1, <1>6 DEF Shape
  <2>2. frame'[a].actual_copy = f.actual_copy /\ frame'[a].i = f.i + 1 /\ frame'[a].dest = d
    <3> HIDE DEF d
    <3> QED  BY <1>3, <2>1 DEF Frames
  <2>3. Row(terminal_buffer, a, f.i + 1, 0, 0) = d
    <3>1. /\ 0 + f.i < MAX_BUFFER_SIZE /\ 0 \in Nat /\ 0 \in Int /\ 0 <= f.i
          /\ f.i = 0 + f.i
      BY <1>4, <1>6
    <3>2. Stored(terminal_buffer, terminal_buffer, a, f.i, c)
      BY DEF Stored
    <3>3. Extends(Row(terminal_buffer, a, f.i + 1, 0, 0),
                  Row(terminal_buffer, a, f.i, 0, 0), c)
      <4> HIDE DEF c, f
      <4> QED  BY <1>4, <3>1, <3>2, RowAppend
    <3> QED  BY <1>5, <3>3 DEF Extends
  <2> HIDE DEF d, f
  <2>4. LineOK(a)'
    BY <1>2, <1>3, <2>1, <2>2, <2>3 DEF LineOK
  <2>5. Pending(a)' = Pending(a) /\ Taken(a)' = Taken(a)
    BY <1>2, <2>1, <2>2 DEF Pending, Gone, Moved, Taken, f
  <2> QED  BY <1>2, <2>4, <2>5, ReaderStutters
<1>7. CASE /\ f.i > f.actual_copy - 1
           /\ frame' = [frame EXCEPT ![a].dest = Append(@, Zero),
                                     ![a].i = f.actual_copy]
           /\ Goto(a, "shift")
  <2> DEFINE d == Append(f.dest, Zero)
  <2>1. frame'[a] = [f EXCEPT !.dest = d, !.i = f.actual_copy] /\ pc'[a] = "shift"
    BY <1>1, <1>7 DEF Goto, Shape
  <2>2. /\ frame'[a].actual_copy = f.actual_copy /\ frame'[a].i = f.actual_copy
        /\ frame'[a].dest = d
    <3> HIDE DEF d
    <3> QED  BY <1>3, <2>1 DEF Frames
  <2>3. f.i = f.actual_copy
    BY <1>4, <1>7
  <2>4. SubSeq(d, 1, f.i) = f.dest
    <3>1. f.dest \in Seq(Byte) /\ Len(f.dest) = f.i
      <4>1. 0 + f.i <= MAX_BUFFER_SIZE /\ 0 \in Nat /\ 0 \in Int
        BY <1>4
      <4> QED  BY <1>4, <1>5, <4>1, RowSeq
    <3>2. ASSUME NEW g \in Seq(Byte)
          PROVE  SubSeq(Append(g, Zero), 1, Len(g)) = g
      <4>1. Append(g, Zero) \in Seq(Byte) /\ Len(Append(g, Zero)) = Len(g) + 1
        BY DEF Byte
      <4>2. \A k \in 1..Len(g) : Append(g, Zero)[k] = g[k]
        OBVIOUS
      <4> QED  BY <4>1, <4>2
    <3> QED  BY <3>1, <3>2
  <2> HIDE DEF d
  <2>5. LineOK(a)'
    BY <1>2, <1>3, <2>1 DEF LineOK
  <2>6. Taken(a)' = SubSeq(d, 1, f.i)
    BY <2>1, <2>2, <2>3 DEF Taken
  <2>7. Taken(a)' = Taken(a)
    BY <1>2, <1>5, <2>3, <2>4, <2>6 DEF Taken
  <2>8. Pending(a)' = Pending(a)
    <3>1. Gone(a)' = Gone(a) /\ Moved(a)' = Moved(a)
      BY <1>2, <1>4, <2>1, <2>2 DEF Gone, Moved
    <3> QED  BY <1>2, <3>1 DEF Pending
  <2> QED  BY <1>2, <2>5, <2>7, <2>8, ReaderStutters
<1> QED  BY <1>6, <1>7 DEF Copy

\* The shift writes where nothing of the line is any more.
LEMMA ShiftLine ==
  ASSUME Inv, LineInv, Clean', NEW a \in Ttys, Shift(a)
  PROVE  LineStep
<1> DEFINE f == frame[a]
<1>1. Shape
  BY TypeShape DEF Inv
<1>2. /\ pc[a] = "shift" /\ tail' = tail /\ got' = got /\ Reader(a)
  BY DEF Shift, At, Reader
<1>3. Clean /\ LineOK(a) /\ f \in Frames
  BY <1>1, <1>2, ReaderOthers DEF Clean, LineInv, Shape
<1>4. /\ f.i \in Int /\ f.actual_copy \in Nat /\ f.i >= f.actual_copy
      /\ tail[a] \in Int /\ tail[a] < MAX_BUFFER_SIZE /\ f.actual_copy <= tail[a] + 1
      /\ MAX_BUFFER_SIZE \in Nat /\ terminal_buffer \in Buffers
  BY <1>2, <1>3, CleanFacts DEF Copying
<1>5. CASE f.i > tail[a] /\ Goto(a, "load") /\ UNCHANGED <<terminal_buffer, frame>>
  <2>1. terminal_buffer' = terminal_buffer /\ frame' = frame /\ pc'[a] = "load"
    BY <1>1, <1>5 DEF Goto, Shape
  <2>2. LineOK(a)'
    BY <1>2, <1>3, <1>5, <2>1 DEF LineOK
  <2>3. Pending(a)' = Pending(a) /\ Taken(a)' = Taken(a)
    BY <1>2, <2>1 DEF Pending, Gone, Moved, Taken
  <2> QED  BY <1>2, <2>1, <2>2, <2>3, ReaderStutters
<1>6. CASE /\ f.i <= tail[a]
           /\ terminal_buffer' = [terminal_buffer EXCEPT
                                    ![Cell(a, f.i - f.actual_copy)] =
                                      terminal_buffer[Cell(a, f.i)]]
           /\ frame' = [frame EXCEPT ![a].i = @ + 1]
           /\ UNCHANGED pc
  <2> DEFINE s == f.i - f.actual_copy
             v == terminal_buffer[Cell(a, f.i)]
  <2>1. /\ terminal_buffer' = [terminal_buffer EXCEPT ![Cell(a, s)] = v]
        /\ frame'[a] = [f EXCEPT !.i = f.i + 1] /\ pc' = pc
    BY <1>1, <1>6 DEF Shape
  <2>2. frame'[a].actual_copy = f.actual_copy /\ frame'[a].i = f.i + 1
        /\ frame'[a].dest = f.dest
    BY <1>3, <2>1 DEF Frames
  <2>3. s \in Columns /\ s \in Nat
    BY <1>4, <1>6 DEF Columns
  <2>4. Stored(terminal_buffer, terminal_buffer', a, s, v)
    <3>1. Store(terminal_buffer, terminal_buffer', a, s, v)
      BY <2>1 DEF Store
    <3> HIDE DEF s, v
    <3> QED  BY <1>4, <2>3, <3>1, WriteCell
  <2>5. LineOK(a)'
    BY <1>2, <1>3, <2>1 DEF LineOK
  <2>6. LineInv' /\ OtherLinesKept(a) /\ active_tty' = active_tty
    <3>1. OthersKept(a) /\ active_tty' = active_tty
      BY <1>1, <1>2, <2>4, ReaderOthers DEF OthersKept, Stored
    <3> QED  BY <1>3, <2>5, <3>1, OtherLines
  <2>7. Taken(a)' = Taken(a)
    BY <1>2, <2>1, <2>2 DEF Taken
  <2>8. Pending(a)' = Pending(a)
    <3>1. Gone(a) = f.actual_copy /\ Moved(a) = s
      BY <1>2 DEF Gone, Moved
    <3>2. Gone(a)' = f.actual_copy /\ Moved(a)' = s + 1
      BY <1>2, <1>4, <2>1, <2>2 DEF Gone, Moved
    <3>3. ASSUME NEW n \in Nat, n = f.actual_copy, NEW q \in Nat, q = s,
                 NEW m \in Int, m = tail[a] + 1 - n
          PROVE  Pending(a)' = Pending(a)
      <4>1. Pending(a) = Row(terminal_buffer, a, m, n, q)
        BY <3>1, <3>3 DEF Pending
      <4>2. Pending(a)' = Row(terminal_buffer', a, m, n, q + 1)
        BY <1>2, <3>2, <3>3 DEF Pending
      <4>3. n + m <= MAX_BUFFER_SIZE /\ q < m /\ n + q = f.i
        BY <1>4, <1>6, <3>3
      <4>4. Stored(terminal_buffer, terminal_buffer', a, q, v)
        BY <2>4, <3>3
      <4>5. v = terminal_buffer[Cell(a, n + q)]
        BY <4>3
      <4>6. Row(terminal_buffer', a, m, n, q + 1) = Row(terminal_buffer, a, m, n, q)
        <5> HIDE DEF v, f
        <5> QED  BY <4>3, <4>4, <4>5, RowShift
      <4> QED  BY <4>1, <4>2, <4>6
    <3>4. tail[a] + 1 - f.actual_copy \in Int
      BY <1>4
    <3> HIDE DEF s, f
    <3> QED  BY <1>4, <2>3, <3>3, <3>4
  <2> QED  BY <2>6, <2>7, <2>8, AbstractStutter DEF LineStep
<1> QED  BY <1>5, <1>6 DEF Shift

LEMMA LoadTailLine ==
  ASSUME Inv, LineInv, Clean', NEW a \in Ttys, LoadTail(a)
  PROVE  LineStep
<1>1. Shape
  BY TypeShape DEF Inv
<1>2. /\ pc[a] = "load" /\ tail' = tail /\ terminal_buffer' = terminal_buffer
      /\ got' = got /\ Reader(a)
  BY DEF LoadTail, At, Reader
<1>3. Clean /\ LineOK(a) /\ frame[a] \in Frames
  BY <1>1, <1>2, ReaderOthers DEF Clean, LineInv, Shape
<1>4. pc'[a] = "store" /\ frame'[a] = [frame[a] EXCEPT !.loaded = tail[a]]
  BY <1>1 DEF LoadTail, Goto, Shape
<1>5. /\ frame'[a].loaded = tail[a] /\ frame'[a].i = frame[a].i
      /\ frame'[a].actual_copy = frame[a].actual_copy /\ frame'[a].dest = frame[a].dest
  BY <1>3, <1>4 DEF Frames
<1>6. LineOK(a)'
  BY <1>2, <1>3, <1>4, <1>5 DEF LineOK
<1>7. Pending(a)' = Pending(a) /\ Taken(a)' = Taken(a)
  BY <1>2, <1>4, <1>5 DEF Pending, Gone, Moved, Taken
<1> QED  BY <1>2, <1>6, <1>7, ReaderStutters

\* With all of the line at the front, tail is its last character again.
LEMMA StoreTailLine ==
  ASSUME Inv, LineInv, Clean', NEW a \in Ttys, StoreTail(a)
  PROVE  LineStep
<1> DEFINE f == frame[a]
<1>1. Shape
  BY TypeShape DEF Inv
<1>2. pc[a] = "store" /\ terminal_buffer' = terminal_buffer /\ Reader(a)
  BY DEF StoreTail, At, Reader
<1>3. Clean /\ LineOK(a)
  BY <1>1, <1>2, ReaderOthers DEF Clean, LineInv
<1>4. /\ pc'[a] = "user" /\ tail'[a] = f.loaded - f.actual_copy
      /\ got'[a] = SubSeq(f.dest, 1, Len(f.dest) - 1)
  BY <1>1 DEF StoreTail, Return, Goto, Shape
<1>5. f.loaded = tail[a] /\ f.i > tail[a]
  BY <1>2, <1>3 DEF LineOK
<1>6. /\ f.i \in Int /\ f.actual_copy \in Nat /\ tail[a] \in Int
      /\ tail[a] < MAX_BUFFER_SIZE /\ MAX_BUFFER_SIZE \in Nat
      /\ Len(f.dest) = f.actual_copy + 1 /\ f.actual_copy <= tail[a] + 1
  BY <1>2, <1>3, CleanFacts DEF Copying
<1>7. LineOK(a)'
  BY <1>4, <1>5, <1>6 DEF LineOK
<1>8. Taken(a)' = Taken(a)
  <2>1. Len(f.dest) - 1 = f.actual_copy
    BY <1>6
  <2> QED  BY <1>2, <1>4, <2>1 DEF Taken
<1>9. Pending(a)' = Pending(a)
  <2>1. Gone(a) = f.actual_copy /\ Moved(a) = f.i - f.actual_copy
    BY <1>2 DEF Gone, Moved
  <2>2. Gone(a)' = 0 /\ Moved(a)' = 0
    BY <1>4 DEF Gone, Moved
  <2>3. ASSUME NEW n \in Nat, n = f.actual_copy, NEW s \in Int, s = f.i - n,
               NEW m \in Int, m = tail[a] + 1 - n
        PROVE  Pending(a)' = Pending(a)
    <3>1. Pending(a) = Row(terminal_buffer, a, m, n, s)
      BY <2>1, <2>3 DEF Pending
    <3>2. Pending(a)' = Row(terminal_buffer, a, m, 0, 0)
      <4>1. (tail[a] + 1 - Gone(a))' = m
        BY <1>4, <1>5, <1>6, <2>2, <2>3
      <4> QED  BY <1>2, <2>2, <4>1 DEF Pending
    <3>3. m <= s
      <4>1. ASSUME NEW i \in Int, NEW l \in Int, i > l PROVE l + 1 - n <= i - n
        BY <4>1
      <4> QED  BY <1>5, <1>6, <2>3, <4>1
    <3>4. Row(terminal_buffer, a, m, 0, 0) = Row(terminal_buffer, a, m, n, s)
      BY <3>3, RowMoved
    <3> QED  BY <3>1, <3>2, <3>4
  <2>4. f.i - f.actual_copy \in Int /\ tail[a] + 1 - f.actual_copy \in Int
    BY <1>6
  <2> HIDE DEF f
  <2> QED  BY <1>6, <2>3, <2>4
<1> QED  BY <1>2, <1>7, <1>8, <1>9, ReaderStutters

LEMMA InitLine == Init => LineInv /\ Abstract!Init
<1> SUFFICES ASSUME Init PROVE LineInv /\ Abstract!Init
  OBVIOUS
<1>1. ASSUME NEW t \in Ttys
      PROVE  Pending(t) = <<>> /\ Taken(t) = <<>> /\ LineOK(t)
  <2>1. pc[t] = "user" /\ tail[t] = -1 /\ got[t] = <<>>
    BY DEF Init
  <2>2. Pending(t) = Row(terminal_buffer, t, 0, 0, 0)
    BY <2>1 DEF Pending, Gone, Moved
  <2> QED  BY <2>1, <2>2, TerminalAssumption DEF Row, Taken, LineOK
<1>2. active_tty \in Ttys
  BY TerminalAssumption DEF Init, Ttys
<1> QED  BY <1>1, <1>2 DEF LineInv, Abstract!Init

LEMMA NextLine ==
  ASSUME Inv, LineInv, Next, Clean'
  PROVE  LineStep
<1>1. active_tty \in Ttys
  BY DEF Inv, TypeOK
<1>2. CASE Keyboard
  BY <1>1, <1>2, KeyCharLine, KeyBackspaceLine, KeyOtherLine DEF Keyboard
<1>3. ASSUME NEW t \in Ttys, Reader(t) PROVE LineStep
  BY <1>3, WaitLine, CheckEmptyLine, CompareLine, BoundLine, CopyLine, ShiftLine,
     LoadTailLine, StoreTailLine DEF Reader
<1>4. ASSUME NEW t \in Ttys, \E n \in Lengths : Call(t, n) PROVE LineStep
  BY <1>4, WaitLine
<1> QED  BY <1>2, <1>3, <1>4 DEF Next

\* terminal_read and the keyboard handler implement a line of input for each
\* terminal, whatever the sizes, the characters and the order of keys and steps,
\* until a key falls in a window of terminal_read, a character beyond a row or a
\* read asks for a negative length: every step changes the lines and the strings
\* returned as a key or a read of the abstract specification does, or not at all,
\* and a key adds its own character
\* (terminal.c:13-75).
THEOREM LinesImplemented == Spec => ImplementsTtyInput
<1> DEFINE All == Inv /\ LineInv
           Own == \A c \in Chars :
                    Clean' /\ KeyChar(c) /\ tail' # tail => Abstract!Type(c)
<1>1. Init => All /\ Abstract!Init
  BY InitInv, InitLine
<1>2. ASSUME All, [Next]_vars
      PROVE  /\ All'
             /\ [Clean' => Abstract!Next]_(Abstract!vars)
             /\ [Own]_vars
  <2>1. Inv'
    BY <1>2, NextInv
  <2>2. CASE UNCHANGED vars
    <3>1. UNCHANGED Abstract!vars
      BY <2>2 DEF vars, readVars, Pending, Gone, Moved, Taken, Abstract!vars
    <3>2. LineInv'
      BY <1>2, <2>2 DEF vars, readVars, LineInv, LineOK, Clean
    <3> QED  BY <2>1, <2>2, <3>1, <3>2
  <2>3. CASE Next
    <3>1. Clean' => LineStep
      BY <1>2, <2>3, NextLine
    <3>2. LineInv'
      BY <3>1 DEF LineStep, LineInv
    <3>3. Clean' => Abstract!Next \/ UNCHANGED Abstract!vars
      BY <3>1 DEF LineStep
    <3>4. Own
      <4>1. active_tty \in Ttys
        BY <1>2 DEF Inv, TypeOK
      <4> QED  BY <1>2, <4>1, KeyCharLine
    <3> QED  BY <2>1, <3>2, <3>3, <3>4
  <2> QED  BY <1>2, <2>2, <2>3
<1> HIDE DEF All
<1>3. Spec => []All
  BY <1>1, <1>2, PTL DEF Spec
<1> QED  BY <1>1, <1>2, <1>3, PTL DEF Spec, ImplementsTtyInput

=============================================================================
