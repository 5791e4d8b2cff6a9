------------------------------ MODULE Terminal -------------------------------
(***************************************************************************)
(* The terminal driver's input side (dev/terminal.c): the keyboard handler *)
(* appends to and erases from the buffer of the terminal on the screen,    *)
(* and terminal_read, which runs with interrupts on, takes characters out. *)
(*                                                                         *)
(* The keyboard handler is one action (an interrupt gate). terminal_read   *)
(* is one action per access to what the handler also touches, as the build *)
(* compiles it: CFLAGS has no -O, so every use of tail[target] is a load.  *)
(* The CPU runs the reader of the terminal on the screen (Processes), so   *)
(* target, read from active_tty, is the reader's own terminal.             *)
(***************************************************************************)
EXTENDS Integers, Sequences

CONSTANTS
  MAX_BUFFER_SIZE,   \* bytes of one row of terminal_buffer
  MAX_TTY,           \* rows
  Chars,             \* the characters typed
  Lengths,           \* the values of nbytes programs pass, negative ones included
  MaxRaces,          \* bound on keys that fall in a window of terminal_read
  MaxOverflows,      \* bound on characters stored beyond a row
  MaxGrown           \* bound on bytes that negative lengths add to rows

ASSUME TerminalAssumption ==
  /\ MAX_BUFFER_SIZE \in Nat \ {0}
  /\ MAX_TTY \in Nat \ {0}
  /\ Lengths \subseteq Int
  /\ MaxRaces \in Nat
  /\ MaxOverflows \in Nat
  /\ MaxGrown \in Nat

Ttys == 0..(MAX_TTY - 1)

\* The bytes of terminal_buffer and those around it that an index out of the
\* array can reach: one before it and one behind it for each key in a window
\* and for each byte of a negative length.
MaxDrift == MaxRaces + MaxGrown
Cells == (-MaxDrift)..(MAX_TTY * MAX_BUFFER_SIZE + MaxDrift)
Cell(t, k) == t * MAX_BUFFER_SIZE + k
Zero == "\\0"

VARIABLES
  terminal_buffer,   \* all rows, as the memory they are
  tail,              \* index of the last character, per terminal
  enter_status,      \* one flag for all the terminals
  active_tty,
  pc,                \* where terminal_read is, per terminal; "user": not in it
  frame,             \* its arguments and locals, per terminal
  got,               \* history: the string the last read returned
  fresh,             \* history: Enter was pressed since a read last saw it
  races,             \* history: keys that fell in a window of terminal_read
  overflows,         \* history: characters stored beyond their row
  grown              \* history: bytes by which negative lengths grow rows

readVars == <<pc, frame, got>>
vars == <<terminal_buffer, tail, enter_status, active_tty, readVars, fresh,
          races, overflows, grown>>

\* The locals of terminal_read; loaded is the register tail goes through, and
\* races the value of that history at the call.
NoFrame == [nbytes |-> 0, i |-> 0, actual_copy |-> 0, loaded |-> 0, dest |-> <<>>,
            races |-> 0]

\* After terminal_open(0).
Init ==
  /\ terminal_buffer = [c \in Cells |-> Zero]
  /\ tail = [t \in Ttys |-> -1]
  /\ enter_status = 0
  /\ active_tty = 0
  /\ pc = [t \in Ttys |-> "user"]
  /\ frame = [t \in Ttys |-> NoFrame]
  /\ got = [t \in Ttys |-> <<>>]
  /\ fresh = FALSE
  /\ races = 0
  /\ overflows = 0
  /\ grown = 0

-----------------------------------------------------------------------------
(***************************************************************************)
(* terminal_write(0, &character, 1), from kb_interrupt_do                  *)
(***************************************************************************)

\* The windows of terminal_read in which a key goes wrong. A character: after
\* the comparison found nbytes just large enough, in place of one that was
\* erased after it was shifted, or after the last character was shifted. A
\* backspace: when nothing is left behind what was taken, or once tail has been
\* loaded.
CharRaces(t) ==
  \/ pc[t] = "bound" /\ tail[t] + 1 >= frame[t].nbytes
  \/ pc[t] = "shift" /\ tail[t] + 1 < frame[t].i
  \/ pc[t] \in {"load", "store"}
BackspaceRaces(t) ==
  \/ pc[t] \in {"copy", "shift", "load"} /\ tail[t] < frame[t].actual_copy
  \/ pc[t] = "store"

\* Between seeing Enter and clearing it: a switch lets another terminal's read
\* see it too.
SwitchRaces(t) == pc[active_tty] = "clear" /\ t # active_tty

Race(happens) ==
  /\ races' = races + IF happens THEN 1 ELSE 0
  /\ races' <= MaxRaces

KeyChar(c) ==
  /\ LET t == active_tty IN
       \/ /\ tail[t] < MAX_BUFFER_SIZE
          /\ tail' = [tail EXCEPT ![t] = @ + 1]
          /\ terminal_buffer' =
               [terminal_buffer EXCEPT ![Cell(t, tail[t] + 1)] = c]
          /\ overflows' = overflows + IF tail[t] + 1 >= MAX_BUFFER_SIZE THEN 1 ELSE 0
          /\ overflows' <= MaxOverflows
          /\ Race(CharRaces(t))
       \/ /\ tail[t] >= MAX_BUFFER_SIZE
          /\ UNCHANGED <<tail, terminal_buffer, overflows, races>>
  /\ UNCHANGED <<enter_status, active_tty, readVars, fresh, grown>>

\* Mutant: an empty line is erased further.
KeyBackspaceUnchecked ==
  /\ tail' = [tail EXCEPT ![active_tty] = @ - 1]
  /\ Race(BackspaceRaces(active_tty))
  /\ UNCHANGED <<terminal_buffer, enter_status, active_tty, readVars, fresh, overflows,
                 grown>>

KeyBackspace ==
  /\ tail[active_tty] > -1
  /\ tail' = [tail EXCEPT ![active_tty] = @ - 1]
  /\ Race(BackspaceRaces(active_tty))
  /\ UNCHANGED <<terminal_buffer, enter_status, active_tty, readVars, fresh, overflows,
                 grown>>

KeyEnter ==
  /\ enter_status' = 1
  /\ fresh' = TRUE
  /\ UNCHANGED <<terminal_buffer, tail, active_tty, readVars, races, overflows, grown>>

\* Alt+Fn: from here on another terminal's program runs.
KeySwitch(t) ==
  /\ active_tty' = t
  /\ Race(SwitchRaces(t))
  /\ UNCHANGED <<terminal_buffer, tail, enter_status, readVars, fresh, overflows, grown>>

-----------------------------------------------------------------------------
(***************************************************************************)
(* terminal_read                                                           *)
(***************************************************************************)
At(t, place) == t = active_tty /\ pc[t] = place
Goto(t, place) == pc' = [pc EXCEPT ![t] = place]

Return(t, string) ==
  /\ Goto(t, "user")
  /\ got' = [got EXCEPT ![t] = string]
  /\ frame' = [frame EXCEPT ![t] = NoFrame]

keyVars == <<active_tty, fresh, races, overflows, grown>>

\* Neither read nor terminal_read looks at the sign of nbytes.
Call(t, n) ==
  /\ At(t, "user")
  /\ Goto(t, "spin")
  /\ frame' = [frame EXCEPT ![t].nbytes = n, ![t].races = races]
  /\ grown' = grown + IF n < 0 THEN -n ELSE 0
  /\ grown' <= MaxGrown
  /\ UNCHANGED <<terminal_buffer, tail, enter_status, got, active_tty, fresh, races,
                 overflows>>

\* while (!enter_status);
Spin(t) ==
  /\ At(t, "spin")
  /\ enter_status = 1
  /\ fresh' = FALSE
  /\ Goto(t, "clear")
  /\ UNCHANGED <<terminal_buffer, tail, enter_status, frame, got, active_tty, races, overflows,
                 grown>>

\* Mutant: the flag stays set.
ClearNothing(t) ==
  /\ At(t, "clear")
  /\ Goto(t, "check")
  /\ UNCHANGED <<terminal_buffer, tail, enter_status, frame, got, keyVars>>

ClearEnter(t) ==
  /\ At(t, "clear")
  /\ enter_status' = 0
  /\ Goto(t, "check")
  /\ UNCHANGED <<terminal_buffer, tail, frame, got, keyVars>>

\* Mutant: an Enter on an empty line is ignored.
CheckEmptyWaits(t) ==
  /\ At(t, "check")
  /\ Goto(t, IF tail[t] = -1 THEN "spin" ELSE "compare")
  /\ UNCHANGED <<terminal_buffer, tail, enter_status, frame, got, keyVars>>

\* Mutant: any tail below the row counts as empty.
CheckNegative(t) ==
  /\ At(t, "check")
  /\ \/ /\ tail[t] <= -1
        /\ Return(t, <<>>)
     \/ /\ tail[t] > -1
        /\ Goto(t, "compare")
        /\ UNCHANGED <<frame, got>>
  /\ UNCHANGED <<terminal_buffer, tail, enter_status, keyVars>>

\* An empty buffer: return 0.
CheckEmpty(t) ==
  /\ At(t, "check")
  /\ \/ /\ tail[t] = -1
        /\ Return(t, <<>>)
     \/ /\ tail[t] # -1
        /\ Goto(t, "compare")
        /\ UNCHANGED <<frame, got>>
  /\ UNCHANGED <<terminal_buffer, tail, enter_status, keyVars>>

\* Mutant: the length asked for is not looked at.
CompareUnbounded(t) ==
  /\ At(t, "compare")
  /\ Goto(t, "bound")
  /\ UNCHANGED <<terminal_buffer, tail, enter_status, frame, got, keyVars>>

\* nbytes < (tail[target] + 1) ? nbytes : ...
Compare(t) ==
  /\ At(t, "compare")
  /\ \/ /\ frame[t].nbytes < tail[t] + 1
        /\ Goto(t, "copy")
        /\ frame' = [frame EXCEPT ![t].actual_copy = frame[t].nbytes]
     \/ /\ frame[t].nbytes >= tail[t] + 1
        /\ Goto(t, "bound")
        /\ UNCHANGED frame
  /\ UNCHANGED <<terminal_buffer, tail, enter_status, got, keyVars>>

\* ... : (tail[target] + 1)
Bound(t) ==
  /\ At(t, "bound")
  /\ Goto(t, "copy")
  /\ frame' = [frame EXCEPT ![t].actual_copy = tail[t] + 1]
  /\ UNCHANGED <<terminal_buffer, tail, enter_status, got, keyVars>>

\* The copy loop, then the terminating NUL.
Copy(t) ==
  /\ At(t, "copy")
  /\ LET f == frame[t] IN
       \/ /\ f.i <= f.actual_copy - 1
          /\ frame' = [frame EXCEPT
                         ![t].dest = Append(@, terminal_buffer[Cell(t, f.i)]),
                         ![t].i = @ + 1]
          /\ UNCHANGED pc
       \/ /\ f.i > f.actual_copy - 1
          /\ frame' = [frame EXCEPT ![t].dest = Append(@, Zero),
                                    ![t].i = f.actual_copy]
          /\ Goto(t, "shift")
  /\ UNCHANGED <<terminal_buffer, tail, enter_status, got, keyVars>>

\* Mutant: the last character is left where it is.
ShiftShort(t) ==
  /\ At(t, "shift")
  /\ LET f == frame[t] IN
       \/ /\ f.i < tail[t]
          /\ terminal_buffer' =
               [terminal_buffer EXCEPT ![Cell(t, f.i - f.actual_copy)] =
                                         terminal_buffer[Cell(t, f.i)]]
          /\ frame' = [frame EXCEPT ![t].i = @ + 1]
          /\ UNCHANGED pc
       \/ /\ f.i >= tail[t]
          /\ Goto(t, "load")
          /\ UNCHANGED <<terminal_buffer, frame>>
  /\ UNCHANGED <<tail, enter_status, got, keyVars>>

\* What was not copied moves to the front.
Shift(t) ==
  /\ At(t, "shift")
  /\ LET f == frame[t] IN
       \/ /\ f.i <= tail[t]
          /\ terminal_buffer' =
               [terminal_buffer EXCEPT ![Cell(t, f.i - f.actual_copy)] =
                                         terminal_buffer[Cell(t, f.i)]]
          /\ frame' = [frame EXCEPT ![t].i = @ + 1]
          /\ UNCHANGED pc
       \/ /\ f.i > tail[t]
          /\ Goto(t, "load")
          /\ UNCHANGED <<terminal_buffer, frame>>
  /\ UNCHANGED <<tail, enter_status, got, keyVars>>

\* tail[target] -= actual_copy; return actual_copy;
LoadTail(t) ==
  /\ At(t, "load")
  /\ frame' = [frame EXCEPT ![t].loaded = tail[t]]
  /\ Goto(t, "store")
  /\ UNCHANGED <<terminal_buffer, tail, enter_status, got, keyVars>>

StoreTail(t) ==
  /\ At(t, "store")
  /\ LET f == frame[t] IN
       /\ tail' = [tail EXCEPT ![t] = f.loaded - f.actual_copy]
       /\ Return(t, SubSeq(f.dest, 1, Len(f.dest) - 1))
  /\ UNCHANGED <<terminal_buffer, enter_status, keyVars>>

Reader(t) ==
  \/ Spin(t)
  \/ ClearEnter(t)
  \/ CheckEmpty(t)
  \/ Compare(t)
  \/ Bound(t)
  \/ Copy(t)
  \/ Shift(t)
  \/ LoadTail(t)
  \/ StoreTail(t)

Keyboard ==
  \/ \E c \in Chars : KeyChar(c)
  \/ KeyBackspace
  \/ KeyEnter
  \/ \E t \in Ttys : KeySwitch(t)

Next ==
  \/ Keyboard
  \/ \E t \in Ttys : Reader(t)
  \/ \E t \in Ttys, n \in Lengths : Call(t, n)

Spec == Init /\ [][Next]_vars

\* Between two interrupts, and every handler ends, the CPU runs the reader of
\* the terminal on the screen.
FairSpec == Spec /\ \A t \in Ttys : WF_vars(Reader(t))

-----------------------------------------------------------------------------
(***************************************************************************)
(* Properties                                                              *)
(***************************************************************************)

\* Each key in a window, and each byte of a negative length, takes tail, and
\* what terminal_read computed from it, at most one further below -1 or beyond
\* the row's end.
Drift == races + grown
InRange(t) ==
  /\ tail[t] \in (-(Drift + 1))..(MAX_BUFFER_SIZE + Drift)
  /\ frame[t].loaded \in (-(Drift + 1))..(MAX_BUFFER_SIZE + Drift)
  /\ frame[t].actual_copy \in (-Drift)..(MAX_BUFFER_SIZE + Drift + 1)
  /\ frame[t].races \in 0..races
  /\ frame[t].nbytes >= -grown

\* The type of the state, with races, overflows and negative lengths; no index
\* leaves Cells.
TypeOK ==
  /\ terminal_buffer \in [Cells -> Chars \cup {Zero}]
  /\ tail \in [Ttys -> Int]
  /\ enter_status \in {0, 1}
  /\ active_tty \in Ttys
  /\ pc \in [Ttys -> {"user", "spin", "clear", "check", "compare", "bound", "copy",
                      "shift", "load", "store"}]
  /\ frame \in [Ttys -> [nbytes : Lengths \cup {0}, i : Int, actual_copy : Int,
                         loaded : Int, dest : Seq(Chars \cup {Zero}), races : Int]]
  /\ got \in [Ttys -> Seq(Chars \cup {Zero})]
  /\ fresh \in BOOLEAN
  /\ races \in 0..MaxRaces
  /\ overflows \in 0..MaxOverflows
  /\ grown \in 0..MaxGrown
  /\ \A t \in Ttys : InRange(t)

\* terminal_read writes at most one byte, the NUL, beyond the length asked for
\* (none for a negative one), and one more for each key that fell in a window
\* of this read: a caller that leaves room for the NUL is safe from what is
\* typed before the read and from what stays in the buffer (terminal.c:25-29).
CopyFits ==
  \A t \in Ttys :
    LET f == frame[t]
        asked == IF f.nbytes < 0 THEN 0 ELSE f.nbytes
    IN  Len(f.dest) <= asked + 1 + (races - f.races)

\* One Enter wakes one read, whichever terminals it was typed and read on,
\* until a key falls in a window: enter_status is one flag for all of them
\* (terminal.c:8, 20-21).
WakesOnce ==
  [][ \A t \in Ttys :
        pc[t] = "spin" /\ pc'[t] = "clear" /\ races = 0 => fresh ]_vars

\* A read whose terminal is on the screen when Enter is pressed returns, unless
\* the user switches away first: no key typed meanwhile keeps terminal_read in
\* its loops (terminal.c:19-34).
ReadReturns ==
  \A t \in Ttys :
    (pc[t] = "spin" /\ enter_status = 1 /\ active_tty = t)
      ~> (pc[t] = "user" \/ active_tty # t)

\* A read that meets no race itself leaves a valid index or -1 in tail, even
\* when an earlier race left tail below -1, and whatever its length: damage to
\* tail does not outlive the next read (terminal.c:23-33).
TailRecovers ==
  [][ \A t \in Ttys :
        pc[t] # "user" /\ pc'[t] = "user" /\ frame[t].races = races
          => tail'[t] >= -1 ]_vars

-----------------------------------------------------------------------------
(***************************************************************************)
(* The lines of input it implements                                        *)
(***************************************************************************)
\* m characters of terminal t's row behind the first n, of which the first s
\* have moved to the front.
Row(buffer, t, m, n, s) ==
  [k \in 1..m |-> buffer[Cell(t, IF k <= s THEN k - 1 ELSE n + k - 1)]]

\* A read takes effect when actual_copy is computed: from then on its
\* characters are no longer pending, and what follows them is being shifted.
Gone(t) ==
  IF pc[t] \in {"copy", "shift", "load", "store"} THEN frame[t].actual_copy ELSE 0
Moved(t) ==
  IF pc[t] \in {"shift", "load", "store"} THEN frame[t].i - frame[t].actual_copy ELSE 0
Pending(t) == Row(terminal_buffer, t, tail[t] + 1 - Gone(t), Gone(t), Moved(t))

Taken(t) ==
  LET f == frame[t] IN
  CASE pc[t] = "copy" -> Row(terminal_buffer, t, f.actual_copy, 0, 0)
    [] pc[t] \in {"shift", "load", "store"} -> SubSeq(f.dest, 1, f.actual_copy)
    [] OTHER -> got[t]

Abstract == INSTANCE TtyInput
              WITH Terminals <- Ttys, active <- active_tty,
                   pending <- [t \in Ttys |-> Pending(t)],
                   got <- [t \in Ttys |-> Taken(t)]

\* No key has fallen in a window, no character beyond a row, and no read has
\* asked for a negative length.
Clean == races = 0 /\ overflows = 0 /\ grown = 0

\* The buffers, tails and terminal_read's loops implement a line of input per
\* terminal, keys typed during a read included, until the first key that falls
\* in a window of terminal_read, the first character beyond a row or the first
\* read of a negative length; and the character a key adds to the line is that
\* key's (terminal.c:13-75).
ImplementsTtyInput ==
  /\ Abstract!Init
  /\ [][Clean' => Abstract!Next]_(Abstract!vars)
  /\ [][\A c \in Chars :
         Clean' /\ KeyChar(c) /\ tail' # tail => Abstract!Type(c)]_vars

\* A read that returns characters takes those off the line and no others,
\* whatever key is typed when: what the keyboard handler appended ("append
\* content to buffer", terminal.c:40) stays until some read returns it
\* (terminal.c:25-34).
TakesOnlyWhatItReturns ==
  [][ \A t \in Ttys :
        pc[t] # "user" /\ pc'[t] = "user" /\ got'[t] # <<>>
          => tail'[t] >= tail[t] - Len(got'[t]) ]_vars

=============================================================================
