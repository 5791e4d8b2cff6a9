----------------------------- MODULE MCTerminal ------------------------------
(***************************************************************************)
(* Bounds for a run of Terminal.                                           *)
(***************************************************************************)
EXTENDS Terminal

(***************************************************************************)
(* A setup bounds what the user does: the terminals switched to, the       *)
(* characters typed, the lengths of the reads, the keys in a window of     *)
(* terminal_read, those beyond a row and the bytes of negative lengths.    *)
(* Each behaviour keeps to one, so that a run covers a busy terminal, one  *)
(* with a negative length and two quiet ones without covering them at once.*)
(***************************************************************************)
CONSTANT Setups
VARIABLE setup

\* A negative length, one below a row's size and one of it.
SomeLengths == {-1, 1, 2}

Busy == [ttys |-> {0}, chars |-> {"a", "b"}, lengths |-> Lengths \cap Nat,
         races |-> 1, overflows |-> 1, grown |-> 0]
Negative == [ttys |-> {0}, chars |-> {"a"}, lengths |-> Lengths, races |-> 1,
             overflows |-> 1, grown |-> 1]
Quiet == [ttys |-> {0, 1}, chars |-> {"a"}, lengths |-> {1}, races |-> 0,
          overflows |-> 0, grown |-> 0]
BusyAndQuiet == {Busy, Negative, Quiet}
Racing == {[Busy EXCEPT !.overflows = 0]}

Within ==
  /\ active_tty \in setup.ttys
  /\ \A k \in Cells : terminal_buffer[k] \in setup.chars \cup {Zero}
  /\ \A t \in Ttys : frame[t].nbytes \in setup.lengths \cup {0}
  /\ races <= setup.races
  /\ overflows <= setup.overflows
  /\ grown <= setup.grown

MCInit == Init /\ setup \in Setups
MCNext == Next /\ UNCHANGED setup /\ Within'
MCSpec ==
  /\ MCInit
  /\ [][MCNext]_<<vars, setup>>
  /\ \A t \in Ttys : WF_vars(Reader(t) /\ UNCHANGED setup)

=====================
