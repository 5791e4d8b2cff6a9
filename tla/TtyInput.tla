------------------------------ MODULE TtyInput -------------------------------
(***************************************************************************)
(* What the terminal driver promises of keyboard input: each terminal has  *)
(* a line of typed characters of its own; keys go to the line of the       *)
(* terminal on the screen, and a read there takes characters off the       *)
(* line's front, as many as there are up to the number asked for.          *)
(***************************************************************************)
EXTENDS Integers, Sequences

CONSTANTS Terminals, Chars, Lengths

VARIABLES
  active,     \* the terminal on the screen
  pending,    \* the characters typed and not yet read, per terminal
  got         \* what the last read of each terminal returned

vars == <<active, pending, got>>

Init ==
  /\ active \in Terminals
  /\ pending = [t \in Terminals |-> <<>>]
  /\ got = [t \in Terminals |-> <<>>]

Type(c) ==
  /\ pending' = [pending EXCEPT ![active] = Append(@, c)]
  /\ UNCHANGED <<active, got>>

Erase ==
  /\ pending[active] # <<>>
  /\ pending' = [pending EXCEPT ![active] = SubSeq(@, 1, Len(@) - 1)]
  /\ UNCHANGED <<active, got>>

Read ==
  \E n \in Lengths \cap Nat :
    LET all == pending[active]
        k == IF n < Len(all) THEN n ELSE Len(all)
    IN  /\ got' = [got EXCEPT ![active] = SubSeq(all, 1, k)]
        /\ pending' = [pending EXCEPT ![active] = SubSeq(all, k + 1, Len(all))]
        /\ UNCHANGED active

Switch ==
  /\ active' \in Terminals
  /\ UNCHANGED <<pending, got>>

Next == (\E c \in Chars : Type(c)) \/ Erase \/ Read \/ Switch

Spec == Init /\ [][Next]_vars

=============================================================================
