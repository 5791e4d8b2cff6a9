----------------------------- MODULE TtySessions -----------------------------
(***************************************************************************)
(* What execute, halt and the terminal switch promise: each terminal holds *)
(* a stack of programs, each run by the one below it; one stack is on the  *)
(* screen, and its last program is the one that runs.                      *)
(***************************************************************************)
EXTENDS Integers, Sequences, SequencesExt

CONSTANTS Procs, Terminals

VARIABLES
  stack,    \* the programs of each terminal, the root shell first
  active    \* the terminal on the screen

vars == <<stack, active>>

InUse == UNION {ToSet(stack[t]) : t \in Terminals}

Init ==
  /\ stack = [t \in Terminals |-> <<>>]
  /\ active \in Terminals

\* The running program runs another and waits for it.
Run ==
  /\ UNCHANGED active
  /\ stack[active] # <<>>
  /\ \E p \in Procs \ InUse :
       stack' = [stack EXCEPT ![active] = Append(@, p)]

\* The running program ends and the one that ran it goes on.
Return ==
  /\ UNCHANGED active
  /\ Len(stack[active]) > 1
  /\ stack' = [stack EXCEPT ![active] = SubSeq(@, 1, Len(@) - 1)]

\* A root shell ends and another takes its place.
Respawn ==
  /\ UNCHANGED active
  /\ Len(stack[active]) = 1
  /\ \E p \in (Procs \ InUse) \cup ToSet(stack[active]) :
       stack' = [stack EXCEPT ![active] = <<p>>]

\* The first visit to a terminal runs a root shell there.
Open(t) ==
  /\ active' = t
  /\ stack[t] = <<>>
  /\ \E p \in Procs \ InUse : stack' = [stack EXCEPT ![t] = <<p>>]

Show(t) ==
  /\ active' = t
  /\ stack[t] # <<>>
  /\ UNCHANGED stack

Next ==
  \/ Run
  \/ Return
  \/ Respawn
  \/ \E t \in Terminals : Open(t) \/ Show(t)

Spec == Init /\ [][Next]_vars

=============================================================================
