------------------------------- MODULE Lines -------------------------------
(***************************************************************************)
(* The lines of a text, the reference against which the programs that read *)
(* text in pieces are checked. A last line without a newline counts.       *)
(***************************************************************************)
EXTENDS Integers, Sequences, FiniteSetsExt

NL == 10
SPACE == 32

\* A line begins at the first character and after every newline, and ends
\* before the next newline or with the text.
Starts(t) == {k \in 1..Len(t) : k = 1 \/ t[k - 1] = NL}
LineBegin(t, n) == CHOOSE k \in Starts(t) : Cardinality({j \in Starts(t) : j < k}) = n - 1
LineEnd(t, k) == Min({j \in k..Len(t) : t[j] = NL} \cup {Len(t) + 1})

Lines(t) ==
  [n \in 1..Cardinality(Starts(t)) |->
     SubSeq(t, LineBegin(t, n), LineEnd(t, LineBegin(t, n)) - 1)]
=============================================================================
