---------------------------- MODULE MCPrograms ----------------------------
(***************************************************************************)
(* The user programs and the library for TLC. A behaviour does one job:    *)
(* fish with two pictures, any calls of the blinker list, grep of a file,  *)
(* or one call of each library routine with arguments of its own.          *)
(***************************************************************************)
EXTENDS Fish, Grep

CONSTANTS
  PictureLength, FileLength, \* the longest picture and file
  Memory,                    \* the highest address of an argument
  WIDTH                      \* 8: the hexadecimal digits of a word

ASSUME WidthAssumption == WIDTH \in Nat \ {0}

VARIABLES job, call

mcVars == <<fishVars, grepVars, job, call>>

FishBlinkers ==
  {[location |-> 1, on_char |-> 97, off_char |-> 98, on_length |-> 1, off_length |-> 2],
   [location |-> 2, on_char |-> 99, off_char |-> 100, on_length |-> 0, off_length |-> 4],
   [location |-> 3, on_char |-> 97, off_char |-> 98, on_length |-> 1, off_length |-> 1]}

Pictures(ink) ==
  {[exists |-> TRUE, text |-> t] : t \in BoundedSeq({ink, SPACE, NL}, PictureLength)}
    \cup {[exists |-> FALSE, text |-> <<>>]}

\* How many numbers k hexadecimal digits write, and a word holds.
Hex[k \in 0..WIDTH] == IF k = 0 THEN 1 ELSE 16 * Hex[k - 1]
Word == Hex[WIDTH]

NoCall == [v |-> 0, dest |-> 0, src |-> 0, n |-> 0, s1 |-> <<>>, s2 |-> <<>>]
Numbers == {[NoCall EXCEPT !.v = v] : v \in 0..(Word - 1)}
Copies == {[NoCall EXCEPT !.dest = d, !.src = s, !.n = n] :
             d, s \in 0..Memory, n \in 0..(Memory + 2)}
Strings == {[NoCall EXCEPT !.s1 = s1, !.s2 = s2, !.n = n] :
              s1, s2 \in BoundedSeq({97, 98}, 3), n \in 0..4}

\* Any arguments: a word, areas in the memory, and strings.
Calls ==
  [v : 0..(Word - 1), dest : 0..Memory, src : 0..Memory, n : 0..(Memory + 2),
   s1 : Seq(Characters), s2 : Seq(Characters)]

Idle == [f \in F |-> [exists |-> FALSE, text |-> <<>>]]

MCInit ==
  \/ /\ job = "fish" /\ call = NoCall /\ GrepInit(<<>>, <<>>, 0)
     /\ \E a \in Pictures(97), b \in Pictures(98) : FishInit([f \in F |-> IF f = 0 THEN a ELSE b])
  \/ job = "blink" /\ call = NoCall /\ GrepInit(<<>>, <<>>, 0) /\ FishInit(Idle)
  \/ /\ job = "grep" /\ call = NoCall /\ FishInit(Idle)
     /\ \E t \in BoundedSeq({97, 98, NL}, FileLength), s \in {<<97>>, <<97, 98>>}, b \in {0, 97, NL} :
          GrepInit(t, s, b)
  \/ /\ job = "library" /\ call \in Numbers \cup Copies \cup Strings
     /\ GrepInit(<<>>, <<>>, 0) /\ FishInit(Idle)

Fishing == job = "fish" /\ FishNext /\ UNCHANGED <<grepVars, job, call>>
Blinking == job = "blink" /\ BlinkNext /\ UNCHANGED <<frameVars, stage, i, grepVars, job, call>>
Grepping == job = "grep" /\ GrepNext /\ UNCHANGED <<fishVars, job, call>>

MCNext == Fishing \/ Blinking \/ Grepping
MCSpec == MCInit /\ [][MCNext]_mcVars /\ WF_mcVars(Fishing) /\ WF_mcVars(Grepping)

-----------------------------------------------------------------------------
\* The number that a string of digits stands for.
DigitOf(ch) == CHOOSE d \in 0..35 : lookup(d) = ch
ValueOf(s, radix) ==
  LET value[k \in 0..Len(s)] == IF k = 0 THEN 0 ELSE radix * value[k - 1] + DigitOf(s[k])
  IN  value[Len(s)]

\* printf's numbers read back as the number printed, for every value of a word:
\* with no leading zero, with zeros up to the digits of a word for %#x, and for
\* %d with a sign from the middle of the word on, the least number, whose
\* negation is itself, included (lib.c:142-186, 285-340).
NumbersReadBack ==
  LET v == call.v
      out == PrintSigned(v, Word)
  IN  /\ \A radix \in {2, 10, 16} :
           /\ ValueOf(itoa(v, radix), radix) = v
           /\ itoa(v, radix)[1] = lookup(0) => Len(itoa(v, radix)) = 1
      /\ Len(PrintPadded(v, WIDTH)) = WIDTH /\ ValueOf(PrintPadded(v, WIDTH), 16) = v
      /\ IF v < Word \div 2 THEN ValueOf(out, 10) = v
         ELSE out[1] = 45 /\ ValueOf(Tail(out), 10) = Word - v

\* memcpy, memmove and memset write the bytes they are asked to and no other,
\* at every alignment and length, memmove also where the areas overlap; strncpy
\* writes n bytes and leaves none of the old string among them. strncmp is 0
\* exactly for strings with the same first n characters, and its sign turns
\* with its arguments (lib.c:353-567).
CopiesExactly ==
  LET m == [a \in 0..(2 * Memory + 2) |-> a + 1]
      d == call.dest
      s == call.src
      n == call.n
      wanted == [a \in DOMAIN m |-> IF a \in d..(d + n - 1) THEN m[a - d + s] ELSE m[a]]
      first(t) == SubSeq(t, 1, Min({n, Len(t)}))
      copy == strncpy([k \in 0..9 |-> 98], call.s1, n)
  IN  /\ memmove(m, d, s, n) = wanted
      /\ s + n <= d \/ d + n <= s => memcpy(m, d, s, n) = wanted
      /\ memset(m, d, 511, n) = [a \in DOMAIN m |-> IF a \in d..(d + n - 1) THEN 255 ELSE m[a]]
      /\ \A k \in 0..9 : copy[k] = IF k >= n THEN 98 ELSE CharAt(call.s1, k)
      /\ strncmp(call.s1, call.s2, n) = 0 <=> first(call.s1) = first(call.s2)
      /\ strncmp(call.s1, call.s2, n) = -strncmp(call.s2, call.s1, n)

\* Fish ends whatever its pictures hold, also when one of them ends rows before
\* the other (fish.c:98-147); and grep's search of a file, also with lines
\* longer than the buffer and any byte after it (ece391grep.c:21-60).
ProgramsEnd ==
  /\ job = "fish" ~> stage \in {"halted", "done"}
  /\ job = "grep" ~> at = "closed"
=============================================================================
