------------------------------ MODULE Library ------------------------------
(***************************************************************************)
(* The string and memory routines of the kernel (lib.c) and the ones the   *)
(* user programs link (ece391support.c), as operators. A character is its  *)
(* code, a string a sequence without its NUL, and a memory a function from *)
(* addresses to bytes. The assembly loops are recursive functions over the *)
(* units that they move: a unit sees what the earlier ones wrote.          *)
(***************************************************************************)
EXTENDS Integers, Sequences, FiniteSetsExt, SequencesExt

NUL == 0

-----------------------------------------------------------------------------
(* Numbers.                                                                *)

lookup(digit) == IF digit < 10 THEN 48 + digit ELSE 55 + digit

Swap(t, beg, end) == [t EXCEPT ![beg] = t[end], ![end] = t[beg]]

\* Mutant: the middle pair of an even string is left alone.
StrrevShort(s) ==
  LET swapped[beg \in 0..Len(s)] ==
        IF beg = 0 THEN s ELSE Swap(swapped[beg - 1], beg, Len(s) + 1 - beg)
  IN  swapped[(Len(s) - 1) \div 2]

\* strrev swaps the ends while beg < end.
strrev(s) ==
  LET swapped[beg \in 0..(Len(s) \div 2)] ==
        IF beg = 0 THEN s ELSE Swap(swapped[beg - 1], beg, Len(s) + 1 - beg)
  IN  swapped[Len(s) \div 2]

\* itoa: the digits from the lowest place up, then reversed.
itoa(value, radix) ==
  LET low[newval \in 0..value] ==
        IF newval = 0 THEN <<>>
        ELSE <<lookup(newval % radix)>> \o low[newval \div radix]
  IN  IF value = 0 THEN <<lookup(0)>> ELSE strrev(low[value])

\* printf's %#x, for numbers of at most width digits: the digits are written
\* from conv_buf[width] on and zeros below them, from the index that leaves
\* width characters.
PrintPadded(value, width) ==
  LET digits == itoa(value, 16)
      starting_index == Len(digits)
      conv_buf == [i \in starting_index..(width + Len(digits) - 1) |->
                     IF i < width THEN lookup(0) ELSE digits[i - width + 1]]
  IN  [i \in 1..width |-> conv_buf[starting_index + i - 1]]

\* printf's %d of a word that is one of 0..(word - 1), and negative from
\* word \div 2 on; the negation is unsigned, also of the least number.
PrintSigned(w, word) ==
  IF w >= word \div 2 THEN <<45>> \o itoa((word - w) % word, 10) ELSE itoa(w, 10)

-----------------------------------------------------------------------------
(* Memory.                                                                 *)

\* The move of unit k, of size bytes.
Unit(m, dest, src, size, k) ==
  [a \in DOMAIN m |->
     IF a - dest \in (size * k)..(size * k + size - 1) THEN m[a - dest + src] ELSE m[a]]

\* The moves of the units of the sequence ks, in its order.
Move(m, dest, src, size, ks) ==
  LET after[j \in 0..Len(ks)] ==
        IF j = 0 THEN m ELSE Unit(after[j - 1], dest, src, size, ks[j])
  IN  after[Len(ks)]

Upto(n) == [k \in 1..n |-> k - 1]

\* The bytes before dest is aligned to a double word.
Lead(dest, n) == Min({n, (-dest) % 4})

\* Mutant: the bytes after the last whole double word are forgotten.
MemcpyNoTail(m, dest, src, n) ==
  LET lead == Lead(dest, n)
      dwords == (n - lead) \div 4
      led == Move(m, dest, src, 1, Upto(lead))
  IN  Move(led, dest + lead, src + lead, 4, Upto(dwords))

\* memcpy: bytes up to an aligned address, double words, the bytes left over.
memcpy(m, dest, src, n) ==
  LET lead == Lead(dest, n)
      dwords == (n - lead) \div 4
      done == lead + 4 * dwords
      led == Move(m, dest, src, 1, Upto(lead))
      moved == Move(led, dest + lead, src + lead, 4, Upto(dwords))
  IN  Move(moved, dest + done, src + done, 1, Upto(n - done))

\* memset, in the same three parts, of the low byte of c.
memset(m, s, c, n) ==
  LET lead == Lead(s, n)
      dwords == (n - lead) \div 4
      done == lead + 4 * dwords
      fill(f, from, size, units) ==
        [a \in DOMAIN f |-> IF a \in from..(from + size * units - 1) THEN c % 256 ELSE f[a]]
  IN  fill(fill(fill(m, s, 1, lead), s + lead, 4, dwords), s + done, 1, n - done)

\* memmove: bytes, from the top down when the destination is the higher one.
\* It then leaves the direction flag set, which the memory alone does not show:
\* nothing in the kernel calls it.
memmove(m, dest, src, n) ==
  Move(m, dest, src, 1, IF src >= dest THEN Upto(n) ELSE Reverse(Upto(n)))

-----------------------------------------------------------------------------
(* Strings.                                                                *)

CharAt(s, i) == IF i < Len(s) THEN s[i + 1] ELSE NUL

\* The sign of strncmp: of the first difference, none after a common NUL.
strncmp(s1, s2, n) ==
  LET stops == {i \in 0..(n - 1) : CharAt(s1, i) # CharAt(s2, i) \/ CharAt(s1, i) = NUL}
  IN  IF stops = {} THEN 0 ELSE CharAt(s1, Min(stops)) - CharAt(s2, Min(stops))

\* strncpy: at most n characters, padded with NULs to n.
strncpy(dest, src, n) ==
  [k \in DOMAIN dest |->
     IF k < Min({n, Len(src)}) THEN src[k + 1] ELSE IF k < n THEN NUL ELSE dest[k]]

\* strcpy, and ece391_strcpy: the string and its NUL.
strcpy(dest, src) ==
  [k \in DOMAIN dest |-> IF k <= Len(src) THEN CharAt(src, k) ELSE dest[k]]
=============================================================================
