-------------------------------- MODULE Grep --------------------------------
(***************************************************************************)
(* do_one_file of grep (ece391grep.c): it reads a file through a buffer of *)
(* BUFSIZE bytes and one for a NUL, prints the lines that hold the string  *)
(* it looks for, and moves a line that the buffer cuts to the front before *)
(* it reads on. The buffer is on the stack and starts with whatever lay    *)
(* there.                                                                  *)
(***************************************************************************)
EXTENDS Library, Lines

CONSTANTS BUFSIZE

ASSUME GrepAssumption == BUFSIZE \in Nat \ {0}

VARIABLES
  file, file_pos,        \* the text, and the position of the descriptor
  search,                \* the string to look for
  junk,                  \* what the byte after the buffer holds at first
  data, last,            \* the buffer and the bytes in use
  cnt, line_start,
  printed,               \* the lines printed
  at                     \* which loop do_one_file is in

grepVars == <<file, file_pos, search, junk, data, last, cnt, line_start, printed, at>>

GrepInit(text, string, byte) ==
  /\ file = text /\ search = string /\ junk = byte
  /\ data = [k \in 0..BUFSIZE |-> byte]
  /\ file_pos = 0 /\ last = 0 /\ cnt = 0 /\ line_start = 0
  /\ printed = <<>>
  /\ at = "read"

\* The outer loop: the rest of the buffer is filled from the file.
Fill ==
  /\ at = "read"
  /\ cnt' = Min({BUFSIZE - last, Len(file) - file_pos})
  /\ data' = [k \in DOMAIN data |->
                IF k \in last..(last + cnt' - 1) THEN file[file_pos + k - last + 1] ELSE data[k]]
  /\ file_pos' = file_pos + cnt'
  /\ last' = last + cnt'
  /\ line_start' = 0
  /\ at' = "scan"
  /\ UNCHANGED <<file, search, junk, printed>>

line_end == Min({k \in line_start..last : k = last \/ data[k] = NL})

\* The line is cut: neither a newline nor the end of the file, and not the
\* whole buffer. data[last] is read though the file did not fill it.
Cut == data[line_end] # NL /\ cnt # 0 /\ line_start # 0

String(from, to) == [k \in 1..(to - from) |-> data[from + k - 1]]

\* Mutant: the count of the bytes kept includes the NUL.
KeepOneMore ==
  /\ at = "scan" /\ Cut
  /\ data' = strcpy([data EXCEPT ![line_end] = NUL], String(line_start, line_end))
  /\ last' = last - line_start + 1
  /\ at' = "read"
  /\ UNCHANGED <<file, file_pos, search, junk, cnt, line_start, printed>>

\* ece391_strcpy moves the piece, which has no NUL in it, to the front.
Keep ==
  /\ at = "scan" /\ Cut
  /\ data' = strcpy([data EXCEPT ![line_end] = NUL], String(line_start, line_end))
  /\ last' = last - line_start
  /\ at' = "read"
  /\ UNCHANGED <<file, file_pos, search, junk, cnt, line_start, printed>>

\* ece391_strncmp at each character of the line.
Holds(line) ==
  \E check \in 1..Len(line) :
    /\ search # <<>> /\ line[check] = search[1]
    /\ strncmp(SubSeq(line, check, Len(line)), search, Len(search)) = 0

\* A line: printed when it holds the string; the last one of the buffer ends
\* the inner loop, and an empty read the outer one.
Scan ==
  /\ at = "scan" /\ ~Cut
  /\ data' = [data EXCEPT ![line_end] = NUL]
  /\ printed' = IF Holds(String(line_start, line_end))
                THEN Append(printed, String(line_start, line_end)) ELSE printed
  /\ line_start' = line_end + 1
  /\ last' = IF line_end + 1 >= last THEN 0 ELSE last
  /\ at' = IF line_end + 1 < last THEN "scan" ELSE IF cnt = 0 THEN "closed" ELSE "read"
  /\ UNCHANGED <<file, file_pos, search, junk, cnt>>

GrepNext == Fill \/ Keep \/ Scan

\* Texts and strings without a NUL, and a string that is not empty.
Characters == 1..255
GrepSpec ==
  /\ \E text \in Seq(Characters), string \in Seq(Characters) \ {<<>>}, byte \in 0..255 :
       GrepInit(text, string, byte)
  /\ [][GrepNext]_grepVars

-----------------------------------------------------------------------------
Matches(line) ==
  \E k \in 1..(Len(line) - Len(search) + 1) : SubSeq(line, k, k + Len(search) - 1) = search

\* Those of the first n lines that hold the string.
Found[n \in 0..Len(Lines(file))] ==
  IF n = 0 THEN <<>>
  ELSE IF Matches(Lines(file)[n]) THEN Append(Found[n - 1], Lines(file)[n]) ELSE Found[n - 1]

LinesFit == \A n \in DOMAIN Lines(file) : Len(Lines(file)[n]) <= BUFSIZE

\* grep prints the lines of the file that hold the string, whole and in their
\* order, and has printed all of them when it closes the file. It takes lines
\* that fit the buffer, and a byte after it that is no newline at first: the
\* code tests that byte before anything wrote it, and a newline there makes
\* it take the first cut line for a whole one.
PrintsMatches ==
  junk # NL /\ LinesFit =>
    /\ \E n \in 0..Len(Lines(file)) : printed = Found[n]
    /\ at = "closed" => printed = Found[Len(Lines(file))]
=============================================================================
