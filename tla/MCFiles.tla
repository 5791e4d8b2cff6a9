------------------------------- MODULE MCFiles -------------------------------
(***************************************************************************)
(* A small image: a directory, the RTC, two files whose names share a      *)
(* prefix and whose blocks are out of order, one of them an executable.    *)
(***************************************************************************)
EXTENDS Files

Entry(file_name, type, inode) ==
  [file_name |-> file_name, file_type |-> type, inode_num |-> inode]

SmallDirectory ==
  << Entry(<<".">>, DIR, 0), Entry(<<"r">>, RTC, 0),
     Entry(<<"s", "h">>, FILE, 1), Entry(<<"s">>, FILE, 0) >>

SmallInodes ==
  [n \in {0, 1} |->
     IF n = 0 THEN [length |-> 3, data_block_nums |-> <<2, 0>>]
              ELSE [length |-> 5, data_block_nums |-> <<3, 1, 4>>]]

SmallBlocks ==
  [b \in 0..4 |-> IF b = 3 THEN <<7, 69>> ELSE <<10 * b + 1, 10 * b + 2>>]

AskedNames ==
  { <<".">>, <<"r">>, <<"s">>, <<"s", "h">>, <<"h">>, <<"s", "h", "h">>, <<>> }

\* Commands without and with arguments, the buffers still holding a byte of a
\* longer one; names that are refused; a word that fills the buffer.
AskedCommands ==
  { <<"s", "h", Nul, "x", Nul, Nul>>, <<"s", "h", " ", "y", Nul, "x">>,
    <<"s", " ", "y", Nul, "x", Nul>>, <<"r", Nul, "h", Nul, Nul, Nul>>,
    <<"s", "h", "h", "h", "h", "h">>, <<" ", "s", "h", Nul, "y", Nul>> }

\* One byte, as many as the RTC takes, and a negative number.
AskedSizes == {-1, 1, 4}

ElfMagic == <<7, 69>>
Garbage == <<"g">>

=============================================================================
