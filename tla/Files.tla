-------------------------------- MODULE Files --------------------------------
(***************************************************************************)
(* The read-only file system image (filesys.c), the system calls on file   *)
(* descriptors (system.c, pcb.c) and the loading of a program, for the     *)
(* program on the CPU. The image is given by constants.                    *)
(***************************************************************************)
EXTENDS Integers, Sequences

CONSTANTS
  FD_ARRAY_SIZE,
  NUM_DIR,            \* entries the boot block has room for
  FILE_NAME_SIZE,
  DATA_BLOCK_SIZE,
  CHUNK,              \* bytes load_file reads at a time
  MAGIC,              \* the first bytes of an executable
  Directory,          \* the entries in use, in order
  Beyond,             \* the name found in the 64 bytes after the last entry
  Inodes,             \* per inode: its length and its block numbers
  Blocks,             \* per block number: its bytes
  Names,              \* the names programs open
  COMMAND_SIZE,
  ARGS_ARR_SIZE,
  Commands,           \* the buffers programs pass to execute, with the bytes
                      \* that follow the command in them
  Sizes,              \* the values of nbytes they pass
  MaxListed           \* bound on the names read from one open directory

RTC == 0
DIR == 1
FILE == 2

Nul == "\\0"
Space == " "

Bytes == 0..255

\* Strings of C: what stands before the NUL.
Strings == {s \in Seq(STRING) : \A k \in DOMAIN s : s[k] # Nul}

ASSUME FilesAssumption ==
  /\ FD_ARRAY_SIZE \in Nat \ {0, 1, 2}
  /\ NUM_DIR \in Nat /\ Len(Directory) <= NUM_DIR
  /\ FILE_NAME_SIZE \in Nat
  /\ DATA_BLOCK_SIZE \in Nat \ {0}
  /\ CHUNK \in Nat \ {0}
  /\ MaxListed \in Nat
  /\ COMMAND_SIZE \in Nat /\ ARGS_ARR_SIZE \in Nat /\ COMMAND_SIZE < ARGS_ARR_SIZE
  /\ Sizes \subseteq Int

\* The image: a file's name fills at most its field, and its length fits its
\* blocks.
ASSUME ImageAssumption ==
  /\ Directory \in Seq([file_name : Strings, file_type : {RTC, DIR, FILE}, inode_num : Nat])
  /\ \A k \in DOMAIN Directory :
       /\ Len(Directory[k].file_name) <= FILE_NAME_SIZE
       /\ Directory[k].file_type = FILE => Directory[k].inode_num \in DOMAIN Inodes
  /\ DOMAIN Inodes \subseteq Nat
  /\ \A n \in DOMAIN Inodes :
       /\ Inodes[n].length \in Nat
       /\ Inodes[n].data_block_nums \in Seq(DOMAIN Blocks)
       /\ Inodes[n].length <= DATA_BLOCK_SIZE * Len(Inodes[n].data_block_nums)
  /\ \A b \in DOMAIN Blocks : Blocks[b] \in Seq(Bytes) /\ Len(Blocks[b]) = DATA_BLOCK_SIZE

\* What programs pass, and the bytes beyond the directory.
ASSUME InputAssumption ==
  /\ Beyond \in Strings
  /\ MAGIC \in Seq(Bytes)
  /\ Names \subseteq Strings
  /\ Commands \subseteq Seq(STRING)
  /\ \A c \in Commands : Len(c) = COMMAND_SIZE

Fds == 0..(FD_ARRAY_SIZE - 1)

VARIABLES
  fd_array,           \* the descriptor table of the PCB
  args,               \* the arguments in the PCB, up to the NUL
  program,            \* what is loaded at 0x08048000
  rval,               \* what the last system call returned
  command,            \* history: the buffer the program was executed with
  name,               \* history: the name each descriptor was opened with
  got                 \* history: what was read from it since; of a
                      \* directory, the last name

programVars == <<args, program, command>>
history == <<name, got>>
vars == <<fd_array, programVars, rval, history>>

-----------------------------------------------------------------------------
(***************************************************************************)
(* filesys.c                                                               *)
(***************************************************************************)
Least(a, b) == IF a < b THEN a ELSE b
Greatest(a, b) == IF a > b THEN a ELSE b

\* Character k of a string, NUL after its end.
CharAt(s, k) == IF k <= Len(s) THEN s[k] ELSE Nul

\* Mutant: as many characters as the name asked for has.
SamePrefix(fname, dname) == \A k \in 1..Len(fname) : fname[k] = CharAt(dname, k)

\* strncmp over the longer of the two names, at most FILE_NAME_SIZE.
SameName(fname, dname) ==
  \A k \in 1..Least(FILE_NAME_SIZE, Greatest(Len(fname), Len(dname))) :
    CharAt(fname, k) = CharAt(dname, k)

\* read_dentry_by_name finds entry k for fname, or none.
Finds(fname, k) ==
  /\ Len(fname) <= FILE_NAME_SIZE
  /\ k \in DOMAIN Directory
  /\ SameName(fname, Directory[k].file_name)
  /\ \A j \in 1..(k - 1) : ~SameName(fname, Directory[j].file_name)
FindsNone(fname) == \A k \in DOMAIN Directory : ~Finds(fname, k)

\* The name read_dentry_by_index copies: unused entries are zero, and one
\* entry more than there are passes its check.
NameAt(index) ==
  IF index < Len(Directory) THEN Directory[index + 1].file_name
  ELSE IF index < NUM_DIR THEN <<>> ELSE Beyond
IndexRefused(index) == index > NUM_DIR

\* The byte the loop of read_data stores for an offset.
Byte(inode, offset) ==
  LET block == Inodes[inode].data_block_nums[(offset \div DATA_BLOCK_SIZE) + 1]
  IN  Blocks[block][(offset % DATA_BLOCK_SIZE) + 1]

\* The length is unsigned: a negative one asks for everything.
read_data(inode, offset, length) ==
  LET left == Greatest(0, Inodes[inode].length - offset)
      count == IF length < 0 THEN left ELSE Least(left, length)
  IN  [k \in 1..count |-> Byte(inode, offset + k - 1)]

-----------------------------------------------------------------------------
Closed == [file_operations |-> "none", inode_num |-> 0, file_pos |-> 0, flags |-> 0]

\* The descriptors of a new program: stdin and stdout.
create_pcb ==
  [fd \in Fds |->
     CASE fd = 0 -> [Closed EXCEPT !.file_operations = "stdin", !.flags = 1]
       [] fd = 1 -> [Closed EXCEPT !.file_operations = "stdout", !.flags = 1]
       [] OTHER -> Closed]

NoHistory == [fd \in Fds |-> <<>>]

\* The shell, which the kernel runs first.
Init ==
  /\ fd_array = create_pcb
  /\ args = <<>>
  /\ program = <<>>
  /\ command = <<>>
  /\ rval = 0
  /\ name = NoHistory
  /\ got = NoHistory

Fails == rval' = -1 /\ UNCHANGED <<fd_array, programVars, history>>

Free(fd) == fd >= 2 /\ fd_array[fd].flags = 0

Operations(type) == CASE type = RTC -> "rtc" [] type = DIR -> "dir" [] type = FILE -> "file"

\* Mutant: the position of the last use is kept.
OpenKeepsPos(fname) ==
  \E k \in DOMAIN Directory, fd \in Fds :
    /\ Finds(fname, k)
    /\ Free(fd)
    /\ \A g \in Fds : g < fd => ~Free(g)
    /\ fd_array' = [fd_array EXCEPT
         ![fd] = [file_operations |-> Operations(Directory[k].file_type),
                  inode_num |-> IF Directory[k].file_type = FILE
                                THEN Directory[k].inode_num ELSE 0,
                  file_pos |-> @.file_pos, flags |-> 1]]
    /\ rval' = fd
    /\ name' = [name EXCEPT ![fd] = fname]
    /\ got' = [got EXCEPT ![fd] = <<>>]
    /\ UNCHANGED programVars

\* open: the first free descriptor is set up for the file's type. With no free
\* one the name is not even looked up.
open(fname) ==
  \/ \E k \in DOMAIN Directory, fd \in Fds :
       /\ Finds(fname, k)
       /\ Free(fd)
       /\ \A g \in Fds : g < fd => ~Free(g)
       /\ fd_array' = [fd_array EXCEPT
            ![fd] = [file_operations |-> Operations(Directory[k].file_type),
                     inode_num |-> IF Directory[k].file_type = FILE
                                   THEN Directory[k].inode_num ELSE 0,
                     file_pos |-> 0, flags |-> 1]]
       /\ rval' = fd
       /\ name' = [name EXCEPT ![fd] = fname]
       /\ got' = [got EXCEPT ![fd] = <<>>]
       /\ UNCHANGED programVars
  \/ /\ FindsNone(fname) \/ \A fd \in Fds : ~Free(fd)
     /\ Fails

\* close, also of a number that is no descriptor.
close(fd) ==
  \/ /\ fd \in 2..(FD_ARRAY_SIZE - 1)
     /\ fd_array[fd].flags = 1
     /\ fd_array' = [fd_array EXCEPT ![fd].flags = 0]
     /\ rval' = 0
     /\ UNCHANGED <<programVars, history>>
  \/ /\ fd \in 2..(FD_ARRAY_SIZE - 1) => fd_array[fd].flags = 0
     /\ Fails

IsOpen(fd, operations) ==
  /\ fd \in Fds
  /\ fd_array[fd].flags = 1
  /\ fd_array[fd].file_operations = operations

\* Mutant: the position is advanced by what was asked for.
FileReadAsked(fd, nbytes) ==
  /\ IsOpen(fd, "file")
  /\ LET f == fd_array[fd]
         bytes == read_data(f.inode_num, f.file_pos, nbytes)
     IN  /\ fd_array' = [fd_array EXCEPT ![fd].file_pos = @ + nbytes]
         /\ rval' = Len(bytes)
         /\ got' = [got EXCEPT ![fd] = @ \o bytes]
  /\ UNCHANGED <<programVars, name>>

file_read(fd, nbytes) ==
  /\ IsOpen(fd, "file")
  /\ LET f == fd_array[fd]
         bytes == read_data(f.inode_num, f.file_pos, nbytes)
     IN  /\ fd_array' = [fd_array EXCEPT ![fd].file_pos = @ + Len(bytes)]
         /\ rval' = Len(bytes)
         /\ got' = [got EXCEPT ![fd] = @ \o bytes]
  /\ UNCHANGED <<programVars, name>>

\* Mutant: an entry cut short by nbytes is not passed over.
DirReadRetries(fd, nbytes) ==
  /\ IsOpen(fd, "dir")
  /\ fd_array[fd].file_pos < MaxListed
  /\ LET pos == fd_array[fd].file_pos
         entry == NameAt(pos)
         count == Greatest(0, Least(nbytes, Len(entry)))
     IN  /\ ~IndexRefused(pos)
         /\ fd_array' = [fd_array EXCEPT
              ![fd].file_pos = IF count < Len(entry) THEN @ ELSE @ + 1]
         /\ rval' = count
         /\ got' = [got EXCEPT ![fd] = SubSeq(entry, 1, count)]
  /\ UNCHANGED <<programVars, name>>

\* The next entry's name, cut to nbytes; the entry is passed either way. got
\* takes the bytes counted: the rest of FILE_NAME_SIZE bytes of the caller's
\* buffer, which is not modelled, is filled with NULs, also beyond nbytes.
dir_read(fd, nbytes) ==
  /\ IsOpen(fd, "dir")
  /\ fd_array[fd].file_pos < MaxListed
  /\ LET pos == fd_array[fd].file_pos
         entry == NameAt(pos)
         count == Greatest(0, Least(nbytes, Len(entry)))
     IN  \/ /\ ~IndexRefused(pos)
            /\ fd_array' = [fd_array EXCEPT ![fd].file_pos = @ + 1]
            /\ rval' = count
            /\ got' = [got EXCEPT ![fd] = SubSeq(entry, 1, count)]
         \/ /\ IndexRefused(pos)
            /\ rval' = -1
            /\ UNCHANGED <<fd_array, got>>
  /\ UNCHANGED <<programVars, name>>

\* rtc_read returns 0 (Rtc); terminal_read returns a count of at most nbytes,
\* a negative one for a negative nbytes (Terminal); reading stdout, a closed
\* descriptor or no descriptor fails.
read(fd, nbytes) ==
  \/ file_read(fd, nbytes)
  \/ dir_read(fd, nbytes)
  \/ /\ IsOpen(fd, "rtc")
     /\ rval' = 0
     /\ UNCHANGED <<fd_array, programVars, history>>
  \/ /\ IsOpen(fd, "stdin")
     /\ rval' \in Least(0, nbytes)..Greatest(0, nbytes)
     /\ UNCHANGED <<fd_array, programVars, history>>
  \/ /\ fd \in Fds => fd_array[fd].flags = 0 \/ IsOpen(fd, "stdout")
     /\ Fails

\* Only stdout takes any number of bytes; the RTC takes four.
write(fd, nbytes) ==
  \/ /\ IsOpen(fd, "stdout") \/ (IsOpen(fd, "rtc") /\ nbytes = 4)
     /\ rval' = nbytes
     /\ UNCHANGED <<fd_array, programVars, history>>
  \/ /\ ~IsOpen(fd, "stdout")
     /\ ~IsOpen(fd, "rtc") \/ nbytes # 4
     /\ Fails

-----------------------------------------------------------------------------
(***************************************************************************)
(* Running a program                                                       *)
(***************************************************************************)

\* check_validity. Of a file shorter than MAGIC the bytes compared are those
\* an uninitialised array held.
Executable(k) ==
  /\ Directory[k].file_type = FILE
  /\ LET head == read_data(Directory[k].inode_num, 0, Len(MAGIC))
     IN  head = SubSeq(MAGIC, 1, Len(head))
MayBeRefused(k) ==
  \/ ~Executable(k)
  \/ Inodes[Directory[k].inode_num].length < Len(MAGIC)

\* Mutant: a last chunk that is not full is dropped.
LoadsFullChunks(inode) ==
  LET length == Inodes[inode].length
      rest[sofar \in 0..length] ==
        IF sofar + CHUNK > length THEN <<>>
        ELSE read_data(inode, sofar, CHUNK) \o rest[sofar + CHUNK]
  IN  rest[0]

\* load_file's loop, from read_sofar = sofar.
load_file(inode) ==
  LET length == Inodes[inode].length
      rest[sofar \in 0..length] ==
        IF sofar = length THEN <<>>
        ELSE LET bytes == read_data(inode, sofar, CHUNK)
             IN  bytes \o rest[sofar + Len(bytes)]
  IN  rest[0]

\* The index of the first of stops in buffer from k on, or one past the end.
Until(buffer, k, stops) ==
  CHOOSE e \in k..Greatest(k, Len(buffer) + 1) :
    /\ \A j \in k..(e - 1) : j <= Len(buffer) /\ buffer[j] \notin stops
    /\ e > Len(buffer) \/ buffer[e] \in stops

\* parse_args: the first word is the program's name.
ProgramName(buffer) == SubSeq(buffer, 1, Until(buffer, 1, {Space, Nul}) - 1)

\* Mutant: what ended the name is not skipped.
ArgumentsWithSpace(buffer) ==
  LET first == Until(buffer, 1, {Space, Nul})
  IN  SubSeq(buffer, first, Until(buffer, first, {Nul}) - 1)

\* The arguments begin after whatever ended the name, a NUL too: then they are
\* the bytes that the buffer holds after the command.
Arguments(buffer) ==
  LET first == Until(buffer, 1, {Space, Nul}) + 1
  IN  SubSeq(buffer, first, Until(buffer, first, {Nul}) - 1)

\* execute, as far as files go (Processes has the rest): the file is loaded
\* and the new program has arguments and descriptors of its own. A name that
\* does not fit program[] is refused by the search.
execute(buffer) ==
  LET fname == ProgramName(buffer) IN
  \/ \E k \in DOMAIN Directory :
       /\ Finds(fname, k)
       /\ Executable(k)
       /\ args' = Arguments(buffer)
       /\ program' = load_file(Directory[k].inode_num)
       /\ command' = buffer
       /\ fd_array' = create_pcb
       /\ rval' = 0
       /\ name' = [NoHistory EXCEPT ![0] = fname]
       /\ got' = NoHistory
  \/ /\ FindsNone(fname) \/ \E k \in DOMAIN Directory : Finds(fname, k) /\ MayBeRefused(k)
     /\ Fails

\* getargs copies nbytes of the array, zero after the arguments; got[0] is the
\* string that leaves in a buffer of zeroes.
getargs(nbytes) ==
  /\ rval' = 0
  /\ got' = [got EXCEPT ![0] = SubSeq(args, 1, Least(Least(nbytes, ARGS_ARR_SIZE), Len(args)))]
  /\ UNCHANGED <<fd_array, programVars, name>>

Next ==
  \/ \E fname \in Names : open(fname)
  \/ \E fd \in -1..FD_ARRAY_SIZE : close(fd)
  \/ \E fd \in -1..FD_ARRAY_SIZE, nbytes \in Sizes : read(fd, nbytes)
  \/ \E fd \in -1..FD_ARRAY_SIZE, nbytes \in Sizes : write(fd, nbytes)
  \/ \E buffer \in Commands : execute(buffer)
  \/ \E nbytes \in Sizes : getargs(nbytes)

Spec == Init /\ [][Next]_vars

-----------------------------------------------------------------------------
(***************************************************************************)
(* Properties                                                              *)
(***************************************************************************)

\* The type of the state.
TypeOK ==
  /\ fd_array \in [Fds -> [file_operations : {"none", "stdin", "stdout", "rtc", "dir", "file"},
                           inode_num : DOMAIN Inodes \cup {0},
                           file_pos : Nat, flags : {0, 1}]]
  /\ args \in Strings
  /\ command \in Commands \cup {<<>>}
  /\ rval \in Int
  /\ name \in [Fds -> Strings]
  /\ got = [fd \in Fds |-> got[fd]]

\* What a file holds, by its blocks.
Content(inode) ==
  LET blocks == Inodes[inode].data_block_nums
      all[k \in 0..Len(blocks)] == IF k = 0 THEN <<>> ELSE all[k - 1] \o Blocks[blocks[k]]
  IN  SubSeq(all[Len(blocks)], 1, Inodes[inode].length)

\* Reads of any sizes from an open file return its bytes in order, each once,
\* across blocks that are not contiguous and after its descriptor was used
\* for something else (filesys.c:82-147).
ReadsInOrder ==
  \A fd \in Fds : IsOpen(fd, "file") =>
    got[fd] = SubSeq(Content(fd_array[fd].inode_num), 1, fd_array[fd].file_pos)

IsPrefixOf(s, t) == Len(s) <= Len(t) /\ s = SubSeq(t, 1, Len(s))

\* Reads of an open directory go through its names in order, one entry each
\* whatever their size, and are empty after the last, as far as the boot block
\* reaches (filesys.c:190-227).
ListsInOrder ==
  \A fd \in Fds : IsOpen(fd, "dir") =>
    LET pos == fd_array[fd].file_pos IN
    pos \in 1..NUM_DIR =>
      IsPrefixOf(got[fd],
                 IF pos <= Len(Directory) THEN Directory[pos].file_name ELSE <<>>)

\* A descriptor open for a file is on the file that has exactly the name asked
\* for: no longer one, no shorter one (syserr's test err_open).
OpensNamed ==
  \A fd \in Fds : IsOpen(fd, "file") =>
    \E k \in DOMAIN Directory :
      /\ Directory[k].file_name = name[fd]
      /\ Directory[k].inode_num = fd_array[fd].inode_num

\* The program in memory is the whole file that was executed (system.c:337-360).
LoadsWhole ==
  name[0] # <<>> =>
    \E k \in DOMAIN Directory :
      /\ Directory[k].file_name = name[0]
      /\ program = Content(Directory[k].inode_num)

\* "get the first word which is the name program to run, and rest of words which
\* are the args" (system.c:273-274): of a command with a space, getargs returns
\* what follows the first one, cut to size, and of the bytes after the command
\* nothing, whatever calls came in between.
ArgumentsReach ==
  \A space \in DOMAIN command, end \in 1..(Len(command) + 1) :
    /\ command[space] = Space /\ \A j \in 1..(space - 1) : command[j] \notin {Space, Nul}
    /\ end = Len(command) + 1 \/ command[end] = Nul
    /\ \A j \in 1..(end - 1) : command[j] # Nul
    /\ space < end
    => IsPrefixOf(got[0], SubSeq(command, space + 1, end - 1))

=============================================================================
