# A TLA+ model of the Illinix kernel

Illinix (`student-distrib/`) is a small 32-bit x86 kernel: six process slots,
three text terminals, one CPU, a read-only file system image loaded by the boot
loader, and ten system calls. This directory holds TLA+ modules that model its
core, TLC configurations that check them on small instances, and TLAPS proofs
of the properties that matter most, for every value of the constants.

Source lines are given as `file:line` relative to `student-distrib/`;
`PROJECT.json` maps every definition to the lines it stands for.

## 1. Inventory

| Component | State | Operations | Talks to |
|---|---|---|---|
| Process slots, execute, halt (`system.c`, `pcb.c`) | `processes[]`, the PCBs at the bottom of each 8 KB kernel stack (parent, tty, saved esp/ebp, descriptors), `tty_top_pid[]`, `next_one_is_root_shell`, `tss.esp0` | `execute`, `halt`, the exceptions' `halt(1)` | paging (program page), file system (validity, loading), terminals (whose program is on top) |
| Terminal switch and scheduler (`task_switch.c`, `scheduling.c`, `pit.c`) | `active_tty`, the saved esp/ebp of the PCBs | `switch_to_tty` from the keyboard interrupt, `pit_handler`/`switch_process` | processes, paging, screen |
| Boot (`kernel.c`, `boot.S`) | all of the above, before the first program | `entry`: devices, `sti`, the terminals' tops, `execute("shell")` | everything |
| Terminal input (`dev/terminal.c`) | `terminal_buffer[][]`, `tail[]`, one `enter_status` | `terminal_open`, `terminal_read` (spins, interrupts on), `terminal_write` | keyboard handler, screen |
| Screen (`lib.c`) | video memory, `screen_x`, `screen_y`, `screen_buf[]`, `screen_loc_buf[]` | `putc`, `bksp`, `clear`, `switch_screen` | terminal, keyboard (Ctrl+L), terminal switch |
| Keyboard (`idt.c`) | `shift_pressed`, `alt_pressed`, `ctrl_pressed`, `caps_enabled` | `kb_interrupt_do` per scan code | terminal, screen, terminal switch |
| RTC and interrupt masks (`rtc.c`, `i8259.c`) | `flag`, `cached_irq_mask`, the 8259's mask, RTC registers A and C | `rtc_open`, `rtc_write`, `rtc_read` (spins, keyboard masked), the handler, `enable_irq`, `disable_irq`, `send_eoi`, `i8259_init` | keyboard (masked during a read) |
| File system and descriptors (`filesys.c`, `system.c`, `pcb.c`) | the image, `fd_array[]` of each PCB, the program's memory | `open`, `close`, `read`, `write`, directory search, `read_data`, `check_validity`, `load_file`, `getargs`, `parse_args` | execute, terminal, RTC |
| Paging (`paging.c`) | `page_dir`, `page_table` | `paging_init`, `create_page`, `set_vidmap`, `vidmap` | execute, halt, both switches |
| System call gate and exceptions (`handlers.S`, `idt.c`) | the interrupt flag, the IDT | entry, number check, `sti; iret` | everything a program calls |
| Library (`lib.c`, `syscalls/ece391support.c`) | none | string, memory and number functions, `printf` | everything |
| Programs (`syscalls/`, `fish/`) | fish: `blink_array`, the list of blinkers, the mapped screen; grep: its buffer | fish: the four ioctls of `blink.S`, the tasklet, `add_frames`; grep: `do_one_file` | files, RTC, `vidmap` |

### What is hard here

* **Interrupts.** Vector 0x80 and the exceptions are trap gates, so system calls
  run with interrupts on unless they say `cli`: `execute`, `halt`, `close`,
  `rtc_open`, `rtc_write` and `terminal_write` do, `terminal_read` and `rtc_read`
  do not. Keyboard, RTC and PIT are interrupt gates. So two loops of the kernel
  share memory with handlers: `terminal_read` (buffer and `tail`) and `rtc_read`
  (`flag`, `cached_irq_mask`).
  The keyboard handler turns interrupts on (in `terminal_write`) before its EOI,
  so handlers nest, in the order the 8259s allow.
* **Build.** `CFLAGS` (`Makefile:7`) has no `-O`: each use of a global is a load,
  each assignment a store. The models of the two loops take these as steps.
* **Contexts.** A saved esp/ebp pair is only good while the frames it points at
  are on that kernel stack. Three places save one or load one, and they do not
  agree on who saves.
* **Limits.** A full process table met by a terminal switch; a full line; the
  last cell of the screen; a full directory; the ends of the frequency range.

### What makes each component correct

* Processes: each terminal's live programs form one chain from a root shell to
  the program the terminal runs; no slot is lost; a program that ends gives its
  terminal back to the one that ran it; page, kernel stack and CPU agree.
* Switch and scheduler: what is loaded is a context that was saved; the PIT
  moves on to the next terminal.
* Terminal: a read takes characters off the front of its own terminal's line,
  whatever is typed meanwhile, and ends once Enter is pressed.
* Screen: cursor and stores stay on the screen; a terminal's text survives
  switching away and back.
* Keyboard: no modifier flag without its key.
* RTC: a read waits for an interrupt of its own and then returns; the keyboard
  is unmasked again, and the kernel's copy of the mask is no leftover of calls
  that are over.
* Files: any sizes of reads return the file's bytes in order, once; names match
  exactly; a program is loaded whole and gets its arguments.
* Interrupts: each line in service has a handler that will end it, no request is
  lost, masks are what the kernel believes once sent, requests are taken in the
  end.
* Paging: user mode reaches its own program page and the video memory only.
* Programs: the slots of fish's array in use are those on its list; its blinkers
  are those of the two pictures; grep prints the matching lines, whole; both end.
* Library: what a routine computes is what its comment says, at every alignment,
  overlap and boundary.

`PROJECT.json` lists the hazards behind these, each at its line.

## 2. Modules

| Module | Models | Lines it stands for |
|---|---|---|
| `Processes` | slots, PCB links, saved contexts, terminal tops, execute, halt, exceptions, terminal switch, PIT, end of boot | `system.c:26-267`, `task_switch.c`, `scheduling.c`, `pit.c`, `kernel.c:142-205`, `idt.c:201-421` |
| `TtySessions` | abstract: one stack of programs per terminal; `Processes` ends with the mapping to it | – |
| `ProcessesProofs` | theorems about `Processes`, the refinement included, and about `Paging` | – |
| `Terminal` | line buffers, keys, `terminal_read` one access at a time | `dev/terminal.c` |
| `TtyInput` | abstract: one line of typed characters per terminal; `Terminal` ends with the mapping to it | – |
| `MCTerminal` | the setups of the terminal runs | – |
| `TerminalProofs` | theorems about `Terminal`, the refinement included | – |
| `Screen`, `ScreenProofs` | the text screen, theorems about it | `lib.c:18-89, 230-274` |
| `Keyboard`, `KeyboardProofs` | scan codes and modifier flags; the theorem about them | `idt.c:98-196`, `dev/terminal.h` |
| `Rtc`, `RtcProofs` | RTC driver and the keyboard's mask bit; theorems | `rtc.c`, `i8259.c:55-93` |
| `Files`, `MCFiles`, `FilesProofs` | image, descriptors, loading; a small image; theorems | `filesys.c`, `system.c:270-548`, `pcb.c` |
| `Paging` | page directory and table, composed with `Processes` | `paging.c`, `system.c:551-567`, the callers of `create_page` |
| `Interrupts`, `InterruptsProofs` | the two 8259s, gates, nested handlers, system call entry; theorems | `i8259.c`, `handlers.S`, `idt.c:51-69, 129-196`, `pit.c`, `rtc.c`, `kernel.c:151-188` |
| `Blink`, `Fish` | the list of blinkers; the program around it | `fish/blink.S`, `fish/fish.c` |
| `Grep` | the search of one file | `syscalls/ece391grep.c:9-66` |
| `Library` | string, memory and number routines as operators | `lib.c:108-209, 285-567`, `syscalls/ece391support.c` |
| `Lines` | reference: the lines of a text | – |
| `MCPrograms` | the programs and the library for TLC, references of the library | – |
| `ProgramsProofs` | theorems about `Blink`, `Fish`, `Grep` and `Library` | – |

The components interact through few values, and each module keeps the ones its
properties need: `Paging` extends `Processes`, whose program page is a slot
number, with the entries that each of its steps writes; `Terminal` and `Rtc` have `active_tty` and let a switch stop one
reader and go on with another (`Processes` has the switch itself), `Screen` has
the screen half of the switch, `Files` the file half of execute. Definitions
whose comment begins with "Mutant" are plausible bugs of the definition that
follows them; no specification uses them.

### Processes

One action per system call or handler: `SysExecute`, `SysExecuteFails`, `Halt`
(`HaltRoot`, `HaltChild`), `Exception`, `SwitchToTty` (`OpenTty`, `ShowTty`),
`Tick`, and `EnterRead`/`LeaveRead` for the call that spins. Those are atomic
because they hold interrupts off. The end of `entry()` is a step per terminal
(`BootTty`) and one for the shell (`BootShell`), since interrupts are on from
line 188. No key is pressed until the first shell runs.

A saved esp/ebp pair (`ctx`) is abstracted to the frames it points at: `"top"`
(the stack was left just as the pair was saved), a place (frames of a PIT
interrupt taken there, since returned from) or `"none"`. `Resume` says what
loading it does: frames on top continue the process; frames of the same depth
that later calls wrote over continue it or not depending on the build's frame
layout, so both are allowed; anything else is a jump to whatever the stack holds
(`control = "wild"`). `get_next_process` also reads `tty_top_pid[MAX_TTY]` for
the last terminal; what it finds there does not reach the result. The status a
program halts with is dropped by the code and so by the model: the caller of
`execute` gets 0. The history variable `switchFailed` records that a terminal
switch met a full table, after which the root-shell flag stays set.

### Terminal

`terminal_buffer` is one array of cells, rows after each other and some cells
around them, so that an index beyond a row is the next row's. `terminal_read` is
ten steps, one for each access to what the handler changes. `races` counts keys
that fall into a window where the code goes wrong, `overflows` characters stored
beyond a row, and `grown` the bytes of negative lengths: neither `read` nor
`terminal_read` looks at the sign of `nbytes`, and with a negative one the shift
moves the row up and `tail` is raised. All three are bounded by constants. A reader whose terminal is switched
away from continues when it is switched back to (the outcome `Processes` allows
in which control is not lost).

### Screen

A cell is a column and a row. `PutNewline`, `PutTab` and `PutGlyph` are the cases
of `putc`, with its scrolling; `bksp` finds the end of the row above;
`SwitchToTty` is `switch_screen` with the `clear` that follows for a new
terminal. `bksp` is allowed at any time, although `terminal_write` calls it only
with a character in the line. Programs that write the video memory themselves
(through `vidmap`) are left out. The glyphs printed may
include the blank: `bksp` then takes the row to end before it.

### Keyboard

Keys are pressed and released in any order, their scan codes wait in the
controller, and `kb_interrupt_do` takes one at a time. The prefix 0xE0 of the
right-hand keys is taken for Ctrl, as `terminal.h:20` defines it.

### Rtc

Masks are their bit for IRQ1. `rtc_read` is a step per memory or port access.
`rtc_write` has the three outcomes of the code: a valid frequency from 2 up, the
frequency 1, whose rate does not fit, and one that the check refuses, after which
an uninitialised rate is written; the history `misused` records the last two. A call with `nbytes # 4` changes nothing and is
in `Files`.

### Files

The image is a set of constants; `ImageAssumption` says it is well formed,
`FilesAssumption` how the sizes of the headers relate, and `InputAssumption` what
programs may pass.
`read_data` is the bytes its loop stores; `load_file` is its loop. Directory
reads past the last entry and the entry beyond the directory that the index
check lets through are in `NameAt`; that `dir_read` fills `FILE_NAME_SIZE` bytes of
the caller's buffer whatever `nbytes` is has no counterpart, since results are not
kept in a caller's memory. A read of the terminal may return any count between 0 and
the length asked for, also a negative one (`Terminal` has the loop). `execute` takes the caller's buffer, with the
bytes that follow the command in it: `ProgramName` and `Arguments` are the two
loops of `parse_args`. A first word longer than `program[]` is taken as one the
search refuses; what the copy overwrites is up to the build's frame layout.

### Paging

Only entries that the code sets exist; those of the programs, 31 and 32, are absent
from `paging_init` until the first `create_page`. `create_page` and `set_vidmap` are the
functions; each action of `Processes` that loads a page is conjoined with what it
does to the directory (`LoadNew`, `LoadAgain`), and `vidmap` is an action of the
running program. A store through the pointer that `vidmap` wrongly accepts
faults, so the program's next step is an exception (`faulting`).

### Interrupts

Registers are sets of lines. `Presented` is the 8259's rule: not masked, and
nothing of the same or a higher priority in service. `frames` is the kernel stack
of the running program: one frame per handler or call, with whether its EOI is
sent, the interrupt flag it returns to and the register a mask goes through.
`rtc_read` runs with interrupts on and is a step per access to `cached_irq_mask`, to
the controller and to `flag`, as in `Rtc`; here for all lines and with what nests on
it. `KeySwitch` leaves what the key interrupted on its terminal's stack (`away`) and
goes on with what is on the other's: user mode, or the inside of a call; or it comes
back when the table is full. A switch that loses control (`switch_keeps_control`) is
not followed. `races` counts switches that leave a program inside `rtc_read`. `Boot`
is `entry()` from `cli` on: ICW1 clears the mask registers (`i8259.c:35`), so every
line is open from the `sti` of `init_rtc` on; each `enable_irq` of it is a store and
an `outb`. `RtcRate` is what `rtc_open` and `rtc_write` do to the chip: it may stop
(`ticking`), as `Rtc` says when, and start again. The PIT and the user are slow: a
tick comes when no tick is being handled, and keys when earlier ones have been dealt
with. The PIT goes back to the process it interrupted, as it always does
(`tick_moves_on`).

### Blink, Fish, Grep, Library

`Blink` has the array, the list head and the screen, one action per ioctl and the
tasklet; the countdown is a word compared as signed. Two histories say who wrote a
cell last, `drawn` the slot and `synced` whether `mp1_ioctl_sync` did it, which draws
the off character whatever the status is; `Poked` is what the tasklet draws. `Fish`
is `add_frames`, a step per pair of characters, and `main`'s stages. `Grep` is
`do_one_file`, a step per read and per line, with the uninitialised byte behind
the buffer as a parameter. `Library` gives each routine as an operator: the
assembly loops are recursive functions over the units they move. `memmove` leaves the
CPU's direction flag set (`lib.c:497`), which would turn the next string instruction
round; it has no caller, and the flag is not modelled. All are sequential; what is
hard is their boundaries.

## 3. Runs

| Run | Checks | Bounds |
|---|---|---|
| `processes` | `FirstShellStays`, `OneProcessLoaded`, `Sessions`, `NoSlotLeaked`, `UserReach`, `VidmapStays`, `HaltReturnsToParent`, `ImplementsTtySessions` | 3 slots, 2 terminals: a chain of three, a chain beside another terminal's shell, and a switch that meets a full table all occur; 3 million states with the pages |
| `terminal` | `TypeOK`, `CopyFits`, `ImplementsTtyInput`, `WakesOnce`, `TailRecovers`, `ReadReturns` | rows of 2, two characters (so order shows), reads of -1, 1 and 2; three setups in one run: one terminal with one race and one overflow, the same with one character and a read of length -1, and two terminals with none of these; 660 thousand states |
| `screen` | `CursorInRange`, `StoresOnScreen`, `ScreensKept` | 3 columns and 2 rows: less than a tab, so tabs, wrapping and scrolling meet; 2 terminals |
| `keyboard` | `NoStuckModifier` | three keys down, three codes waiting: both keys of a pair and a prefixed one together |
| `rtc` | `KeyboardReenabled`, `MaskOwned`, `ReadWaits`, `ReadReturns` | 2 programs, 3 switches inside `rtc_read` (the number that breaks the mask), frequencies 0, 1, 2, 1024: each outcome of the check; 140 thousand states |
| `files` | `TypeOK`, `ReadsInOrder`, `ListsInOrder`, `OpensNamed`, `LoadsWhole`, `ArgumentsReach` | blocks of 2 bytes out of order, names that are prefixes of each other, sizes -1, 1, 4, two descriptors to open, commands with and without arguments in buffers that hold older bytes |
| `interrupts` | `InServiceOwned`, `NestsByPriority`, `NoRequestLost`, `MasksAgree`, `RequestsTaken` | stacks of two frames (a handler in a call, or the PIT in a key's handler with interrupts on), two codes waiting, 2 terminals, 3 switches inside `rtc_read`, a call of each kind; 190 thousand states. The proofs have any depth |
| `programs` | `ListSound`, `ShowsStatus`, `FramesLaid`, `PrintsMatches`, `NumbersReadBack`, `CopiesExactly`, `ProgramsEnd` | 3 cells and slots (so the array fills, with two blinkers in a cell), a word of 8; every pair of pictures of up to 3 characters, with rows that overlap; every file of up to 6 characters through a buffer of 3; every word of two hexadecimal digits, copies at every alignment within 17 bytes, strings of up to 3 |
| `switch_keeps_control` | violates `SwitchKeepsControl` | as `processes` |
| `first_shell_runs` | violates `FirstShellRuns` | as `processes` |
| `tick_moves_on` | violates `TickMovesOn` | as `processes` |
| `terminal_race` | violates `TakesOnlyWhatItReturns` | one terminal, rows of 3, one race |

The type invariants of `Processes`, `Screen` and `Interrupts` are in no run: they are
conjuncts of the invariants proved below for every value of the constants.

What they show:

* **processes.** Any order of execute, halt, exceptions, reads, terminal switches
  and PIT interrupts keeps the programs of each terminal one chain and every slot
  on one chain: the PCB links, `processes[]` and `tty_top_pid` implement a stack
  of programs per terminal (`TtySessions`). This holds until a terminal switch
  meets a full table; after that the root-shell flag makes the next program its
  own parent. The first shell, and the agreement of page, kernel stack and CPU,
  survive even that.
* **terminal.** As long as no key falls into a window, no line overflows and no read
  asks for a negative length,
  reads implement taking characters off the front of a line, keys typed *during*
  the read included, and the lines of two terminals stay apart. A read takes
  effect when `actual_copy` is computed; the mapping reassembles the line while
  it is being shifted. A key adds *its* character: the abstract `Type(c)` says
  which, so a character typed in place of one erased behind the shift, which the
  shift has passed by then, is a race as well. Each race, overflow or negative length
  damages a line, but takes `tail` and the indices no further out of their row than
  one byte for each; `tail` is no longer below -1 after the next read, every read
  ends, and a read stores at most the length asked for and the NUL after it
  (`CopyFits`, which allows that NUL). The one `enter_status`
  wakes one read per Enter (`WakesOnce`), though it may be another terminal's.
* **screen.** The cursor is a cell of the screen or the start of the row below
  it, no store leaves the screen, and a switch away and back keeps text and
  cursor.
* **keyboard.** A flag that is set has its key down once all codes are handled,
  but for `ctrl_pressed` after a key with a prefix.
* **rtc.** It takes three terminal switches inside calls of `rtc_read` to leave a
  program running with the keyboard masked (with three it happens: `enable_irq`
  sends whatever `cached_irq_mask` holds by then). However many there are, the cached
  mask has the keyboard's bit only while some call has yet to clear it (`MaskOwned`).
  Each read waits for an interrupt of its own although `flag` is shared, and returns
  unless the chip has stopped, which only frequency 1 and refused frequencies do.
* **files.** As its properties say.
* **processes, the pages.** User mode reaches the running program's page and, once
  any program has called `vidmap`, the video memory; the mapping outlives every
  switch (and the program: it is never taken back).
* **interrupts.** The early `sti` lets a PIT interrupt, never a second key, into
  the keyboard handler. The EOI that a failed terminal switch sends twice ends
  nothing else's service. No request is lost. Between the store to the cached mask
  and the `outb` the two differ; outside of that they agree until a switch falls
  inside `rtc_read`, and nothing but the keyboard is ever masked (`MasksAgree`).
  Every RTC request is taken. A key's is taken unless a program waits in `rtc_read`
  for a chip that was stopped, or three switches have fallen inside its calls: both
  leave the keyboard masked, and `RequestsTaken` names them.
* **programs.** The list of blinkers stays a list of the slots in use for any
  calls with locations other than 0. A cell shows what the blinker that wrote it
  last drew: the character of its status after an add or a tick, the off character
  after a sync. `add_frames` lays out the two pictures and
  ends. grep prints what it should if lines fit its buffer and the byte behind it
  is no newline at first.

### Disagreements with the repository's own comments

The four violation runs, each a finding of `PROJECT.json`:

* `switch_to_tty` saves no context of the process it leaves, and loads whatever
  was last saved for the one it goes to (`task_switch.c:36`).
* A PIT interrupt between `kernel.c:200` and `:205` never returns: the search for
  an opened terminal does not end, or ends with slot 255.
* `get_next_process` finds the next terminal and returns the process of the
  current one (`scheduling.c:23`), so the PIT never moves on.
* A character typed between `terminal_read`'s load of `tail` and its store is lost
  (`dev/terminal.c:33`): `TakesOnlyWhatItReturns` says that a read takes off the line
  what it returns and nothing else. The run types a character and Enter, lets the
  read load `tail`, types a second character and lets the read store: the line is
  empty and the second character was never returned.

Others that the models reproduce and no run refutes by itself:

* With a full process table, a terminal switch leaves the screen on a terminal
  without a shell and the root-shell flag set (`task_switch.c:17`).
* `execute` returns 0 whatever the child's status (`system.c:266`, `:28`).
* A line of one character more than its row goes into the next terminal's row
  (`dev/terminal.c:68`), and `terminal_read` stores `nbytes + 1` bytes (`:29`).
* A negative `nbytes` makes `terminal_read` move the row up by as many bytes, starting
  with bytes from before it, and raise `tail` (`:25`, `:30-33`).
* Frequency 1 passes the check (`rtc.c:90`) and stops the chip; a refused
  frequency writes an uninitialised rate (`rtc.c:109`). An `rtc_read` then waits
  for ever with the keyboard masked.
* With all 63 directory entries in use, `dir_read` returns the bytes after the
  boot block as a name (`filesys.c:64`).
* A command without arguments gets the bytes after its NUL as arguments
  (`system.c:296`), what is left of a longer one in a shell's buffer.
* All interrupt lines are open from `rtc.c:27` until `kernel.c:174`, because ICW1
  clears the masks and `i8259.c:50-51` is commented out.
* A newline in the uninitialised byte behind grep's buffer makes it take the first
  line that the buffer cuts for two lines (`ece391grep.c:33`).
* `mp1_ioctl_sync` always draws the off character (`blink.S:282`: `cmovl` after
  `testb`), and `mp1_ioctl_add` accepts location 0, whose slot still counts as
  free; fish adds none there.
* `vidmap` accepts the first address after the program page (`system.c:561`).
* Arrow keys leave `ctrl_pressed` set (`dev/terminal.h:20`).

## 4. Fairness

* `Processes!FairSpec`: weak fairness of the boot steps. `entry()` runs whenever
  no handler does. Nothing else is assumed fair: `FirstShellRuns` fails because
  of what a handler does, not because the boot code stops.
* `Terminal!FairSpec`: weak fairness of each terminal's reader. A handler always
  returns, and between handlers the CPU executes the reader of the terminal on
  the screen. No fairness of the user: `ReadReturns` begins when Enter is there.
* `Rtc!FairSpec`: the same for `rtc_read`, for the chip's periodic interrupt and
  for the delivery of IRQ8, which no code masks and no code holds off for ever.
* `Interrupts!FairSpec`: the CPU goes on with what is on top of the stack and takes
  what is presented. Weak fairness of the PIT's and the RTC's handler, which nothing
  interrupts, and of the PIT's interrupt, which has the highest priority. Strong
  fairness of what another interrupt can hold up again and again, the code of calls,
  `entry()` and the keyboard's handler, and the interrupts of the keyboard and the
  RTC: handlers are far shorter than the time between interrupts, so none is put off
  for ever. Weak fairness of `RtcTick`: the chip keeps time as long as it is not
  stopped, and a program may stop it. No fairness of the PIT or of the user.
* `MCPrograms!MCSpec`: weak fairness of fish and of grep, each one sequential
  program; reads of the RTC return by `Rtc!ReadReturns`.

`CHECK_DEADLOCK FALSE` is in the configurations of `Processes`, where lost
control ends the behaviour, of `Rtc`, where a stopped chip leaves the
machine in `rtc_read` for good, and of `MCPrograms`, whose programs end.

## 5. Proofs

**`ProcessesProofs`**, for every number of slots from 1 to 255 and of terminals
from 2:

* `Invariance`: `Spec => []Inv`, with
  `Inv == TypeOK /\ Booting /\ Contexts /\ FirstShellStays /\ Sessions`.
* `TypeCorrect`, for the type invariant; `SessionsHold`, `FirstShellAlwaysStays`,
  `OneProcessIsLoaded`, the invariants of the run `processes`.
* `HaltReturns`: the action property `HaltReturnsToParent`.

`Sessions` is not inductive by itself. Its first state comes from the boot code,
so `Booting` says what that has done so far: no process, and the tops written up
to `boot`. A halt or a switch preserves it only if what it loads is where a
process was left, and a PIT interrupt overwrites saved contexts, so `Contexts`
says that page and stack are the running process's, that only live processes are
anywhere, and that the running one has no context marked as the top of its stack.
`FirstShellStays` is needed when a switch has failed and `Sessions` says nothing:
slot 0 is its own parent, so `halt` frees it only to take it again as the first
free slot. `ExecuteEffect` and `ResumeEffect` state once what the two operators
do to every slot; then there is one lemma per action. Below `NextInv`, one step
per conjunct that the action can disturb.

**`ScreenProofs`**, for every screen of at least two columns that fits the chars
`screen_loc_buf` keeps the cursor in, and any number of terminals:
`CursorStaysInRange`, `StoresStayOnScreen`, `ScreensAreKept`. The inductive
invariant is `TypeOK /\ CursorInRange /\ StoresOnScreen`: a store keeps the type
of the video memory only if its cell is on the screen, and it is because of the
cursor's range, saved cursors included, since a switch loads them.

**The pages** (`ProcessesProofs`, last part), for the same constants as its other
theorems: `PagedInvariance`, and from it
`UserReachHolds` and `VidmapStaysMapped`. The lemma `PagedImplements`
(`PagedSpec => Spec`) carries the invariant of `Processes` over: `UserReach` needs
that page and CPU belong to one process. The rest of the invariant is the shape of
the directory and the table (`DirOK`, `TableOK`): entry 32 is the page of the slot
that was loaded last and entry 31 the table (both absent until the first load),
entry 0 is the table, and the table maps at most the video memory.

**`InterruptsProofs`**, for every nesting depth, number of waiting codes, of terminals
and of switches, and set of call numbers: `Invariance`, and from it `TypeCorrect`,
`EveryEoiIsSent`, `HandlersNestByPriority`, `NoRequestIsLost` and `MasksAlwaysAgree`.
None of them is inductive alone: that a line is in service exactly for an unfinished
frame (`Serviced`) needs that a line never has two unfinished frames, which priorities
give (`Nesting`); and masks and interrupt flag in user mode depend on which calls may
be on the stack and where (a call is the lowest frame: `Stacked`). `Kept` says the same
of the stacks of the other terminals: what was left there is a call and handlers of
keys that have sent their EOI, so going on with it puts no line in service. `Masks` follows the keyboard's bit through the
places of `rtc_read`, from the load to the second `outb`, while no switch has fallen
inside; of the other bits it says that they stay open whatever switches do.
`CodesWait` says that a key's interrupt has a code to read.

**The stacks of programs** (`ProcessesProofs`, second half): `SlotsNotLeaked` for
`NoSlotLeaked`, and `SessionsImplemented`, that `Processes` implements
`TtySessions`. `Sessions` is too weak for both: it speaks of each process and its
parent and child, and a ring of live processes, each waiting for the next, beside a
terminal's chain would satisfy it with every one of the ring's slots lost.
`StackInv` says that there are stacks of which each is a chain from a root to the
terminal's top, no slot is on two, and every slot in use is on one. One lemma for
each of push, pop and start shows what execute, halt and a first visit make of them
(`StackPush`, `StackPop`, `StackStart`); `ChainIs` shows that such a chain is what
the recursive function of the mapping computes; and one lemma per action shows its
step to be the one of `TtySessions`.

**`TerminalProofs`**, for every row size, number of terminals, set of characters and
of lengths, negative ones included, and any number of keys in windows: `TypeCorrect`, `ReadFits`,
`EnterWakesOnce`, `ReadRepairsTail`, and `LinesImplemented`, that `Terminal`
implements `TtyInput`. `FrameInv` bounds what a reader has computed from two loads of
`tail` by the number of keys since; an index leaves its row by at most one for each
of them and for each byte of a negative length, which is what a read subtracts from
`tail` when `nbytes` is negative. `WakeInv` says who may still see an Enter. For the refinement `LineInv`
adds, while no key has gone wrong and no length was negative, that the copy is the row's first characters and
that the shift has passed the last one when it ends. The proof attempt showed that
the abstract step for a key has to name its character; with it the window during
the shift came to light (`dev/terminal.c:30-32`).

**`RtcProofs`**, for every number of terminals, set of frequencies and number of
switches: `WaitsForInterrupt`, `OwnsMask`, `ReenablesKeyboard`. `OwnsMask` needs
`RegHolds`, what each program's register holds between a load and the store after it.
The last is a count: `SwitchedAway` and `BitSetAgain` say how many switches inside `rtc_read` each
step on the way to a lost bit has cost, and the third is the one that can leave the
keyboard masked.

**`KeyboardProofs`**, for every number of keys held and codes waiting:
`ModifiersFollowKeys`. The invariant looks ahead over the codes that wait: a flag
that none of them clears, and a press among them that none behind it clears, has a
key of its group down.

**`FilesProofs`**, for every well-formed image, sizes and commands: `TypeCorrect`,
`FileReadInOrder`, `DirReadInOrder`, `OpenFindsName`, `ExecuteLoadsFile`,
`GetargsReturnsArguments`. The invariant says of each descriptor, closed ones
included, what its entry is and that what was read is a prefix of the file up to
`file_pos`; descriptors 0 and 1 stay what `create_pcb` made them.

**`ProgramsProofs`**, in four parts.

* *The list of blinkers*, for every size of the array, of the screen and of a word
  (even), and every set of requests at locations other than 0: `BlinkInvariance`,
  `ListAlwaysSound`, `StatusAlwaysShown`. `ListSound` speaks of the chain of links;
  the invariant (`ListInv`) says there is an order of the slots in use, without
  repetition, that the links follow. Adding puts a slot in front of it, removing
  takes one out of it, and the order has at most `CELLS` places because no slot
  comes twice, which is why the chain ends within the array. `ShowsInv` says
  of each cell that its character is the one that the blinker in `drawn` drew, by
  status or, after a sync, the off character; the order makes that blinker `Linked`.
* *Fish*, for every size of the screen and every two pictures whose rows fit it
  (`PicturesFit`: no row wider than `COLS`, no location beyond a word):
  `FishInvariance`, `PicturesAreLaid`, `FishListSound`. The hypothesis is a
  restriction of the inputs, and the code's own pictures meet it: with rows that
  overlap, two cells have one location, and the array may fill before the pictures
  end. `Reading` says where each descriptor stands for the row and column reached:
  in the line, behind it, or in a picture that has ended. `Laid` says that the slots
  in use are one for each cell before that place where a picture is not blank, each
  with its own location, so that the array always has room for the next.
* *Grep*, for every file, every string and every size of the buffer:
  `GrepInvariance`, `PrintsAllMatches`. While lines fit and the byte after the buffer
  is no newline, the buffer is the part of the file that ends at the descriptor
  (`BufferInv`), with newlines only in what is not yet scanned, and `LinesDone` or
  `AtNewline` say how many lines are before it. That a line is printed whole follows
  since the scan stops at the same newline as the reference `Lines`.
* *The library*: `CopiesAreExact`, for a memory of any size, every alignment, length
  and overlap and all strings; `NumbersAlwaysReadBack`, for every word of `WIDTH`
  hexadecimal digits, whatever `WIDTH` is (8 in the code), the least signed number
  included. `HexStep` gives the powers of 16 that a word is made of. Each loop has a closed
  form: the memory after the first units (`MovedBytes`), the string after the first
  swaps (`Turned`), the digits from the lowest place up (`LowDigits`). `memmove`'s
  two directions need the hypothesis under which a unit reads no byte that an
  earlier one wrote, `Forward` or its mirror image, which its test of the addresses
  gives. Both theorems are about operators, so they are implications from the
  arguments (`Calls`) and not from a specification; TLC checks them over initial
  states.

*Induction.* What a recursive function computes is shown without an induction rule:
the answer is given explicitly and shown to satisfy the function's equation, and a
second solution would have a least argument where it differs (`LeastElement`, from
the well-foundedness of the naturals; `UpInduction` states it for sets of
naturals). `Ancestry`, the content of a file, the loop of `load_file`, `Chain`,
`Found`, `Move`, `strrev`, `itoa`'s digits and `ValueOf` are handled so.

Only model-checked: liveness (`ReadReturns` of `Terminal` and of `Rtc`,
`FirstShellRuns`, `RequestsTaken`, `ProgramsEnd`), since TLAPS does not handle
fairness here. Every other property of a passing run is a theorem.

## 6. Assumptions and what is not modelled

* The PCB area is zero at boot, as static data is.
* What the PIT does to the saved context of a process it interrupts inside the
  keyboard handler is `Processes`' `Tick` in kernel mode; `Interrupts` has the
  nesting and the EOIs, not the contexts. Spurious interrupts are not modelled.
* `curr_process` is a copy of what `get_pcb()` finds; `root_shell_pid` is unused.
* `halt`'s loop over the descriptors calls `close`, which takes its descriptor
  from a register; `create_pcb` sets the table up again for the next program, so
  nothing depends on it. `terminal_close` cannot be reached: `close` refuses
  descriptors 0 and 1.
* A picture or a file with NUL characters, and a search string that is empty, are
  not among the inputs of `Fish` and `Grep`.
* Not modelled: `boot.S`, `x86_desc.*`, multiboot parsing (straight-line set-up);
  `printf`'s walk over its format; `memset_word`, `memset_dword`, `putc_at` (used
  nowhere); `set_handler` and `sigreturn` (return -1); `tests.c`; the generated
  `idt.s` and `idt.i`; the shell, `ls`, `cat` and the other programs of `syscalls/`,
  loops around calls that `Files`, `Processes`, `Terminal` and `Rtc` allow any
  program; `ece391emulate.c`, an emulation of the calls on another system.

## 7. Plan

The modules were built in the order of section 2, the processes first; every safety
property of the passing runs is proved, both refinements included. What would extend
the project, in this order:

1. The shell and `cat` as programs composed with `Files` and `Terminal`.
2. `printf`'s walk over its format, with the numbers of `Library`.
3. One module for the PIT's contexts and the nesting of `Interrupts`.
