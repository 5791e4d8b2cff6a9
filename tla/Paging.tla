------------------------------- MODULE Paging --------------------------------
(***************************************************************************)
(* The page directory and the one page table (paging.c) under the          *)
(* processes: execute, halt, the terminal switch and the PIT load a        *)
(* program's page, and vidmap maps the video memory for the running one.   *)
(*                                                                         *)
(* Large pages are numbered in units of 4 MB and small ones in units of    *)
(* 4 KB. Only the entries the code ever sets are modelled: the others stay *)
(* absent.                                                                 *)
(***************************************************************************)
EXTENDS Processes

KERNEL == 1                   \* 0x400000
KERNEL_BOTTOM == 2            \* 0x800000
VIDEO == 184                  \* 0xB8000
USER_PROGRAM_PDIR_LOC == 32
VID_MAP_LOC == 33

DirEntries == {0, 1, 31, USER_PROGRAM_PDIR_LOC}
TableEntries == {VIDEO, VID_MAP_LOC}

\* An entry of the directory names a large page or the page table; user says
\* whether user mode may use it.
Absent == [to |-> "absent", base |-> 0, user |-> FALSE]
Page(base, user) == [to |-> "page", base |-> base, user |-> user]
Table(user) == [to |-> "table", base |-> 0, user |-> user]

\* The values of vidmap's argument: null, below the program page, in it, the
\* first byte after it, and beyond that.
Pointers == {"null", "below", "inside", "end", "above"}

VARIABLES
  page_dir, page_table,
  faulting,          \* slots whose next step in user mode is a page fault
  mapped             \* history: slots whose program has called vidmap

memory == <<page_dir, page_table>>
pagedVars == <<vars, memory, faulting, mapped>>

\* The entries of the programs, 31 and 32, stay empty until create_page.
paging_init ==
  /\ page_table = [k \in TableEntries |-> IF k = VIDEO THEN Page(VIDEO, FALSE) ELSE Absent]
  /\ page_dir = [d \in DirEntries |->
       CASE d = 0 -> Table(FALSE)
         [] d = 1 -> Page(KERNEL, FALSE)
         [] OTHER -> Absent]

PagedInit ==
  /\ Init
  /\ paging_init
  /\ faulting = {}
  /\ mapped = {}

\* Mutant: slots counted from one.
CreatePageFromOne(p) ==
  page_dir' = [page_dir EXCEPT
    ![USER_PROGRAM_PDIR_LOC] = Page(KERNEL_BOTTOM + p - 1, TRUE),
    ![31] = Table(TRUE)]

create_page(p) ==
  page_dir' = [page_dir EXCEPT
    ![USER_PROGRAM_PDIR_LOC] = Page(KERNEL_BOTTOM + p, TRUE),
    ![31] = Table(TRUE)]

\* What was known of a slot's program goes with the program.
Ends(slots) == mapped' = mapped \ slots /\ faulting' = faulting \ slots
Freed == {q \in Pids : processes'[q] = 0}

\* A new program in slot p.
LoadNew(p) == create_page(p) /\ Ends(Freed \cup {p}) /\ UNCHANGED page_table

\* Back to a program that was left.
LoadAgain(p) == create_page(p) /\ Ends(Freed) /\ UNCHANGED page_table

LoadNothing == UNCHANGED <<memory, faulting, mapped>>

\* Mutant: the directory entry stays the kernel's.
SetVidmapKernel ==
  /\ page_table' = [page_table EXCEPT ![VID_MAP_LOC] = Page(VIDEO, TRUE)]
  /\ UNCHANGED page_dir

set_vidmap ==
  /\ page_dir' = [page_dir EXCEPT ![0] = Table(TRUE)]
  /\ page_table' = [page_table EXCEPT ![VID_MAP_LOC] = Page(VIDEO, TRUE)]

\* The program is in user mode with nothing to stop it.
InUser == Running /\ at[cpu] = "user" /\ cpu \notin faulting

\* vidmap: the check lets the first address after the page through, where the
\* store then faults.
vidmap(pointer) ==
  /\ InUser
  /\ \/ /\ pointer \in {"null", "below", "above"}
        /\ LoadNothing
     \/ /\ pointer = "inside"
        /\ set_vidmap
        /\ mapped' = mapped \cup {cpu}
        /\ UNCHANGED faulting
     \/ /\ pointer = "end"
        /\ set_vidmap
        /\ faulting' = faulting \cup {cpu}
        /\ UNCHANGED mapped
  /\ UNCHANGED vars

-----------------------------------------------------------------------------
(***************************************************************************)
(* The steps of Processes with the pages they load                         *)
(***************************************************************************)
PagedExecute ==
  \/ BootShell /\ LoadNew(cpu')
  \/ InUser /\ SysExecute /\ LoadNew(cpu')

\* halt, called by the program or by an exception handler.
PagedHalt ==
  /\ Halt
  /\ IF parent[cpu] = cpu THEN LoadNew(cpu') ELSE LoadAgain(cpu')

PagedSwitch(t) ==
  /\ SwitchToTty(t)
  /\ \/ Opened(t) /\ LoadAgain(cpu')
     \/ ~Opened(t) /\ ~TableFull(processes) /\ LoadNew(cpu')
     \/ ~Opened(t) /\ TableFull(processes) /\ LoadNothing

PagedTick ==
  /\ Tick
  /\ IF cpu' = cpu THEN LoadNothing ELSE LoadAgain(cpu')

PagedStep ==
  /\ \/ BootTty
     \/ InUser /\ SysExecuteFails
     \/ InUser /\ EnterRead
     \/ LeaveRead
  /\ LoadNothing

PagedNext ==
  \/ PagedExecute
  \/ PagedHalt
  \/ \E t \in Ttys : PagedSwitch(t)
  \/ PagedTick
  \/ PagedStep
  \/ \E pointer \in Pointers : vidmap(pointer)

PagedSpec == PagedInit /\ [][PagedNext]_pagedVars

-----------------------------------------------------------------------------
(***************************************************************************)
(* Properties                                                              *)
(***************************************************************************)

\* The large and the small pages user mode can reach, by any address.
UserLarge == {page_dir[d].base : d \in {d \in DirEntries : page_dir[d].to = "page"
                                                          /\ page_dir[d].user}}
UserSmall ==
  {page_table[k].base : k \in {k \in TableEntries :
     /\ page_table[k].to = "page" /\ page_table[k].user
     /\ \E d \in DirEntries : page_dir[d].to = "table" /\ page_dir[d].user}}

\* Whatever programs are run, left, halted, resumed and given the video memory,
\* user mode reaches the page of the program on the CPU, never the kernel's or
\* another program's, and of the low memory at most the video memory
\* (paging.c:78-105, system.c:69, 165, task_switch.c:28, scheduling.c:61).
UserReach ==
  Booted /\ Running => UserLarge = {KERNEL_BOTTOM + cpu} /\ UserSmall \subseteq {VIDEO}

\* The address vidmap returned keeps working for the program that called it,
\* after other programs have run and after its terminal was switched away
\* from and back (paging.c:97-105).
VidmapStays ==
  Running /\ cpu \in mapped =>
    /\ page_dir[0].to = "table" /\ page_dir[0].user
    /\ page_table[VID_MAP_LOC] = Page(VIDEO, TRUE)

=============================================================================
