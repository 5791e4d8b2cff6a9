------------------------------ MODULE Processes ------------------------------
(***************************************************************************)
(* Process slots, program execution and termination, the terminals' top    *)
(* processes, and the two ways the CPU moves from one kernel stack to      *)
(* another: the keyboard's terminal switch and the PIT interrupt           *)
(* (system.c, pcb.c, task_switch.c, scheduling.c, pit.c, kernel.c).        *)
(*                                                                         *)
(* execute and halt run with interrupts off (they begin with cli), and the *)
(* keyboard and PIT vectors are interrupt gates, so each is one action.    *)
(*                                                                         *)
(* A saved esp/ebp pair is abstracted to the frames it points at. "top":   *)
(* the frames on top of that kernel stack, because the stack was left just *)
(* as the pair was saved. A place: the frames of a PIT interrupt taken at  *)
(* that place of the process's code, since returned from. "none": the pair *)
(* was never saved.                                                        *)
(***************************************************************************)
EXTENDS Integers, Sequences, SequencesExt

CONSTANTS
  MAX_NUM_PROCESSES,   \* slots of processes[]
  MAX_TTY              \* terminals

ASSUME ProcessesAssumption ==
  /\ MAX_NUM_PROCESSES \in 1..255
  /\ MAX_TTY \in Nat \ {0, 1}

TTY_UNOPENED == 255
Pids == 0..(MAX_NUM_PROCESSES - 1)
Ttys == 0..(MAX_TTY - 1)
NoPage == -1
Places == {"boot", "user", "read", "exec", "dead"}
SavedContexts == (Places \ {"dead"}) \cup {"top", "none"}
Results == {-1, 0, 1}   \* of execute; 1 stands for any other value

VARIABLES
  processes,               \* processes[i]: 1 when slot i is taken
  parent, tty,             \* the PCB's fields, per slot
  ctx,                     \* the PCB's saved esp/ebp, per slot
  at,                      \* where each process's code is
  tty_top_pid,             \* foreground process of each terminal
  active_tty,              \* terminal on the screen
  next_one_is_root_shell,  \* makes the next program its own parent
  page,                    \* slot mapped at 128 MB (page_dir[32])
  esp0,                    \* slot whose kernel stack tss.esp0 names
  cpu,                     \* slot whose kernel stack esp is in: get_pcb()
  control,                 \* "running", or lost: "wild", "hung"
  boot,                    \* lines 200-205 of kernel.c that have been run
  rval,                    \* what the last execute to return returned
  switchFailed             \* history: a terminal switch found no free slot

vars == <<processes, parent, tty, ctx, at, tty_top_pid, active_tty,
          next_one_is_root_shell, page, esp0, cpu, control, boot, rval,
          switchFailed>>

pcbVars  == <<parent, tty>>
pageVars == <<page, esp0, cpu>>

Running == control = "running"
Booted  == boot > MAX_TTY

(***************************************************************************)
(* entry() up to the sti of line 188: static data is zero, the boot code   *)
(* runs on the stack that will be that of slot 0.                          *)
(***************************************************************************)
Init ==
  /\ processes = [p \in Pids |-> 0]
  /\ parent = [p \in Pids |-> 0]
  /\ tty = [p \in Pids |-> 0]
  /\ ctx = [p \in Pids |-> "none"]
  /\ at = [p \in Pids |-> IF p = 0 THEN "boot" ELSE "dead"]
  /\ tty_top_pid = [t \in Ttys |-> 0]
  /\ active_tty = 0
  /\ next_one_is_root_shell = 0
  /\ page = NoPage
  /\ esp0 = 0
  /\ cpu = 0
  /\ control = "running"
  /\ boot = 0
  /\ rval = 0
  /\ switchFailed = FALSE

-----------------------------------------------------------------------------
(***************************************************************************)
(* execute                                                                 *)
(***************************************************************************)

\* Mutant: the search runs from the last slot down.
FirstFreeFromTop(procs, i) ==
  /\ procs[i] = 0
  /\ \A j \in Pids : j > i => procs[j] # 0

\* The slot the allocation loop stops at.
FirstFree(procs, i) ==
  /\ procs[i] = 0
  /\ \A j \in Pids : j < i => procs[j] # 0

TableFull(procs) == \A i \in Pids : procs[i] # 0

\* Mutant: the root-shell flag is ignored.
ParentIgnoresFlag(i, root) == IF i = 0 THEN i ELSE cpu

\* The PCB whose address is written to the new PCB's parent field.
ParentOf(i, root) == IF i = 0 \/ root THEN i ELSE cpu

\* Mutant: the caller's esp/ebp are not saved.
SavesNothing(i, root) == [ctx EXCEPT ![i] = "none"]

\* The saved esp/ebp after lines 200-205: the caller's go to the parent's
\* PCB, and memcpy then fills the new one's from an uninitialised local.
SavedBy(i, root) ==
  [ctx EXCEPT ![ParentOf(i, root)] = "top", ![i] = "none"]

\* execute from the slot search on, with processes[] = procs, on terminal t;
\* the caller is left at the places given by places.
Execute(procs, t, root, places) ==
  \E i \in Pids :
    /\ FirstFree(procs, i)
    /\ processes' = [procs EXCEPT ![i] = 1]
    /\ parent' = [parent EXCEPT ![i] = ParentOf(i, root)]
    /\ tty' = [tty EXCEPT ![i] = t]
    /\ ctx' = SavedBy(i, root)
    /\ at' = [places EXCEPT ![i] = "user"]
    /\ tty_top_pid' = [tty_top_pid EXCEPT ![t] = i]
    /\ next_one_is_root_shell' = 0
    /\ page' = i
    /\ esp0' = i
    /\ cpu' = i

\* The execute system call with the name of an executable file.
SysExecute ==
  /\ Running
  /\ at[cpu] = "user"
  /\ Execute(processes, active_tty, next_one_is_root_shell = 1,
             [at EXCEPT ![cpu] = "exec"])
  /\ UNCHANGED <<active_tty, control, boot, rval, switchFailed>>

\* No free slot, or check_validity refuses the file, as it may any name.
SysExecuteFails ==
  /\ Running
  /\ at[cpu] = "user"
  /\ rval' = -1
  /\ UNCHANGED <<processes, pcbVars, ctx, at, tty_top_pid, active_tty,
                 next_one_is_root_shell, pageVars, control, boot,
                 switchFailed>>

-----------------------------------------------------------------------------
\* Mutant: tss.esp0 is left behind.
ResumeKeepsEsp0(p, places, saved) ==
  /\ page' = p
  /\ UNCHANGED esp0
  /\ cpu' = p
  /\ saved[p] \in {"top", places[p]}
  /\ at' = [places EXCEPT ![p] = IF @ = "exec" THEN "user" ELSE @]
  /\ ctx' = [saved EXCEPT ![p] = places[p]]
  /\ UNCHANGED control

(***************************************************************************)
(* Loading slot p's saved esp/ebp, the processes being at places and the   *)
(* PCBs holding saved. The function then returns through the frames there. *)
(*   - Frames on top of the stack: the process goes on where it was.       *)
(*   - Frames of the same depth that later calls wrote over: what happens  *)
(*     depends on the frame layout the build chose.                        *)
(*   - Otherwise the return address is whatever the stack holds.           *)
(***************************************************************************)
Resume(p, places, saved) ==
  /\ page' = p
  /\ esp0' = p
  /\ cpu' = p
  /\ \/ /\ saved[p] \in {"top", places[p]}
        /\ at' = [places EXCEPT ![p] = IF @ = "exec" THEN "user" ELSE @]
        /\ ctx' = [saved EXCEPT ![p] = places[p]]
        /\ UNCHANGED control
     \/ /\ saved[p] # "top"
        /\ control' = "wild"
        /\ at' = places
        /\ ctx' = saved

(***************************************************************************)
(* halt                                                                    *)
(***************************************************************************)

\* Mutant: a halting root shell's slot is not freed.
HaltRootKeepsSlot ==
  /\ parent[cpu] = cpu
  /\ Execute(processes, active_tty, TRUE, [at EXCEPT ![cpu] = "dead"])
  /\ UNCHANGED <<active_tty, control, boot, rval, switchFailed>>

\* A process that is its own parent is replaced by a new shell.
HaltRoot ==
  /\ parent[cpu] = cpu
  /\ Execute([processes EXCEPT ![cpu] = 0], active_tty, TRUE,
             [at EXCEPT ![cpu] = "dead"])
  /\ UNCHANGED <<active_tty, control, boot, rval, switchFailed>>

\* Mutant: the terminal's top process is not handed back.
HaltChildKeepsTop ==
  /\ parent[cpu] # cpu
  /\ processes' = [processes EXCEPT ![cpu] = 0, ![parent[cpu]] = 1]
  /\ Resume(parent[cpu], [at EXCEPT ![cpu] = "dead"], ctx)
  /\ rval' = 0
  /\ UNCHANGED <<pcbVars, tty_top_pid, active_tty, next_one_is_root_shell, boot,
                 switchFailed>>

\* Any other returns to its parent's execute, which returns 0: the status the
\* program halts with is dropped.
HaltChild ==
  /\ parent[cpu] # cpu
  /\ processes' = [processes EXCEPT ![cpu] = 0, ![parent[cpu]] = 1]
  /\ tty_top_pid' = [tty_top_pid EXCEPT ![tty[cpu]] = parent[cpu]]
  /\ Resume(parent[cpu], [at EXCEPT ![cpu] = "dead"], ctx)
  /\ rval' = 0
  /\ UNCHANGED <<pcbVars, active_tty, next_one_is_root_shell, boot,
                 switchFailed>>

Halt ==
  /\ Running
  /\ at[cpu] = "user"
  /\ HaltRoot \/ HaltChild

\* Every exception handler prints its name and calls halt(1).
Exception == Halt

-----------------------------------------------------------------------------
(***************************************************************************)
(* terminal_read spins in the kernel with interrupts on; the other calls   *)
(* return without waiting.                                                 *)
(***************************************************************************)
EnterRead ==
  /\ Running
  /\ at[cpu] = "user"
  /\ at' = [at EXCEPT ![cpu] = "read"]
  /\ UNCHANGED <<processes, pcbVars, ctx, tty_top_pid, active_tty,
                 next_one_is_root_shell, pageVars, control, boot, rval,
                 switchFailed>>

LeaveRead ==
  /\ Running
  /\ at[cpu] = "read"
  /\ at' = [at EXCEPT ![cpu] = "user"]
  /\ UNCHANGED <<processes, pcbVars, ctx, tty_top_pid, active_tty,
                 next_one_is_root_shell, pageVars, control, boot, rval,
                 switchFailed>>

-----------------------------------------------------------------------------
(***************************************************************************)
(* switch_to_tty, from the keyboard interrupt                              *)
(***************************************************************************)

\* Nothing on the terminal yet: run a root shell there. When there is no
\* slot left execute returns and the flag stays set.
OpenTty(t) ==
  /\ tty_top_pid[t] = TTY_UNOPENED
  /\ \/ /\ Execute(processes, t, TRUE, at)
        /\ UNCHANGED switchFailed
     \/ /\ TableFull(processes)
        /\ next_one_is_root_shell' = 1
        /\ switchFailed' = TRUE
        /\ UNCHANGED <<processes, pcbVars, ctx, at, tty_top_pid, pageVars>>
  /\ UNCHANGED <<control, rval>>

\* Otherwise load the saved esp/ebp of the terminal's top process. The
\* interrupted process's own are not saved. A process resumed inside execute
\* finds in eax what the register happens to hold.
ShowTty(t) ==
  /\ tty_top_pid[t] # TTY_UNOPENED
  /\ Resume(tty_top_pid[t], at, ctx)
  /\ IF at[tty_top_pid[t]] = "exec" THEN rval' \in Results ELSE UNCHANGED rval
  /\ UNCHANGED <<processes, pcbVars, tty_top_pid, next_one_is_root_shell,
                 switchFailed>>

SwitchToTty(t) ==
  /\ Running
  /\ Booted
  /\ active_tty' = t
  /\ OpenTty(t) \/ ShowTty(t)
  /\ UNCHANGED boot

-----------------------------------------------------------------------------
(***************************************************************************)
(* The PIT interrupt: pit_handler and switch_process                       *)
(***************************************************************************)

\* The loop ends when it meets an opened terminal, and the pid returned is
\* that of the terminal it was given.
SearchEnds == \E t \in Ttys : tty_top_pid[t] # TTY_UNOPENED
get_next_process(curr_tty) == tty_top_pid[curr_tty]

Tick ==
  /\ Running
  /\ LET next == get_next_process(tty[cpu])
         here == [ctx EXCEPT ![cpu] = at[cpu]]
         away == [ctx EXCEPT ![cpu] = "top"]
     IN  \/ /\ ~SearchEnds
            /\ control' = "hung"
            /\ ctx' = here
            /\ UNCHANGED <<at, pageVars>>
         \/ /\ SearchEnds
            /\ next = cpu
            /\ ctx' = here
            /\ UNCHANGED <<at, pageVars, control>>
         \/ /\ SearchEnds
            /\ next \in Pids \ {cpu}
            /\ Resume(next, at, away)
         \/ /\ SearchEnds
            /\ next = TTY_UNOPENED     \* (uint32_t)255 is not -1: slot 255
            /\ control' = "wild"
            /\ ctx' = away
            /\ UNCHANGED <<at, pageVars>>
  /\ UNCHANGED <<processes, pcbVars, tty_top_pid, active_tty,
                 next_one_is_root_shell, boot, rval, switchFailed>>

-----------------------------------------------------------------------------
(***************************************************************************)
(* The end of entry(): the terminals are marked unopened one by one, with  *)
(* interrupts already on, and the first shell is run.                      *)
(***************************************************************************)
BootTty ==
  /\ Running
  /\ boot < MAX_TTY
  /\ tty_top_pid' = [tty_top_pid EXCEPT ![boot] = TTY_UNOPENED]
  /\ boot' = boot + 1
  /\ UNCHANGED <<processes, pcbVars, ctx, at, active_tty,
                 next_one_is_root_shell, pageVars, control, rval,
                 switchFailed>>

BootShell ==
  /\ Running
  /\ boot = MAX_TTY
  /\ Execute(processes, active_tty, TRUE, at)
  /\ boot' = boot + 1
  /\ UNCHANGED <<active_tty, control, rval, switchFailed>>

Next ==
  \/ BootTty
  \/ BootShell
  \/ SysExecute
  \/ SysExecuteFails
  \/ Halt
  \/ Exception
  \/ EnterRead
  \/ LeaveRead
  \/ \E t \in Ttys : SwitchToTty(t)
  \/ Tick

Spec == Init /\ [][Next]_vars

\* Once entered, entry() runs to its end unless an interrupt takes over.
FairSpec == Spec /\ WF_vars(BootTty \/ BootShell)

-----------------------------------------------------------------------------
(***************************************************************************)
(* Properties                                                              *)
(***************************************************************************)

PcbsOK ==
  /\ processes \in [Pids -> {0, 1}]
  /\ parent \in [Pids -> Pids]
  /\ tty \in [Pids -> Ttys]
  /\ ctx \in [Pids -> SavedContexts]
  /\ at \in [Pids -> Places]
  /\ tty_top_pid \in [Ttys -> Pids \cup {TTY_UNOPENED}]

MachineOK ==
  /\ active_tty \in Ttys
  /\ next_one_is_root_shell \in {0, 1}
  /\ page \in Pids \cup {NoPage}
  /\ esp0 \in Pids
  /\ cpu \in Pids
  /\ control \in {"running", "wild", "hung"}
  /\ boot \in 0..(MAX_TTY + 1)
  /\ rval \in Results

\* The type of the state.
TypeOK == PcbsOK /\ MachineOK /\ switchFailed \in BOOLEAN

Live(p) == processes[p] = 1
Opened(t) == tty_top_pid[t] # TTY_UNOPENED

\* c was run by p and has not halted.
Child(c, p) == Live(c) /\ parent[c] = p /\ c # p

\* What an opened terminal names is a live process of that terminal with no
\* live child.
TopsAreLeaves ==
  \A t \in Ttys : Opened(t) =>
    LET top == tty_top_pid[t] IN
    /\ top \in Pids
    /\ Live(top)
    /\ tty[top] = t
    /\ at[top] \in {"user", "read"}
    /\ \A c \in Pids : ~Child(c, top)

\* Everyone else waits in execute for a live child, with the frames to
\* return through saved.
OthersWait ==
  \A p \in Pids : Live(p) =>
    /\ Opened(tty[p])
    /\ Live(parent[p])
    /\ tty[parent[p]] = tty[p]
    /\ p # tty_top_pid[tty[p]] =>
         /\ at[p] = "exec"
         /\ ctx[p] = "top"
         /\ \E c \in Pids : Child(c, p)

\* No process waits for two, and no terminal has two root shells.
OneBranch ==
  /\ \A p, c, d \in Pids : Child(c, p) /\ Child(d, p) => c = d
  /\ \A c, d \in Pids :
       /\ Live(c) /\ parent[c] = c
       /\ Live(d) /\ parent[d] = d
       /\ tty[c] = tty[d]
       => c = d

\* The process on the CPU is the top of the terminal on the screen.
ActiveRuns ==
  /\ cpu = tty_top_pid[active_tty]
  /\ next_one_is_root_shell = 0

\* execute, halt and switch_to_tty keep the live processes of each terminal
\* a chain from one root shell up to the process tty_top_pid names, all but
\* that one waiting in execute with a usable saved context, as long as no
\* terminal switch has met a full process table.
Sessions ==
  Booted /\ ~switchFailed =>
    TopsAreLeaves /\ OthersWait /\ OneBranch /\ ActiveRuns

\* The first shell is never lost: halting it frees slot 0 only for the next
\* shell to take it, even after a failed terminal switch (system.c:44-50,
\* 190-193).
FirstShellStays == Booted => Live(0) /\ parent[0] = 0

\* While the kernel is in control, the program page, the kernel stack of the
\* next trap and the stack in use are those of one live process, even after
\* a failed terminal switch.
OneProcessLoaded ==
  Booted /\ Running => page = cpu /\ esp0 = cpu /\ Live(cpu)

GoesBack ==
  LET child == cpu
      caller == parent[cpu]
  IN  Booted /\ ~switchFailed /\ caller # child /\ processes'[child] = 0 =>
        /\ control' = "running"
        /\ cpu' = caller
        /\ processes' = [processes EXCEPT ![child] = 0]
        /\ tty_top_pid' = [tty_top_pid EXCEPT ![active_tty] = caller]
        /\ at' = [at EXCEPT ![child] = "dead", ![caller] = "user"]
        /\ rval' = 0

\* halt of a child takes its terminal back to the program that ran it, which
\* continues after its execute with the result 0; the terminal of no other
\* process moves, and exactly one slot is freed (system.c:53-85).
HaltReturnsToParent == [][GoesBack]_vars

(***************************************************************************)
(* The stacks of programs that the slots implement                         *)
(***************************************************************************)

\* The parents of p, by the parent fields par: the root first, and p last.
Ancestry(par, p) ==
  LET up[n \in 0..MAX_NUM_PROCESSES] ==
        IF n = 0 THEN <<p>>
        ELSE IF par[Head(up[n - 1])] = Head(up[n - 1]) THEN up[n - 1]
             ELSE <<par[Head(up[n - 1])]>> \o up[n - 1]
  IN  up[MAX_NUM_PROCESSES]

SessionStack ==
  [t \in Ttys |-> IF Booted /\ Opened(t) THEN Ancestry(parent, tty_top_pid[t]) ELSE <<>>]

Abstract == INSTANCE TtySessions
              WITH Procs <- Pids, Terminals <- Ttys,
                   stack <- SessionStack, active <- active_tty

\* The kernel's slots, PCB links and terminal tops implement one stack of
\* programs per terminal, until a terminal switch meets a full process table.
ImplementsTtySessions ==
  /\ Abstract!Init
  /\ [][~switchFailed' => Abstract!Next]_(Abstract!vars)

\* Every slot marked taken belongs to a program that some terminal will come
\* back to; each is on one terminal's stack only.
NoSlotLeaked ==
  Booted /\ ~switchFailed =>
    /\ {p \in Pids : Live(p)} = UNION {ToSet(SessionStack[t]) : t \in Ttys}
    /\ \A t, u \in Ttys :
         t # u => ToSet(SessionStack[t]) \cap ToSet(SessionStack[u]) = {}

(***************************************************************************)
(* What comments and documents say and the code does not do. Each is       *)
(* refuted by a run.                                                       *)
(***************************************************************************)

\* "also, does context switch" (task_switch.c:7): a terminal switch leaves
\* the kernel running a process.
SwitchKeepsControl == Booted => Running

\* "Execute the first program" (kernel.c:198).
FirstShellRuns == <>Booted

\* "Switches to the next active process amongst the terminals whenver the
\* PIT interrupt is generated" (scheduling.c:30).
TickMovesOn ==
  [][ Tick /\ Booted /\ (\E t \in Ttys \ {tty[cpu]} : Opened(t))
        => tty'[cpu'] # tty[cpu] ]_vars

=============================================================================
