--------------------------- MODULE ProcessesProofs ---------------------------
(***************************************************************************)
(* The invariants of Processes for every number of slots and terminals,    *)
(* and, at the end, those of Paging, which loads the pages of the          *)
(* processes.                                                              *)
(***************************************************************************)
EXTENDS Paging, FiniteSetTheorems, WellFoundedInduction, TLAPS

\* Until the first shell runs, there is no process and the terminals' tops
\* are what the boot code has written so far.
Booting ==
  ~Booted =>
    /\ processes = [p \in Pids |-> 0]
    /\ tty = [p \in Pids |-> 0]
    /\ at = [p \in Pids |-> IF p = 0 THEN "boot" ELSE "dead"]
    /\ \A p \in Pids \ {0} : ctx[p] = "none"
    /\ \A t \in Ttys : tty_top_pid[t] = IF t < boot THEN TTY_UNOPENED ELSE 0
    /\ active_tty = 0
    /\ cpu = 0
    /\ next_one_is_root_shell = 0
    /\ ~switchFailed

\* While the kernel is in control, only live processes are anywhere, the
\* saved contexts that can be returned through are theirs, and the running
\* one has none.
Contexts ==
  Booted =>
    /\ page = cpu
    /\ esp0 = cpu
    /\ Running =>
         /\ at[cpu] # "dead"
         /\ ctx[cpu] # "top"
         /\ \A p \in Pids : /\ at[p] # "dead" => Live(p)
                            /\ ctx[p] = "top" => at[p] # "dead"

Inv == TypeOK /\ Booting /\ Contexts /\ FirstShellStays /\ Sessions

-----------------------------------------------------------------------------
USE ProcessesAssumption DEF ProcessesAssumption, Pids, Ttys, TTY_UNOPENED,
                            NoPage, Places, SavedContexts, Results

\* The boot code's first state satisfies the invariant.
LEMMA InitInv == Init => Inv
  <1> SUFFICES ASSUME Init PROVE Inv
    OBVIOUS
  <1>1. ~Booted
    BY DEF Init, Booted
  <1>2. TypeOK
    <2>1. PcbsOK
      BY DEF Init, PcbsOK
    <2>2. MachineOK
      BY DEF Init, MachineOK
    <2> QED
      BY <2>1, <2>2 DEF Init, TypeOK
  <1>3. Booting
    BY DEF Init, Booting
  <1> QED
    BY <1>1, <1>2, <1>3 DEF Inv, Contexts, FirstShellStays, Sessions

-----------------------------------------------------------------------------
\* The facts about types that the steps below need.
LEMMA Types ==
  ASSUME TypeOK
  PROVE  /\ active_tty \in Ttys /\ cpu \in Pids
         /\ 0 \in Pids
         /\ TTY_UNOPENED \notin Pids
         /\ \A p \in Pids : parent[p] \in Pids /\ tty[p] \in Ttys
         /\ \A t \in Ttys : tty_top_pid[t] \in Pids \cup {TTY_UNOPENED}
  <1>1. active_tty \in Ttys /\ cpu \in Pids
    BY DEF TypeOK, MachineOK
  <1>2. 0 \in Pids /\ TTY_UNOPENED \notin Pids
    OBVIOUS
  <1>3. \A p \in Pids : parent[p] \in Pids /\ tty[p] \in Ttys
    BY DEF TypeOK, PcbsOK
  <1>4. \A t \in Ttys : tty_top_pid[t] \in Pids \cup {TTY_UNOPENED}
    BY DEF TypeOK, PcbsOK
  <1> QED
    BY <1>1, <1>2, <1>3, <1>4

\* What execute does, slot by slot, when it takes slot i for a child of par.
Runs(i, procs, t, par, places) ==
  /\ procs[i] = 0
  /\ \A j \in Pids : j < i => procs[j] # 0
  /\ \A p \in Pids :
       /\ processes'[p] = IF p = i THEN 1 ELSE procs[p]
       /\ parent'[p] = IF p = i THEN par ELSE parent[p]
       /\ tty'[p] = IF p = i THEN t ELSE tty[p]
       /\ at'[p] = IF p = i THEN "user" ELSE places[p]
       /\ ctx'[p] = IF p = i THEN "none"
                    ELSE IF p = par THEN "top" ELSE ctx[p]
  /\ \A u \in Ttys : tty_top_pid'[u] = IF u = t THEN i ELSE tty_top_pid[u]
  /\ next_one_is_root_shell' = 0
  /\ page' = i
  /\ esp0' = i
  /\ cpu' = i

\* execute gives the new program the first free slot and leaves every other
\* slot alone, but for the caller's saved context.
LEMMA ExecuteEffect ==
  ASSUME TypeOK,
         NEW procs \in [Pids -> {0, 1}], NEW t \in Ttys,
         NEW root \in BOOLEAN, NEW places \in [Pids -> Places],
         Execute(procs, t, root, places)
  PROVE  /\ PcbsOK'
         /\ \E i \in Pids : Runs(i, procs, t, ParentOf(i, root), places)
  <1>1. PICK i \in Pids : Execute(procs, t, root, places)!(i)
    BY DEF Execute
  <1>2. ParentOf(i, root) \in Pids
    BY DEF ParentOf, TypeOK, MachineOK
  <1>3. ctx' \in [Pids -> SavedContexts]
    BY <1>1, <1>2 DEF SavedBy, TypeOK, PcbsOK
  <1>4. at' \in [Pids -> Places]
    BY <1>1
  <1>5. parent' \in [Pids -> Pids] /\ tty' \in [Pids -> Ttys]
    BY <1>1, <1>2 DEF TypeOK, PcbsOK
  <1>6. /\ processes' \in [Pids -> {0, 1}]
        /\ tty_top_pid' \in [Ttys -> Pids \cup {TTY_UNOPENED}]
    BY <1>1 DEF TypeOK, PcbsOK
  <1>7. PcbsOK'
    BY <1>3, <1>4, <1>5, <1>6 DEF PcbsOK
  <1>8. Runs(i, procs, t, ParentOf(i, root), places)
    <2>1. ASSUME NEW p \in Pids
          PROVE  /\ processes'[p] = IF p = i THEN 1 ELSE procs[p]
                 /\ parent'[p] = IF p = i THEN ParentOf(i, root) ELSE parent[p]
                 /\ tty'[p] = IF p = i THEN t ELSE tty[p]
                 /\ at'[p] = IF p = i THEN "user" ELSE places[p]
      BY <1>1 DEF TypeOK, PcbsOK
    <2>2. ASSUME NEW p \in Pids
          PROVE  ctx'[p] = IF p = i THEN "none"
                           ELSE IF p = ParentOf(i, root) THEN "top" ELSE ctx[p]
      BY <1>1, <1>2 DEF SavedBy, TypeOK, PcbsOK
    <2>3. ASSUME NEW u \in Ttys
          PROVE  tty_top_pid'[u] = IF u = t THEN i ELSE tty_top_pid[u]
      BY <1>1 DEF TypeOK, PcbsOK
    <2> QED
      BY <1>1, <2>1, <2>2, <2>3 DEF Runs, FirstFree
  <1> QED
    BY <1>7, <1>8

\* A program's execute extends the chain of its terminal by one.
LEMMA SysExecuteInv ==
  ASSUME Inv, SysExecute
  PROVE  Inv'
  <1> DEFINE root == next_one_is_root_shell = 1
             places == [at EXCEPT ![cpu] = "exec"]
  <1>0. TypeOK /\ Booting /\ Contexts /\ FirstShellStays /\ Sessions
    BY DEF Inv
  <1>2. Booted /\ Running /\ at[cpu] = "user"
    BY <1>0 DEF SysExecute, Booting, TypeOK, MachineOK
  <1>3. Booted' /\ Running'
    BY <1>2 DEF SysExecute, Booted, Running
  <1>p. /\ places \in [Pids -> Places]
        /\ \A p \in Pids : places[p] = IF p = cpu THEN "exec" ELSE at[p]
    BY <1>0 DEF TypeOK, PcbsOK, MachineOK
  <1>e. /\ PcbsOK'
        /\ \E i \in Pids :
             Runs(i, processes, active_tty, ParentOf(i, root), places)
    <2>1. Execute(processes, active_tty, root, places)
      BY DEF SysExecute
    <2>2. processes \in [Pids -> {0, 1}] /\ active_tty \in Ttys /\ root \in BOOLEAN
      BY <1>0 DEF TypeOK, PcbsOK, MachineOK
    <2> HIDE DEF root, places
    <2> QED
      BY <1>0, <1>p, <2>1, <2>2, ExecuteEffect
  <1> PICK i \in Pids : Runs(i, processes, active_tty, ParentOf(i, root), places)
    BY <1>e
  <1> DEFINE par == ParentOf(i, root)
  <1>f. Runs(i, processes, active_tty, par, places)
    OBVIOUS
  <1>g. par \in {i, cpu}
    BY DEF ParentOf
  <1> HIDE DEF places, par
  <1>4. TypeOK'
    BY <1>0, <1>e, <1>f DEF SysExecute, Runs, TypeOK, MachineOK
  <1>5. i # 0 /\ i # cpu /\ processes[i] = 0 /\ processes[cpu] = 1
    BY <1>0, <1>2, <1>f DEF Runs, FirstShellStays, Contexts, Live, TypeOK, MachineOK
  <1>6. FirstShellStays'
    BY <1>0, <1>2, <1>5, <1>f DEF Runs, FirstShellStays, Live
  <1>7. Contexts'
    <2>1. /\ at[cpu] # "dead" /\ ctx[cpu] # "top" /\ cpu \in Pids
          /\ \A p \in Pids : /\ at[p] # "dead" => processes[p] = 1
                             /\ ctx[p] = "top" => at[p] # "dead"
      BY <1>0, <1>2, Types DEF Contexts, Live
    <2> HIDE ProcessesAssumption DEF Pids
    <2> QED
      BY <1>3, <1>5, <1>f, <1>g, <1>p, <2>1 DEF Runs, Contexts, Live
  <1>8. Sessions'
    <2> SUFFICES ASSUME ~switchFailed'
                 PROVE  (TopsAreLeaves /\ OthersWait /\ OneBranch /\ ActiveRuns)'
      BY DEF Sessions
    <2>0. TopsAreLeaves /\ OthersWait /\ OneBranch /\ ActiveRuns
      BY <1>0, <1>2 DEF Sessions, SysExecute
    <2>1. par = cpu
      BY <1>5, <2>0 DEF par, ParentOf, ActiveRuns
    <2>2. active_tty' = active_tty /\ tty[cpu] = active_tty /\ cpu = tty_top_pid[active_tty]
      BY <1>0, <2>0 DEF SysExecute, ActiveRuns, TopsAreLeaves, Opened, TypeOK, MachineOK
    <2>t. /\ active_tty \in Ttys /\ cpu \in Pids /\ TTY_UNOPENED \notin Pids
          /\ \A p \in Pids : parent[p] \in Pids /\ tty[p] \in Ttys
      BY <1>0, Types
    <2> HIDE ProcessesAssumption DEF root, Pids, Ttys, TTY_UNOPENED
    <2> USE <1>5, <1>f, <1>p, <2>1, <2>2, <2>t DEF Runs, Live, Opened, Child
    <2>3. TopsAreLeaves'
      BY <2>0 DEF TopsAreLeaves, OthersWait
    <2>4. OthersWait'
      BY <2>0 DEF TopsAreLeaves, OthersWait
    <2>5. OneBranch'
      BY <2>0 DEF TopsAreLeaves, OthersWait, OneBranch
    <2>6. ActiveRuns'
      BY DEF ActiveRuns
    <2> QED
      BY <2>3, <2>4, <2>5, <2>6
  <1>9. Booting'
    BY <1>3 DEF Booting
  <1> QED
    BY <1>4, <1>6, <1>7, <1>8, <1>9 DEF Inv

\* A halting root shell leaves its place to another.
LEMMA HaltRootInv ==
  ASSUME Inv, Running, at[cpu] = "user", HaltRoot
  PROVE  Inv'
  <1> DEFINE procs == [processes EXCEPT ![cpu] = 0]
             places == [at EXCEPT ![cpu] = "dead"]
  <1>0. TypeOK /\ Booting /\ Contexts /\ FirstShellStays /\ Sessions
    BY DEF Inv
  <1>2. Booted
    BY <1>0 DEF Booting, TypeOK, MachineOK
  <1>3. Booted' /\ Running'
    BY <1>2 DEF HaltRoot, Booted, Running
  <1>q. procs \in [Pids -> {0, 1}] /\ places \in [Pids -> Places]
    BY <1>0 DEF TypeOK, PcbsOK
  <1>p. \A p \in Pids : /\ places[p] = IF p = cpu THEN "dead" ELSE at[p]
                        /\ procs[p] = IF p = cpu THEN 0 ELSE processes[p]
    BY <1>0 DEF TypeOK, PcbsOK
  <1>e. /\ PcbsOK'
        /\ \E i \in Pids : Runs(i, procs, active_tty, ParentOf(i, TRUE), places)
    <2>1. Execute(procs, active_tty, TRUE, places)
      BY DEF HaltRoot
    <2> HIDE DEF procs, places
    <2> QED
      BY <1>0, <1>q, <2>1, ExecuteEffect DEF TypeOK, MachineOK
  <1> PICK i \in Pids : Runs(i, procs, active_tty, i, places)
    BY <1>e DEF ParentOf
  <1> HIDE DEF procs, places
  <1>4. TypeOK'
    BY <1>0, <1>e DEF HaltRoot, Runs, TypeOK, MachineOK
  <1>5. /\ i = cpu \/ processes[i] = 0
        /\ processes[cpu] = 1 /\ parent[cpu] = cpu
        /\ cpu = 0 => i = 0
        /\ cpu # 0 => i # 0
    BY <1>0, <1>2, <1>p DEF Runs, HaltRoot, FirstShellStays, Contexts, Live,
                            TypeOK, MachineOK
  <1>6. FirstShellStays'
    BY <1>0, <1>2, <1>5, <1>p DEF Runs, FirstShellStays, Live
  <1>7. Contexts'
    <2>1. /\ at[cpu] # "dead" /\ ctx[cpu] # "top" /\ cpu \in Pids
          /\ \A p \in Pids : /\ at[p] # "dead" => processes[p] = 1
                             /\ ctx[p] = "top" => at[p] # "dead"
      BY <1>0, <1>2, Types DEF Contexts, Live
    <2> HIDE ProcessesAssumption DEF Pids
    <2> QED
      BY <1>3, <1>5, <1>p, <2>1 DEF Runs, Contexts, Live
  <1>8. Sessions'
    <2> SUFFICES ASSUME ~switchFailed'
                 PROVE  (TopsAreLeaves /\ OthersWait /\ OneBranch /\ ActiveRuns)'
      BY DEF Sessions
    <2>0. TopsAreLeaves /\ OthersWait /\ OneBranch /\ ActiveRuns
      BY <1>0, <1>2 DEF Sessions, HaltRoot
    <2>2. active_tty' = active_tty /\ tty[cpu] = active_tty /\ cpu = tty_top_pid[active_tty]
      BY <1>0, <2>0, Types DEF HaltRoot, ActiveRuns, TopsAreLeaves, Opened
    <2>t. /\ active_tty \in Ttys /\ cpu \in Pids /\ TTY_UNOPENED \notin Pids
          /\ \A p \in Pids : parent[p] \in Pids /\ tty[p] \in Ttys
      BY <1>0, Types
    <2> HIDE ProcessesAssumption DEF Pids, Ttys, TTY_UNOPENED
    <2> USE <1>5, <1>p, <2>2, <2>t DEF Runs, Live, Opened, Child
    <2>3. TopsAreLeaves'
      BY <2>0 DEF TopsAreLeaves, OthersWait
    <2>4. OthersWait'
      BY <2>0 DEF TopsAreLeaves, OthersWait
    <2>5. OneBranch'
      BY <2>0 DEF TopsAreLeaves, OthersWait, OneBranch
    <2>6. ActiveRuns'
      BY DEF ActiveRuns
    <2> QED
      BY <2>3, <2>4, <2>5, <2>6
  <1>9. Booting'
    BY <1>3 DEF Booting
  <1> QED
    BY <1>4, <1>6, <1>7, <1>8, <1>9 DEF Inv

\* The first visit to a terminal starts a chain there; a full process table
\* leaves everything as it was, but for the flag and the screen.
LEMMA OpenTtyInv ==
  ASSUME Inv, NEW u \in Ttys, Running, Booted, active_tty' = u, OpenTty(u),
         UNCHANGED boot
  PROVE  Inv'
  <1>0. TypeOK /\ Booting /\ Contexts /\ FirstShellStays /\ Sessions
    BY DEF Inv
  <1>3. Booted' /\ Running'
    BY DEF OpenTty, Booted, Running
  <1>9. Booting'
    BY <1>3 DEF Booting
  <1>a. CASE Execute(processes, u, TRUE, at) /\ UNCHANGED switchFailed
    <2>e. PcbsOK' /\ \E i \in Pids : Runs(i, processes, u, ParentOf(i, TRUE), at)
      BY <1>0, <1>a, ExecuteEffect DEF TypeOK, PcbsOK
    <2> PICK i \in Pids : Runs(i, processes, u, i, at)
      BY <2>e DEF ParentOf
    <2>4. TypeOK'
      BY <1>0, <1>a, <2>e DEF OpenTty, Runs, TypeOK, MachineOK
    <2>5. processes[i] = 0 /\ i # 0
      BY <1>0 DEF Runs, FirstShellStays, Live
    <2>6. FirstShellStays'
      BY <1>0, <2>5 DEF Runs, FirstShellStays, Live
    <2>7. Contexts'
      <3>1. /\ at[cpu] # "dead" /\ ctx[cpu] # "top" /\ cpu \in Pids
            /\ \A p \in Pids : /\ at[p] # "dead" => processes[p] = 1
                               /\ ctx[p] = "top" => at[p] # "dead"
        BY <1>0, Types DEF Contexts, Live
      <3> HIDE ProcessesAssumption DEF Pids
      <3> QED
        BY <1>3, <2>5, <3>1 DEF Runs, Contexts, Live
    <2>8. Sessions'
      <3> SUFFICES ASSUME ~switchFailed'
                   PROVE  (TopsAreLeaves /\ OthersWait /\ OneBranch /\ ActiveRuns)'
        BY DEF Sessions
      <3>0. TopsAreLeaves /\ OthersWait /\ OneBranch /\ ActiveRuns
        BY <1>0, <1>a DEF Sessions
      <3>1. tty_top_pid[u] = TTY_UNOPENED
        BY DEF OpenTty
      <3>t. /\ TTY_UNOPENED \notin Pids
            /\ \A p \in Pids : parent[p] \in Pids /\ tty[p] \in Ttys
        BY <1>0, Types
      <3> HIDE ProcessesAssumption DEF Pids, Ttys, TTY_UNOPENED
      <3> USE <2>5, <3>1, <3>t DEF Runs, Live, Opened, Child
      <3>3. TopsAreLeaves'
        BY <3>0 DEF TopsAreLeaves, OthersWait
      <3>4. OthersWait'
        BY <3>0 DEF TopsAreLeaves, OthersWait
      <3>5. OneBranch'
        BY <3>0 DEF TopsAreLeaves, OthersWait, OneBranch
      <3>6. ActiveRuns'
        BY DEF ActiveRuns
      <3> QED
        BY <3>3, <3>4, <3>5, <3>6
    <2> QED
      BY <2>4, <2>6, <2>7, <2>8, <1>9 DEF Inv
  <1>b. CASE /\ next_one_is_root_shell' = 1
             /\ switchFailed' = TRUE
             /\ UNCHANGED <<processes, pcbVars, ctx, at, tty_top_pid, pageVars>>
    <2>1. TypeOK'
      BY <1>0, <1>b DEF OpenTty, pcbVars, pageVars, TypeOK, PcbsOK, MachineOK
    <2>2. FirstShellStays' /\ Contexts'
      BY <1>0, <1>b, <1>3 DEF pcbVars, pageVars, FirstShellStays, Contexts, Live
    <2>3. Sessions'
      BY <1>b DEF Sessions
    <2> QED
      BY <2>1, <2>2, <2>3, <1>9 DEF Inv
  <1> QED
    BY <1>a, <1>b DEF OpenTty

\* The boot code fills tty_top_pid and runs the first shell.
LEMMA BootInv ==
  ASSUME Inv, BootTty \/ BootShell
  PROVE  Inv'
  <1>0. TypeOK /\ Booting /\ Contexts /\ FirstShellStays /\ Sessions
    BY DEF Inv
  <1>1. ~Booted
    <2>1. BootTty => boot < MAX_TTY
      BY DEF BootTty
    <2>2. BootShell => boot = MAX_TTY
      BY DEF BootShell
    <2> QED
      BY <1>0, <2>1, <2>2 DEF Booted, TypeOK, MachineOK
  <1>a. CASE BootTty
    <2>1. ~Booted'
      BY <1>0, <1>a DEF BootTty, Booted, TypeOK, MachineOK
    <2>2. TypeOK'
      <3>1. PcbsOK'
        BY <1>0, <1>a DEF BootTty, pcbVars, TypeOK, PcbsOK, MachineOK
      <3>2. MachineOK'
        BY <1>0, <1>a DEF BootTty, pageVars, TypeOK, MachineOK
      <3> QED
        BY <1>0, <1>a, <3>1, <3>2 DEF BootTty, TypeOK
    <2>3. Booting'
      BY <1>0, <1>1, <1>a DEF BootTty, Booting, pcbVars, pageVars, TypeOK, PcbsOK,
                              MachineOK
    <2> QED
      BY <2>1, <2>2, <2>3 DEF Inv, Contexts, FirstShellStays, Sessions
  <1>b. CASE BootShell
    <2>e. /\ PcbsOK'
          /\ \E i \in Pids : Runs(i, processes, active_tty, ParentOf(i, TRUE), at)
      BY <1>0, <1>b, ExecuteEffect DEF BootShell, TypeOK, PcbsOK, MachineOK
    <2> PICK i \in Pids : Runs(i, processes, active_tty, i, at)
      BY <2>e DEF ParentOf
    <2>1. Booted'
      BY <1>b DEF BootShell, Booted
    <2>2. TypeOK'
      BY <1>0, <1>b, <2>e DEF BootShell, Runs, TypeOK, MachineOK
    <2>3. /\ i = 0
          /\ active_tty = 0 /\ active_tty' = 0
          /\ \A p \in Pids : processes[p] = 0
          /\ \A p \in Pids \ {0} : at[p] = "dead" /\ ctx[p] = "none"
          /\ \A t \in Ttys : tty_top_pid[t] = TTY_UNOPENED
      BY <1>0, <1>1, <1>b, Types DEF BootShell, Booting, Runs
    <2>4. Booting'
      BY <2>1 DEF Booting
    <2>5. FirstShellStays'
      BY <2>3 DEF FirstShellStays, Runs, Live
    <2>6. Contexts'
      BY <2>3 DEF Contexts, Runs, Live
    <2>7. Sessions'
      <3> USE <2>3 DEF Runs, Live, Opened, Child
      <3>1. TopsAreLeaves' /\ ActiveRuns'
        BY <1>0, Types DEF TopsAreLeaves, ActiveRuns
      <3>2. OthersWait'
        BY <1>0, Types DEF OthersWait
      <3>3. OneBranch'
        BY DEF OneBranch
      <3> QED
        BY <3>1, <3>2, <3>3 DEF Sessions
    <2> QED
      BY <2>2, <2>4, <2>5, <2>6, <2>7 DEF Inv
  <1> QED
    BY <1>a, <1>b

-----------------------------------------------------------------------------
\* What loading slot p's saved context does, slot by slot: it goes on where
\* it was, or is lost.
GoesOn(p, places, saved) ==
  /\ saved[p] \in {"top", places[p]}
  /\ control' = control
  /\ \A q \in Pids :
       /\ at'[q] = IF q # p THEN places[q]
                   ELSE IF places[p] = "exec" THEN "user" ELSE places[p]
       /\ ctx'[q] = IF q = p THEN places[p] ELSE saved[q]

IsLost(p, places, saved) ==
  /\ saved[p] # "top"
  /\ control' = "wild"
  /\ \A q \in Pids : at'[q] = places[q] /\ ctx'[q] = saved[q]

\* A context saved on top of a stack is always returned through; none that is
\* returned through belongs to a dead slot.
LEMMA ResumeEffect ==
  ASSUME NEW p \in Pids, NEW places \in [Pids -> Places],
         NEW saved \in [Pids -> SavedContexts],
         saved[p] = "top" => places[p] # "dead",
         control \in {"running", "wild", "hung"},
         Resume(p, places, saved)
  PROVE  /\ page' = p /\ esp0' = p /\ cpu' = p
         /\ at' \in [Pids -> Places]
         /\ ctx' \in [Pids -> SavedContexts]
         /\ control' \in {"running", "wild", "hung"}
         /\ GoesOn(p, places, saved) \/ IsLost(p, places, saved)
  <1>a. CASE Resume(p, places, saved)!4!1
    <2>1. places[p] # "dead"
      BY <1>a
    <2>2. at' \in [Pids -> Places] /\ ctx' \in [Pids -> SavedContexts]
      BY <1>a, <2>1
    <2>3. GoesOn(p, places, saved)
      BY <1>a DEF GoesOn
    <2> QED
      BY <1>a, <2>2, <2>3 DEF Resume
  <1>b. CASE Resume(p, places, saved)!4!2
    BY <1>b DEF Resume, IsLost
  <1> QED
    BY <1>a, <1>b DEF Resume

\* halt of a child shortens the chain of its terminal by one.
LEMMA HaltChildInv ==
  ASSUME Inv, Running, at[cpu] = "user", HaltChild
  PROVE  Inv'
  <1> DEFINE par == parent[cpu]
             places == [at EXCEPT ![cpu] = "dead"]
  <1>0. TypeOK /\ Booting /\ Contexts /\ FirstShellStays /\ Sessions
    BY DEF Inv
  <1>2. Booted
    BY <1>0 DEF Booting, TypeOK, MachineOK
  <1>3. Booted'
    BY <1>2 DEF HaltChild, Booted
  <1>4. par \in Pids /\ par # cpu /\ cpu \in Pids /\ tty[cpu] \in Ttys
    BY <1>0, Types DEF HaltChild
  <1>5. /\ processes' \in [Pids -> {0, 1}]
        /\ \A p \in Pids : processes'[p] = IF p = cpu THEN 0
                                           ELSE IF p = par THEN 1 ELSE processes[p]
    BY <1>0, <1>4 DEF HaltChild, TypeOK, PcbsOK
  <1>6. /\ tty_top_pid' \in [Ttys -> Pids \cup {TTY_UNOPENED}]
        /\ \A t \in Ttys :
             tty_top_pid'[t] = IF t = tty[cpu] THEN par ELSE tty_top_pid[t]
    BY <1>0, <1>4 DEF HaltChild, TypeOK, PcbsOK
  <1>7. /\ places \in [Pids -> Places]
        /\ \A p \in Pids : places[p] = IF p = cpu THEN "dead" ELSE at[p]
    <2>1. at \in [Pids -> Places]
      BY <1>0 DEF TypeOK, PcbsOK
    <2> QED
      BY <2>1
  <1>8. ctx[par] = "top" => places[par] # "dead"
    BY <1>0, <1>2, <1>4, <1>7 DEF Contexts
  <1>r. /\ page' = par /\ esp0' = par /\ cpu' = par
        /\ at' \in [Pids -> Places]
        /\ ctx' \in [Pids -> SavedContexts]
        /\ control' \in {"running", "wild", "hung"}
        /\ GoesOn(par, places, ctx) \/ IsLost(par, places, ctx)
    <2>1. Resume(par, places, ctx)
      BY DEF HaltChild
    <2>2. ctx \in [Pids -> SavedContexts] /\ control \in {"running", "wild", "hung"}
      BY <1>0 DEF TypeOK, PcbsOK, MachineOK
    <2> HIDE DEF par, places
    <2> QED
      BY <1>4, <1>7, <1>8, <2>1, <2>2, ResumeEffect
  <1>u. UNCHANGED <<parent, tty, active_tty, next_one_is_root_shell, boot,
                    switchFailed>> /\ rval' = 0
    BY DEF HaltChild, pcbVars
  <1> HIDE DEF par, places
  <1>9. TypeOK'
    BY <1>0, <1>4, <1>5, <1>6, <1>r, <1>u DEF TypeOK, PcbsOK, MachineOK
  <1>10. FirstShellStays'
    BY <1>0, <1>2, <1>4, <1>5, <1>u, Types DEF par, FirstShellStays, Live
  <1>11. Contexts'
    <2>1. CASE IsLost(par, places, ctx)
      BY <1>r, <2>1 DEF IsLost, Contexts, Running
    <2>2. CASE GoesOn(par, places, ctx)
      <3>1. places[par] # "dead" /\ places[par] # "top"
        BY <1>0, <1>4, <1>7, <1>8, <2>2 DEF GoesOn, TypeOK, PcbsOK
      <3>2. \A p \in Pids : /\ at[p] # "dead" => processes[p] = 1
                            /\ ctx[p] = "top" => at[p] # "dead"
        BY <1>0, <1>2 DEF Contexts, Live
      <3>3. ctx[cpu] # "top"
        BY <1>0, <1>2 DEF Contexts
      <3> QED
        BY <1>4, <1>5, <1>7, <1>r, <2>2, <3>1, <3>2, <3>3
           DEF Contexts, GoesOn, Live
    <2> QED
      BY <1>r, <2>1, <2>2
  <1>12. Sessions'
    <2> SUFFICES ASSUME ~switchFailed'
                 PROVE  (TopsAreLeaves /\ OthersWait /\ OneBranch /\ ActiveRuns)'
      BY DEF Sessions
    <2>0. TopsAreLeaves /\ OthersWait /\ OneBranch /\ ActiveRuns
      BY <1>0, <1>2, <1>u DEF Sessions
    <2>t. /\ active_tty \in Ttys /\ TTY_UNOPENED \notin Pids
          /\ \A p \in Pids : parent[p] \in Pids /\ tty[p] \in Ttys
      BY <1>0, Types
    <2> HIDE ProcessesAssumption DEF Pids, Ttys, TTY_UNOPENED
    <2>1. /\ cpu = tty_top_pid[active_tty]
          /\ tty[cpu] = active_tty
          /\ processes[cpu] = 1
          /\ parent[cpu] = par
          /\ processes[par] = 1
          /\ tty[par] = active_tty
          /\ at[par] = "exec"
          /\ ctx[par] = "top"
      BY <1>4, <2>0, <2>t DEF par, ActiveRuns, TopsAreLeaves, OthersWait, Opened, Live
    <2>2. \A q \in Pids : /\ at'[q] = IF q = par THEN "user"
                                      ELSE IF q = cpu THEN "dead" ELSE at[q]
                          /\ q # par => ctx'[q] = ctx[q]
      BY <1>4, <1>7, <1>r, <2>1 DEF GoesOn, IsLost
    <2> USE <1>4, <1>5, <1>6, <1>u, <2>1, <2>t DEF Live, Opened, Child
    <2>3. TopsAreLeaves'
      BY <2>0, <2>2 DEF TopsAreLeaves, OthersWait, OneBranch
    <2>4. OthersWait'
      BY <2>0, <2>2 DEF TopsAreLeaves, OthersWait, OneBranch
    <2>5. OneBranch'
      BY <2>0 DEF OneBranch
    <2>6. ActiveRuns'
      BY <1>r, <2>0 DEF ActiveRuns
    <2> QED
      BY <2>3, <2>4, <2>5, <2>6
  <1>13. Booting'
    BY <1>3 DEF Booting
  <1> QED
    BY <1>9, <1>10, <1>11, <1>12, <1>13 DEF Inv

\* Showing an opened terminal moves the CPU to its top process; the chains
\* stay as they are.
LEMMA ShowTtyInv ==
  ASSUME Inv, NEW u \in Ttys, Running, Booted, active_tty' = u, ShowTty(u),
         UNCHANGED boot
  PROVE  Inv'
  <1> DEFINE top == tty_top_pid[u]
  <1>0. TypeOK /\ Booting /\ Contexts /\ FirstShellStays /\ Sessions
    BY DEF Inv
  <1>1. Booted'
    BY DEF Booted
  <1>2. top \in Pids /\ top # TTY_UNOPENED
    BY <1>0, Types DEF ShowTty
  <1>3. /\ ctx \in [Pids -> SavedContexts] /\ at \in [Pids -> Places]
        /\ control \in {"running", "wild", "hung"}
    BY <1>0 DEF TypeOK, PcbsOK, MachineOK
  <1>4. \A p \in Pids : /\ at[p] # "dead" => processes[p] = 1
                        /\ ctx[p] = "top" => at[p] # "dead"
    BY <1>0 DEF Contexts, Live
  <1>r. /\ page' = top /\ esp0' = top /\ cpu' = top
        /\ at' \in [Pids -> Places]
        /\ ctx' \in [Pids -> SavedContexts]
        /\ control' \in {"running", "wild", "hung"}
        /\ GoesOn(top, at, ctx) \/ IsLost(top, at, ctx)
    <2>1. Resume(top, at, ctx)
      BY DEF ShowTty
    <2> HIDE DEF top
    <2> QED
      BY <1>2, <1>3, <1>4, <2>1, ResumeEffect
  <1>u. UNCHANGED <<processes, parent, tty, tty_top_pid,
                    next_one_is_root_shell, switchFailed>>
    BY DEF ShowTty, pcbVars
  <1>5. rval' \in Results
    BY <1>0 DEF ShowTty, TypeOK, MachineOK
  <1> HIDE DEF top
  <1>6. TypeOK'
    <2>1. PcbsOK'
      BY <1>0, <1>r, <1>u DEF TypeOK, PcbsOK
    <2>2. MachineOK'
      BY <1>0, <1>2, <1>5, <1>r, <1>u DEF TypeOK, MachineOK
    <2> QED
      BY <1>0, <1>u, <2>1, <2>2 DEF TypeOK
  <1>7. FirstShellStays'
    BY <1>0, <1>u DEF FirstShellStays, Live
  <1>8. Contexts'
    <2>1. CASE IsLost(top, at, ctx)
      BY <1>r, <2>1 DEF IsLost, Contexts, Running
    <2>2. CASE GoesOn(top, at, ctx)
      <3>1. at[top] # "dead" /\ at[top] # "top"
        BY <1>2, <1>3, <1>4, <2>2 DEF GoesOn
      <3> QED
        BY <1>2, <1>4, <1>r, <1>u, <2>2, <3>1 DEF Contexts, GoesOn, Live
    <2> QED
      BY <1>r, <2>1, <2>2
  <1>9. Sessions'
    <2> SUFFICES ASSUME ~switchFailed'
                 PROVE  (TopsAreLeaves /\ OthersWait /\ OneBranch /\ ActiveRuns)'
      BY DEF Sessions
    <2>0. TopsAreLeaves /\ OthersWait /\ OneBranch /\ ActiveRuns
      BY <1>0, <1>u DEF Sessions
    <2>1. at[top] \in {"user", "read"} /\ tty[top] = u
      BY <1>2, <2>0 DEF TopsAreLeaves, Opened, top
    <2>2. \A q \in Pids : at'[q] = at[q] /\ (q # top => ctx'[q] = ctx[q])
      BY <1>r, <2>1 DEF GoesOn, IsLost
    <2>t. \A p \in Pids : parent[p] \in Pids /\ tty[p] \in Ttys
      BY <1>0, Types
    <2> HIDE ProcessesAssumption DEF Pids, Ttys, TTY_UNOPENED
    <2> USE <1>2, <1>u, <2>1, <2>t DEF Live, Opened, Child
    <2>3. TopsAreLeaves'
      BY <2>0, <2>2 DEF TopsAreLeaves
    <2>4. OthersWait'
      BY <2>0, <2>2 DEF OthersWait, top
    <2>5. OneBranch'
      BY <2>0 DEF OneBranch
    <2>6. ActiveRuns'
      BY <1>r, <2>0 DEF ActiveRuns, top
    <2> QED
      BY <2>3, <2>4, <2>5, <2>6
  <1>10. Booting'
    BY <1>1 DEF Booting
  <1> QED
    BY <1>6, <1>7, <1>8, <1>9, <1>10 DEF Inv

\* A PIT interrupt saves the running process's context. Unless a terminal
\* switch has failed it then returns to that process.
LEMMA TickInv ==
  ASSUME Inv, Tick
  PROVE  Inv'
  <1> DEFINE next == get_next_process(tty[cpu])
             here == [ctx EXCEPT ![cpu] = at[cpu]]
             away == [ctx EXCEPT ![cpu] = "top"]
  <1>0. TypeOK /\ Booting /\ Contexts /\ FirstShellStays /\ Sessions
    BY DEF Inv
  <1>t. /\ cpu \in Pids
        /\ ctx \in [Pids -> SavedContexts] /\ at \in [Pids -> Places]
        /\ control \in {"running", "wild", "hung"}
    BY <1>0 DEF TypeOK, PcbsOK, MachineOK
  <1>u. UNCHANGED <<processes, parent, tty, tty_top_pid, active_tty,
                    next_one_is_root_shell, boot, rval, switchFailed>>
    BY DEF Tick, pcbVars
  <1>b. Booted' <=> Booted
    BY <1>u DEF Booted
  <1>1. at[cpu] # "dead"
    BY <1>0, <1>t DEF Contexts, Booting, Tick
  <1>2. /\ here \in [Pids -> SavedContexts]
        /\ away \in [Pids -> SavedContexts]
        /\ \A p \in Pids : /\ here[p] = IF p = cpu THEN at[cpu] ELSE ctx[p]
                           /\ away[p] = IF p = cpu THEN "top" ELSE ctx[p]
    BY <1>1, <1>t
  <1>3. FirstShellStays'
    BY <1>0, <1>u DEF FirstShellStays, Booted, Live
  <1>4. ASSUME Booted, ~switchFailed
        PROVE  next = cpu
    BY <1>0, <1>4, <1>t, Types
       DEF Sessions, ActiveRuns, TopsAreLeaves, Opened, get_next_process
  <1>5. ASSUME ~Booted
        PROVE  next \in {cpu, TTY_UNOPENED}
    BY <1>0, <1>5, <1>t DEF Booting, get_next_process
  <1> SUFFICES TypeOK' /\ Booting' /\ Contexts' /\ Sessions'
    BY <1>3 DEF Inv
  <1>6. CASE /\ ctx' = here \/ (ctx' = away /\ control' = "wild")
             /\ UNCHANGED <<at, page, esp0, cpu>>
             /\ control' \in {control, "hung", "wild"}
    <2> HIDE DEF next, here, away
    <2>0. \A p \in Pids : p # cpu => ctx'[p] = ctx[p]
      BY <1>2, <1>6
    <2>1. TypeOK'
      <3>1. PcbsOK'
        BY <1>0, <1>2, <1>6, <1>u DEF TypeOK, PcbsOK
      <3>2. MachineOK'
        BY <1>0, <1>6, <1>u DEF TypeOK, MachineOK
      <3> QED
        BY <1>0, <1>u, <3>1, <3>2 DEF TypeOK
    <2>2. Booting'
      BY <1>0, <1>2, <1>6, <1>b, <1>u DEF Booting
    <2>3. Contexts'
      BY <1>0, <1>1, <1>2, <1>6, <1>b, <1>t, <1>u DEF Contexts, Running, Live
    <2>4. Sessions'
      <3> SUFFICES ASSUME Booted', ~switchFailed'
                   PROVE  (TopsAreLeaves /\ OthersWait /\ OneBranch /\ ActiveRuns)'
        BY DEF Sessions
      <3>0. TopsAreLeaves /\ OthersWait /\ OneBranch /\ ActiveRuns
        BY <1>0, <1>b, <1>u DEF Sessions
      <3>1. cpu = tty_top_pid[tty[cpu]]
        BY <1>0, <1>t, <3>0, Types DEF ActiveRuns, TopsAreLeaves, Opened
      <3> HIDE ProcessesAssumption DEF Pids, Ttys, TTY_UNOPENED
      <3> USE <1>6, <1>u, <2>0, <3>0, <3>1 DEF Live, Opened, Child
      <3>2. TopsAreLeaves'
        BY DEF TopsAreLeaves
      <3>3. OthersWait'
        BY DEF OthersWait
      <3>4. OneBranch' /\ ActiveRuns'
        BY DEF OneBranch, ActiveRuns
      <3> QED
        BY <3>2, <3>3, <3>4
    <2> QED
      BY <2>1, <2>2, <2>3, <2>4
  <1>7. CASE next \in Pids \ {cpu} /\ Resume(next, at, away)
    <2>0. Booted /\ switchFailed
      BY <1>0, <1>4, <1>5, <1>7, Types DEF TypeOK
    <2> HIDE DEF next, here, away
    <2>1. /\ \A p \in Pids : /\ at[p] # "dead" => processes[p] = 1
                             /\ ctx[p] = "top" => at[p] # "dead"
          /\ away[next] = "top" => at[next] # "dead"
      BY <1>0, <1>2, <1>7, <2>0 DEF Contexts, Live, Tick
    <2>r. /\ page' = next /\ esp0' = next /\ cpu' = next
          /\ at' \in [Pids -> Places]
          /\ ctx' \in [Pids -> SavedContexts]
          /\ control' \in {"running", "wild", "hung"}
          /\ GoesOn(next, at, away) \/ IsLost(next, at, away)
      BY <1>2, <1>7, <1>t, <2>1, ResumeEffect
    <2>2. TypeOK'
      <3>1. PcbsOK'
        BY <1>0, <1>u, <2>r DEF TypeOK, PcbsOK
      <3>2. MachineOK'
        BY <1>0, <1>7, <1>u, <2>r DEF TypeOK, MachineOK
      <3> QED
        BY <1>0, <1>u, <3>1, <3>2 DEF TypeOK
    <2>3. Contexts'
      <3>1. CASE IsLost(next, at, away)
        BY <2>r, <3>1 DEF IsLost, Contexts, Running
      <3>2. CASE GoesOn(next, at, away)
        <4>1. at[next] # "dead" /\ at[next] # "top"
          BY <1>2, <1>7, <1>t, <2>1, <3>2 DEF GoesOn
        <4> QED
          BY <1>1, <1>2, <1>7, <1>t, <1>u, <2>1, <2>r, <3>2, <4>1
             DEF Contexts, GoesOn, Live
      <3> QED
        BY <2>r, <3>1, <3>2
    <2> QED
      BY <1>b, <1>u, <2>0, <2>2, <2>3 DEF Booting, Sessions
  <1> QED
    <2>1. \/ ctx' = here /\ control' = "hung" /\ UNCHANGED <<at, pageVars>>
          \/ ctx' = here /\ UNCHANGED <<at, pageVars, control>>
          \/ next \in Pids \ {cpu} /\ Resume(next, at, away)
          \/ ctx' = away /\ control' = "wild" /\ UNCHANGED <<at, pageVars>>
      BY DEF Tick
    <2> HIDE DEF next, here, away
    <2> QED
      BY <1>6, <1>7, <2>1 DEF pageVars

\* The steps that leave every slot, terminal and saved context alone.
LEMMA QuietInv ==
  ASSUME Inv, SysExecuteFails \/ EnterRead \/ LeaveRead
  PROVE  Inv'
  <1>0. TypeOK /\ Booting /\ Contexts /\ FirstShellStays /\ Sessions
    BY DEF Inv
  <1>t. cpu \in Pids /\ at \in [Pids -> Places]
    BY <1>0 DEF TypeOK, PcbsOK, MachineOK
  <1>u. /\ UNCHANGED <<processes, parent, tty, ctx, tty_top_pid, active_tty,
                       next_one_is_root_shell, page, esp0, cpu, control, boot,
                       switchFailed>>
        /\ rval' \in {-1, rval}
        /\ at[cpu] \in {"user", "read"}
    BY DEF SysExecuteFails, EnterRead, LeaveRead, pcbVars, pageVars
  <1>1. \E w \in {"user", "read"} : at' = [at EXCEPT ![cpu] = w]
    <2>1. CASE SysExecuteFails
      <3>1. at' = [at EXCEPT ![cpu] = "user"]
        BY <1>t, <2>1 DEF SysExecuteFails
      <3> QED
        BY <3>1
    <2>2. CASE EnterRead
      BY <2>2 DEF EnterRead
    <2>3. CASE LeaveRead
      BY <2>3 DEF LeaveRead
    <2> QED
      BY <2>1, <2>2, <2>3
  <1>2. PICK w \in {"user", "read"} : at' = [at EXCEPT ![cpu] = w]
    BY <1>1
  <1>3. /\ at' \in [Pids -> Places]
        /\ \A p \in Pids : at'[p] = IF p = cpu THEN w ELSE at[p]
    BY <1>2, <1>t
  <1>4. TypeOK'
    <2>1. PcbsOK'
      BY <1>0, <1>3, <1>u DEF TypeOK, PcbsOK
    <2>2. MachineOK'
      BY <1>0, <1>u DEF TypeOK, MachineOK
    <2> QED
      BY <1>0, <1>u, <2>1, <2>2 DEF TypeOK
  <1>5. Booted /\ Booted'
    BY <1>0, <1>t, <1>u DEF Booting, Booted
  <1>6. Booting' /\ FirstShellStays'
    BY <1>0, <1>5, <1>u DEF Booting, FirstShellStays, Live
  <1>7. Contexts'
    BY <1>0, <1>3, <1>5, <1>t, <1>u DEF Contexts, Running, Live
  <1>8. Sessions'
    <2> SUFFICES ASSUME ~switchFailed'
                 PROVE  (TopsAreLeaves /\ OthersWait /\ OneBranch /\ ActiveRuns)'
      BY DEF Sessions
    <2>0. TopsAreLeaves /\ OthersWait /\ OneBranch /\ ActiveRuns
      BY <1>0, <1>5, <1>u DEF Sessions
    <2>1. cpu = tty_top_pid[tty[cpu]]
      BY <1>0, <1>t, <2>0, Types DEF ActiveRuns, TopsAreLeaves, Opened
    <2> HIDE ProcessesAssumption DEF Pids, Ttys, TTY_UNOPENED
    <2> USE <1>3, <1>t, <1>u, <2>0, <2>1 DEF Live, Opened, Child
    <2>2. TopsAreLeaves'
      BY DEF TopsAreLeaves
    <2>3. OthersWait'
      BY DEF OthersWait
    <2>4. OneBranch' /\ ActiveRuns'
      BY DEF OneBranch, ActiveRuns
    <2> QED
      BY <2>2, <2>3, <2>4
  <1> QED
    BY <1>4, <1>6, <1>7, <1>8 DEF Inv

-----------------------------------------------------------------------------
\* Every step of the kernel keeps the invariant.
LEMMA NextInv == Inv /\ [Next]_vars => Inv'
  <1> SUFFICES ASSUME Inv, [Next]_vars PROVE Inv'
    OBVIOUS
  <1>1. CASE BootTty \/ BootShell
    BY <1>1, BootInv
  <1>2. CASE SysExecute
    BY <1>2, SysExecuteInv
  <1>3. CASE Halt
    BY <1>3, HaltRootInv, HaltChildInv DEF Halt
  <1>4. CASE SysExecuteFails \/ EnterRead \/ LeaveRead
    BY <1>4, QuietInv
  <1>5. ASSUME NEW t \in Ttys, SwitchToTty(t)
        PROVE  Inv'
    BY <1>5, OpenTtyInv, ShowTtyInv DEF SwitchToTty
  <1>e. CASE Exception
    BY <1>e, <1>3 DEF Exception
  <1>6. CASE Tick
    BY <1>6, TickInv
  <1>7. CASE UNCHANGED vars
    <2>1. Booted' <=> Booted
      BY <1>7 DEF vars, Booted
    <2>2. Running' <=> Running
      BY <1>7 DEF vars, Running
    <2>3. TypeOK'
      BY <1>7 DEF vars, Inv, TypeOK, PcbsOK, MachineOK
    <2>4. Booting' /\ Contexts' /\ FirstShellStays'
      BY <1>7, <2>1, <2>2 DEF vars, Inv, Booting, Contexts, FirstShellStays, Live
    <2>5. Sessions'
      BY <1>7, <2>1 DEF vars, Inv, Sessions, TopsAreLeaves, OthersWait, OneBranch,
                        ActiveRuns, Child, Live, Opened
    <2> QED
      BY <2>3, <2>4, <2>5 DEF Inv
  <1> QED
    BY <1>1, <1>2, <1>3, <1>4, <1>5, <1>6, <1>7, <1>e DEF Next

\* The inductive invariant holds in every reachable state.
THEOREM Invariance == Spec => []Inv
  <1>1. Init => Inv
    BY InitInv
  <1>2. Inv /\ [Next]_vars => Inv'
    BY NextInv
  <1> QED
    BY <1>1, <1>2, PTL DEF Spec

\* The kernel's variables keep their types: in particular no field of a PCB,
\* no terminal's top and no slot number ever leaves its array.
THEOREM TypeCorrect == Spec => []TypeOK
  <1>1. Inv => TypeOK
    BY DEF Inv
  <1> QED
    BY <1>1, Invariance, PTL

\* execute, halt, switch_to_tty and the PIT interrupt keep each terminal's
\* live processes one chain of waiting callers under the process that
\* tty_top_pid names, until a terminal switch meets a full process table.
THEOREM SessionsHold == Spec => []Sessions
  <1>1. Inv => Sessions
    BY DEF Inv
  <1> QED
    BY <1>1, Invariance, PTL

\* Slot 0 always holds a root shell, whatever fails.
THEOREM FirstShellAlwaysStays == Spec => []FirstShellStays
  <1>1. Inv => FirstShellStays
    BY DEF Inv
  <1> QED
    BY <1>1, Invariance, PTL

\* The mapped page, the TSS and the stack in use always agree on one live
\* process while the kernel is in control, whatever fails.
THEOREM OneProcessIsLoaded == Spec => []OneProcessLoaded
  <1>1. Inv => OneProcessLoaded
    BY DEF Inv, Contexts, OneProcessLoaded, TypeOK, MachineOK
  <1> QED
    BY <1>1, Invariance, PTL

\* Only halt frees the running process's slot, and it finds the caller's
\* context on top of the caller's stack.
LEMMA GoesBackStep == Inv /\ [Next]_vars => [GoesBack]_vars
  <1> SUFFICES ASSUME Inv, Next, Booted, ~switchFailed, parent[cpu] # cpu,
                      processes'[cpu] = 0
               PROVE  GoesBack
    BY DEF GoesBack
  <1>0. TypeOK /\ Contexts /\ Sessions
    BY DEF Inv
  <1>t. /\ cpu \in Pids /\ processes \in [Pids -> {0, 1}]
        /\ at \in [Pids -> Places] /\ ctx \in [Pids -> SavedContexts]
    BY <1>0 DEF TypeOK, PcbsOK, MachineOK
  <1>s. TopsAreLeaves /\ OthersWait /\ OneBranch /\ ActiveRuns
    BY <1>0 DEF Sessions
  <1>1. processes[cpu] = 1
    BY <1>0, <1>s, Types DEF ActiveRuns, TopsAreLeaves, Opened, Live
  <1>2. ASSUME NEW procs \in [Pids -> {0, 1}], NEW t \in Ttys, NEW root \in BOOLEAN,
               NEW places, Execute(procs, t, root, places), procs[cpu] = 1
        PROVE  FALSE
    <2>1. PICK i \in Pids : processes' = [procs EXCEPT ![i] = 1]
      BY <1>2 DEF Execute
    <2> QED
      BY <1>2, <1>t, <2>1
  <1>3. Halt
    <2>1. ~(BootTty \/ SysExecuteFails \/ EnterRead \/ LeaveRead \/ Tick)
      BY <1>1 DEF BootTty, SysExecuteFails, EnterRead, LeaveRead, Tick
    <2>2. ~SysExecute
      <3> DEFINE root == next_one_is_root_shell = 1
                 places == [at EXCEPT ![cpu] = "exec"]
      <3>1. SysExecute => Execute(processes, active_tty, root, places)
        BY DEF SysExecute
      <3>2. root \in BOOLEAN /\ active_tty \in Ttys
        BY <1>0, Types
      <3> HIDE DEF root, places
      <3> QED
        BY <1>1, <1>2, <1>t, <3>1, <3>2
    <2>3. ~BootShell
      <3>1. boot # MAX_TTY
        BY DEF Booted
      <3>2. BootShell => boot = MAX_TTY
        BY DEF BootShell
      <3> QED
        BY <3>1, <3>2
    <2>4. ASSUME NEW t \in Ttys
          PROVE  ~SwitchToTty(t)
      <3>1. ~Execute(processes, t, TRUE, at)
        BY <1>1, <1>2, <1>t
      <3>2. OpenTty(t) => processes' = processes
        BY <3>1 DEF OpenTty
      <3>3. ShowTty(t) => processes' = processes
        BY DEF ShowTty
      <3> QED
        BY <1>1, <3>2, <3>3 DEF SwitchToTty
    <2> QED
      BY <2>1, <2>2, <2>3, <2>4 DEF Next, Exception
  <1>4. HaltChild
    BY <1>3 DEF Halt, HaltRoot
  <1> DEFINE par == parent[cpu]
  <1>5. /\ par \in Pids /\ par # cpu /\ tty[cpu] = active_tty
        /\ processes[par] = 1 /\ at[par] = "exec" /\ ctx[par] = "top"
    <2>1. /\ par \in Pids /\ par # cpu /\ active_tty \in Ttys
          /\ TTY_UNOPENED \notin Pids
      BY <1>0, Types
    <2> HIDE ProcessesAssumption DEF Pids, Ttys, TTY_UNOPENED
    <2>2. tty[cpu] = active_tty
      BY <1>s, <1>t, <2>1 DEF ActiveRuns, TopsAreLeaves, Opened
    <2>3. processes[par] = 1 /\ tty[par] = active_tty
      BY <1>1, <1>s, <1>t, <2>2 DEF OthersWait, Live
    <2>4. par # tty_top_pid[tty[par]]
      BY <1>s, <2>1, <2>3 DEF ActiveRuns
    <2> QED
      BY <1>s, <2>1, <2>2, <2>3, <2>4 DEF OthersWait, Live
  <1>6. processes' = [processes EXCEPT ![cpu] = 0]
    BY <1>4, <1>5, <1>t DEF HaltChild
  <1>7. tty_top_pid' = [tty_top_pid EXCEPT ![active_tty] = par]
    BY <1>4, <1>5 DEF HaltChild
  <1>8. Resume(par, [at EXCEPT ![cpu] = "dead"], ctx)
    BY <1>4 DEF HaltChild
  <1>9. /\ cpu' = par /\ control' = control
        /\ at' = [at EXCEPT ![cpu] = "dead", ![par] = "user"]
    BY <1>5, <1>8, <1>t DEF Resume
  <1>10. control = "running"
    BY <1>3 DEF Halt, Running
  <1> QED
    BY <1>4, <1>6, <1>7, <1>9, <1>10 DEF GoesBack, HaltChild

\* Every halt of a child returns to the program that ran it, as long as no
\* terminal switch has met a full process table.
THEOREM HaltReturns == Spec => HaltReturnsToParent
  <1>1. Inv /\ [Next]_vars => [GoesBack]_vars
    BY GoesBackStep
  <1> QED
    BY <1>1, Invariance, PTL DEF Spec, HaltReturnsToParent

HIDE ProcessesAssumption DEF ProcessesAssumption, Pids, Ttys, TTY_UNOPENED,
                             NoPage, Places, SavedContexts, Results

-----------------------------------------------------------------------------
(***************************************************************************)
(* The stacks of programs: what Ancestry computes.                         *)
(***************************************************************************)

\* A set of naturals has a least element: induction, without a predicate as
\* a parameter.
LEMMA LeastElement ==
  ASSUME NEW T, T \subseteq Nat, T # {}
  PROVE  \E x \in T : \A y \in T : x <= y
<1> DEFINE R == OpToRel(<, Nat)
<1>1. IsWellFoundedOn(R, Nat)
  BY NatLessThanWellFounded
<1>2. PICK x \in T : \A y \in T : ~(<<y, x>> \in R)
  <2> HIDE DEF R
  <2> QED  BY <1>1, WFMin
<1>3. \A y \in Nat : y < x => <<y, x>> \in R
  BY DEF OpToRel
<1> HIDE DEF R
<1>4. \A y \in T : ~(y < x)
  BY <1>2, <1>3
<1>5. ASSUME NEW a \in Nat, NEW b \in Nat, ~(b < a) PROVE a <= b
  BY <1>5
<1> QED  BY <1>2, <1>4, <1>5

\* The sequence s goes up from a root along the parent fields par, and meets
\* no slot twice.
Chain(par, s) ==
  /\ s \in Seq(Pids) /\ s # <<>>
  /\ \A j, k \in 1..Len(s) : s[j] = s[k] => j = k
  /\ par[s[1]] = s[1]
  /\ \A k \in 2..Len(s) : par[s[k]] = s[k - 1]

\* A chain is no longer than there are slots.
LEMMA ChainShort ==
  ASSUME NEW par, NEW s, Chain(par, s)
  PROVE  Len(s) \in Nat \ {0} /\ Len(s) <= MAX_NUM_PROCESSES
<1>1. s \in Seq(Pids) /\ s # <<>> /\ \A j, k \in 1..Len(s) : s[j] = s[k] => j = k
  BY DEF Chain
<1>2. MAX_NUM_PROCESSES \in Nat \ {0}
  BY ProcessesAssumption DEF ProcessesAssumption
<1>3. Len(s) \in Nat \ {0} /\ s \in [1..Len(s) -> Pids]
  BY <1>1
<1>4. IsFiniteSet(Pids) /\ Cardinality(Pids) = MAX_NUM_PROCESSES
  <2>1. 0 \in Int /\ MAX_NUM_PROCESSES - 1 \in Int /\ ~(0 > MAX_NUM_PROCESSES - 1)
        /\ MAX_NUM_PROCESSES - 1 - 0 + 1 = MAX_NUM_PROCESSES
    BY <1>2
  <2> QED  BY <2>1, FS_Interval DEF Pids
<1>5. IsFiniteSet(1..Len(s)) /\ Cardinality(1..Len(s)) = Len(s)
  <2>1. ~(1 > Len(s)) /\ Len(s) \in Int /\ Len(s) - 1 + 1 = Len(s)
    BY <1>3
  <2> QED  BY <2>1, FS_Interval
<1>6. ~(Cardinality(Pids) < Cardinality(1..Len(s)))
  BY <1>1, <1>3, <1>4, <1>5, FS_PigeonHole
<1> QED  BY <1>2, <1>3, <1>4, <1>5, <1>6

\* The last n + 1 of s, or all.
Upper(s, n) == SubSeq(s, IF n < Len(s) THEN Len(s) - n ELSE 1, Len(s))

\* The last one of a stack, and all of it.
LEMMA UpperEnds ==
  ASSUME NEW s \in Seq(Pids), Len(s) \in Nat \ {0}
  PROVE  /\ Upper(s, 0) = <<s[Len(s)]>>
         /\ \A n \in Nat : ~(n < Len(s)) \/ n = Len(s) - 1 => Upper(s, n) = s
<1>1. Upper(s, 0) = SubSeq(s, Len(s), Len(s))
  <2>1. (IF 0 < Len(s) THEN Len(s) - 0 ELSE 1) = Len(s)
    OBVIOUS
  <2> QED  BY <2>1 DEF Upper
<1>2. SubSeq(s, Len(s), Len(s)) = <<s[Len(s)]>> /\ SubSeq(s, 1, Len(s)) = s
  <2>1. ASSUME NEW q \in Seq(Pids), NEW m \in 1..Len(q), m = Len(q)
        PROVE  SubSeq(q, m, m) = <<q[m]>>
    <3>1. SubSeq(q, m, m) \in Seq(Pids) /\ Len(SubSeq(q, m, m)) = 1 /\ SubSeq(q, m, m)[1] = q[m]
      OBVIOUS
    <3>2. ASSUME NEW x \in Seq(Pids), Len(x) = 1 PROVE x = <<x[1]>>
      BY <3>2
    <3>3. SubSeq(q, m, m) = <<SubSeq(q, m, m)[1]>>
      BY <3>1, <3>2, Zenon
    <3> QED  BY <3>1, <3>3
  <2>2. ASSUME NEW q \in Seq(Pids) PROVE SubSeq(q, 1, Len(q)) = q
    OBVIOUS
  <2>3. Len(s) \in 1..Len(s)
    OBVIOUS
  <2> QED  BY <2>1, <2>2, <2>3
<1>3. ASSUME NEW n \in Nat, ~(n < Len(s)) \/ n = Len(s) - 1 PROVE Upper(s, n) = SubSeq(s, 1, Len(s))
  <2>1. (IF n < Len(s) THEN Len(s) - n ELSE 1) = 1
    BY <1>3
  <2> QED  BY <2>1 DEF Upper
<1> QED  BY <1>1, <1>2, <1>3

\* One more of a chain is one step of the climb.
LEMMA UpperStep ==
  ASSUME NEW par, NEW s, Chain(par, s), NEW n \in Nat \ {0}
  PROVE  Upper(s, n) =
           IF par[Head(Upper(s, n - 1))] = Head(Upper(s, n - 1)) THEN Upper(s, n - 1)
           ELSE <<par[Head(Upper(s, n - 1))]>> \o Upper(s, n - 1)
<1>1. s \in Seq(Pids) /\ Len(s) \in Nat \ {0}
  BY ChainShort DEF Chain
<1>2. CASE n < Len(s)
  <2> DEFINE a == Len(s) - n + 1
  <2>1. a \in 2..Len(s) /\ a - 1 \in 1..Len(s) /\ a - 1 # a
        /\ Len(s) - (n - 1) = a /\ Len(s) - n = a - 1 /\ n - 1 < Len(s)
    BY <1>1, <1>2
  <2>2. Upper(s, n) = SubSeq(s, a - 1, Len(s)) /\ Upper(s, n - 1) = SubSeq(s, a, Len(s))
    BY <1>2, <2>1 DEF Upper
  <2> HIDE DEF a
  <2>3. Head(SubSeq(s, a, Len(s))) = s[a]
    BY <1>1, <2>1
  <2>4. par[s[a]] = s[a - 1] /\ s[a - 1] # s[a]
    BY <2>1 DEF Chain
  <2>5. <<s[a - 1]>> \o SubSeq(s, a, Len(s)) = SubSeq(s, a - 1, Len(s))
    BY <1>1, <2>1
  <2> QED  BY <2>2, <2>3, <2>4, <2>5
<1>3. CASE ~(n < Len(s))
  <2>1. Upper(s, n) = s /\ Upper(s, n - 1) = s
    <3>1. n - 1 \in Nat /\ (~(n - 1 < Len(s)) \/ n - 1 = Len(s) - 1)
      BY <1>1, <1>3
    <3> QED  BY <1>1, <1>3, <3>1, UpperEnds
  <2>2. Head(s) = s[1] /\ par[s[1]] = s[1]
    BY <1>1 DEF Chain
  <2> QED  BY <2>1, <2>2
<1> QED  BY <1>2, <1>3

\* f is the function that Ancestry climbs with.
Climbs(f, par, p) ==
  f = [n \in 0..MAX_NUM_PROCESSES |->
         IF n = 0 THEN <<p>>
         ELSE IF par[Head(f[n - 1])] = Head(f[n - 1]) THEN f[n - 1]
              ELSE <<par[Head(f[n - 1])]>> \o f[n - 1]]

\* The climb from the top of a chain goes along it, and stays at its root.
LEMMA UpperClimbs ==
  ASSUME NEW par, NEW s, Chain(par, s)
  PROVE  Climbs([n \in 0..MAX_NUM_PROCESSES |-> Upper(s, n)], par, s[Len(s)])
<1> DEFINE f == [n \in 0..MAX_NUM_PROCESSES |-> Upper(s, n)]
<1>1. MAX_NUM_PROCESSES \in Nat \ {0}
  BY ProcessesAssumption DEF ProcessesAssumption
<1>2. s \in Seq(Pids) /\ Len(s) \in Nat \ {0}
  BY ChainShort DEF Chain
<1>3. f[0] = <<s[Len(s)]>>
  BY <1>1, <1>2, UpperEnds
<1>4. ASSUME NEW n \in 0..MAX_NUM_PROCESSES
      PROVE  f[n] = IF n = 0 THEN <<s[Len(s)]>>
                    ELSE IF par[Head(f[n - 1])] = Head(f[n - 1]) THEN f[n - 1]
                         ELSE <<par[Head(f[n - 1])]>> \o f[n - 1]
  <2>1. CASE n = 0
    BY <1>3, <2>1
  <2>2. CASE n # 0
    <3>1. n \in Nat \ {0} /\ n - 1 \in 0..MAX_NUM_PROCESSES
      BY <1>1, <2>2
    <3>2. f[n] = Upper(s, n) /\ f[n - 1] = Upper(s, n - 1)
      BY <3>1
    <3> HIDE DEF f
    <3> QED  BY <2>2, <3>1, <3>2, UpperStep
  <2> QED  BY <2>1, <2>2
<1>5. f = [n \in 0..MAX_NUM_PROCESSES |-> f[n]]
  OBVIOUS
<1> HIDE DEF f
<1>6. Climbs(f, par, s[Len(s)])
  BY <1>4, <1>5, Zenon DEF Climbs
<1> QED  BY <1>6 DEF f

\* No other function climbs: take the least step at which one differs.
LEMMA ClimbsUnique ==
  ASSUME NEW par, NEW s, Chain(par, s), NEW f, Climbs(f, par, s[Len(s)])
  PROVE  f[MAX_NUM_PROCESSES] = s
<1> DEFINE M == MAX_NUM_PROCESSES
           T == {n \in 0..M : f[n] # Upper(s, n)}
<1>1. M \in Nat \ {0}
  BY ProcessesAssumption DEF ProcessesAssumption
<1>2. s \in Seq(Pids) /\ Len(s) \in Nat \ {0} /\ Len(s) <= M
  BY ChainShort DEF Chain
<1>3. \A n \in 0..M : f[n] = IF n = 0 THEN <<s[Len(s)]>>
                    ELSE IF par[Head(f[n - 1])] = Head(f[n - 1]) THEN f[n - 1]
                         ELSE <<par[Head(f[n - 1])]>> \o f[n - 1]
  BY Zenon DEF Climbs
<1>4. T = {}
  <2> SUFFICES ASSUME T # {} PROVE FALSE
    OBVIOUS
  <2>1. T \subseteq Nat
    BY <1>1
  <2>2. PICK x \in T : \A y \in T : x <= y
    BY <2>1, LeastElement
  <2>3. Upper(s, 0) = <<s[Len(s)]>>
    BY <1>2, UpperEnds
  <2>4. 0 \in 0..M /\ f[0] = <<s[Len(s)]>>
    <3>1. 0 \in 0..M
      BY <1>1
    <3> QED  BY <1>3, <3>1, Zenon
  <2>5. x \in Nat \ {0} /\ x \in 0..M /\ x - 1 \in 0..M /\ ~(x <= x - 1)
    BY <1>1, <2>2, <2>3, <2>4
  <2>6. f[x - 1] = Upper(s, x - 1)
    BY <2>2, <2>5
  <2>7. f[x] = Upper(s, x)
    <3>1. x # 0
      BY <2>5
    <3>2. f[x] = IF par[Head(f[x - 1])] = Head(f[x - 1]) THEN f[x - 1]
                 ELSE <<par[Head(f[x - 1])]>> \o f[x - 1]
      BY <1>3, <2>5, <3>1, Zenon
    <3> QED  BY <2>5, <2>6, <3>2, UpperStep
  <2> QED  BY <2>2, <2>7
<1>5. M \in 0..M /\ Upper(s, M) = s
  BY <1>1, <1>2, UpperEnds
<1> QED  BY <1>4, <1>5

\* A chain is the ancestry of its last slot.
LEMMA ChainIs ==
  ASSUME NEW par, NEW s, Chain(par, s)
  PROVE  Ancestry(par, s[Len(s)]) = s
<1> DEFINE up == CHOOSE f : Climbs(f, par, s[Len(s)])
<1>1. Climbs(up, par, s[Len(s)])
  BY UpperClimbs, Zenon
<1>2. Ancestry(par, s[Len(s)]) = up[MAX_NUM_PROCESSES]
  BY DEF Ancestry, Climbs
<1> HIDE DEF up
<1> QED  BY <1>1, <1>2, ClimbsUnique

-----------------------------------------------------------------------------
(***************************************************************************)
(* One stack per terminal                                                  *)
(***************************************************************************)
Stacks == [Ttys -> Seq(Pids)]

\* The slot p is on the stack s.
On(s, p) == \E k \in 1..Len(s) : s[k] = p

\* The stacks st are those of the parent fields par, the slots procs in use
\* and the terminals' tops: each a chain, no slot on two, every slot in use on
\* one.
Stacked(st, par, procs, tops) ==
  /\ st \in Stacks
  /\ \A t \in Ttys : tops[t] = TTY_UNOPENED => st[t] = <<>>
  /\ \A t \in Ttys : tops[t] # TTY_UNOPENED =>
       Chain(par, st[t]) /\ tops[t] = st[t][Len(st[t])]
  /\ \A t, u \in Ttys : \A p \in Pids : On(st[t], p) /\ On(st[u], p) => t = u
  /\ \A p \in Pids : procs[p] = 1 <=> \E t \in Ttys : On(st[t], p)

\* f and g agree but for x, where g has v.
Differs(f, g, S, x, v) == \A y \in S : g[y] = IF y = x THEN v ELSE f[y]

\* What is on an empty stack, on a stack of one, and under a push and a pop.
LEMMA OnNone == \A p : ~On(<<>>, p)
BY DEF On

LEMMA OnOne == \A i, p : On(<<i>>, p) <=> p = i
<1>1. ASSUME NEW i, NEW p PROVE On(<<i>>, p) <=> p = i
  <2>1. Len(<<i>>) = 1 /\ <<i>>[1] = i
    OBVIOUS
  <2>2. \A k \in 1..1 : k = 1
    OBVIOUS
  <2>3. 1 \in 1..1
    OBVIOUS
  <2> QED  BY <2>1, <2>2, <2>3 DEF On
<1> QED  BY <1>1

LEMMA OnAppend ==
  ASSUME NEW s \in Seq(Pids), NEW i \in Pids, NEW p
  PROVE  On(Append(s, i), p) <=> On(s, p) \/ p = i
<1>1. /\ Len(Append(s, i)) = Len(s) + 1 /\ Append(s, i)[Len(s) + 1] = i
      /\ \A k \in 1..Len(s) : Append(s, i)[k] = s[k]
      /\ Len(s) \in Nat
  OBVIOUS
<1>2. \A k \in 1..(Len(s) + 1) : k \in 1..Len(s) \/ k = Len(s) + 1
  BY <1>1
<1>3. \A k \in 1..Len(s) : k \in 1..(Len(s) + 1)
  BY <1>1
<1>4. Len(s) + 1 \in 1..(Len(s) + 1)
  BY <1>1
<1> QED  BY <1>1, <1>2, <1>3, <1>4 DEF On

LEMMA OnType ==
  ASSUME NEW s \in Seq(Pids), NEW p, On(s, p)
  PROVE  p \in Pids
BY DEF On

\* All but the last of a stack.
Below(s) == SubSeq(s, 1, Len(s) - 1)

LEMMA FrontIs ==
  ASSUME NEW s \in Seq(Pids), Len(s) > 1
  PROVE  /\ Below(s) \in Seq(Pids) /\ Len(Below(s)) = Len(s) - 1
         /\ \A k \in 1..(Len(s) - 1) : Below(s)[k] = s[k]
BY DEF Below

LEMMA OnFront ==
  ASSUME NEW s \in Seq(Pids), Len(s) > 1, NEW p,
         \A j, k \in 1..Len(s) : s[j] = s[k] => j = k
  PROVE  On(Below(s), p) <=> On(s, p) /\ p # s[Len(s)]
<1>1. /\ Len(Below(s)) = Len(s) - 1 /\ Len(s) \in Nat /\ Len(s) > 1
      /\ \A k \in 1..(Len(s) - 1) : Below(s)[k] = s[k]
  BY FrontIs
<1>2. /\ \A k \in 1..(Len(s) - 1) : k \in 1..Len(s) /\ k # Len(s)
      /\ \A k \in 1..Len(s) : k # Len(s) => k \in 1..(Len(s) - 1)
      /\ Len(s) \in 1..Len(s)
  BY <1>1
<1> QED  BY <1>1, <1>2 DEF On

\* A chain does not care about the parents of other slots.
LEMMA ChainKept ==
  ASSUME NEW par, NEW par2, NEW s, Chain(par, s), NEW i, ~On(s, i),
         \A p \in Pids : p # i => par2[p] = par[p]
  PROVE  Chain(par2, s)
<1>1. s \in Seq(Pids) /\ Len(s) \in Nat \ {0}
  BY ChainShort DEF Chain
<1>2. \A k \in 1..Len(s) : s[k] \in Pids /\ s[k] # i
  BY <1>1 DEF On
<1>3. 1 \in 1..Len(s) /\ \A k \in 2..Len(s) : k \in 1..Len(s)
  BY <1>1
<1> QED  BY <1>2, <1>3 DEF Chain

\* A slot that is its own parent is a chain.
LEMMA ChainOne ==
  ASSUME NEW par, NEW i \in Pids, par[i] = i
  PROVE  Chain(par, <<i>>)
<1>1. <<i>> \in Seq(Pids) /\ <<i>> # <<>> /\ Len(<<i>>) = 1 /\ <<i>>[1] = i
  OBVIOUS
<1>2. /\ \A j, k \in 1..1 : j = k
      /\ 2..1 = {}
  OBVIOUS
<1> QED  BY <1>1, <1>2 DEF Chain

\* A chain and a child of its last slot are a chain.
LEMMA ChainPush ==
  ASSUME NEW par, NEW s, Chain(par, s), NEW i \in Pids, ~On(s, i), par[i] = s[Len(s)]
  PROVE  Chain(par, Append(s, i))
<1> DEFINE q == Append(s, i)
<1>1. s \in Seq(Pids) /\ Len(s) \in Nat \ {0}
  BY ChainShort DEF Chain
<1>2. /\ q \in Seq(Pids) /\ q # <<>> /\ Len(q) = Len(s) + 1 /\ q[Len(s) + 1] = i
      /\ \A k \in 1..Len(s) : q[k] = s[k]
  BY <1>1
<1> HIDE DEF q
<1>3. \A k \in 1..Len(s) : q[k] # i
  BY <1>2 DEF On
<1>4. \A k \in 1..Len(q) : k \in 1..Len(s) \/ k = Len(s) + 1
  BY <1>1, <1>2
<1>5. \A j, k \in 1..Len(q) : q[j] = q[k] => j = k
  BY <1>2, <1>3, <1>4 DEF Chain
<1>6. 1 \in 1..Len(s) /\ par[q[1]] = q[1]
  BY <1>1, <1>2 DEF Chain
<1>7. ASSUME NEW k \in 2..Len(q) PROVE par[q[k]] = q[k - 1]
  <2>1. CASE k = Len(s) + 1
    <3>1. k - 1 = Len(s) /\ Len(s) \in 1..Len(s)
      BY <1>1, <2>1
    <3> QED  BY <1>2, <2>1, <3>1
  <2>2. CASE k # Len(s) + 1
    <3>1. k \in 2..Len(s) /\ k \in 1..Len(s) /\ k - 1 \in 1..Len(s)
      BY <1>1, <1>2, <2>2
    <3> QED  BY <1>2, <3>1 DEF Chain
  <2> QED  BY <2>1, <2>2
<1>8. Chain(par, q)
  BY <1>2, <1>5, <1>6, <1>7 DEF Chain
<1> QED  BY <1>8 DEF q

\* All but the last of a chain are a chain, up to the last one's parent.
LEMMA ChainPop ==
  ASSUME NEW par, NEW s, Chain(par, s), Len(s) > 1
  PROVE  Chain(par, Below(s)) /\ Below(s)[Len(Below(s))] = par[s[Len(s)]]
<1> DEFINE q == Below(s)
<1>1. s \in Seq(Pids) /\ Len(s) \in Nat \ {0}
  BY ChainShort DEF Chain
<1>2. /\ q \in Seq(Pids) /\ Len(q) = Len(s) - 1
      /\ \A k \in 1..Len(q) : q[k] = s[k]
  BY <1>1, FrontIs
<1> HIDE DEF q
<1>3. /\ q # <<>> /\ 1 \in 1..Len(q) /\ \A k \in 1..Len(q) : k \in 1..Len(s)
      /\ \A k \in 2..Len(q) : k \in 2..Len(s) /\ k \in 1..Len(q) /\ k - 1 \in 1..Len(q)
      /\ Len(q) \in 1..Len(q) /\ Len(s) \in 2..Len(s)
  BY <1>1, <1>2
<1>4. Chain(par, q)
  BY <1>2, <1>3 DEF Chain
<1>5. q[Len(q)] = par[s[Len(s)]]
  BY <1>2, <1>3 DEF Chain
<1> QED  BY <1>4, <1>5 DEF q

\* The root of a chain is the only slot that is its own parent.
LEMMA ChainRoot ==
  ASSUME NEW par, NEW s, Chain(par, s)
  PROVE  par[s[Len(s)]] = s[Len(s)] <=> Len(s) = 1
<1>1. s \in Seq(Pids) /\ Len(s) \in Nat \ {0}
  BY ChainShort DEF Chain
<1>2. CASE Len(s) = 1
  BY <1>2 DEF Chain
<1>3. CASE Len(s) # 1
  <2>1. Len(s) \in 2..Len(s) /\ Len(s) - 1 \in 1..Len(s) /\ Len(s) \in 1..Len(s) /\ Len(s) - 1 # Len(s)
    <3>1. ASSUME NEW n \in Nat \ {0}, n # 1
          PROVE  n \in 2..n /\ n - 1 \in 1..n /\ n \in 1..n /\ n - 1 # n
      BY <3>1
    <3> QED  BY <1>1, <1>3, <3>1, Zenon
  <2> QED  BY <1>3, <2>1 DEF Chain
<1> QED  BY <1>2, <1>3

\* st2 is st with s on terminal t.
Puts(st, st2, t, s) == st2 = [st EXCEPT ![t] = s]

\* A root shell i takes the place of what is on terminal t.
LEMMA StackStart ==
  ASSUME NEW st, NEW par, NEW procs, NEW tops, Stacked(st, par, procs, tops),
         NEW base, NEW t \in Ttys, NEW i \in Pids,
         \A p \in Pids : base[p] = 1 <=> \E u \in Ttys : u # t /\ On(st[u], p),
         base[i] # 1,
         NEW par2, Differs(par, par2, Pids, i, i),
         NEW procs2, Differs(base, procs2, Pids, i, 1),
         NEW tops2, Differs(tops, tops2, Ttys, t, i), TTY_UNOPENED \notin Pids,
         NEW st2, Puts(st, st2, t, <<i>>)
  PROVE  Stacked(st2, par2, procs2, tops2)
<1>1. st \in Stacks /\ <<i>> \in Seq(Pids) /\ Len(<<i>>) = 1 /\ <<i>>[1] = i
  BY DEF Stacked
<1>2. /\ st2 \in Stacks /\ st2[t] = <<i>>
      /\ \A u \in Ttys : u # t => st2[u] = st[u]
  BY <1>1 DEF Puts, Stacks
<1>3. \A u \in Ttys : u # t => ~On(st[u], i)
  OBVIOUS
<1>4. par2[i] = i /\ \A p \in Pids : p # i => par2[p] = par[p]
  BY DEF Differs
<1>5. tops2[t] = i /\ \A u \in Ttys : u # t => tops2[u] = tops[u]
  BY DEF Differs
<1>6. procs2[i] = 1 /\ \A p \in Pids : p # i => procs2[p] = base[p]
  BY DEF Differs
<1>7. ASSUME NEW u \in Ttys, tops2[u] = TTY_UNOPENED PROVE st2[u] = <<>>
  BY <1>2, <1>5, <1>7 DEF Stacked
<1>8. ASSUME NEW u \in Ttys, tops2[u] # TTY_UNOPENED
      PROVE  Chain(par2, st2[u]) /\ tops2[u] = st2[u][Len(st2[u])]
  <2>1. CASE u = t
    <3>1. Chain(par2, <<i>>)
      BY <1>4, ChainOne
    <3> QED  BY <1>1, <1>2, <1>5, <2>1, <3>1
  <2>2. CASE u # t
    <3>1. Chain(par, st[u]) /\ tops[u] = st[u][Len(st[u])]
      BY <1>5, <1>8, <2>2 DEF Stacked
    <3>2. Chain(par2, st[u])
      BY <1>3, <1>4, <2>2, <3>1, ChainKept
    <3> QED  BY <1>2, <1>5, <2>2, <3>1, <3>2
  <2> QED  BY <2>1, <2>2
<1>9. ASSUME NEW u \in Ttys, NEW p \in Pids
      PROVE  On(st2[u], p) <=> IF u = t THEN p = i ELSE On(st[u], p)
  BY <1>2, OnOne
<1>10. ASSUME NEW u \in Ttys, NEW v \in Ttys, NEW p \in Pids, On(st2[u], p), On(st2[v], p)
       PROVE  u = v
  BY <1>3, <1>9, <1>10 DEF Stacked
<1>11. ASSUME NEW p \in Pids PROVE procs2[p] = 1 <=> \E u \in Ttys : On(st2[u], p)
  BY <1>6, <1>9
<1> QED  BY <1>2, <1>7, <1>8, <1>10, <1>11 DEF Stacked

\* The top of terminal t runs i.
LEMMA StackPush ==
  ASSUME NEW st, NEW par, NEW procs, NEW tops, Stacked(st, par, procs, tops),
         NEW t \in Ttys, NEW i \in Pids, procs[i] # 1, tops[t] # TTY_UNOPENED,
         NEW par2, Differs(par, par2, Pids, i, tops[t]),
         NEW procs2, Differs(procs, procs2, Pids, i, 1),
         NEW tops2, Differs(tops, tops2, Ttys, t, i), TTY_UNOPENED \notin Pids,
         NEW st2, Puts(st, st2, t, Append(st[t], i))
  PROVE  Stacked(st2, par2, procs2, tops2)
<1> DEFINE q == Append(st[t], i)
<1>1. /\ st \in Stacks /\ st[t] \in Seq(Pids)
      /\ Chain(par, st[t]) /\ tops[t] = st[t][Len(st[t])]
  BY DEF Stacked, Stacks
<1>2. q \in Seq(Pids) /\ q[Len(q)] = i
  BY <1>1
<1>3. /\ st2 \in Stacks /\ st2[t] = q
      /\ \A u \in Ttys : u # t => st2[u] = st[u]
  <2> HIDE DEF q
  <2>1. Puts(st, st2, t, q)
    BY DEF q
  <2> QED  BY <1>1, <1>2, <2>1 DEF Puts, Stacks
<1>4. \A u \in Ttys : ~On(st[u], i)
  BY DEF Stacked
<1>5. par2[i] = tops[t] /\ \A p \in Pids : p # i => par2[p] = par[p]
  BY DEF Differs
<1>6. tops2[t] = i /\ \A u \in Ttys : u # t => tops2[u] = tops[u]
  BY DEF Differs
<1>7. procs2[i] = 1 /\ \A p \in Pids : p # i => procs2[p] = procs[p]
  BY DEF Differs
<1>8. Chain(par2, st[t])
  BY <1>1, <1>4, <1>5, ChainKept
<1>9. Chain(par2, q)
  BY <1>1, <1>4, <1>5, <1>8, ChainPush
<1>10. \A p \in Pids : On(q, p) <=> On(st[t], p) \/ p = i
  BY <1>1, OnAppend
<1> HIDE DEF q
<1>11. ASSUME NEW u \in Ttys, tops2[u] = TTY_UNOPENED PROVE st2[u] = <<>>
  BY <1>3, <1>6, <1>11 DEF Stacked
<1>12. ASSUME NEW u \in Ttys, tops2[u] # TTY_UNOPENED
       PROVE  Chain(par2, st2[u]) /\ tops2[u] = st2[u][Len(st2[u])]
  <2>1. CASE u = t
    BY <1>2, <1>3, <1>6, <1>9, <2>1
  <2>2. CASE u # t
    <3>1. Chain(par, st[u]) /\ tops[u] = st[u][Len(st[u])]
      BY <1>6, <1>12, <2>2 DEF Stacked
    <3>2. Chain(par2, st[u])
      BY <1>4, <1>5, <3>1, ChainKept
    <3> QED  BY <1>3, <1>6, <2>2, <3>1, <3>2
  <2> QED  BY <2>1, <2>2
<1>13. ASSUME NEW u \in Ttys, NEW p \in Pids
       PROVE  On(st2[u], p) <=> On(st[u], p) \/ (u = t /\ p = i)
  BY <1>3, <1>10
<1>14. ASSUME NEW u \in Ttys, NEW v \in Ttys, NEW p \in Pids, On(st2[u], p), On(st2[v], p)
       PROVE  u = v
  BY <1>4, <1>13, <1>14 DEF Stacked
<1>15. ASSUME NEW p \in Pids PROVE procs2[p] = 1 <=> \E u \in Ttys : On(st2[u], p)
  BY <1>7, <1>13 DEF Stacked
<1> QED  BY <1>3, <1>11, <1>12, <1>14, <1>15 DEF Stacked

\* The top of terminal t, no root shell, returns to the program that ran it.
LEMMA StackPop ==
  ASSUME NEW st, NEW par, NEW procs, NEW tops, Stacked(st, par, procs, tops),
         NEW t \in Ttys, tops[t] # TTY_UNOPENED, par[tops[t]] # tops[t],
         NEW procs2, Differs(procs, procs2, Pids, tops[t], 0),
         NEW tops2, Differs(tops, tops2, Ttys, t, par[tops[t]]), TTY_UNOPENED \notin Pids,
         NEW st2, Puts(st, st2, t, Below(st[t]))
  PROVE  Stacked(st2, par, procs2, tops2) /\ Len(st[t]) > 1
<1> DEFINE q == Below(st[t])
           c == tops[t]
<1>1. /\ st \in Stacks /\ st[t] \in Seq(Pids)
      /\ Chain(par, st[t]) /\ c = st[t][Len(st[t])]
  BY DEF Stacked, Stacks
<1>2. Len(st[t]) > 1
  <2>1. Len(st[t]) # 1
    BY <1>1, ChainRoot, Zenon
  <2>2. Len(st[t]) \in Nat \ {0}
    BY <1>1, ChainShort, Zenon
  <2>3. ASSUME NEW n \in Nat \ {0}, n # 1 PROVE n > 1
    BY <2>3
  <2> QED  BY <2>1, <2>2, <2>3, Zenon
<1>3. /\ q \in Seq(Pids) /\ Chain(par, q) /\ q[Len(q)] = par[c]
  <2>1. q \in Seq(Pids)
    BY <1>1, <1>2, FrontIs, Zenon
  <2>2. Chain(par, q) /\ q[Len(q)] = par[st[t][Len(st[t])]]
    BY <1>1, <1>2, ChainPop, Zenon
  <2> HIDE DEF q
  <2> QED  BY <1>1, <2>1, <2>2
<1>4. c \in Pids /\ On(st[t], c)
  <2>1. Len(st[t]) \in 1..Len(st[t])
    BY <1>1, ChainShort
  <2> QED  BY <1>1, <2>1 DEF On
<1>5. \A p \in Pids : On(q, p) <=> On(st[t], p) /\ p # c
  BY <1>1, <1>2, OnFront DEF Chain
<1>6. q[Len(q)] \in Pids
  <2>1. Len(q) \in 1..Len(q)
    BY <1>3, ChainShort
  <2> HIDE DEF q
  <2> QED  BY <1>3, <2>1
<1>7. /\ st2 \in Stacks /\ st2[t] = q
      /\ \A u \in Ttys : u # t => st2[u] = st[u]
  <2> HIDE DEF q
  <2>1. Puts(st, st2, t, q)
    BY DEF q
  <2> QED  BY <1>1, <1>3, <2>1 DEF Puts, Stacks
<1>8. tops2[t] = par[c] /\ \A u \in Ttys : u # t => tops2[u] = tops[u]
  BY DEF Differs
<1>9. procs2[c] # 1 /\ \A p \in Pids : p # c => procs2[p] = procs[p]
  BY <1>4 DEF Differs
<1> HIDE DEF q
<1>10. ASSUME NEW u \in Ttys, tops2[u] = TTY_UNOPENED PROVE st2[u] = <<>>
  BY <1>3, <1>6, <1>7, <1>8, <1>10 DEF Stacked
<1>11. ASSUME NEW u \in Ttys, tops2[u] # TTY_UNOPENED
       PROVE  Chain(par, st2[u]) /\ tops2[u] = st2[u][Len(st2[u])]
  BY <1>3, <1>7, <1>8, <1>11 DEF Stacked
<1> HIDE DEF c
<1>12. ASSUME NEW u \in Ttys, NEW p \in Pids
       PROVE  On(st2[u], p) <=> On(st[u], p) /\ p # c
  BY <1>4, <1>5, <1>7 DEF Stacked
<1>13. ASSUME NEW u \in Ttys, NEW v \in Ttys, NEW p \in Pids, On(st2[u], p), On(st2[v], p)
       PROVE  u = v
  BY <1>12, <1>13 DEF Stacked
<1>14. ASSUME NEW p \in Pids PROVE procs2[p] = 1 <=> \E u \in Ttys : On(st2[u], p)
  BY <1>9, <1>12 DEF Stacked
<1> QED  BY <1>2, <1>7, <1>10, <1>11, <1>13, <1>14 DEF Stacked

\* The mapping computes the stacks.
LEMMA StackedIs ==
  ASSUME NEW st, NEW par, NEW procs, NEW tops, Stacked(st, par, procs, tops)
  PROVE  [t \in Ttys |-> IF tops[t] # TTY_UNOPENED THEN Ancestry(par, tops[t]) ELSE <<>>] = st
<1>1. st \in Stacks
  BY DEF Stacked
<1>2. \A t \in Ttys : st[t] = IF tops[t] # TTY_UNOPENED THEN Ancestry(par, tops[t]) ELSE <<>>
  BY ChainIs DEF Stacked
<1> QED  BY <1>1, <1>2 DEF Stacks

-----------------------------------------------------------------------------
(***************************************************************************)
(* Every step is a step of TtySessions or changes no stack. Sessions alone *)
(* allows a ring of processes beside a terminal's chain; StackInv does not.*)
(***************************************************************************)
StackInv ==
  Booted /\ ~switchFailed => \E st : Stacked(st, parent, processes, tty_top_pid)

\* The set of a stack is what is on it.
LEMMA OnSet ==
  ASSUME NEW s \in Seq(Pids), NEW p
  PROVE  p \in ToSet(s) <=> On(s, p)
<1>1. DOMAIN s = 1..Len(s)
  OBVIOUS
<1> QED  BY <1>1 DEF ToSet, On

\* SessionStack is the stacks of the invariant, in this state and the next.
LEMMA MapIs ==
  ASSUME NEW st, Booted, Stacked(st, parent, processes, tty_top_pid)
  PROVE  SessionStack = st
<1>1. [t \in Ttys |-> IF tty_top_pid[t] # TTY_UNOPENED
                      THEN Ancestry(parent, tty_top_pid[t]) ELSE <<>>] = st
  BY StackedIs
<1> QED  BY <1>1 DEF SessionStack, Opened

LEMMA MapIsNext ==
  ASSUME NEW st, Booted', Stacked(st, parent', processes', tty_top_pid')
  PROVE  SessionStack' = st
<1>1. [t \in Ttys |-> IF tty_top_pid'[t] # TTY_UNOPENED
                      THEN Ancestry(parent', tty_top_pid'[t]) ELSE <<>>] = st
  BY StackedIs
<1> QED  BY <1>1 DEF SessionStack, Opened

\* The stacks depend on parents, slots and tops only.
LEMMA MapSame ==
  ASSUME UNCHANGED <<parent, processes, tty_top_pid>>, Booted' <=> Booted
  PROVE  SessionStack' = SessionStack
BY DEF SessionStack, Opened

\* The instance's copy of ToSet is ToSet.
LEMMA ToSetSame == \A s : Abstract!ToSet(s) = ToSet(s)
BY DEF Abstract!ToSet, ToSet

\* A slot on no stack is one TtySessions may give out.
LEMMA UnusedIs ==
  ASSUME NEW st \in Stacks, SessionStack = st, NEW p, \A t \in Ttys : ~On(st[t], p)
  PROVE  p \notin Abstract!InUse
<1>1. ASSUME NEW t \in Ttys PROVE p \notin ToSet(SessionStack[t])
  <2>1. st[t] \in Seq(Pids)
    BY DEF Stacks
  <2>2. p \notin ToSet(st[t])
    BY <2>1, OnSet
  <2> QED  BY <2>2
<1>2. Abstract!InUse = UNION {ToSet(SessionStack[t]) : t \in Ttys}
  BY ToSetSame, Zenon DEF Abstract!InUse
<1> HIDE DEF SessionStack
<1>3. \A x \in {ToSet(SessionStack[t]) : t \in Ttys} : p \notin x
  BY <1>1, Zenon
<1> QED  BY <1>2, <1>3, Zenon

\* What a step shows: stacks for the next state, reached as TtySessions says.
Shown == /\ \E st : Stacked(st, parent', processes', tty_top_pid')
         /\ Abstract!Next \/ UNCHANGED Abstract!vars

\* A step that moves no program is a stuttering step.
LEMMA QuietShown ==
  ASSUME StackInv, Booted, ~switchFailed, Booted',
         UNCHANGED <<parent, processes, tty_top_pid, active_tty>>
  PROVE  Shown
<1>1. PICK st : Stacked(st, parent, processes, tty_top_pid)
  BY DEF StackInv
<1>2. Stacked(st, parent', processes', tty_top_pid')
  BY <1>1
<1>3. SessionStack' = SessionStack
  BY MapSame
<1> QED  BY <1>2, <1>3 DEF Shown, Abstract!vars

\* The facts about the running process that the steps below need.
LEMMA ActiveIs ==
  ASSUME Inv, Booted, ~switchFailed, NEW st, Stacked(st, parent, processes, tty_top_pid)
  PROVE  /\ active_tty \in Ttys /\ cpu \in Pids /\ TTY_UNOPENED \notin Pids
         /\ cpu = tty_top_pid[active_tty] /\ tty_top_pid[active_tty] # TTY_UNOPENED
         /\ next_one_is_root_shell = 0 /\ tty[cpu] = active_tty /\ processes[cpu] = 1
         /\ st \in Stacks /\ st[active_tty] \in Seq(Pids) /\ st[active_tty] # <<>>
         /\ Chain(parent, st[active_tty]) /\ cpu = st[active_tty][Len(st[active_tty])]
         /\ SessionStack = st /\ 0 \in Pids /\ processes[0] = 1
<1>1. TypeOK /\ Sessions /\ FirstShellStays
  BY DEF Inv
<1>2. TopsAreLeaves /\ OthersWait /\ OneBranch /\ ActiveRuns
  BY <1>1 DEF Sessions
<1>3. active_tty \in Ttys /\ cpu \in Pids /\ TTY_UNOPENED \notin Pids /\ 0 \in Pids
  BY <1>1, Types
<1>4. cpu = tty_top_pid[active_tty] /\ next_one_is_root_shell = 0
  BY <1>2 DEF ActiveRuns
<1>5. tty_top_pid[active_tty] # TTY_UNOPENED
  BY <1>3, <1>4
<1>6. tty[cpu] = active_tty /\ processes[cpu] = 1
  BY <1>2, <1>3, <1>4, <1>5 DEF TopsAreLeaves, Opened, Live
<1>7. /\ st \in Stacks
      /\ Chain(parent, st[active_tty]) /\ cpu = st[active_tty][Len(st[active_tty])]
  BY <1>3, <1>4, <1>5 DEF Stacked
<1>8. st[active_tty] \in Seq(Pids) /\ st[active_tty] # <<>>
  BY <1>7 DEF Chain
<1>9. SessionStack = st
  BY MapIs
<1>10. processes[0] = 1
  BY <1>1 DEF FirstShellStays, Live
<1> QED  BY <1>3, <1>4, <1>5, <1>6, <1>7, <1>8, <1>9, <1>10

\* execute runs a program on top of the caller's stack.
LEMMA ExecuteShown ==
  ASSUME Inv, StackInv, SysExecute, Booted, ~switchFailed
  PROVE  Shown
<1> DEFINE root == next_one_is_root_shell = 1
           places == [at EXCEPT ![cpu] = "exec"]
           t == active_tty
<1>1. PICK st : Stacked(st, parent, processes, tty_top_pid)
  BY DEF StackInv
<1>2. /\ t \in Ttys /\ cpu \in Pids /\ TTY_UNOPENED \notin Pids
      /\ cpu = tty_top_pid[t] /\ tty_top_pid[t] # TTY_UNOPENED
      /\ next_one_is_root_shell = 0 /\ processes[0] = 1
      /\ st \in Stacks /\ st[t] \in Seq(Pids) /\ st[t] # <<>> /\ SessionStack = st
  BY <1>1, ActiveIs
<1>3. PICK i \in Pids : Runs(i, processes, t, ParentOf(i, root), places)
  <2>1. TypeOK /\ processes \in [Pids -> {0, 1}] /\ root \in BOOLEAN
        /\ places \in [Pids -> Places]
    BY DEF Inv, TypeOK, PcbsOK, Places
  <2>2. Execute(processes, t, root, places)
    BY DEF SysExecute
  <2> HIDE DEF root, places
  <2> QED  BY <1>2, <2>1, <2>2, ExecuteEffect
<1>4. ParentOf(i, root) = cpu /\ processes[i] = 0
  BY <1>2, <1>3 DEF ParentOf, Runs
<1>5. /\ Differs(parent, parent', Pids, i, tty_top_pid[t])
      /\ Differs(processes, processes', Pids, i, 1)
      /\ Differs(tty_top_pid, tty_top_pid', Ttys, t, i)
  BY <1>2, <1>3, <1>4 DEF Runs, Differs
<1> DEFINE st2 == [st EXCEPT ![t] = Append(st[t], i)]
<1>6. Puts(st, st2, t, Append(st[t], i))
  BY DEF Puts
<1>7. processes[i] # 1
  BY <1>4
<1> HIDE DEF st2
<1>8. Stacked(st2, parent', processes', tty_top_pid')
  BY <1>1, <1>2, <1>5, <1>6, <1>7, StackPush
<1>9. Booted' /\ active_tty' = active_tty
  BY DEF SysExecute, Booted
<1>10. SessionStack' = st2
  BY <1>8, <1>9, MapIsNext
<1>11. i \in Pids \ Abstract!InUse
  <2>1. \A u \in Ttys : ~On(st[u], i)
    BY <1>1, <1>7 DEF Stacked
  <2> QED  BY <1>2, <2>1, UnusedIs
<1>12. SessionStack' = [SessionStack EXCEPT ![active_tty] = Append(SessionStack[active_tty], i)]
  BY <1>2, <1>10 DEF st2
<1>13. Abstract!Run
  BY <1>2, <1>9, <1>11, <1>12 DEF Abstract!Run
<1> QED  BY <1>8, <1>13 DEF Shown, Abstract!Next

\* halt of a root shell puts another in its place.
LEMMA HaltRootShown ==
  ASSUME Inv, StackInv, HaltRoot, Booted, ~switchFailed
  PROVE  Shown
<1> DEFINE base == [processes EXCEPT ![cpu] = 0]
           places == [at EXCEPT ![cpu] = "dead"]
           t == active_tty
<1>1. PICK st : Stacked(st, parent, processes, tty_top_pid)
  BY DEF StackInv
<1>2. /\ t \in Ttys /\ cpu \in Pids /\ TTY_UNOPENED \notin Pids
      /\ cpu = tty_top_pid[t] /\ tty_top_pid[t] # TTY_UNOPENED
      /\ st \in Stacks /\ st[t] \in Seq(Pids) /\ SessionStack = st
      /\ Chain(parent, st[t]) /\ cpu = st[t][Len(st[t])]
  BY <1>1, ActiveIs
<1>3. PICK i \in Pids : Runs(i, base, t, i, places)
  <2>1. TypeOK /\ base \in [Pids -> {0, 1}] /\ places \in [Pids -> Places]
    BY DEF Inv, TypeOK, PcbsOK, Places
  <2>2. Execute(base, t, TRUE, places)
    BY DEF HaltRoot
  <2> HIDE DEF base, places
  <2>3. PICK i \in Pids : Runs(i, base, t, ParentOf(i, TRUE), places)
    BY <1>2, <2>1, <2>2, ExecuteEffect
  <2>4. ParentOf(i, TRUE) = i
    BY DEF ParentOf
  <2> QED  BY <2>3, <2>4
<1>4. Len(st[t]) = 1
  BY <1>2, ChainRoot DEF HaltRoot
<1>5. \A p \in Pids : base[p] = IF p = cpu THEN 0 ELSE processes[p]
  BY DEF Inv, TypeOK, PcbsOK
<1>6. \A p : On(st[t], p) <=> p = cpu
  <2>1. ASSUME NEW k \in 1..1 PROVE k = 1
    OBVIOUS
  <2>2. 1 \in 1..1
    OBVIOUS
  <2> QED  BY <1>2, <1>4, <2>1, <2>2 DEF On
<1>7. ASSUME NEW p \in Pids
      PROVE  base[p] = 1 <=> \E u \in Ttys : u # t /\ On(st[u], p)
  <2>1. CASE p = cpu
    BY <1>1, <1>2, <1>5, <1>6, <2>1 DEF Stacked
  <2>2. CASE p # cpu
    <3>1. base[p] = processes[p] /\ ~On(st[t], p)
      BY <1>5, <1>6, <2>2
    <3> HIDE DEF base
    <3> QED  BY <1>1, <3>1 DEF Stacked
  <2> QED  BY <2>1, <2>2
<1>8. base[i] # 1
  BY <1>3 DEF Runs
<1> HIDE DEF base, places
<1>9. /\ Differs(parent, parent', Pids, i, i)
      /\ Differs(base, processes', Pids, i, 1)
      /\ Differs(tty_top_pid, tty_top_pid', Ttys, t, i)
  BY <1>3 DEF Runs, Differs
<1> DEFINE st2 == [st EXCEPT ![t] = <<i>>]
<1>10. Puts(st, st2, t, <<i>>)
  BY DEF Puts
<1> HIDE DEF st2
<1>11. Stacked(st2, parent', processes', tty_top_pid')
  BY <1>1, <1>2, <1>7, <1>8, <1>9, <1>10, StackStart
<1>12. Booted' /\ active_tty' = active_tty
  BY DEF HaltRoot, Booted
<1>13. SessionStack' = st2
  BY <1>11, <1>12, MapIsNext
<1>14. i \in (Pids \ Abstract!InUse) \cup ToSet(SessionStack[active_tty])
  <2>1. CASE i = cpu
    BY <1>2, <1>6, <2>1, OnSet
  <2>2. CASE i # cpu
    <3>1. \A u \in Ttys : ~On(st[u], i)
      BY <1>6, <1>7, <1>8, <2>2
    <3> QED  BY <1>2, <3>1, UnusedIs
  <2> QED  BY <2>1, <2>2
<1>15. SessionStack' = [SessionStack EXCEPT ![active_tty] = <<i>>]
  BY <1>2, <1>13 DEF st2
<1>16. Abstract!Respawn
  BY <1>2, <1>4, <1>12, <1>14, <1>15, ToSetSame DEF Abstract!Respawn
<1> QED  BY <1>11, <1>16 DEF Shown, Abstract!Next

\* halt of any other program takes it off its terminal's stack.
LEMMA HaltChildShown ==
  ASSUME Inv, StackInv, HaltChild, Booted, ~switchFailed
  PROVE  Shown
<1> DEFINE t == active_tty
<1>1. PICK st : Stacked(st, parent, processes, tty_top_pid)
  BY DEF StackInv
<1>2. /\ t \in Ttys /\ cpu \in Pids /\ TTY_UNOPENED \notin Pids
      /\ cpu = tty_top_pid[t] /\ tty_top_pid[t] # TTY_UNOPENED /\ tty[cpu] = t
      /\ st \in Stacks /\ SessionStack = st /\ processes[cpu] = 1
  BY <1>1, ActiveIs
<1>3. /\ parent[cpu] \in Pids /\ parent[cpu] # cpu /\ processes[parent[cpu]] = 1
      /\ processes \in [Pids -> {0, 1}] /\ tty_top_pid \in [Ttys -> Pids \cup {TTY_UNOPENED}]
  <2>1. TypeOK /\ OthersWait
    BY DEF Inv, Sessions
  <2>2. parent[cpu] \in Pids
    BY <1>2, <2>1, Types
  <2>3. processes[parent[cpu]] = 1
    BY <1>2, <2>1 DEF OthersWait, Live
  <2> QED  BY <2>1, <2>2, <2>3 DEF HaltChild, TypeOK, PcbsOK
<1>4. /\ Differs(processes, processes', Pids, tty_top_pid[t], 0)
      /\ Differs(tty_top_pid, tty_top_pid', Ttys, t, parent[tty_top_pid[t]])
      /\ parent' = parent
  BY <1>2, <1>3 DEF HaltChild, pcbVars, Differs
<1> DEFINE st2 == [st EXCEPT ![t] = Below(st[t])]
<1>5. Puts(st, st2, t, Below(st[t]))
  BY DEF Puts
<1>6. parent[tty_top_pid[t]] # tty_top_pid[t]
  BY <1>2, <1>3
<1> HIDE DEF st2
<1>7. Stacked(st2, parent', processes', tty_top_pid') /\ Len(st[t]) > 1
  <2>1. Stacked(st2, parent, processes', tty_top_pid') /\ Len(st[t]) > 1
    BY <1>1, <1>2, <1>4, <1>5, <1>6, StackPop
  <2> QED  BY <1>4, <2>1
<1>8. Booted' /\ active_tty' = active_tty
  BY DEF HaltChild, Booted
<1>9. SessionStack' = st2
  BY <1>7, <1>8, MapIsNext
<1>10. SessionStack' = [SessionStack EXCEPT ![active_tty] =
                         SubSeq(SessionStack[active_tty], 1, Len(SessionStack[active_tty]) - 1)]
  BY <1>2, <1>9 DEF st2, Below
<1>11. Abstract!Return
  BY <1>2, <1>7, <1>8, <1>10 DEF Abstract!Return
<1> QED  BY <1>7, <1>11 DEF Shown, Abstract!Next

\* The first visit to a terminal starts its stack.
LEMMA OpenTtyShown ==
  ASSUME Inv, StackInv, NEW t \in Ttys, OpenTty(t), active_tty' = t, UNCHANGED boot,
         Booted, ~switchFailed, ~switchFailed'
  PROVE  Shown
<1>1. PICK st : Stacked(st, parent, processes, tty_top_pid)
  BY DEF StackInv
<1>2. st \in Stacks /\ SessionStack = st /\ TTY_UNOPENED \notin Pids
  BY <1>1, ActiveIs
<1>3. PICK i \in Pids : Runs(i, processes, t, i, at)
  <2>1. TypeOK /\ processes \in [Pids -> {0, 1}] /\ at \in [Pids -> Places]
    BY DEF Inv, TypeOK, PcbsOK
  <2>2. Execute(processes, t, TRUE, at)
    BY DEF OpenTty
  <2>3. PICK i \in Pids : Runs(i, processes, t, ParentOf(i, TRUE), at)
    BY <2>1, <2>2, ExecuteEffect
  <2>4. ParentOf(i, TRUE) = i
    BY DEF ParentOf
  <2> QED  BY <2>3, <2>4
<1>4. st[t] = <<>>
  BY <1>1 DEF Stacked, OpenTty
<1>5. \A p \in Pids : processes[p] = 1 <=> \E u \in Ttys : u # t /\ On(st[u], p)
  BY <1>1, <1>4, OnNone DEF Stacked
<1>6. processes[i] # 1
  BY <1>3 DEF Runs
<1>7. /\ Differs(parent, parent', Pids, i, i)
      /\ Differs(processes, processes', Pids, i, 1)
      /\ Differs(tty_top_pid, tty_top_pid', Ttys, t, i)
  BY <1>3 DEF Runs, Differs
<1> DEFINE st2 == [st EXCEPT ![t] = <<i>>]
<1>8. Puts(st, st2, t, <<i>>)
  BY DEF Puts
<1> HIDE DEF st2
<1>9. Stacked(st2, parent', processes', tty_top_pid')
  BY <1>1, <1>2, <1>5, <1>6, <1>7, <1>8, StackStart
<1>10. Booted'
  BY DEF Booted
<1>11. SessionStack' = st2
  BY <1>9, <1>10, MapIsNext
<1>12. i \in Pids \ Abstract!InUse
  <2>1. \A u \in Ttys : ~On(st[u], i)
    BY <1>1, <1>6 DEF Stacked
  <2> QED  BY <1>2, <2>1, UnusedIs
<1>13. SessionStack' = [SessionStack EXCEPT ![t] = <<i>>]
  BY <1>2, <1>11 DEF st2
<1>14. Abstract!Open(t)
  BY <1>2, <1>4, <1>12, <1>13 DEF Abstract!Open
<1> QED  BY <1>9, <1>14 DEF Shown, Abstract!Next

\* A later visit shows the stack that is there.
LEMMA ShowTtyShown ==
  ASSUME Inv, StackInv, NEW t \in Ttys, ShowTty(t), active_tty' = t, UNCHANGED boot,
         Booted, ~switchFailed
  PROVE  Shown
<1>1. PICK st : Stacked(st, parent, processes, tty_top_pid)
  BY DEF StackInv
<1>2. SessionStack = st
  BY <1>1, ActiveIs
<1>3. UNCHANGED <<parent, processes, tty_top_pid>> /\ (Booted' <=> Booted)
  BY DEF ShowTty, pcbVars, Booted
<1>4. Stacked(st, parent', processes', tty_top_pid')
  BY <1>1, <1>3
<1>5. SessionStack' = SessionStack
  BY <1>3, MapSame
<1>6. SessionStack[t] # <<>>
  BY <1>1, <1>2 DEF ShowTty, Stacked, Chain
<1>7. Abstract!Show(t)
  BY <1>5, <1>6 DEF Abstract!Show
<1> QED  BY <1>4, <1>7 DEF Shown, Abstract!Next

\* Before the first shell runs, no terminal has a program.
LEMMA BootingEmpty ==
  ASSUME ~Booted
  PROVE  SessionStack = [t \in Ttys |-> <<>>]
BY DEF SessionStack

\* The end of entry() starts the first stack.
LEMMA BootShellShown ==
  ASSUME Inv, BootShell
  PROVE  Shown
<1> DEFINE st == [t \in Ttys |-> <<>>]
           t == active_tty
<1>1. /\ boot = MAX_TTY /\ ~Booted /\ Booted' /\ active_tty' = active_tty
      /\ \A u \in Ttys : u < boot
  BY ProcessesAssumption DEF BootShell, Booted, Inv, TypeOK, MachineOK, ProcessesAssumption, Ttys
<1>2. /\ processes = [p \in Pids |-> 0] /\ t \in Ttys /\ TTY_UNOPENED \notin Pids
      /\ \A u \in Ttys : tty_top_pid[u] = TTY_UNOPENED
  <2>1. TypeOK /\ Booting
    BY DEF Inv
  <2> QED  BY <1>1, <2>1, Types DEF Booting
<1>3. PICK i \in Pids : Runs(i, processes, t, i, at)
  <2>1. TypeOK /\ processes \in [Pids -> {0, 1}] /\ at \in [Pids -> Places]
    BY DEF Inv, TypeOK, PcbsOK
  <2>2. Execute(processes, t, TRUE, at)
    BY DEF BootShell
  <2>3. PICK i \in Pids : Runs(i, processes, t, ParentOf(i, TRUE), at)
    BY <1>2, <2>1, <2>2, ExecuteEffect
  <2>4. ParentOf(i, TRUE) = i
    BY DEF ParentOf
  <2> QED  BY <2>3, <2>4
<1>4. st \in Stacks /\ \A u \in Ttys : st[u] = <<>>
  BY DEF Stacks
<1> HIDE DEF st
<1>5. Stacked(st, parent, processes, tty_top_pid)
  BY <1>2, <1>4, OnNone DEF Stacked
<1>6. \A p \in Pids : processes[p] = 1 <=> \E u \in Ttys : u # t /\ On(st[u], p)
  BY <1>2, <1>4, OnNone
<1>7. processes[i] # 1
  BY <1>2
<1>8. /\ Differs(parent, parent', Pids, i, i)
      /\ Differs(processes, processes', Pids, i, 1)
      /\ Differs(tty_top_pid, tty_top_pid', Ttys, t, i)
  BY <1>3 DEF Runs, Differs
<1> DEFINE st2 == [st EXCEPT ![t] = <<i>>]
<1>9. Puts(st, st2, t, <<i>>)
  BY DEF Puts
<1> HIDE DEF st2
<1>10. Stacked(st2, parent', processes', tty_top_pid')
  BY <1>2, <1>5, <1>6, <1>7, <1>8, <1>9, StackStart
<1>11. SessionStack' = st2
  BY <1>1, <1>10, MapIsNext
<1>12. SessionStack = st
  BY <1>1, BootingEmpty DEF st
<1>13. i \in Pids \ Abstract!InUse
  BY <1>4, <1>12, OnNone, UnusedIs
<1>14. SessionStack' = [SessionStack EXCEPT ![t] = <<i>>]
  BY <1>11, <1>12 DEF st2
<1>15. Abstract!Open(t)
  BY <1>1, <1>2, <1>4, <1>12, <1>13, <1>14 DEF Abstract!Open
<1> QED  BY <1>2, <1>10, <1>15 DEF Shown, Abstract!Next

\* Every step keeps the stacks and is one TtySessions allows.
LEMMA StepShown ==
  ASSUME Inv, StackInv, Next, ~switchFailed'
  PROVE  StackInv' /\ (Abstract!Next \/ UNCHANGED Abstract!vars)
<1>1. ASSUME Shown PROVE StackInv' /\ (Abstract!Next \/ UNCHANGED Abstract!vars)
  BY <1>1 DEF Shown, StackInv
<1>2. CASE BootShell
  BY <1>1, <1>2, BootShellShown
<1>3. ASSUME ~Booted, ~Booted', UNCHANGED active_tty
      PROVE  StackInv' /\ (Abstract!Next \/ UNCHANGED Abstract!vars)
  <2>1. SessionStack' = SessionStack
    BY <1>3 DEF SessionStack
  <2>2. StackInv'
    BY <1>3 DEF StackInv
  <2> QED  BY <1>3, <2>1, <2>2 DEF Abstract!vars
<1>4. CASE BootTty
  <2>1. boot \in Nat /\ MAX_TTY \in Nat
    BY ProcessesAssumption DEF Inv, TypeOK, MachineOK, ProcessesAssumption
  <2>2. ~Booted /\ ~Booted' /\ UNCHANGED active_tty
    BY <1>4, <2>1 DEF BootTty, Booted
  <2> QED  BY <1>3, <2>2
<1>5. CASE SysExecuteFails \/ EnterRead \/ LeaveRead \/ Tick
  <2>1. /\ UNCHANGED <<parent, processes, tty_top_pid, active_tty, switchFailed>>
        /\ Booted' <=> Booted
    BY <1>5 DEF SysExecuteFails, EnterRead, LeaveRead, Tick, pcbVars, Booted
  <2>2. CASE Booted
    <3>1. Shown
      BY <2>1, <2>2, QuietShown
    <3> QED  BY <1>1, <3>1
  <2>3. CASE ~Booted
    BY <1>3, <2>1, <2>3
  <2> QED  BY <2>2, <2>3
<1>6. ASSUME at[cpu] = "user" PROVE Booted
  <2>1. Booting /\ cpu \in Pids
    BY DEF Inv, TypeOK, MachineOK
  <2> QED  BY <1>6, <2>1 DEF Booting
<1>7. CASE SysExecute
  <2>1. Booted /\ ~switchFailed
    BY <1>6, <1>7 DEF SysExecute
  <2>2. Shown
    BY <1>7, <2>1, ExecuteShown
  <2> QED  BY <1>1, <2>2
<1>8. CASE Halt
  <2>1. Booted /\ ~switchFailed
    <3>1. at[cpu] = "user" /\ switchFailed' = switchFailed
      BY <1>8 DEF Halt, HaltRoot, HaltChild
    <3> QED  BY <1>6, <3>1
  <2>2. Shown
    BY <1>8, <2>1, HaltRootShown, HaltChildShown DEF Halt
  <2> QED  BY <1>1, <2>2
<1>9. CASE Exception
  BY <1>8, <1>9 DEF Exception
<1>10. ASSUME NEW t \in Ttys, SwitchToTty(t)
       PROVE  StackInv' /\ (Abstract!Next \/ UNCHANGED Abstract!vars)
  <2>1. Booted /\ active_tty' = t /\ UNCHANGED boot /\ (OpenTty(t) \/ ShowTty(t))
    BY <1>10 DEF SwitchToTty
  <2>2. ~switchFailed
    <3>1. switchFailed' = switchFailed \/ switchFailed' = TRUE
      BY <2>1 DEF OpenTty, ShowTty
    <3> QED  BY <3>1
  <2>3. Shown
    BY <2>1, <2>2, OpenTtyShown, ShowTtyShown
  <2> QED  BY <1>1, <2>3
<1> QED  BY <1>2, <1>4, <1>5, <1>7, <1>8, <1>9, <1>10 DEF Next

\* Once a terminal switch has failed there is nothing left to keep.
LEMMA StackNext == Inv /\ StackInv /\ [Next]_vars => StackInv'
<1> SUFFICES ASSUME Inv, StackInv, [Next]_vars PROVE StackInv'
  OBVIOUS
<1>1. CASE switchFailed'
  BY <1>1 DEF StackInv
<1>2. CASE ~switchFailed' /\ Next
  BY <1>2, StepShown
<1>3. CASE UNCHANGED vars
  <2>1. UNCHANGED <<parent, processes, tty_top_pid, switchFailed>> /\ (Booted' <=> Booted)
    BY <1>3 DEF vars, Booted
  <2> QED  BY <2>1 DEF StackInv
<1> QED  BY <1>1, <1>2, <1>3

\* At boot there is nothing to keep.
LEMMA StackInit == Init => StackInv
BY ProcessesAssumption DEF Init, StackInv, Booted, ProcessesAssumption

\* The slots in use are those on the stacks.
LEMMA StackedNotLeaked == Inv /\ StackInv => NoSlotLeaked
<1> SUFFICES ASSUME Inv, StackInv, Booted, ~switchFailed
             PROVE  /\ {p \in Pids : Live(p)} = UNION {ToSet(SessionStack[t]) : t \in Ttys}
                    /\ \A t, u \in Ttys :
                         t # u => ToSet(SessionStack[t]) \cap ToSet(SessionStack[u]) = {}
  BY DEF NoSlotLeaked
<1>1. PICK st : Stacked(st, parent, processes, tty_top_pid)
  BY DEF StackInv
<1>2. st \in Stacks /\ SessionStack = st
  BY <1>1, ActiveIs
<1>3. \A t \in Ttys : SessionStack[t] \in Seq(Pids)
  BY <1>2 DEF Stacks
<1>4. \A t \in Ttys : \A p : p \in ToSet(SessionStack[t]) <=> On(SessionStack[t], p)
  BY <1>3, OnSet
<1>5. \A t \in Ttys : \A p : On(SessionStack[t], p) => p \in Pids
  BY <1>3, OnType
<1>6. \A p \in Pids : Live(p) <=> \E t \in Ttys : On(SessionStack[t], p)
  BY <1>1, <1>2 DEF Stacked, Live
<1>7. \A t, u \in Ttys : \A p \in Pids :
        On(SessionStack[t], p) /\ On(SessionStack[u], p) => t = u
  BY <1>1, <1>2 DEF Stacked
<1> DEFINE slots(t) == ToSet(SessionStack[t])
<1>8. /\ \A t \in Ttys : \A p : p \in slots(t) <=> On(SessionStack[t], p)
  BY <1>4
<1> SUFFICES /\ {p \in Pids : Live(p)} = UNION {slots(t) : t \in Ttys}
             /\ \A t, u \in Ttys : t # u => slots(t) \cap slots(u) = {}
  OBVIOUS
<1> HIDE DEF slots
<1>9. {p \in Pids : Live(p)} = UNION {slots(t) : t \in Ttys}
  <2>1. ASSUME NEW p \in Pids, Live(p) PROVE p \in UNION {slots(t) : t \in Ttys}
    BY <1>6, <1>8, <2>1
  <2>2. ASSUME NEW t \in Ttys, NEW p \in slots(t) PROVE p \in Pids /\ Live(p)
    BY <1>5, <1>6, <1>8, <2>2
  <2> QED  BY <2>1, <2>2
<1>10. \A t, u \in Ttys : t # u => slots(t) \cap slots(u) = {}
  BY <1>5, <1>7, <1>8
<1> QED  BY <1>9, <1>10

\* Every slot in use is one a terminal will come back to, and only one does,
\* for any number of slots and terminals: no order of execute, halt and
\* terminal switches loses a slot (system.c:44-85, 190-240).
THEOREM SlotsNotLeaked == Spec => []NoSlotLeaked
<1>1. Init => StackInv
  BY StackInit
<1>2. Inv /\ StackInv /\ [Next]_vars => StackInv'
  BY StackNext
<1>3. Inv /\ StackInv => NoSlotLeaked
  BY StackedNotLeaked
<1> QED  BY <1>1, <1>2, <1>3, Invariance, PTL DEF Spec

\* The slots, PCB links and terminal tops implement one stack of programs per
\* terminal for any number of slots and terminals: each step of the kernel
\* runs, returns, respawns, opens or shows as TtySessions says, or moves no
\* program, until a terminal switch meets a full process table.
THEOREM SessionsImplemented == Spec => ImplementsTtySessions
<1>1. Init => StackInv
  BY StackInit
<1>2. Inv /\ StackInv /\ [Next]_vars => StackInv'
  BY StackNext
<1>3. Init => Abstract!Init
  <2> SUFFICES ASSUME Init PROVE Abstract!Init
    OBVIOUS
  <2>1. ~Booted /\ active_tty \in Ttys
    BY ProcessesAssumption DEF Init, Booted, ProcessesAssumption, Ttys
  <2> QED  BY <2>1, BootingEmpty DEF Abstract!Init
<1>4. Inv /\ StackInv /\ [Next]_vars => [~switchFailed' => Abstract!Next]_(Abstract!vars)
  <2> SUFFICES ASSUME Inv, StackInv, [Next]_vars, ~switchFailed'
               PROVE  Abstract!Next \/ UNCHANGED Abstract!vars
    OBVIOUS
  <2>1. CASE Next
    BY <2>1, StepShown
  <2>2. CASE UNCHANGED vars
    <3>1. UNCHANGED <<parent, processes, tty_top_pid, active_tty>> /\ (Booted' <=> Booted)
      BY <2>2 DEF vars, Booted
    <3>2. SessionStack' = SessionStack
      BY <3>1, MapSame
    <3> QED  BY <3>1, <3>2 DEF Abstract!vars
  <2> QED  BY <2>1, <2>2
<1> QED  BY <1>1, <1>2, <1>3, <1>4, Invariance, PTL DEF Spec, ImplementsTtySessions

-----------------------------------------------------------------------------
(***************************************************************************)
(* What user mode reaches (Paging), for every number of slots and          *)
(* terminals. The page directory follows the slot the kernel last loaded   *)
(* (DirOK, which only create_page and set_vidmap can disturb), and that    *)
(* slot is the one on the CPU by the invariant of the processes.           *)
(***************************************************************************)
Entries == [to : {"absent", "page", "table"}, base : Int, user : BOOLEAN]

\* The entries of the directory, up to what vidmap has opened; once a page is
\* loaded, the one at 128 MB is that of the slot in page.
DirOK ==
  /\ page_dir \in [DirEntries -> Entries]
  /\ page_dir[0] \in {Table(FALSE), Table(TRUE)}
  /\ page_dir[1] = Page(KERNEL, FALSE)
  /\ page_dir[31] = IF page = NoPage THEN Absent ELSE Table(TRUE)
  /\ page_dir[USER_PROGRAM_PDIR_LOC] =
       IF page = NoPage THEN Absent ELSE Page(KERNEL_BOTTOM + page, TRUE)

\* The page table, which holds nothing but the video memory; what programs that
\* called vidmap were given is there.
TableOK ==
  /\ page_table \in [TableEntries -> {Absent, Page(VIDEO, FALSE), Page(VIDEO, TRUE)}]
  /\ mapped # {} => /\ page_dir[0] = Table(TRUE)
                    /\ page_table[VID_MAP_LOC] = Page(VIDEO, TRUE)

PagedInv == DirOK /\ TableOK

USE DEF KERNEL, KERNEL_BOTTOM, VIDEO, USER_PROGRAM_PDIR_LOC, VID_MAP_LOC,
        DirEntries, TableEntries, Absent, Page, Table

LEMMA PagedInitInv == PagedInit => PagedInv
  BY DEF PagedInit, Init, paging_init, PagedInv, DirOK, TableOK, Entries

\* A program's page is loaded together with its slot.
LEMMA LoadInv ==
  ASSUME PagedInv, page' = cpu', cpu' \in Pids, LoadNew(cpu') \/ LoadAgain(cpu')
  PROVE  PagedInv'
  <1> DEFINE program == Page(2 + cpu', TRUE)
             low == Table(TRUE)
  <1>1. /\ page_dir' = [page_dir EXCEPT ![32] = program, ![31] = low]
        /\ page_table' = page_table
        /\ mapped' \subseteq mapped
    BY DEF LoadNew, LoadAgain, create_page, Ends
  <1>2. /\ page_dir'[0] = page_dir[0] /\ page_dir'[1] = page_dir[1]
        /\ page_dir'[31] = low /\ page_dir'[32] = program
        /\ page_dir' \in [DirEntries -> Entries]
    <2>1. page_dir \in [DirEntries -> Entries]
      BY DEF PagedInv, DirOK
    <2>2. program \in Entries /\ low \in Entries
      <3>1. 2 + cpu' \in Int
        BY ProcessesAssumption DEF ProcessesAssumption, Pids
      <3> QED  BY <3>1 DEF Entries
    <2> HIDE DEF program, low, Entries
    <2> QED
      BY <1>1, <2>1, <2>2
  <1>3. DirOK'
    <2>1. cpu' # NoPage
      BY ProcessesAssumption DEF ProcessesAssumption, Pids, NoPage
    <2> QED
      BY <1>2, <2>1, Zenon DEF PagedInv, DirOK
  <1>4. TableOK'
    <2>1. mapped' # {} => mapped # {}
      BY <1>1
    <2> QED
      BY <1>1, <1>2, <2>1, Zenon DEF PagedInv, TableOK
  <1> QED
    BY <1>3, <1>4 DEF PagedInv

LEMMA NothingInv ==
  ASSUME PagedInv, LoadNothing, page' = page
  PROVE  PagedInv'
  BY DEF PagedInv, DirOK, TableOK, LoadNothing, memory

LEMMA VidmapInv ==
  ASSUME PagedInv, NEW pointer \in Pointers, vidmap(pointer)
  PROVE  PagedInv'
  <1>1. CASE LoadNothing
    BY <1>1, NothingInv DEF vidmap, vars
  <1>2. CASE set_vidmap
    <2>1. page' = page
      BY DEF vidmap, vars
    <2>2. /\ page_dir'[0] = Table(TRUE) /\ page_dir'[1] = page_dir[1]
          /\ page_dir'[31] = page_dir[31] /\ page_dir'[32] = page_dir[32]
          /\ page_dir' \in [DirEntries -> Entries]
      BY <1>2 DEF set_vidmap, PagedInv, DirOK, Entries
    <2>3. DirOK'
      BY <1>2, <2>1, <2>2 DEF set_vidmap, PagedInv, DirOK
    <2>4. TableOK'
      BY <1>2, <2>2 DEF set_vidmap, PagedInv, TableOK
    <2> QED
      BY <2>3, <2>4 DEF PagedInv
  <1> QED
    BY <1>1, <1>2 DEF vidmap

\* A program that is run gets the page, the kernel stack and the CPU.
LEMMA ExecuteLoads ==
  ASSUME NEW procs, NEW t, NEW root, NEW places, Execute(procs, t, root, places)
  PROVE  page' = cpu' /\ cpu' \in Pids
  BY DEF Execute

LEMMA HaltLoads ==
  ASSUME Inv, Halt
  PROVE  page' = cpu' /\ cpu' \in Pids
  <1>1. CASE HaltRoot
    BY <1>1, ExecuteLoads DEF HaltRoot
  <1>2. CASE HaltChild
    BY <1>2 DEF HaltChild, Resume, Inv, TypeOK, PcbsOK, MachineOK
  <1> QED
    BY <1>1, <1>2 DEF Halt

LEMMA SwitchInv ==
  ASSUME Inv, PagedInv, NEW t \in Ttys, PagedSwitch(t)
  PROVE  PagedInv'
  <1>1. CASE Opened(t)
    <2>1. page' = cpu' /\ cpu' \in Pids
      <3>1. tty_top_pid[t] \in Pids
        BY <1>1, Zenon DEF Opened, Inv, TypeOK, PcbsOK
      <3>2. ShowTty(t)
        BY <1>1, Zenon DEF PagedSwitch, SwitchToTty, OpenTty, Opened
      <3> QED
        BY <3>1, <3>2 DEF ShowTty, Resume
    <2> QED
      BY <1>1, <2>1, LoadInv DEF PagedSwitch
  <1>2. CASE ~Opened(t) /\ ~TableFull(processes)
    <2>1. Execute(processes, t, TRUE, at)
      BY <1>2 DEF PagedSwitch, SwitchToTty, OpenTty, ShowTty, Opened
    <2>2. page' = cpu' /\ cpu' \in Pids
      BY <2>1, ExecuteLoads
    <2> QED
      BY <1>2, <2>2, LoadInv DEF PagedSwitch
  <1>3. CASE ~Opened(t) /\ TableFull(processes)
    <2>1. page' = page
      BY <1>3 DEF PagedSwitch, SwitchToTty, OpenTty, ShowTty, Opened, Execute, FirstFree,
                  TableFull, pageVars
    <2> QED
      BY <1>3, <2>1, NothingInv DEF PagedSwitch
  <1> QED
    BY <1>1, <1>2, <1>3 DEF PagedSwitch

LEMMA PagedTickInv ==
  ASSUME Inv, PagedInv, PagedTick
  PROVE  PagedInv'
  <1>1. CASE cpu' = cpu
    <2>1. page' = page
      BY <1>1 DEF PagedTick, Tick, Resume, pageVars
    <2> QED
      BY <1>1, <2>1, NothingInv DEF PagedTick
  <1>2. CASE cpu' # cpu
    <2>1. page' = cpu' /\ cpu' \in Pids
      BY <1>2 DEF PagedTick, Tick, Resume, pageVars
    <2> QED
      BY <1>2, <2>1, LoadInv DEF PagedTick
  <1> QED
    BY <1>1, <1>2

\* Every step keeps the invariant of the pages.
LEMMA PagedNextInv == Inv /\ PagedInv /\ [PagedNext]_pagedVars => PagedInv'
  <1> SUFFICES ASSUME Inv, PagedInv, [PagedNext]_pagedVars PROVE PagedInv'
    OBVIOUS
  <1>1. CASE PagedExecute
    <2>1. page' = cpu' /\ cpu' \in Pids
      BY <1>1, ExecuteLoads DEF PagedExecute, BootShell, SysExecute
    <2> QED
      BY <1>1, <2>1, LoadInv DEF PagedExecute
  <1>2. CASE PagedHalt
    BY <1>2, HaltLoads, LoadInv DEF PagedHalt
  <1>3. CASE \E t \in Ttys : PagedSwitch(t)
    BY <1>3, SwitchInv
  <1>4. CASE PagedTick
    BY <1>4, PagedTickInv
  <1>5. CASE PagedStep
    <2>1. page' = page
      BY <1>5 DEF PagedStep, BootTty, SysExecuteFails, EnterRead, LeaveRead, pageVars
    <2> QED
      BY <1>5, <2>1, NothingInv DEF PagedStep
  <1>6. CASE \E pointer \in Pointers : vidmap(pointer)
    BY <1>6, VidmapInv
  <1>7. CASE UNCHANGED pagedVars
    BY <1>7, NothingInv DEF pagedVars, vars, LoadNothing
  <1> QED
    BY <1>1, <1>2, <1>3, <1>4, <1>5, <1>6, <1>7 DEF PagedNext

\* A step of the kernel with its pages is a step of the processes.
LEMMA PagedStepIsStep == [PagedNext]_pagedVars => [Next]_vars
  BY DEF PagedNext, pagedVars, PagedExecute, PagedHalt, PagedSwitch, PagedTick, PagedStep,
         vidmap, Next

\* So what is proved of the processes holds of them with their pages.
LEMMA PagedImplements == PagedSpec => Spec
  <1>1. PagedInit => Init
    BY DEF PagedInit
  <1> QED
    BY <1>1, PagedStepIsStep, PTL DEF PagedSpec, Spec

\* The pages follow the slot the kernel loaded.
THEOREM PagedInvariance == PagedSpec => [](Inv /\ PagedInv)
  <1> QED
    BY PagedInitInv, PagedNextInv, PagedImplements, Invariance, PTL DEF PagedSpec

\* User mode reaches the page of the program on the CPU and the video memory
\* only, for every number of slots and terminals (paging.c:78-105).
THEOREM UserReachHolds == PagedSpec => []UserReach
  <1>1. Inv /\ PagedInv => UserReach
    <2> SUFFICES ASSUME Inv, PagedInv, Booted, Running
                 PROVE  UserLarge = {2 + cpu} /\ UserSmall \subseteq {184}
      BY DEF UserReach
    <2>1. page = cpu /\ cpu \in Pids
      BY DEF Inv, Contexts, TypeOK, MachineOK
    <2>a. cpu \in Int /\ cpu # NoPage
      BY <2>1, ProcessesAssumption DEF ProcessesAssumption, Pids, NoPage
    <2>2. /\ page_dir[0].to = "table" /\ page_dir[31].to = "table"
          /\ page_dir[1].user = FALSE
          /\ page_dir[32].to = "page" /\ page_dir[32].user /\ page_dir[32].base = 2 + cpu
      BY <2>1, <2>a DEF PagedInv, DirOK
    <2>3. UserLarge = {2 + cpu}
      BY <2>2 DEF UserLarge
    <2>4. UserSmall \subseteq {184}
      BY DEF UserSmall, PagedInv, TableOK
    <2> QED
      BY <2>3, <2>4
  <1> QED
    BY <1>1, PagedInvariance, PTL

\* The address vidmap returned keeps working (paging.c:97-105).
THEOREM VidmapStaysMapped == PagedSpec => []VidmapStays
  <1>1. Inv /\ PagedInv => VidmapStays
    BY DEF PagedInv, TableOK, VidmapStays
  <1> QED
    BY <1>1, PagedInvariance, PTL

=============================================================================
