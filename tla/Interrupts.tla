----------------------------- MODULE Interrupts ------------------------------
(***************************************************************************)
(* The pair of 8259 interrupt controllers (i8259.c), the vectors of the    *)
(* PIT, the keyboard, the RTC and the system calls (idt.c, handlers.S), and *)
(* how their handlers nest on the kernel stacks of the terminals' programs. *)
(*                                                                         *)
(* A handler whose gate turns interrupts off and that leaves them off is   *)
(* one action. The keyboard handler is not such a one: terminal_write ends *)
(* with sti, before the handler sends its EOI. rtc_read runs with          *)
(* interrupts on: an action is one access to the masks. Sets hold the      *)
(* lines whose bit is set in a register; line 2 is the slave's.            *)
(***************************************************************************)
EXTENDS Integers

CONSTANTS
  MaxDepth,        \* bound on the handlers that are on the stack together
  MaxCodes,        \* bound on the scan codes of keys pressed together
  MAX_TTY,         \* terminals, each with the program that has its keyboard
  MaxRaces,        \* bound on terminal switches that interrupt rtc_read
  Numbers          \* the system call numbers programs use

ASSUME InterruptsAssumption ==
  /\ MaxDepth \in Nat \ {0}
  /\ MaxCodes \in Nat
  /\ MAX_TTY \in Nat \ {0}
  /\ MaxRaces \in Nat
  /\ Numbers \subseteq Int

PIT == 0
KB == 1
CASCADE == 2
RTC == 8
SYS == 128
Devices == {PIT, KB, RTC}
Irqs == Devices \cup {CASCADE}
Levels == 1..MaxDepth
Ttys == 0..(MAX_TTY - 1)

VARIABLES
  irr, isr, imr,     \* requests, in service, masked: of both controllers
  cached_irq_mask,   \* what the kernel believes imr to be
  iflag,             \* the CPU's interrupt flag
  depth, frames,     \* what is on the kernel stack of the program that runs
  current,           \* the terminal of that program
  away,              \* what is on the stacks of the other terminals' programs
  boot,              \* steps of entry() that are done
  codes,             \* scan codes in the keyboard controller
  regC,              \* the RTC has raised its line and register C was not read
  ticking,           \* the RTC raises periodic interrupts
  flag,              \* of rtc_read, set by the RTC handler
  races              \* history: switches that interrupted rtc_read

pic == <<irr, isr, imr, cached_irq_mask>>
stack == <<depth, frames>>
programs == <<current, away, races>>
devices == <<codes, regC, ticking>>
vars == <<pic, iflag, stack, programs, boot, devices, flag>>

\* The places of rtc_read: before each access to the masks and to flag.
RtcRead == {"load", "store", "mask", "maskout", "zero", "spin", "enable", "enablestore",
            "unmask", "unmaskout"}

\* A frame: the vector's line, where its code is, whether it has sent its EOI,
\* the interrupt flag it returns to, and the register a mask goes through.
Frame(irq) == [irq |-> irq, pc |-> "entry", eoi |-> FALSE, saved |-> iflag, reg |-> {}]
Pcs == {"none", "entry", "done", "iret", "cli", "rate", "finish"} \cup RtcRead
Frames == [irq : Devices \cup {SYS}, pc : Pcs, eoi : BOOLEAN, saved : {0, 1}, reg : SUBSET Irqs]
NoFrame == [irq |-> SYS, pc |-> "none", eoi |-> TRUE, saved |-> 1, reg |-> {}]
NoStack == [depth |-> 0, frames |-> [k \in Levels |-> NoFrame]]

\* The lines entry() enables, in this order, each in two steps of boot.
Enabled(i) == CASE i = 1 -> KB [] i = 2 -> CASCADE [] i = 3 -> RTC [] i = 4 -> PIT

Top == frames[depth]
Booted == boot = 10

\* At cli, before i8259_init.
Init ==
  /\ irr = {}
  /\ isr = {}
  /\ imr = {}
  /\ cached_irq_mask = Irqs
  /\ iflag = 0
  /\ depth = 0
  /\ frames = [k \in Levels |-> NoFrame]
  /\ current = 0
  /\ away = [t \in Ttys |-> NoStack]
  /\ boot = 0
  /\ codes = 0
  /\ regC = 0
  /\ ticking = FALSE
  /\ flag = 0
  /\ races = 0

Push(frame) ==
  /\ depth < MaxDepth
  /\ depth' = depth + 1
  /\ frames' = [frames EXCEPT ![depth + 1] = frame]

\* iret.
Pop ==
  /\ depth' = depth - 1
  /\ frames' = [frames EXCEPT ![depth] = NoFrame]
  /\ iflag' = Top.saved

\* halt and execute: another program of the terminal, in user mode.
Leave ==
  /\ depth' = 0
  /\ frames' = [k \in Levels |-> NoFrame]
  /\ iflag' = 1

\* What the switching key's handler interrupted stays on its stack, and the
\* program of terminal t goes on where it was interrupted: in user mode, as a
\* new shell does, or inside a call. A switch that loses control (Processes)
\* is not followed.
SwitchTo(t) ==
  LET below == [depth |-> depth - 1, frames |-> [frames EXCEPT ![depth] = NoFrame]]
      kept == [away EXCEPT ![current] = below]
  IN  /\ depth' = kept[t].depth
      /\ frames' = kept[t].frames
      /\ away' = [kept EXCEPT ![t] = NoStack]
      /\ current' = t
      /\ races' = races + IF t # current /\ frames[1].pc \in RtcRead THEN 1 ELSE 0
      /\ races' <= MaxRaces
      /\ iflag' = 1

-----------------------------------------------------------------------------
(***************************************************************************)
(* i8259.c                                                                 *)
(***************************************************************************)

\* ICW1 clears the mask register that was just written, and the last two lines
\* that would write it again are commented out.
i8259_init == imr' = {} /\ UNCHANGED <<irr, isr, cached_irq_mask>>

OnSlave(irq) == irq >= 8

\* Mutant: the lines of the other controller are masked too.
WritesBoth(irq, mask) == imr' = IF OnSlave(irq) THEN mask \cup {PIT, KB, CASCADE} ELSE mask

\* cached_21 or cached_A1 goes to the controller that irq is on.
WriteMask(irq, mask) ==
  imr' = {n \in mask : OnSlave(n) = OnSlave(irq)} \cup {n \in imr : OnSlave(n) # OnSlave(irq)}

\* Mutant: the slave is told, the master not.
EoiToOne(irq) == isr \ {irq}

\* A specific EOI: of a slave's line to both controllers.
send_eoi(irq) == isr \ (IF OnSlave(irq) THEN {irq, CASCADE} ELSE {irq})

\* A controller presents a line that is not masked when nothing of the same or
\* a higher priority is in service there; the slave's come in on line 2.
OnMaster(irq) == IF OnSlave(irq) THEN CASCADE ELSE irq
Presented(irq) ==
  /\ irq \in irr
  /\ irq \notin imr /\ OnMaster(irq) \notin imr
  /\ irq \notin isr
  /\ \A n \in isr : OnSlave(n) \/ n > OnMaster(irq)

-----------------------------------------------------------------------------
(***************************************************************************)
(* The devices                                                             *)
(***************************************************************************)

\* The PIT's period is far longer than its handler and the RTC's together.
PitTick ==
  /\ isr \cap {PIT, RTC} = {}
  /\ irr' = irr \cup {PIT}
  /\ UNCHANGED <<isr, imr, cached_irq_mask, iflag, stack, programs, boot, devices, flag>>

\* A key, or a few, are pressed: the controller holds their codes and raises its
\* line for the first. Keys come rarely: what came before has been handled.
KeyCodes ==
  /\ irr = {} /\ codes = 0 /\ \A k \in Levels : frames[k].irq = SYS
  /\ codes' \in 1..MaxCodes
  /\ irr' = irr \cup {KB}
  /\ UNCHANGED <<isr, imr, cached_irq_mask, iflag, stack, programs, boot, regC, ticking, flag>>

\* The RTC raises its line, until register C is read; when it has not been
\* stopped.
RtcTick ==
  /\ ticking
  /\ regC = 0
  /\ regC' = 1
  /\ irr' = irr \cup {RTC}
  /\ UNCHANGED <<isr, imr, cached_irq_mask, iflag, stack, programs, boot, codes, ticking, flag>>

\* Through an interrupt gate.
Interrupt(irq) ==
  /\ iflag = 1
  /\ Presented(irq)
  /\ \A other \in Devices : Presented(other) => irq <= other
  /\ irr' = irr \ {irq}
  /\ isr' = isr \cup {irq, OnMaster(irq)}
  /\ Push(Frame(irq))
  /\ iflag' = 0
  /\ UNCHANGED <<imr, cached_irq_mask, programs, boot, devices, flag>>

-----------------------------------------------------------------------------
(***************************************************************************)
(* The handlers                                                            *)
(***************************************************************************)

\* The CPU takes an interrupt before the next instruction.
NoInterrupt ==
  iflag = 0 \/ depth = MaxDepth \/ \A irq \in Devices : ~Presented(irq)

Running(irq, pc) == NoInterrupt /\ depth > 0 /\ Top.irq = irq /\ Top.pc = pc

\* As long as the scheduler stays with the process (Processes).
pit_handler ==
  /\ Running(PIT, "entry")
  /\ isr' = send_eoi(PIT)
  /\ Pop
  /\ UNCHANGED <<irr, imr, cached_irq_mask, programs, boot, devices, flag>>

\* Mutant: register C is not read.
RtcKeepsC ==
  /\ Running(RTC, "entry")
  /\ isr' = send_eoi(RTC)
  /\ flag' = 1
  /\ Pop
  /\ UNCHANGED <<irr, imr, cached_irq_mask, programs, boot, devices>>

rtc_interrupt_handler ==
  /\ Running(RTC, "entry")
  /\ isr' = send_eoi(RTC)
  /\ regC' = 0
  /\ flag' = 1
  /\ Pop
  /\ UNCHANGED <<irr, imr, cached_irq_mask, programs, boot, codes, ticking>>

\* inb(0x60): the controller goes on to the next code.
ReadCode ==
  /\ codes' = codes - 1
  /\ irr' = IF codes > 1 THEN irr \cup {KB} ELSE irr

\* Mutant: an EOI is sent first, as in the other handlers, and one at the end.
KeyEoiTwice ==
  /\ Running(KB, "entry")
  /\ ReadCode
  /\ isr' = send_eoi(KB)
  /\ frames' = [frames EXCEPT ![depth].pc = "done"]
  /\ iflag' \in {0, 1}
  /\ UNCHANGED <<imr, cached_irq_mask, depth, programs, boot, regC, ticking, flag>>

\* A modifier, a release, Enter or Backspace; or a character, after which
\* terminal_write turns interrupts on.
Key ==
  /\ Running(KB, "entry")
  /\ ReadCode
  /\ frames' = [frames EXCEPT ![depth].pc = "done"]
  /\ iflag' \in {0, 1}
  /\ UNCHANGED <<isr, imr, cached_irq_mask, depth, programs, boot, regC, ticking, flag>>

\* Mutant: no EOI before the switch.
KeySwitchNoEoi ==
  /\ Running(KB, "entry")
  /\ Booted
  /\ ReadCode
  /\ \E t \in Ttys : SwitchTo(t)
  /\ UNCHANGED <<isr, imr, cached_irq_mask, boot, regC, ticking, flag>>

\* Alt+Fn: an EOI, then switch_to_tty goes to another program, or returns
\* with interrupts on when it finds no slot for a shell.
KeySwitch ==
  /\ Running(KB, "entry")
  /\ Booted
  /\ ReadCode
  /\ isr' = send_eoi(KB)
  /\ \/ \E t \in Ttys : SwitchTo(t)
     \/ /\ frames' = [frames EXCEPT ![depth].pc = "done", ![depth].eoi = TRUE]
        /\ iflag' = 1
        /\ UNCHANGED <<depth, programs>>
  /\ UNCHANGED <<imr, cached_irq_mask, boot, regC, ticking, flag>>

\* kb_handle_done.
KeyDone ==
  /\ Running(KB, "done")
  /\ isr' = send_eoi(KB)
  /\ frames' = [frames EXCEPT ![depth].pc = "iret", ![depth].eoi = TRUE]
  /\ UNCHANGED <<irr, imr, cached_irq_mask, iflag, depth, programs, boot, devices, flag>>

KeyReturn ==
  /\ Running(KB, "iret")
  /\ Pop
  /\ UNCHANGED <<pic, programs, boot, devices, flag>>

kb_interrupt == Key \/ KeySwitch \/ KeyDone \/ KeyReturn

-----------------------------------------------------------------------------
(***************************************************************************)
(* The system calls                                                        *)
(***************************************************************************)
HALT == 1
EXECUTE == 2
READ == 3
WRITE == 4
OPEN == 5
CLOSE == 6

\* Where a call goes. A number without a call, and every call that neither
\* uses the RTC nor leaves interrupts off, is at finish: what terminal_write
\* does between its cli and its sti touches nothing here.
Entries(number) ==
  CASE number \in {HALT, EXECUTE, CLOSE} -> {"cli"}
    [] number = READ -> {"load", "finish"}
    [] number \in {WRITE, OPEN} -> {"rate", "finish"}
    [] OTHER -> {"finish"}

\* Through a trap gate: interrupts stay on, until the call's cli.
SysCall(number) ==
  /\ NoInterrupt /\ depth = 0
  /\ Booted
  /\ \E pc \in Entries(number) :
       /\ Push([irq |-> SYS, pc |-> pc, eoi |-> TRUE, saved |-> iflag, reg |-> {}])
       /\ iflag' = IF pc = "cli" THEN 0 ELSE iflag
  /\ UNCHANGED <<pic, programs, boot, devices, flag>>

\* halt and execute go to another program; close, and an execute that fails,
\* return with interrupts off.
SysClosed ==
  /\ Running(SYS, "cli")
  /\ \/ Leave
     \/ /\ frames' = [frames EXCEPT ![depth].pc = "finish"]
        /\ UNCHANGED <<depth, iflag>>
  /\ UNCHANGED <<pic, programs, boot, devices, flag>>

\* A step inside a call, with interrupts on unless the call turns them off.
Step(here, there) ==
  /\ Running(SYS, here)
  /\ frames' = [frames EXCEPT ![depth].pc = there, ![depth].reg = {}]
  /\ UNCHANGED <<irr, isr, iflag, depth, programs, boot, codes, regC>>

\* One that loads a mask into the register.
Load(here, there, mask) ==
  /\ Running(SYS, here)
  /\ frames' = [frames EXCEPT ![depth].pc = there, ![depth].reg = mask]
  /\ UNCHANGED <<pic, iflag, depth, programs, boot, devices, flag>>

\* rtc_open and rtc_write hold interrupts off while they write register A.
\* Frequency 1, or one that is refused, may stop the chip; another rate may
\* start it again (Rtc).
RtcRate ==
  /\ Step("rate", "finish")
  /\ ticking' \in BOOLEAN
  /\ UNCHANGED <<imr, cached_irq_mask, flag>>

StoreMask(here, there) ==
  /\ Step(here, there)
  /\ cached_irq_mask' = Top.reg
  /\ UNCHANGED <<imr, ticking, flag>>

SendMask(here, there) ==
  /\ Step(here, there)
  /\ WriteMask(KB, Top.reg)
  /\ UNCHANGED <<cached_irq_mask, ticking, flag>>

\* disable_irq(1): the cached mask is changed, loaded again and sent.
disable_irq ==
  \/ Load("load", "store", cached_irq_mask \cup {KB})
  \/ StoreMask("store", "mask")
  \/ Load("mask", "maskout", cached_irq_mask)
  \/ SendMask("maskout", "zero")

\* flag = 0, and the wait for the RTC's handler.
Spin ==
  \/ /\ Step("zero", "spin")
     /\ flag' = 0
     /\ UNCHANGED <<imr, cached_irq_mask, ticking>>
  \/ /\ Step("spin", "enable")
     /\ flag = 1
     /\ UNCHANGED <<imr, cached_irq_mask, ticking, flag>>

\* enable_irq(1), in the same way.
enable_irq ==
  \/ Load("enable", "enablestore", cached_irq_mask \ {KB})
  \/ StoreMask("enablestore", "unmask")
  \/ Load("unmask", "unmaskout", cached_irq_mask)
  \/ SendMask("unmaskout", "finish")

rtc_read == disable_irq \/ Spin \/ enable_irq

SysFinish ==
  /\ Running(SYS, "finish")
  /\ Pop
  /\ UNCHANGED <<pic, programs, boot, devices, flag>>

sys_call == SysClosed \/ RtcRate \/ rtc_read \/ SysFinish

-----------------------------------------------------------------------------
\* entry(): i8259_init, init_rtc, which starts the chip and ends with sti, and
\* the enable_irq calls, each a store to the cached mask and an outb;
\* interrupts are on between them.
Boot ==
  /\ NoInterrupt /\ depth = 0
  /\ boot' = boot + 1
  /\ \/ boot = 0 /\ i8259_init /\ UNCHANGED <<iflag, ticking>>
     \/ boot = 1 /\ iflag' = 1 /\ ticking' = TRUE /\ UNCHANGED pic
     \/ \E i \in 1..4 :
          /\ \/ /\ boot = 2 * i
                /\ cached_irq_mask' = cached_irq_mask \ {Enabled(i)}
                /\ UNCHANGED imr
             \/ /\ boot = 2 * i + 1
                /\ WriteMask(Enabled(i), cached_irq_mask)
                /\ UNCHANGED cached_irq_mask
          /\ UNCHANGED <<irr, isr, iflag, ticking>>
  /\ UNCHANGED <<stack, programs, codes, regC, flag>>

Handler == pit_handler \/ rtc_interrupt_handler \/ kb_interrupt

Next ==
  \/ Boot
  \/ PitTick
  \/ KeyCodes
  \/ RtcTick
  \/ \E irq \in Devices : Interrupt(irq)
  \/ Handler
  \/ \E number \in Numbers : SysCall(number)
  \/ sys_call

Spec == Init /\ [][Next]_vars

\* The CPU goes on with what is on top of the stack, or below it with entry(),
\* and takes an interrupt that is presented. Interrupts come far less often than
\* their handlers take, so that none puts off for ever the code that it may
\* interrupt, or an interrupt of a lower priority. The RTC keeps time until a
\* program stops it. Nobody has to type.
FairSpec ==
  /\ Spec
  /\ SF_vars(Boot \/ sys_call)
  /\ SF_vars(kb_interrupt)
  /\ WF_vars(pit_handler \/ rtc_interrupt_handler)
  /\ WF_vars(Interrupt(PIT))
  /\ \A irq \in {KB, RTC} : SF_vars(Interrupt(irq))
  /\ WF_vars(RtcTick)

-----------------------------------------------------------------------------
(***************************************************************************)
(* Properties                                                              *)
(***************************************************************************)
OnStack == 1..depth
Unfinished == {k \in OnStack : ~frames[k].eoi}

\* The type of the state.
TypeOK ==
  /\ irr \subseteq Devices
  /\ isr \subseteq Irqs
  /\ imr \subseteq Irqs
  /\ cached_irq_mask \subseteq Irqs
  /\ iflag \in {0, 1}
  /\ depth \in 0..MaxDepth
  /\ frames \in [Levels -> Frames]
  /\ current \in Ttys
  /\ away \in [Ttys -> [depth : 0..MaxDepth, frames : [Levels -> Frames]]]
  /\ boot \in 0..10
  /\ codes \in 0..MaxCodes
  /\ regC \in {0, 1}
  /\ ticking \in BOOLEAN
  /\ flag \in {0, 1}
  /\ races \in Nat

\* Every line in service belongs to a handler on the stack that has yet to send
\* its EOI: a handler left for another program, an EOI sent twice and an EOI of
\* a line of the slave leave no line in service, and with it every line below
\* it, for good (i8259.c:100-107, idt.c:177-195).
InServiceOwned ==
  isr = UNION {{frames[k].irq, OnMaster(frames[k].irq)} : k \in Unfinished}

\* Of the handlers that have not sent their EOI, a later one has the higher
\* priority: what terminal_write's sti lets in before the EOI of the keyboard
\* handler is the PIT, never a second key (terminal.c:73, idt.c:191-195).
NestsByPriority ==
  \A j, k \in Unfinished : j < k => OnMaster(frames[k].irq) < OnMaster(frames[j].irq)

\* A scan code that waits and an RTC interrupt that was not acknowledged have a
\* request at the controller or a handler that is about to deal with them: no
\* edge is lost while lines are masked, in service or nested (idt.c:131-132,
\* rtc.c:37-39).
NoRequestLost ==
  /\ codes > 0 => KB \in irr \/ \E k \in OnStack : frames[k].irq = KB /\ frames[k].pc = "entry"
  /\ regC = 1 => RTC \in irr \/ \E k \in OnStack : frames[k].irq = RTC

\* Nobody is between a store to the cached mask and the outb that sends it.
Sent ==
  /\ boot > 2 /\ boot % 2 = 0
  /\ depth > 0 => frames[1].pc \notin {"mask", "maskout", "unmask", "unmaskout"}

\* Once booted, nothing but the keyboard is ever masked, and a program in user
\* mode runs with interrupts on, whatever switches interleave the calls of
\* rtc_read. Until one of them falls inside such a call, the master's mask is
\* the cached one whenever nobody is about to send it, the slave's too from its
\* first enable_irq on, and a program in user mode runs with the keyboard open
\* (i8259.c:60-93, rtc.c:124-128, kernel.c:174-189, handlers.S:44-56).
MasksAgree ==
  /\ Booted => imr \cup cached_irq_mask \subseteq {KB}
  /\ Booted /\ depth = 0 => iflag = 1
  /\ races = 0 /\ Sent =>
       /\ {n \in imr : ~OnSlave(n)} = {n \in cached_irq_mask : ~OnSlave(n)}
       /\ boot >= 8 => imr = cached_irq_mask
  /\ races = 0 /\ Booted /\ depth = 0 => imr = {}

\* The program waits in rtc_read for a chip that has stopped.
Stuck == ~ticking /\ depth > 0 /\ frames[1].pc = "spin"

\* A request that can be held off is taken in the end: the RTC's although a
\* key's handler may be in service, and a key's although rtc_read masks the
\* keyboard, unless a program waits for a chip that rtc_write stopped or three
\* switches fell inside calls of rtc_read (rtc.c:90-109, 124-128,
\* terminal.c:73).
RequestsTaken ==
  /\ RTC \in irr ~> RTC \notin irr
  /\ KB \in irr ~> (KB \notin irr \/ Stuck \/ races >= 3)

=============================================================================
