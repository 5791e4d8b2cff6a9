-------------------------------- MODULE Rtc ----------------------------------
(***************************************************************************)
(* The real-time clock driver (rtc.c) and the interrupt mask it shares     *)
(* with everyone through i8259.c: rtc_read masks the keyboard's IRQ1,      *)
(* waits for an RTC interrupt, and unmasks it.                             *)
(*                                                                         *)
(* rtc_read runs with interrupts on and is one action per memory or port   *)
(* access (CFLAGS has no -O: cached_irq_mask |= mask is a load and a       *)
(* store). The handlers are interrupt gates, rtc_open and rtc_write hold   *)
(* interrupts off: one action each. Masks are their bit for IRQ1.          *)
(***************************************************************************)
EXTENDS Integers

CONSTANTS
  MAX_TTY,           \* terminals, each with a program that uses the RTC
  Freqs,             \* the values programs pass to rtc_write
  MaxRaces           \* bound on terminal switches that interrupt rtc_read

ASSUME RtcAssumption ==
  /\ MAX_TTY \in Nat \ {0}
  /\ Freqs \subseteq Int
  /\ MaxRaces \in Nat

Ttys == 0..(MAX_TTY - 1)

VARIABLES
  flag,              \* set by the handler
  cached_irq_mask,   \* what the kernel believes the mask to be
  imr,               \* the mask the master 8259 holds
  rate,              \* bits 0-3 of register A
  divider,           \* bits 4-7 of register A: TRUE when they are 0x20
  regC,              \* register C: an interrupt was raised and not read
  irq8,              \* a request waits at the 8259
  active_tty,
  pc,                \* where rtc_read is, per terminal; "user": not in it
  reg,               \* the register the mask goes through, per terminal
  misused,           \* history: frequency 1 or a refused one was written
  served,            \* history: an interrupt came since rtc_read was called
  races              \* history: switches that interrupted rtc_read

readVars == <<pc, reg, served>>
maskVars == <<cached_irq_mask, imr>>
chipVars == <<rate, divider, regC, irq8>>
vars == <<flag, maskVars, chipVars, active_tty, readVars, misused, races>>

\* After init_rtc, which writes 0x2F to register A and turns periodic
\* interrupts on, and the enable_irq calls of entry().
Init ==
  /\ flag = 0
  /\ cached_irq_mask = 0
  /\ imr = 0
  /\ rate = 15
  /\ divider = TRUE
  /\ regC = 0
  /\ irq8 = FALSE
  /\ active_tty = 0
  /\ pc = [t \in Ttys |-> "user"]
  /\ reg = [t \in Ttys |-> 0]
  /\ misused = FALSE
  /\ served = [t \in Ttys |-> FALSE]
  /\ races = 0

-----------------------------------------------------------------------------
(***************************************************************************)
(* The chip and the interrupts                                             *)
(***************************************************************************)

\* The chip raises its line once, until register C is read; with a rate of 0
\* or another divider it raises none that can be counted on.
Periodic ==
  /\ rate # 0
  /\ divider
  /\ regC' = 1
  /\ irq8' = (irq8 \/ regC = 0)
  /\ UNCHANGED <<flag, maskVars, rate, divider, active_tty, readVars, misused, races>>

\* Mutant: register C is not read.
HandlerKeepsC ==
  /\ irq8
  /\ irq8' = FALSE
  /\ flag' = 1
  /\ served' = [t \in Ttys |-> pc[t] # "user"]
  /\ UNCHANGED <<maskVars, rate, divider, regC, active_tty, pc, reg, misused, races>>

rtc_interrupt_handler ==
  /\ irq8
  /\ irq8' = FALSE
  /\ regC' = 0
  /\ flag' = 1
  /\ served' = [t \in Ttys |-> pc[t] # "user"]
  /\ UNCHANGED <<maskVars, rate, divider, active_tty, pc, reg, misused, races>>

\* Alt+Fn, unless the 8259 masks the keyboard.
KeySwitch(t) ==
  /\ imr = 0
  /\ active_tty' = t
  /\ races' = races + IF t # active_tty /\ pc[active_tty] # "user" THEN 1 ELSE 0
  /\ races' <= MaxRaces
  /\ UNCHANGED <<flag, maskVars, chipVars, readVars, misused>>

-----------------------------------------------------------------------------
(***************************************************************************)
(* rtc_open and rtc_write                                                  *)
(***************************************************************************)
Valid(f) == \E c \in 0..10 : f = 2^c

rtc_open ==
  /\ pc[active_tty] = "user"
  /\ rate' = 15
  /\ UNCHANGED <<flag, maskVars, divider, regC, irq8, active_tty, readVars, misused, races>>

\* The rate 16 of frequency 1 falls out of the four bits into the divider's;
\* a frequency the check refuses leaves rate uninitialised, and it is written
\* all the same.
rtc_write(f) ==
  /\ pc[active_tty] = "user"
  /\ misused' = (misused \/ f = 1 \/ ~Valid(f))
  /\ \/ \E c \in 1..10 : f = 2^c /\ rate' = 16 - c /\ UNCHANGED divider
     \/ f = 1 /\ rate' = 0 /\ divider' = FALSE
     \/ ~Valid(f) /\ rate' \in 0..15 /\ divider' \in {divider, FALSE}
  /\ UNCHANGED <<flag, maskVars, regC, irq8, active_tty, readVars, races>>

-----------------------------------------------------------------------------
(***************************************************************************)
(* rtc_read                                                                *)
(***************************************************************************)
Step(t, here, there) ==
  /\ t = active_tty
  /\ pc[t] = here
  /\ pc' = [pc EXCEPT ![t] = there]
  /\ UNCHANGED <<chipVars, active_tty, misused, races>>

Load(t, bit) == reg' = [reg EXCEPT ![t] = bit]

Call(t) ==
  /\ Step(t, "user", "load")
  /\ served' = [served EXCEPT ![t] = FALSE]
  /\ UNCHANGED <<flag, maskVars, reg>>

\* disable_irq(1): set the bit in the cached mask, then send that mask.
DisableLoad(t) ==
  /\ Step(t, "load", "store")
  /\ Load(t, 1)
  /\ UNCHANGED <<flag, maskVars, served>>

DisableStore(t) ==
  /\ Step(t, "store", "mask")
  /\ cached_irq_mask' = reg[t]
  /\ UNCHANGED <<flag, imr, reg, served>>

MaskLoad(t) ==
  /\ Step(t, "mask", "maskout")
  /\ Load(t, cached_irq_mask)
  /\ UNCHANGED <<flag, maskVars, served>>

MaskOut(t) ==
  /\ Step(t, "maskout", "zero")
  /\ imr' = reg[t]
  /\ UNCHANGED <<flag, cached_irq_mask, reg, served>>

\* Mutant: flag is not cleared.
ClearNothing(t) ==
  /\ Step(t, "zero", "spin")
  /\ UNCHANGED <<flag, maskVars, reg, served>>

ClearFlag(t) ==
  /\ Step(t, "zero", "spin")
  /\ flag' = 0
  /\ UNCHANGED <<maskVars, reg, served>>

Spin(t) ==
  /\ Step(t, "spin", "enable")
  /\ flag = 1
  /\ UNCHANGED <<flag, maskVars, reg, served>>

\* Mutant: the bit is set again.
EnableSets(t) ==
  /\ Step(t, "enable", "enablestore")
  /\ Load(t, 1)
  /\ UNCHANGED <<flag, maskVars, served>>

\* enable_irq(1), in the same way.
EnableLoad(t) ==
  /\ Step(t, "enable", "enablestore")
  /\ Load(t, 0)
  /\ UNCHANGED <<flag, maskVars, served>>

\* Mutant: the bit is cleared in the register only.
EnableStoreLost(t) ==
  /\ Step(t, "enablestore", "unmask")
  /\ UNCHANGED <<flag, maskVars, reg, served>>

EnableStore(t) ==
  /\ Step(t, "enablestore", "unmask")
  /\ cached_irq_mask' = reg[t]
  /\ UNCHANGED <<flag, imr, reg, served>>

UnmaskLoad(t) ==
  /\ Step(t, "unmask", "unmaskout")
  /\ Load(t, cached_irq_mask)
  /\ UNCHANGED <<flag, maskVars, served>>

UnmaskOut(t) ==
  /\ Step(t, "unmaskout", "user")
  /\ imr' = reg[t]
  /\ UNCHANGED <<flag, cached_irq_mask, reg, served>>

rtc_read(t) ==
  \/ DisableLoad(t)
  \/ DisableStore(t)
  \/ MaskLoad(t)
  \/ MaskOut(t)
  \/ ClearFlag(t)
  \/ Spin(t)
  \/ EnableLoad(t)
  \/ EnableStore(t)
  \/ UnmaskLoad(t)
  \/ UnmaskOut(t)

Next ==
  \/ Periodic
  \/ rtc_interrupt_handler
  \/ \E t \in Ttys : KeySwitch(t)
  \/ rtc_open
  \/ \E f \in Freqs : rtc_write(f)
  \/ \E t \in Ttys : Call(t) \/ rtc_read(t)

Spec == Init /\ [][Next]_vars

\* The chip keeps time, a request at the 8259 is delivered as IRQ8 is never
\* masked and no code keeps interrupts off, and between interrupts the CPU
\* runs the program of the terminal on the screen.
FairSpec ==
  /\ Spec
  /\ WF_vars(Periodic)
  /\ WF_vars(rtc_interrupt_handler)
  /\ \A t \in Ttys : WF_vars(rtc_read(t))

-----------------------------------------------------------------------------
(***************************************************************************)
(* Properties                                                              *)
(***************************************************************************)
\* A program runs with the keyboard unmasked again after rtc_read, unless three
\* or more terminal switches fell inside calls of rtc_read: fewer cannot make
\* enable_irq send a mask with the keyboard's bit set (rtc.c:124-128,
\* i8259.c:62-93).
KeyboardReenabled == races < 3 /\ pc[active_tty] = "user" => imr = 0

\* The places of rtc_read from which its call has yet to clear the keyboard's
\* bit in the cached mask.
Holding == {"mask", "maskout", "zero", "spin", "enable", "enablestore"}

\* The kernel believes the keyboard masked only while some call of rtc_read has
\* yet to enable it, however many switches interleave the loads and stores of
\* different calls: what the next enable_irq or disable_irq sends is not a
\* leftover of calls that are over (rtc.c:124-128, i8259.c:67, 87).
MaskOwned == cached_irq_mask = 1 => \E t \in Ttys : pc[t] \in Holding

\* rtc_read returns only once an interrupt has come since it was called, even
\* when terminals switch and share flag (rtc.c:125-127).
ReadWaits ==
  [][ \A t \in Ttys : pc[t] = "unmaskout" /\ pc'[t] = "user" => served[t] ]_vars

\* The chip interrupts: its rate is not 0 and its divider is the one of
\* init_rtc.
Ticking == rate # 0 /\ divider

\* A program that waits for the RTC goes on, unless the user switches away
\* first or the chip has stopped; and nothing stops the chip but frequency 1,
\* whose rate spills into the divider, or a frequency the check refuses, which
\* is written all the same (rtc.c:90-109, 123-130).
ReadReturns ==
  \A t \in Ttys :
    (pc[t] # "user" /\ active_tty = t)
      ~> (pc[t] = "user" \/ active_tty # t \/ (misused /\ ~Ticking))

=============================================================================
