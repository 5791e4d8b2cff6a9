----------------------------- MODULE RtcProofs -------------------------------
(***************************************************************************)
(* For any number of terminals, any frequencies and any number of terminal *)
(* switches: rtc_read waits for an interrupt of its own, fewer than three  *)
(* switches inside rtc_read leave the keyboard unmasked, and the cached    *)
(* mask holds the keyboard's bit only for a call that has yet to clear it. *)
(***************************************************************************)
EXTENDS Rtc, TLAPS

Bit == {0, 1}

\* The places of rtc_read after it sent the mask.
Late == {"zero", "spin", "enable", "enablestore", "unmask", "unmaskout"}

\* Those of them after the spin.
After == Late \ {"zero", "spin"}

Places == {"user", "load", "store", "mask", "maskout"} \cup Late

TypeOK ==
  /\ flag \in Bit
  /\ cached_irq_mask \in Bit
  /\ imr \in Bit
  /\ rate \in 0..15
  /\ divider \in BOOLEAN
  /\ regC \in Bit
  /\ irq8 \in BOOLEAN
  /\ active_tty \in Ttys
  /\ pc \in [Ttys -> Places]
  /\ reg \in [Ttys -> Bit]
  /\ misused \in BOOLEAN
  /\ served \in [Ttys -> BOOLEAN]
  /\ races \in Nat

\* Whoever has left the spin was served, and so was whoever is about to.
Served ==
  \A t \in Ttys : pc[t] \in After \/ (pc[t] = "spin" /\ flag = 1) => served[t]

\* What the register holds between the two halves of a |= or an &=.
RegHolds ==
  \A t \in Ttys :
    /\ pc[t] = "store" => reg[t] = 1
    /\ pc[t] = "enablestore" => reg[t] = 0

\* A call that was switched away costs a race; one that found the cached mask
\* clear after setting it lost its bit to another call, which costs one too;
\* so does going on past the mask with the keyboard unmasked, and a switch
\* from there is a second.
SwitchedAway ==
  \A t \in Ttys :
    /\ pc[t] # "user" /\ t # active_tty => races >= 1
    /\ pc[t] = "mask" /\ cached_irq_mask = 0 => races >= 1
    /\ pc[t] = "maskout" /\ reg[t] = 0 => races >= 1
    /\ pc[t] \in Late /\ imr = 0 => races >= 1
    /\ pc[t] \in Late /\ t # active_tty => races >= 2

\* To load a set bit before the last write of the mask takes a third: another
\* call set the bit in between and was itself switched away, or still runs.
BitSetAgain ==
  \A t \in Ttys :
    /\ pc[t] = "unmask" /\ cached_irq_mask = 1 =>
         \/ races >= 3
         \/ t # active_tty /\ pc[active_tty] \in Holding
    /\ pc[t] = "unmaskout" /\ reg[t] = 1 => races >= 3

\* While the keyboard is masked, the program that masked it is the one that
\* runs, and it has not yet returned from rtc_read.
MaskedInside == imr = 1 /\ races < 3 => pc[active_tty] \in Late

MaskInv == RegHolds /\ SwitchedAway /\ BitSetAgain /\ MaskedInside /\ MaskOwned

Inv == TypeOK /\ Served /\ MaskInv

-----------------------------------------------------------------------------
(***************************************************************************)
(* The invariant                                                           *)
(***************************************************************************)
LEMMA InitInv == Init => Inv
<1> SUFFICES ASSUME Init PROVE Inv
  OBVIOUS
<1>1. TypeOK
  <2>1. 0 \in Ttys
    BY RtcAssumption DEF Ttys
  <2>2. /\ divider \in BOOLEAN /\ irq8 \in BOOLEAN /\ misused \in BOOLEAN
        /\ served \in [Ttys -> BOOLEAN]
    BY DEF Init
  <2> QED  BY <2>1, <2>2 DEF Init, TypeOK, Places, Bit
<1>2. Served /\ RegHolds /\ SwitchedAway /\ BitSetAgain /\ MaskedInside /\ MaskOwned
  BY DEF Init, Served, RegHolds, SwitchedAway, BitSetAgain, MaskedInside, MaskOwned,
     After, Late
<1> QED  BY <1>1, <1>2 DEF Inv, MaskInv

\* Every step stays in the types.
LEMMA TypeStep ==
  ASSUME TypeOK, Next
  PROVE  TypeOK'
<1> USE DEF TypeOK, Places, Bit, Late
<1>1. CASE Periodic
  BY <1>1 DEF Periodic, maskVars, readVars
<1>2. CASE rtc_interrupt_handler
  BY <1>2 DEF rtc_interrupt_handler, maskVars
<1>3. ASSUME NEW t \in Ttys, KeySwitch(t)
      PROVE  TypeOK'
  BY <1>3 DEF KeySwitch, maskVars, chipVars, readVars
<1>4. CASE rtc_open
  BY <1>4 DEF rtc_open, maskVars, readVars
<1>5. ASSUME NEW f \in Freqs, rtc_write(f)
      PROVE  TypeOK'
  <2>1. misused' \in BOOLEAN
    BY <1>5 DEF rtc_write
  <2>3. (\E c \in 1..10 : rate' = 16 - c) \/ rate' = 0 \/ rate' \in 0..15
    BY <1>5, Zenon DEF rtc_write
  <2>4. rate' \in 0..15
    BY <2>3
  <2>2. divider' \in BOOLEAN
    BY <1>5 DEF rtc_write
  <2> QED  BY <1>5, <2>1, <2>2, <2>4 DEF rtc_write, maskVars, readVars
<1>6. ASSUME NEW t \in Ttys, Call(t) \/ rtc_read(t)
      PROVE  TypeOK'
  BY <1>6 DEF Call, rtc_read, DisableLoad, DisableStore, MaskLoad, MaskOut,
     ClearFlag, Spin, EnableLoad, EnableStore, UnmaskLoad, UnmaskOut, Step, Load,
     maskVars, chipVars
<1> QED  BY <1>1, <1>2, <1>3, <1>4, <1>5, <1>6 DEF Next

\* served is set for every call by the interrupt that ends its spin.
LEMMA ServedStep ==
  ASSUME TypeOK, Served, Next
  PROVE  Served'
<1> USE DEF TypeOK, Served, After, Late
<1>1. CASE Periodic
  BY <1>1 DEF Periodic, readVars
<1>2. CASE rtc_interrupt_handler
  BY <1>2 DEF rtc_interrupt_handler
<1>3. ASSUME NEW t \in Ttys, KeySwitch(t)
      PROVE  Served'
  BY <1>3 DEF KeySwitch, readVars
<1>4. CASE rtc_open
  BY <1>4 DEF rtc_open, readVars
<1>5. ASSUME NEW f \in Freqs, rtc_write(f)
      PROVE  Served'
  BY <1>5 DEF rtc_write, readVars
<1>6. ASSUME NEW t \in Ttys, Call(t) \/ rtc_read(t)
      PROVE  Served'
  BY <1>6 DEF Call, rtc_read, DisableLoad, DisableStore, MaskLoad, MaskOut,
     ClearFlag, Spin, EnableLoad, EnableStore, UnmaskLoad, UnmaskOut, Step
<1> QED  BY <1>1, <1>2, <1>3, <1>4, <1>5, <1>6 DEF Next

\* The chip, its handler, rtc_open and rtc_write leave the masks alone.
LEMMA MaskKept ==
  ASSUME MaskInv, UNCHANGED <<maskVars, active_tty, pc, reg, races>>
  PROVE  MaskInv'
BY DEF MaskInv, RegHolds, SwitchedAway, BitSetAgain, MaskedInside, MaskOwned, maskVars

\* A switch away from a call counts, and none happens while the keyboard is
\* masked.
LEMMA MaskSwitch ==
  ASSUME TypeOK, MaskInv, NEW s \in Ttys, KeySwitch(s)
  PROVE  MaskInv'
<1> USE DEF TypeOK, KeySwitch, maskVars, readVars
<1>1. RegHolds' /\ MaskedInside' /\ MaskOwned'
  BY DEF MaskInv, RegHolds, MaskedInside, MaskOwned
<1>2. SwitchedAway'
  BY DEF MaskInv, SwitchedAway, Late
<1>3. BitSetAgain'
  BY DEF MaskInv, BitSetAgain, SwitchedAway, Late, Holding
<1> QED  BY <1>1, <1>2, <1>3 DEF MaskInv

\* The steps of the call that runs.
LEMMA MaskRead ==
  ASSUME TypeOK, MaskInv, NEW s \in Ttys, Call(s) \/ rtc_read(s)
  PROVE  MaskInv'
<1> USE DEF TypeOK, Step, Load, maskVars, Late, Bit
<1>0. CASE Call(s)
  BY <1>0 DEF Call, MaskInv, RegHolds, SwitchedAway, BitSetAgain, MaskedInside,
     MaskOwned, Holding
<1>1. CASE DisableLoad(s)
  BY <1>1 DEF DisableLoad, MaskInv, RegHolds, SwitchedAway, BitSetAgain, MaskedInside,
     MaskOwned, Holding
<1>2. CASE DisableStore(s)
  BY <1>2 DEF DisableStore, MaskInv, RegHolds, SwitchedAway, BitSetAgain, MaskedInside,
     MaskOwned, Holding
<1>3. CASE MaskLoad(s)
  BY <1>3 DEF MaskLoad, MaskInv, RegHolds, SwitchedAway, BitSetAgain, MaskedInside,
     MaskOwned, Holding
<1>4. CASE MaskOut(s)
  BY <1>4 DEF MaskOut, MaskInv, RegHolds, SwitchedAway, BitSetAgain, MaskedInside,
     MaskOwned, Holding
<1>5. CASE ClearFlag(s)
  BY <1>5 DEF ClearFlag, MaskInv, RegHolds, SwitchedAway, BitSetAgain, MaskedInside,
     MaskOwned, Holding
<1>6. CASE Spin(s)
  BY <1>6 DEF Spin, MaskInv, RegHolds, SwitchedAway, BitSetAgain, MaskedInside,
     MaskOwned, Holding
<1>7. CASE EnableLoad(s)
  BY <1>7 DEF EnableLoad, MaskInv, RegHolds, SwitchedAway, BitSetAgain, MaskedInside,
     MaskOwned, Holding
<1>8. CASE EnableStore(s)
  BY <1>8 DEF EnableStore, MaskInv, RegHolds, SwitchedAway, BitSetAgain, MaskedInside,
     MaskOwned, Holding
<1>9. CASE UnmaskLoad(s)
  BY <1>9 DEF UnmaskLoad, MaskInv, RegHolds, SwitchedAway, BitSetAgain, MaskedInside,
     MaskOwned, Holding
<1>10. CASE UnmaskOut(s)
  BY <1>10 DEF UnmaskOut, MaskInv, RegHolds, SwitchedAway, BitSetAgain, MaskedInside,
     MaskOwned, Holding
<1> QED
  BY <1>0, <1>1, <1>2, <1>3, <1>4, <1>5, <1>6, <1>7, <1>8, <1>9, <1>10 DEF rtc_read

LEMMA NextInv == Inv /\ [Next]_vars => Inv'
<1> SUFFICES ASSUME Inv, [Next]_vars PROVE Inv'
  OBVIOUS
<1>1. CASE UNCHANGED vars
  <2> USE <1>1 DEF vars, maskVars, chipVars, readVars
  <2>1. TypeOK' /\ Served'
    BY DEF Inv, TypeOK, Served
  <2> QED  BY <2>1, MaskKept DEF Inv
<1>2. CASE Next
  <2>1. TypeOK' /\ Served'
    BY <1>2, TypeStep, ServedStep DEF Inv
  <2>2. MaskInv'
    <3>1. ASSUME NEW s \in Ttys, KeySwitch(s) \/ Call(s) \/ rtc_read(s)
          PROVE  MaskInv'
      BY <3>1, MaskSwitch, MaskRead DEF Inv
    <3> QED
      BY <1>2, <3>1, MaskKept DEF Inv, Next, Periodic, rtc_interrupt_handler,
         rtc_open, rtc_write, readVars
  <2> QED  BY <2>1, <2>2 DEF Inv
<1> QED  BY <1>1, <1>2

LEMMA Invariance == Spec => []Inv
BY InitInv, NextInv, PTL DEF Spec

-----------------------------------------------------------------------------
(***************************************************************************)
(* The theorems                                                            *)
(***************************************************************************)
\* Fewer than three terminal switches inside calls of rtc_read cannot leave a
\* program running with the keyboard masked, however many terminals use the
\* RTC (rtc.c:124-128, i8259.c:62-93).
THEOREM ReenablesKeyboard == Spec => []KeyboardReenabled
<1>1. Inv => KeyboardReenabled
  BY DEF Inv, MaskInv, MaskedInside, KeyboardReenabled, TypeOK, Bit, Late
<1> QED  BY <1>1, Invariance, PTL

\* The cached mask holds the keyboard's bit only while some call of rtc_read has
\* yet to clear it, for any number of terminals and switches (rtc.c:124-128,
\* i8259.c:67, 87).
THEOREM OwnsMask == Spec => []MaskOwned
<1>1. Inv => MaskOwned
  BY DEF Inv, MaskInv
<1> QED  BY <1>1, Invariance, PTL

\* rtc_read never returns before an interrupt has come since it was called,
\* however the calls of different terminals share flag (rtc.c:123-130).
THEOREM WaitsForInterrupt == Spec => ReadWaits
<1>1. ASSUME Inv
      PROVE  \A t \in Ttys : pc[t] = "unmaskout" /\ pc'[t] = "user" => served[t]
  BY <1>1 DEF Inv, Served, After, Late
<1>2. Inv /\ [Next]_vars =>
        [\A t \in Ttys : pc[t] = "unmaskout" /\ pc'[t] = "user" => served[t]]_vars
  BY <1>1
<1> QED  BY <1>2, Invariance, PTL DEF Spec, ReadWaits

=============================================================================
