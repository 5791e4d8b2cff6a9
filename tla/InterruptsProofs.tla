-------------------------- MODULE InterruptsProofs ---------------------------
(***************************************************************************)
(* How handlers nest, for every depth of the stacks, number of keys,       *)
(* terminals and switches.                                                 *)
(***************************************************************************)
EXTENDS Interrupts, TLAPS

\* The places of a system call.
Calls == {"cli", "rate", "finish"} \cup RtcRead

\* A system call is at the bottom only; the PIT's and the RTC's handlers, and
\* the keyboard's until it has read its code, keep interrupts off on top.
FrameOK(k) ==
  /\ frames[k].saved = 1
  /\ frames[k].irq = SYS => /\ k = 1 /\ frames[k].eoi /\ Booted
                            /\ frames[k].pc \in Calls /\ frames[k].reg \subseteq {KB}
  /\ frames[k].irq \in {PIT, RTC} => /\ k = depth /\ iflag = 0
                                     /\ frames[k].pc = "entry" /\ ~frames[k].eoi
  /\ frames[k].irq = KB =>
       /\ frames[k].pc \in {"entry", "done", "iret"}
       /\ frames[k].pc = "entry" => k = depth /\ iflag = 0 /\ ~frames[k].eoi
       /\ frames[k].pc = "iret" => frames[k].eoi

Stacked ==
  /\ \A k \in OnStack : FrameOK(k)
  /\ \A k \in Levels : k > depth => frames[k] = NoFrame
  /\ boot < 2 => depth = 0
  /\ depth = 0 => iflag = IF boot < 2 THEN 0 ELSE 1

\* Only the PIT comes in above a handler that has not sent its EOI.
Nesting ==
  \A j, k \in OnStack :
    /\ j < k
    /\ frames[k].irq = RTC \/ (frames[k].irq = KB /\ frames[k].pc # "iret")
    => frames[j].eoi

\* A stack d frames deep that was left by a switch: a call, and handlers of keys
\* that have sent their EOI.
StackOK(d, f) ==
  /\ \A k \in Levels : k <= d =>
       /\ f[k].saved = 1 /\ f[k].eoi /\ f[k].irq \in {KB, SYS}
       /\ f[k].irq = SYS => k = 1 /\ f[k].pc \in Calls /\ f[k].reg \subseteq {KB}
       /\ f[k].irq = KB => f[k].pc \in {"done", "iret"}
  /\ \A k \in Levels : k > d => f[k] = NoFrame
  /\ d > 0 => Booted

Kept == \A t \in Ttys : /\ StackOK(away[t].depth, away[t].frames)
                        /\ races = 0 => away[t].frames[1].pc \notin RtcRead

\* The lines in service, one by one.
InService(n) == \E k \in OnStack : ~frames[k].eoi /\ n \in {frames[k].irq, OnMaster(frames[k].irq)}
Serviced == isr = {n \in Irqs : InService(n)}

\* Where rtc_read has set the bit in the cached mask, and in the controller's.
Cached == {"mask", "maskout", "zero", "spin", "enable", "enablestore"}
Masked == {"zero", "spin", "enable", "enablestore", "unmask", "unmaskout"}

\* The masks while only the call at the bottom of the stack moves them.
Alone(call) ==
  /\ cached_irq_mask = IF call.pc \in Cached THEN {KB} ELSE {}
  /\ imr = IF call.pc \in Masked THEN {KB} ELSE {}
  /\ call.pc \in {"store", "maskout"} => call.reg = {KB}
  /\ call.pc \in {"enablestore", "unmaskout"} => call.reg = {}

\* The steps of the boot move the masks, and then calls of rtc_read: one by one
\* until a switch falls inside one of them.
Masks ==
  /\ boot < 10 =>
       /\ cached_irq_mask = CASE boot < 3 -> Irqs
                              [] boot \in {3, 4} -> {PIT, CASCADE, RTC}
                              [] boot \in {5, 6} -> {PIT, RTC}
                              [] boot \in {7, 8} -> {PIT}
                              [] boot = 9 -> {}
       /\ imr = CASE boot < 4 -> {}
                  [] boot \in {4, 5} -> {PIT, CASCADE}
                  [] boot \in {6, 7, 8, 9} -> {PIT}
  /\ boot = 10 => cached_irq_mask \subseteq {KB} /\ imr \subseteq {KB}
  /\ boot = 10 /\ races = 0 => Alone(frames[1])

\* A key's interrupt, requested or just taken, has a code to read.
CodesWait ==
  /\ KB \in irr => codes > 0
  /\ \A k \in OnStack : frames[k].irq = KB /\ frames[k].pc = "entry" => codes > 0 /\ KB \notin irr

Inv == TypeOK /\ Stacked /\ Nesting /\ Serviced /\ Kept /\ Masks /\ CodesWait /\ NoRequestLost

-----------------------------------------------------------------------------
USE InterruptsAssumption
USE DEF InterruptsAssumption, PIT, KB, CASCADE, RTC, SYS, Devices, Irqs, Levels, OnStack,
        Booted, OnMaster, OnSlave, Ttys

LEMMA NoFrameType ==
  NoFrame \in Frames /\ NoFrame.pc = "none" /\ "none" \in Pcs /\ "none" \notin RtcRead
  BY DEF NoFrame, Frames, Pcs, RtcRead

\* A stack with nothing on it.
LEMMA NoStackOK ==
  /\ NoStack \in [depth : 0..MaxDepth, frames : [Levels -> Frames]]
  /\ StackOK(NoStack.depth, NoStack.frames)
  /\ NoStack.depth = 0 /\ 1 \in Levels
  /\ NoStack.frames[1].pc \notin RtcRead
  <1>1. /\ NoStack.depth = 0 /\ 1 \in Levels /\ NoStack.frames = [k \in Levels |-> NoFrame]
        /\ 0 \in 0..MaxDepth
    BY DEF NoStack
  <1>2. [k \in Levels |-> NoFrame] \in [Levels -> Frames]
    BY NoFrameType
  <1>3. NoStack \in [depth : 0..MaxDepth, frames : [Levels -> Frames]]
    BY <1>1, <1>2 DEF NoStack
  <1> QED
    BY <1>1, <1>3, NoFrameType DEF StackOK

\* The types of what most steps are about.
LEMMA Types ==
  ASSUME Inv
  PROVE  /\ depth \in 0..MaxDepth /\ depth \in Nat /\ frames \in [Levels -> Frames]
         /\ iflag \in {0, 1} /\ boot \in 0..10 /\ codes \in 0..MaxCodes /\ regC \in {0, 1}
         /\ irr \subseteq Devices /\ isr \subseteq Irqs /\ ticking \in BOOLEAN
         /\ \A k \in OnStack : /\ k \in Levels /\ frames[k].irq \in Devices \cup {SYS}
                               /\ frames[k].eoi \in BOOLEAN
  <1>1. /\ depth \in 0..MaxDepth /\ frames \in [Levels -> Frames]
        /\ iflag \in {0, 1} /\ boot \in 0..10 /\ codes \in 0..MaxCodes /\ regC \in {0, 1}
        /\ irr \subseteq Devices /\ isr \subseteq Irqs /\ ticking \in BOOLEAN
    BY DEF Inv, TypeOK
  <1>2. \A k \in OnStack : k \in Levels
    BY <1>1
  <1>3. \A k \in OnStack : frames[k].irq \in Devices \cup {SYS} /\ frames[k].eoi \in BOOLEAN
    BY <1>1, <1>2 DEF Frames
  <1> QED
    BY <1>1, <1>2, <1>3

LEMMA InitInv == Init => Inv
  <1> SUFFICES ASSUME Init PROVE Inv
    OBVIOUS
  <1>0. depth = 0 /\ OnStack = {} /\ boot = 0 /\ 0 \in Ttys
    BY DEF Init
  <1>1. TypeOK
    <2>1. /\ away \in [Ttys -> [depth : 0..MaxDepth, frames : [Levels -> Frames]]]
          /\ frames \in [Levels -> Frames]
      BY NoStackOK, NoFrameType DEF Init
    <2>2. ticking \in BOOLEAN
      BY DEF Init
    <2> QED
      BY <1>0, <2>1, <2>2 DEF Init, TypeOK
  <1>2. Stacked /\ Nesting /\ Masks /\ CodesWait /\ NoRequestLost
    BY <1>0 DEF Init, Stacked, Nesting, Masks, CodesWait, NoRequestLost
  <1>3. Serviced
    BY <1>0 DEF Init, Serviced, InService
  <1>4. Kept
    BY NoStackOK DEF Init, Kept
  <1> QED
    BY <1>1, <1>2, <1>3, <1>4 DEF Inv

\* What leaves the masks alone and moves no call through rtc_read.
LEMMA MasksKept ==
  ASSUME Inv, UNCHANGED <<imr, cached_irq_mask, boot, races>>,
         frames'[1] = frames[1] \/ {frames[1].pc, frames'[1].pc} \cap RtcRead = {}
  PROVE  Masks'
  <1>1. frames'[1] = frames[1] \/ (frames[1].pc \notin RtcRead /\ frames'[1].pc \notin RtcRead)
    OBVIOUS
  <1>2. Alone(frames[1]) => Alone(frames[1])'
    <2>1. CASE frames'[1] = frames[1]
      BY <2>1 DEF Alone
    <2>2. CASE frames[1].pc \notin RtcRead /\ frames'[1].pc \notin RtcRead
      BY <2>2 DEF Alone, Cached, Masked, RtcRead
    <2> QED
      BY <1>1, <2>1, <2>2
  <1> QED
    BY <1>2 DEF Inv, Masks

LEMMA KeptKept ==
  ASSUME Inv, UNCHANGED <<away, races, boot>>
  PROVE  Kept'
  BY DEF Inv, Kept, StackOK

\* What leaves the stack, the masks and what is in service alone.
LEMMA QuietInv ==
  ASSUME Inv, PitTick \/ KeyCodes \/ RtcTick
  PROVE  Inv'
  <1>1. UNCHANGED <<isr, imr, cached_irq_mask, iflag, depth, frames, current, away, races, boot,
                    ticking, flag>>
    BY DEF PitTick, KeyCodes, RtcTick, stack, devices, programs
  <1>2. TypeOK'
    <2>1. irr' \in {irr \cup {n} : n \in Devices} /\ codes' \in 0..MaxCodes /\ regC' \in {0, 1}
      BY DEF Inv, TypeOK, PitTick, KeyCodes, RtcTick, devices
    <2> QED
      BY <1>1, <2>1 DEF Inv, TypeOK
  <1>3. Stacked' /\ Nesting' /\ Serviced'
    BY <1>1 DEF Inv, Stacked, FrameOK, Nesting, Serviced, InService
  <1>4. CodesWait' /\ NoRequestLost'
    BY <1>1 DEF Inv, CodesWait, NoRequestLost, TypeOK, PitTick, KeyCodes, RtcTick, devices
  <1>5. Masks' /\ Kept'
    BY <1>1, MasksKept, KeptKept
  <1> QED
    BY <1>2, <1>3, <1>4, <1>5 DEF Inv

-----------------------------------------------------------------------------
(***************************************************************************)
(* Handlers that push, change and pop the top frame                        *)
(***************************************************************************)

LEMMA InterruptInv ==
  ASSUME Inv, NEW irq \in Devices, Interrupt(irq)
  PROVE  Inv'
  <1> DEFINE top == [irq |-> irq, pc |-> "entry", eoi |-> FALSE, saved |-> 1, reg |-> {}]
  <1>0. depth \in Nat /\ iflag = 1 /\ depth + 1 \in Levels
    BY DEF Inv, TypeOK, Interrupt, Push
  <1>1. /\ depth' = depth + 1 /\ iflag' = 0
        /\ irr' = irr \ {irq} /\ isr' = isr \cup {irq, OnMaster(irq)}
        /\ frames' = [frames EXCEPT ![depth + 1] = top]
        /\ UNCHANGED <<imr, cached_irq_mask, current, away, races, boot, codes, regC, ticking, flag>>
    <2>1. Frame(irq) = top
      BY <1>0 DEF Frame
    <2> QED
      BY <1>0, <2>1 DEF Interrupt, Push, devices, programs
  <1>2. top \in Frames
    BY DEF Frames, Pcs
  <1>3. TypeOK'
    BY <1>0, <1>1, <1>2 DEF Inv, TypeOK
  <1>4. /\ frames'[depth + 1] = top
        /\ \A k \in Levels : k # depth + 1 => frames'[k] = frames[k]
    BY <1>0, <1>1, <1>2 DEF Inv, TypeOK
  <1>5. \A k \in OnStack : frames[k].pc # "entry" /\ frames[k].irq \notin {PIT, RTC}
    <2> SUFFICES ASSUME NEW k \in OnStack
                 PROVE  frames[k].pc # "entry" /\ frames[k].irq \notin {PIT, RTC}
      OBVIOUS
    <2>1. FrameOK(k) /\ frames[k].irq \in Devices \cup {SYS}
      BY Types DEF Inv, Stacked
    <2> QED
      BY <1>0, <2>1 DEF FrameOK, Calls, RtcRead
  <1>6. Stacked'
    BY <1>0, <1>1, <1>4, <1>5 DEF Inv, Stacked, FrameOK, TypeOK
  <1>7. \A k \in OnStack : ~frames[k].eoi => irq = PIT
    <2> SUFFICES ASSUME NEW k \in OnStack, ~frames[k].eoi PROVE irq = PIT
      OBVIOUS
    <2>1. frames[k].irq = KB
      BY <1>0, <1>5 DEF Inv, Stacked, FrameOK, TypeOK, Frames
    <2>2. KB \in isr
      BY <2>1 DEF Inv, Serviced, InService
    <2> QED
      BY <2>2 DEF Interrupt, Presented
  <1>9. Nesting'
    BY <1>0, <1>1, <1>4, <1>5, <1>7 DEF Inv, Nesting, TypeOK
  <1>10. Serviced'
    <2>1. OnStack' = OnStack \cup {depth + 1} /\ \A k \in OnStack : frames'[k] = frames[k]
      BY <1>0, <1>1, <1>4, Types
    <2>2. \A n \in Irqs : InService(n)' <=> InService(n) \/ n \in {irq, OnMaster(irq)}
      BY <1>4, <2>1 DEF InService
    <2> QED
      BY <1>1, <2>2 DEF Inv, Serviced
  <1>11. Masks' /\ Kept'
    <2>1. frames'[1] = frames[1] \/ (depth = 0 /\ frames'[1].pc = "entry")
      BY <1>0, <1>4
    <2>2. depth = 0 => frames[1] = NoFrame
      BY DEF Inv, Stacked
    <2>3. frames'[1] = frames[1] \/ {frames[1].pc, frames'[1].pc} \cap RtcRead = {}
      BY <2>1, <2>2, NoFrameType DEF RtcRead
    <2> QED
      BY <1>1, <2>3, MasksKept, KeptKept
  <1>12. CodesWait'
    BY <1>0, <1>1, <1>4, <1>5 DEF Inv, CodesWait, TypeOK, Interrupt, Presented
  <1>13. NoRequestLost'
    <2>1. depth + 1 \in OnStack' /\ \A k \in OnStack : k \in OnStack' /\ frames'[k] = frames[k]
      BY <1>0, <1>1, <1>4, Types
    <2>2. frames'[depth + 1].irq = irq /\ frames'[depth + 1].pc = "entry"
      BY <1>4
    <2>3. NoRequestLost
      BY DEF Inv
    <2>4. codes' > 0 => KB \in irr' \/ \E k \in OnStack' : frames'[k].irq = KB /\ frames'[k].pc = "entry"
      BY <1>1, <2>1, <2>2, <2>3 DEF NoRequestLost
    <2>5. regC' = 1 => RTC \in irr' \/ \E k \in OnStack' : frames'[k].irq = RTC
      BY <1>1, <2>1, <2>2, <2>3 DEF NoRequestLost
    <2> QED
      BY <2>4, <2>5 DEF NoRequestLost
  <1> QED
    BY <1>3, <1>6, <1>9, <1>10, <1>11, <1>12, <1>13 DEF Inv

\* iret takes the top frame away and turns interrupts on.
LEMMA PopFacts ==
  ASSUME Inv, depth > 0, Pop
  PROVE  /\ depth' = depth - 1 /\ depth' \in 0..MaxDepth /\ depth \in Levels
         /\ iflag' = 1
         /\ frames' \in [Levels -> Frames]
         /\ frames'[depth] = NoFrame
         /\ \A k \in Levels : k # depth => frames'[k] = frames[k]
  <1>1. depth \in Levels /\ depth \in OnStack /\ frames \in [Levels -> Frames]
    BY DEF Inv, TypeOK
  <1>2. NoFrame \in Frames
    BY NoFrameType
  <1>3. iflag' = 1
    BY <1>1 DEF Pop, Top, Inv, Stacked, FrameOK
  <1> QED
    BY <1>1, <1>2, <1>3 DEF Pop

\* What the frames below the one that returns need.
LEMMA PopInv ==
  ASSUME Inv, depth > 0, Pop, UNCHANGED boot
  PROVE  Stacked' /\ Nesting'
  <1>1. \A k \in 1..(depth - 1) : frames'[k] = frames[k] /\ k \in OnStack
    BY PopFacts DEF Inv, TypeOK
  <1>2. Stacked'
    <2>1. ASSUME NEW k \in 1..(depth - 1) PROVE FrameOK(k)'
      <3>1. FrameOK(k) /\ k # depth /\ frames'[k] = frames[k] /\ frames[k].irq \in Devices \cup {SYS}
        BY <1>1 DEF Inv, TypeOK, Stacked, Frames
      <3> QED
        BY <3>1 DEF FrameOK
    <2>2. \A k \in Levels : k > depth' => frames'[k] = NoFrame
      BY PopFacts DEF Inv, TypeOK, Stacked
    <2>3. boot' \in Nat /\ boot' >= 2 /\ OnStack' = 1..(depth - 1)
      BY PopFacts DEF Inv, Stacked, TypeOK
    <2>4. \A k \in OnStack' : FrameOK(k)'
      BY <2>1, <2>3
    <2> QED
      BY <2>2, <2>3, <2>4, PopFacts DEF Stacked
  <1>3. Nesting'
    BY <1>1, PopFacts DEF Inv, TypeOK, Nesting
  <1> QED
    BY <1>2, <1>3

\* A frame that is not inside rtc_read returns.
LEMMA PopMasks ==
  ASSUME Inv, depth > 0, Pop, frames[depth].pc \notin RtcRead,
         UNCHANGED <<imr, cached_irq_mask, boot, away, races>>
  PROVE  Masks' /\ Kept'
  <1>1. 1 \in Levels /\ (frames'[1] = frames[1] \/ (depth = 1 /\ frames'[1] = NoFrame))
    BY PopFacts
  <1>2. frames'[1] = frames[1] \/ {frames[1].pc, frames'[1].pc} \cap RtcRead = {}
    BY <1>1, NoFrameType
  <1> QED
    BY <1>2, MasksKept, KeptKept

\* The handlers that send their EOI and return.
LEMMA TickHandlerInv ==
  ASSUME Inv, NEW irq \in {PIT, RTC}, Running(irq, "entry"), isr' = send_eoi(irq), Pop,
         UNCHANGED <<irr, imr, cached_irq_mask, current, away, races, boot, codes, ticking>>,
         regC' \in {0, regC}, irq = RTC \/ regC' = regC, irq = PIT \/ regC' = 0,
         flag' \in {0, 1}
  PROVE  Inv'
  <1>0. /\ depth > 0 /\ depth \in OnStack /\ depth \in Nat
        /\ frames[depth].irq = irq /\ frames[depth].pc = "entry" /\ ~frames[depth].eoi
    BY DEF Running, Top, Inv, TypeOK, Stacked, FrameOK
  <1>2. Stacked' /\ Nesting'
    BY <1>0, PopInv
  <1>3. TypeOK'
    BY <1>0, PopFacts DEF Inv, TypeOK, send_eoi
  <1>4. \A j \in OnStack : j # depth /\ ~frames[j].eoi => frames[j].irq = KB /\ irq = PIT
    <2> SUFFICES ASSUME NEW j \in OnStack, j # depth, ~frames[j].eoi
                 PROVE  frames[j].irq = KB /\ irq = PIT
      OBVIOUS
    <2>1. frames[j].irq = KB
      BY <1>0 DEF Inv, Stacked, FrameOK, TypeOK, Frames
    <2> QED
      BY <1>0, <2>1 DEF Inv, Nesting
  <1>5. Serviced'
    <2>1. \A n \in Irqs : InService(n)' <=> InService(n) /\ n \notin {irq, OnMaster(irq)}
      <3>1. OnStack = OnStack' \cup {depth} /\ depth \notin OnStack' /\ \A k \in OnStack' : frames'[k] = frames[k]
        BY <1>0, PopFacts, Types
      <3> QED
        BY <1>0, <1>4, <3>1 DEF InService
    <2>2. \A n \in Irqs : n \in isr' <=> n \in isr /\ n \notin {irq, OnMaster(irq)}
      BY DEF send_eoi
    <2>3. isr' \subseteq Irqs
      BY DEF send_eoi, Inv, TypeOK
    <2> QED
      BY <2>1, <2>2, <2>3 DEF Serviced, Inv
  <1>6. Masks' /\ Kept'
    BY <1>0, PopMasks DEF RtcRead
  <1>7. CodesWait' /\ NoRequestLost'
    <2>1. OnStack = OnStack' \cup {depth} /\ \A k \in OnStack' : frames'[k] = frames[k]
      BY <1>0, PopFacts, Types
    <2> QED
      BY <1>0, <2>1, Types DEF Inv, CodesWait, NoRequestLost
  <1> QED
    BY <1>2, <1>3, <1>5, <1>6, <1>7 DEF Inv

\* A frame on top that goes on: its program counter, and its EOI once sent.
Goes(pc, eoi) ==
  /\ UNCHANGED depth
  /\ \/ frames' = [frames EXCEPT ![depth].pc = pc] /\ eoi = frames[depth].eoi
     \/ frames' = [frames EXCEPT ![depth].pc = pc, ![depth].eoi = eoi]

LEMMA TopFacts ==
  ASSUME Inv, depth > 0, NEW pc \in Pcs, NEW eoi \in BOOLEAN, Goes(pc, eoi)
  PROVE  /\ depth' = depth /\ depth \in Nat /\ depth \in Levels /\ depth \in OnStack
         /\ frames[depth] \in Frames /\ frames' \in [Levels -> Frames]
         /\ frames'[depth].irq = frames[depth].irq /\ frames'[depth].saved = 1
         /\ frames'[depth].pc = pc /\ frames'[depth].eoi = eoi
         /\ \A k \in Levels : k # depth => frames'[k] = frames[k]
  <1>1. /\ depth \in Nat /\ depth \in Levels /\ depth \in OnStack /\ frames \in [Levels -> Frames]
        /\ frames[depth].saved = 1
    BY DEF Inv, TypeOK, Stacked, FrameOK
  <1>2. frames[depth] \in Frames
    BY <1>1
  <1>3. /\ [frames[depth] EXCEPT !.pc = pc, !.eoi = eoi] \in Frames
        /\ [frames[depth] EXCEPT !.pc = pc] \in Frames
    BY <1>2 DEF Frames
  <1>4. frames' \in [Levels -> Frames]
    BY <1>1, <1>3 DEF Goes
  <1> QED
    BY <1>1, <1>2, <1>4 DEF Goes, Frames

\* Steps of the keyboard handler on top.
LEMMA TopInv ==
  ASSUME Inv, depth > 0, NEW pc \in Pcs, NEW eoi \in BOOLEAN, Goes(pc, eoi),
         frames[depth].irq = KB, UNCHANGED boot, iflag' \in {0, 1},
         \/ frames[depth].pc = "entry" /\ pc = "done"
         \/ frames[depth].pc = "done" /\ pc = "iret" /\ eoi
  PROVE  Stacked' /\ Nesting'
  <1>1. /\ depth' = depth /\ depth \in Nat /\ depth \in Levels /\ depth \in OnStack
        /\ frames'[depth].irq = frames[depth].irq /\ frames'[depth].saved = 1
        /\ frames'[depth].pc = pc /\ frames'[depth].eoi = eoi
        /\ \A k \in Levels : k # depth => frames'[k] = frames[k]
    BY TopFacts
  <1>2. \A k \in OnStack : FrameOK(k) /\ k \in Levels /\ frames[k].irq \in Devices \cup {SYS}
    BY DEF Inv, Stacked, TypeOK, Frames
  <1>3. ASSUME NEW k \in OnStack PROVE FrameOK(k)'
    <2>1. CASE k = depth
      BY <1>1, <1>2, <2>1 DEF FrameOK
    <2>2. CASE k # depth
      BY <1>1, <1>2, <2>2 DEF FrameOK
    <2> QED
      BY <2>1, <2>2
  <1>4. Stacked'
    BY <1>1, <1>3 DEF Inv, Stacked, TypeOK
  <1>5. Nesting'
    BY <1>1, <1>2 DEF Inv, Nesting, FrameOK
  <1> QED
    BY <1>4, <1>5

-----------------------------------------------------------------------------
(***************************************************************************)
(* The keyboard handler                                                    *)
(***************************************************************************)

\* No key's interrupt is below one that has not sent its last EOI.
LEMMA KeyOnTop ==
  ASSUME Inv, depth > 0, frames[depth].irq = KB, frames[depth].pc # "iret"
  PROVE  /\ depth \in Nat /\ depth \in OnStack
         /\ \A j \in OnStack : j # depth => /\ frames[j].eoi
                                            /\ frames[j].irq \in {KB, SYS}
                                            /\ frames[j].pc # "entry"
  <1>1. depth \in Nat /\ depth \in OnStack
    BY Types
  <1>2. ASSUME NEW j \in OnStack, j # depth
        PROVE  frames[j].eoi /\ frames[j].irq \in {KB, SYS} /\ frames[j].pc # "entry"
    <2>1. FrameOK(j) /\ frames[j].irq \in Devices \cup {SYS} /\ j < depth
      BY <1>1, <1>2, Types DEF Inv, Stacked
    <2>2. frames[j].eoi
      BY <1>1, <2>1 DEF Inv, Nesting
    <2> QED
      BY <1>2, <2>1, <2>2 DEF FrameOK, Calls, RtcRead
  <1> QED
    BY <1>1, <1>2

\* An EOI of the keyboard clears what its handler had in service, and nothing
\* else is.
LEMMA KeyEoi ==
  ASSUME Inv, depth > 0, frames[depth].irq = KB, frames[depth].pc # "iret"
  PROVE  send_eoi(KB) = {} /\ (~frames[depth].eoi => isr = {KB})
  <1>1. \A n \in Irqs : InService(n) <=> ~frames[depth].eoi /\ n = KB
    BY KeyOnTop DEF InService
  <1> QED
    BY <1>1 DEF send_eoi, Inv, Serviced

\* A code that was read leaves one request for the codes that wait.
LEMMA ReadCodeInv ==
  ASSUME Inv, Running(KB, "entry"), ReadCode
  PROVE  /\ codes' \in 0..MaxCodes /\ irr' \subseteq Devices
         /\ KB \in irr' <=> codes' > 0
         /\ RTC \in irr' <=> RTC \in irr
  <1>1. codes > 0 /\ KB \notin irr
    BY DEF Running, Top, Inv, CodesWait, TypeOK
  <1> QED
    BY <1>1 DEF ReadCode, Inv, TypeOK

LEMMA KeyStaysInv ==
  ASSUME Inv, Running(KB, "entry"), ReadCode, NEW eoi \in BOOLEAN, Goes("done", eoi),
         iflag' \in {0, 1}, isr' = IF eoi THEN send_eoi(KB) ELSE isr,
         UNCHANGED <<imr, cached_irq_mask, current, away, races, boot, regC, ticking, flag>>
  PROVE  Inv'
  <1>0. depth > 0 /\ frames[depth].irq = KB /\ frames[depth].pc = "entry" /\ "done" \in Pcs
    BY DEF Running, Top, Pcs
  <1>1. Stacked' /\ Nesting'
    BY <1>0, TopInv
  <1>2. TypeOK'
    BY <1>0, TopFacts, ReadCodeInv DEF Inv, TypeOK, send_eoi
  <1>3. Serviced'
    <2>1. \A n \in Irqs : InService(n)' <=> ~eoi /\ n = KB
      BY <1>0, KeyOnTop, TopFacts DEF InService
    <2>2. ~frames[depth].eoi
      BY <1>0, KeyOnTop DEF Inv, Stacked, FrameOK
    <2> QED
      BY <1>0, <2>1, <2>2, KeyEoi DEF Serviced
  <1>4. Masks' /\ Kept'
    <2>1. frames'[1] = frames[1] \/ {frames[1].pc, frames'[1].pc} \cap RtcRead = {}
      BY <1>0, TopFacts DEF RtcRead
    <2> QED
      BY <2>1, MasksKept, KeptKept
  <1>5. CodesWait'
    BY <1>0, KeyOnTop, TopFacts, ReadCodeInv DEF CodesWait
  <1>6. NoRequestLost'
    BY <1>0, KeyOnTop, TopFacts, ReadCodeInv DEF Inv, NoRequestLost
  <1> QED
    BY <1>1, <1>2, <1>3, <1>4, <1>5, <1>6 DEF Inv

\* What a key's handler interrupted may be left, and gone on with later.
LEMMA BelowOK ==
  ASSUME Inv, Running(KB, "entry"), Booted,
         NEW f, f = [frames EXCEPT ![depth] = NoFrame]
  PROVE  /\ StackOK(depth - 1, f) /\ f \in [Levels -> Frames] /\ depth - 1 \in 0..MaxDepth
         /\ frames[1].pc \notin RtcRead => f[1].pc \notin RtcRead
         /\ f[1] = frames[1] \/ {f[1].pc, frames[1].pc} \cap RtcRead = {}
  <1>0. /\ depth > 0 /\ frames[depth].irq = KB /\ frames[depth].pc = "entry"
        /\ depth \in Levels /\ depth \in Nat /\ 1 \in Levels /\ frames \in [Levels -> Frames]
    BY DEF Running, Top, Inv, TypeOK
  <1>1. /\ f \in [Levels -> Frames] /\ f[depth] = NoFrame
        /\ \A k \in Levels : k # depth => f[k] = frames[k]
    BY <1>0, NoFrameType
  <1>2. f[1] = frames[1] \/ {f[1].pc, frames[1].pc} \cap RtcRead = {}
    <2>1. CASE depth = 1
      BY <1>0, <1>1, <2>1, NoFrameType DEF RtcRead
    <2>2. CASE depth # 1
      BY <1>0, <1>1, <2>2
    <2> QED
      BY <2>1, <2>2
  <1>3. ASSUME NEW k \in Levels, k <= depth - 1
        PROVE  /\ f[k].saved = 1 /\ f[k].eoi /\ f[k].irq \in {KB, SYS}
               /\ f[k].irq = SYS => k = 1 /\ f[k].pc \in Calls /\ f[k].reg \subseteq {KB}
               /\ f[k].irq = KB => f[k].pc \in {"done", "iret"}
    <2>1. k \in OnStack /\ k # depth /\ f[k] = frames[k]
      BY <1>0, <1>1, <1>3
    <2>2. FrameOK(k) /\ frames[k].eoi /\ frames[k].irq \in {KB, SYS} /\ frames[k].pc # "entry"
      BY <1>0, <2>1, KeyOnTop DEF Inv, Stacked
    <2> QED
      BY <2>1, <2>2 DEF FrameOK
  <1>4. \A k \in Levels : k > depth - 1 => f[k] = NoFrame
    BY <1>0, <1>1 DEF Inv, Stacked
  <1>5. StackOK(depth - 1, f)
    BY <1>3, <1>4 DEF StackOK
  <1>6. depth - 1 \in 0..MaxDepth
    BY <1>0 DEF Inv, TypeOK
  <1> QED
    BY <1>1, <1>2, <1>5, <1>6

\* A stack that was left is a stack to go on with.
LEMMA ResumedInv ==
  ASSUME TypeOK', StackOK(depth, frames)', isr' = {}, iflag' = 1, Booted',
         KB \in irr' <=> codes' > 0, regC' = 1 => RTC \in irr'
  PROVE  Stacked' /\ Nesting' /\ Serviced' /\ CodesWait' /\ NoRequestLost'
  <1>1. /\ depth' \in 0..MaxDepth /\ frames' \in [Levels -> Frames] /\ codes' \in Nat
        /\ regC' \in {0, 1} /\ boot' = 10
    BY DEF TypeOK
  <1>2. \A k \in OnStack' : k \in Levels /\ k <= depth'
    BY <1>1
  <1>3. \A k \in OnStack' :
          /\ frames'[k].saved = 1 /\ frames'[k].eoi /\ frames'[k].irq \in {KB, SYS}
          /\ frames'[k].irq = SYS => k = 1 /\ frames'[k].pc \in Calls /\ frames'[k].reg \subseteq {KB}
          /\ frames'[k].irq = KB => frames'[k].pc \in {"done", "iret"}
    BY <1>2 DEF StackOK
  <1>4. \A k \in Levels : k > depth' => frames'[k] = NoFrame
    BY DEF StackOK
  <1>5. Stacked'
    BY <1>1, <1>3, <1>4 DEF Stacked, FrameOK
  <1>6. Nesting'
    BY <1>3 DEF Nesting
  <1>7. Serviced'
    BY <1>3 DEF Serviced, InService
  <1>8. CodesWait' /\ NoRequestLost'
    BY <1>1, <1>3 DEF CodesWait, NoRequestLost
  <1> QED
    BY <1>5, <1>6, <1>7, <1>8

LEMMA SwitchInv ==
  ASSUME Inv, Running(KB, "entry"), ReadCode, Booted, isr' = send_eoi(KB),
         NEW t \in Ttys, SwitchTo(t),
         UNCHANGED <<imr, cached_irq_mask, boot, regC, ticking, flag>>
  PROVE  Inv'
  <1> DEFINE f == [frames EXCEPT ![depth] = NoFrame]
             below == [depth |-> depth - 1, frames |-> f]
             kept == [away EXCEPT ![current] = below]
             Stacks == [depth : 0..MaxDepth, frames : [Levels -> Frames]]
  <1>1. /\ StackOK(depth - 1, f) /\ f \in [Levels -> Frames] /\ depth - 1 \in 0..MaxDepth
        /\ frames[1].pc \notin RtcRead => f[1].pc \notin RtcRead
        /\ f[1] = frames[1] \/ {f[1].pc, frames[1].pc} \cap RtcRead = {}
    BY BelowOK
  <1>2. /\ depth' = kept[t].depth /\ frames' = kept[t].frames
        /\ away' = [kept EXCEPT ![t] = NoStack] /\ current' = t /\ iflag' = 1
        /\ races' = races + IF t # current /\ frames[1].pc \in RtcRead THEN 1 ELSE 0
    BY DEF SwitchTo
  <1>3. races \in Nat /\ current \in Ttys /\ away \in [Ttys -> Stacks] /\ boot = 10 /\ 1 \in Levels
    BY DEF Inv, TypeOK
  <1>4. races' \in Nat /\ (races' = 0 => races = 0 /\ (t = current \/ frames[1].pc \notin RtcRead))
    BY <1>2, <1>3
  <1> HIDE DEF f
  <1>5. below \in Stacks /\ below.depth = depth - 1 /\ below.frames = f
    BY <1>1
  <1> HIDE DEF below
  <1>6. /\ kept \in [Ttys -> Stacks] /\ kept[current] = below
        /\ \A u \in Ttys : u # current => kept[u] = away[u]
    BY <1>3, <1>5
  <1> HIDE DEF kept
  <1>7. \A u \in Ttys : StackOK(kept[u].depth, kept[u].frames)
    BY <1>1, <1>5, <1>6 DEF Inv, Kept
  <1>8. races = 0 => \A u \in Ttys : u # current => kept[u].frames[1].pc \notin RtcRead
    BY <1>6 DEF Inv, Kept
  <1>9. /\ away' \in [Ttys -> Stacks] /\ away'[t] = NoStack
        /\ \A u \in Ttys : u # t => away'[u] = kept[u]
    BY <1>2, <1>6, NoStackOK
  <1>10. TypeOK'
    <2>1. kept[t] \in Stacks
      BY <1>6
    <2>2. depth' \in 0..MaxDepth /\ frames' \in [Levels -> Frames]
      BY <1>2, <2>1
    <2> QED
      BY <1>2, <1>4, <1>9, <2>2, ReadCodeInv DEF Inv, TypeOK, send_eoi
  <1>11. Kept'
    <2>1. ASSUME NEW u \in Ttys
          PROVE  /\ StackOK(away'[u].depth, away'[u].frames)
                 /\ races' = 0 => away'[u].frames[1].pc \notin RtcRead
      <3>1. CASE u = t
        BY <1>9, <3>1, NoStackOK
      <3>2. CASE u # t /\ u # current
        BY <1>4, <1>7, <1>8, <1>9, <3>2
      <3>3. CASE u # t /\ u = current
        BY <1>1, <1>4, <1>5, <1>6, <1>7, <1>9, <3>3
      <3> QED
        BY <3>1, <3>2, <3>3
    <2> QED
      BY <2>1 DEF Kept, StackOK
  <1>12. StackOK(depth, frames)'
    BY <1>2, <1>7 DEF StackOK
  <1>13. isr' = {} /\ (regC' = 1 => RTC \in irr') /\ (KB \in irr' <=> codes' > 0)
    <2>1. depth > 0 /\ frames[depth].irq = KB /\ frames[depth].pc = "entry"
      BY DEF Running, Top
    <2>2. regC = 1 => RTC \in irr
      BY <2>1, KeyOnTop DEF Inv, NoRequestLost
    <2> QED
      BY <2>1, <2>2, KeyEoi, ReadCodeInv
  <1>14. Stacked' /\ Nesting' /\ Serviced' /\ CodesWait' /\ NoRequestLost'
    BY <1>2, <1>3, <1>10, <1>12, <1>13, ResumedInv
  <1>15. Masks'
    <2>1. CASE races' = 0
      <3>1. races' = races /\ races = 0
        BY <1>4, <2>1
      <3>2. frames'[1] = frames[1] \/ {frames[1].pc, frames'[1].pc} \cap RtcRead = {}
        <4>1. CASE t = current
          BY <1>1, <1>2, <1>5, <1>6, <4>1
        <4>2. CASE t # current
          BY <1>2, <1>4, <1>8, <2>1, <4>2
        <4> QED
          BY <4>1, <4>2
      <3> QED
        BY <3>1, <3>2, MasksKept
    <2>2. CASE races' # 0
      BY <1>3, <2>2 DEF Inv, Masks
    <2> QED
      BY <2>1, <2>2
  <1> QED
    BY <1>10, <1>11, <1>14, <1>15 DEF Inv

LEMMA KeySwitchInv ==
  ASSUME Inv, KeySwitch
  PROVE  Inv'
  <1>0. /\ depth > 0 /\ frames[depth].irq = KB /\ frames[depth].pc = "entry"
        /\ Running(KB, "entry") /\ ReadCode /\ Booted /\ isr' = send_eoi(KB)
        /\ UNCHANGED <<imr, cached_irq_mask, boot, regC, ticking, flag>>
    BY DEF KeySwitch, Running, Top
  <1>1. CASE \E t \in Ttys : SwitchTo(t)
    BY <1>0, <1>1, SwitchInv
  <1>2. CASE Goes("done", TRUE) /\ iflag' = 1 /\ UNCHANGED <<current, away, races>>
    BY <1>0, <1>2, KeyStaysInv
  <1> QED
    BY <1>1, <1>2 DEF KeySwitch, Goes, programs

LEMMA KeyDoneInv ==
  ASSUME Inv, KeyDone
  PROVE  Inv'
  <1>0. /\ depth > 0 /\ frames[depth].irq = KB /\ frames[depth].pc = "done"
        /\ Goes("iret", TRUE) /\ "iret" \in Pcs /\ isr' = send_eoi(KB)
        /\ UNCHANGED <<irr, imr, cached_irq_mask, iflag, current, away, races, boot, codes, regC,
                        ticking, flag>>
    BY DEF KeyDone, Running, Top, Pcs, Goes, devices, programs
  <1>a. iflag' \in {0, 1} /\ TRUE \in BOOLEAN
    BY <1>0 DEF Inv, TypeOK
  <1>b. /\ depth' = depth /\ frames' \in [Levels -> Frames]
        /\ frames'[depth].irq = KB /\ frames'[depth].pc = "iret" /\ frames'[depth].eoi
        /\ \A k \in Levels : k # depth => frames'[k] = frames[k]
        /\ \A k \in OnStack : k \in Levels
    <2>1. \A k \in OnStack : k \in Levels
      BY DEF Inv, TypeOK
    <2> QED
      BY <1>0, <1>a, <2>1, TopFacts
  <1>1. Stacked' /\ Nesting'
    <2>1. PICK eoi \in BOOLEAN : eoi = TRUE
      OBVIOUS
    <2>2. Goes("iret", eoi)
      BY <1>0, <2>1
    <2>3. /\ depth > 0 /\ "iret" \in Pcs /\ boot' = boot /\ frames[depth].irq = KB
          /\ \/ frames[depth].pc = "entry" /\ "iret" = "done"
             \/ frames[depth].pc = "done" /\ "iret" = "iret" /\ eoi
      BY <1>0, <2>1
    <2> QED
      BY <1>a, <2>2, <2>3, TopInv, Zenon
  <1>2. TypeOK'
    BY <1>0, <1>b DEF Inv, TypeOK, send_eoi
  <1>3. Serviced'
    <2>1. \A n \in Irqs : ~InService(n)'
      BY <1>0, <1>b, KeyOnTop DEF InService
    <2> QED
      BY <1>0, <2>1, KeyEoi DEF Serviced
  <1>4. Masks' /\ Kept'
    <2>1. frames'[1] = frames[1] \/ {frames[1].pc, frames'[1].pc} \cap RtcRead = {}
      BY <1>0, <1>b DEF RtcRead
    <2> QED
      BY <1>0, <2>1, MasksKept, KeptKept
  <1>5. CodesWait' /\ NoRequestLost'
    BY <1>0, <1>b, KeyOnTop DEF Inv, CodesWait, NoRequestLost
  <1> QED
    BY <1>1, <1>2, <1>3, <1>4, <1>5 DEF Inv

\* A frame that has sent its EOI, or never has one to send, returns.
LEMMA ReturnInv ==
  ASSUME Inv, depth > 0, Pop, frames[depth].eoi, frames[depth].pc \notin RtcRead,
         ~(frames[depth].irq = KB /\ frames[depth].pc = "entry"), frames[depth].irq # RTC,
         UNCHANGED <<irr, isr, imr, cached_irq_mask, current, away, races, boot, codes, regC,
                     ticking, flag>>
  PROVE  Inv'
  <1>1. Stacked' /\ Nesting'
    BY PopInv
  <1>2. TypeOK'
    BY PopFacts DEF Inv, TypeOK
  <1>3. Serviced'
    <2>1. OnStack = OnStack' \cup {depth} /\ \A k \in OnStack' : frames'[k] = frames[k]
      BY PopFacts, Types
    <2>2. \A n \in Irqs : InService(n)' <=> InService(n)
      BY <2>1 DEF InService
    <2> QED
      BY <2>2 DEF Serviced, Inv
  <1>4. Masks' /\ Kept'
    BY PopMasks
  <1>5. CodesWait' /\ NoRequestLost'
    <2>1. OnStack = OnStack' \cup {depth} /\ \A k \in OnStack' : frames'[k] = frames[k]
      BY PopFacts, Types
    <2> QED
      BY <2>1, Types DEF Inv, CodesWait, NoRequestLost
  <1> QED
    BY <1>1, <1>2, <1>3, <1>4, <1>5 DEF Inv

-----------------------------------------------------------------------------
(***************************************************************************)
(* The system calls and the boot                                           *)
(***************************************************************************)

\* A system call that is on top is alone: nothing is in service.
LEMMA SysAlone ==
  ASSUME Inv, depth > 0, frames[depth].irq = SYS
  PROVE  depth = 1 /\ OnStack = {1} /\ frames[1].eoi /\ isr = {} /\ Booted
  <1>0. depth \in OnStack
    BY Types
  <1>1. depth = 1 /\ OnStack = {1} /\ frames[1].eoi /\ Booted
    BY <1>0 DEF Inv, Stacked, FrameOK
  <1>2. \A n \in Irqs : ~InService(n)
    BY <1>1 DEF InService
  <1> QED
    BY <1>1, <1>2 DEF Inv, Serviced

LEMMA SysCallInv ==
  ASSUME Inv, NEW number, SysCall(number)
  PROVE  Inv'
  <1>0. /\ depth = 0 /\ OnStack = {} /\ boot = 10 /\ iflag = 1 /\ frames[1] = NoFrame /\ 1 \in Levels
        /\ UNCHANGED <<irr, isr, imr, cached_irq_mask, current, away, races, boot, codes, regC,
                        ticking, flag>>
    BY DEF SysCall, pic, devices, programs, Inv, Stacked
  <1>1. PICK pc \in {"cli", "load", "rate", "finish"} :
          /\ Push([irq |-> SYS, pc |-> pc, eoi |-> TRUE, saved |-> iflag, reg |-> {}])
          /\ iflag' = IF pc = "cli" THEN 0 ELSE iflag
    BY DEF SysCall, Entries
  <1> DEFINE top == [irq |-> SYS, pc |-> pc, eoi |-> TRUE, saved |-> 1, reg |-> {}]
  <1>2. Push(top)
    BY <1>0, <1>1
  <1>3. top \in Frames /\ top.irq = SYS /\ top.pc = pc /\ top.eoi /\ top.saved = 1 /\ top.reg = {}
    BY DEF Frames, Pcs, RtcRead
  <1> HIDE DEF top
  <1>4. depth' = 1 /\ OnStack' = {1} /\ frames' = [frames EXCEPT ![1] = top]
    BY <1>0, <1>2 DEF Push
  <1>5. frames' \in [Levels -> Frames] /\ frames'[1] = top /\ \A k \in Levels : k # 1 => frames'[k] = frames[k]
    BY <1>0, <1>3, <1>4 DEF Inv, TypeOK
  <1>6. TypeOK'
    BY <1>0, <1>1, <1>4, <1>5 DEF Inv, TypeOK
  <1>7. Stacked' /\ Nesting'
    <2>1. pc \in Calls
      BY DEF Calls, RtcRead
    <2> QED
      BY <1>0, <1>1, <1>3, <1>4, <1>5, <2>1 DEF Inv, Stacked, Nesting, FrameOK
  <1>8. Serviced'
    BY <1>0, <1>3, <1>4, <1>5 DEF Inv, Serviced, InService
  <1>9. Masks'
    <2>1. Alone(frames[1]) => Alone(frames[1])'
      BY <1>0, <1>3, <1>5, NoFrameType DEF Alone, Cached, Masked
    <2> QED
      BY <1>0, <2>1 DEF Inv, Masks
  <1>10. CodesWait' /\ NoRequestLost' /\ Kept'
    BY <1>0, <1>3, <1>4, <1>5, KeptKept DEF Inv, CodesWait, NoRequestLost
  <1> QED
    BY <1>6, <1>7, <1>8, <1>9, <1>10 DEF Inv

\* The call on top goes on to pc.
Moves(pc, reg) ==
  /\ UNCHANGED depth
  /\ \/ frames' = [frames EXCEPT ![depth].pc = pc] /\ reg = frames[depth].reg
     \/ frames' = [frames EXCEPT ![depth].pc = pc, ![depth].reg = reg]

LEMMA MovesFacts ==
  ASSUME Inv, depth > 0, frames[depth].irq = SYS, NEW pc \in Pcs, NEW reg \in SUBSET Irqs,
         Moves(pc, reg)
  PROVE  /\ depth' = 1 /\ depth = 1 /\ 1 \in Levels /\ frames' \in [Levels -> Frames]
         /\ frames'[1].irq = SYS /\ frames'[1].saved = 1 /\ frames'[1].eoi
         /\ frames'[1].pc = pc /\ frames'[1].reg = reg
         /\ \A k \in Levels : k # 1 => frames'[k] = frames[k]
  <1>1. /\ depth = 1 /\ 1 \in Levels /\ frames \in [Levels -> Frames]
        /\ frames[1].saved = 1 /\ frames[1].eoi /\ frames[1].irq = SYS
    BY SysAlone DEF Inv, TypeOK, Stacked, FrameOK
  <1>2. frames[1] \in Frames
    BY <1>1
  <1>3. /\ [frames[1] EXCEPT !.pc = pc, !.reg = reg] \in Frames
        /\ [frames[1] EXCEPT !.pc = pc] \in Frames
    BY <1>2 DEF Frames
  <1>4. frames' \in [Levels -> Frames]
    BY <1>1, <1>3 DEF Moves
  <1> QED
    BY <1>1, <1>2, <1>4 DEF Moves, Frames

\* A step inside a system call.
LEMMA SysStepInv ==
  ASSUME Inv, depth > 0, frames[depth].irq = SYS, NEW pc \in Calls, NEW reg \in SUBSET {KB},
         Moves(pc, reg), flag' \in {0, 1}, ticking' \in BOOLEAN,
         cached_irq_mask' \subseteq {KB}, imr' \subseteq {KB},
         races = 0 => Alone(frames[1])',
         UNCHANGED <<irr, isr, iflag, current, away, races, boot, codes, regC>>
  PROVE  Inv'
  <1>0. depth = 1 /\ OnStack = {1} /\ frames[1].eoi /\ isr = {} /\ boot = 10
    BY SysAlone
  <1>a. pc \in Pcs /\ reg \in SUBSET Irqs
    BY DEF Calls, Pcs
  <1>b. /\ depth' = 1 /\ 1 \in Levels /\ frames' \in [Levels -> Frames]
        /\ frames'[1].irq = SYS /\ frames'[1].saved = 1 /\ frames'[1].eoi
        /\ frames'[1].pc = pc /\ frames'[1].reg = reg
        /\ \A k \in Levels : k # 1 => frames'[k] = frames[k]
    BY <1>a, MovesFacts
  <1>c. OnStack' = {1}
    BY <1>b
  <1>1. Stacked' /\ Nesting'
    <2>1. FrameOK(1)'
      BY <1>0, <1>b DEF FrameOK
    <2>2. \A k \in Levels : k > depth' => frames'[k] = NoFrame
      BY <1>0, <1>b DEF Inv, Stacked
    <2> QED
      BY <1>0, <1>b, <1>c, <2>1, <2>2 DEF Stacked, Nesting
  <1>2. TypeOK'
    BY <1>0, <1>b DEF Inv, TypeOK
  <1>3. Serviced'
    BY <1>0, <1>b DEF Serviced, InService
  <1>4. Masks' /\ Kept'
    BY <1>0, KeptKept DEF Masks
  <1>5. CodesWait' /\ NoRequestLost'
    BY <1>0, <1>b DEF Inv, CodesWait, NoRequestLost
  <1> QED
    BY <1>1, <1>2, <1>3, <1>4, <1>5 DEF Inv

\* Sending the keyboard's bit leaves it in the controller's mask and no other.
LEMMA WriteKeyboard ==
  ASSUME imr \subseteq {KB}, NEW mask \in SUBSET {KB}, WriteMask(KB, mask)
  PROVE  imr' = mask
  BY DEF WriteMask

LEMMA SysInv ==
  ASSUME Inv, sys_call
  PROVE  Inv'
  <1> USE DEF Alone, Cached, Masked
  <1>0. depth > 0 /\ frames[depth].irq = SYS
    BY DEF sys_call, SysClosed, RtcRate, rtc_read, disable_irq, Spin, enable_irq, Step, Load,
           StoreMask, SendMask, SysFinish, Running, Top
  <1>1. /\ depth = 1 /\ OnStack = {1} /\ isr = {} /\ boot = 10
        /\ cached_irq_mask \subseteq {KB} /\ imr \subseteq {KB}
        /\ races = 0 => Alone(frames[1])
        /\ frames[1].pc \in Calls /\ frames[1].reg \subseteq {KB}
    BY <1>0, SysAlone DEF Inv, Masks, Stacked, FrameOK
  <1>2. /\ codes \in 0..MaxCodes /\ irr \subseteq Devices /\ (KB \in irr <=> codes > 0)
        /\ (regC = 1 => RTC \in irr) /\ flag \in {0, 1} /\ ticking \in BOOLEAN
    BY <1>0, <1>1 DEF Inv, TypeOK, CodesWait, NoRequestLost
  <1>a. ASSUME NEW here, NEW there \in Calls, Step(here, there), flag' \in {0, 1}, ticking' \in BOOLEAN,
               cached_irq_mask' \subseteq {KB}, imr' \subseteq {KB},
               races = 0 =>
                 /\ cached_irq_mask' = IF there \in Cached THEN {KB} ELSE {}
                 /\ imr' = IF there \in Masked THEN {KB} ELSE {}
                 /\ there \notin {"store", "maskout", "enablestore", "unmaskout"}
        PROVE  Inv'
    <2>1. Moves(there, {}) /\ UNCHANGED <<irr, isr, iflag, current, away, races, boot, codes, regC>>
      BY <1>a DEF Step, Moves, programs
    <2>2. frames'[1].pc = there
      BY <1>0, <2>1, MovesFacts DEF Calls, Pcs
    <2>3. races = 0 => Alone(frames[1])'
      BY <1>a, <2>2
    <2> QED
      BY <1>0, <1>a, <2>1, <2>3, SysStepInv
  <1>b. ASSUME NEW here, NEW there \in {"store", "maskout", "enablestore", "unmaskout"},
               NEW mask \in SUBSET {KB}, Load(here, there, mask),
               races = 0 =>
                 /\ cached_irq_mask = IF there \in Cached THEN {KB} ELSE {}
                 /\ imr = IF there \in Masked THEN {KB} ELSE {}
                 /\ there \in {"store", "maskout"} => mask = {KB}
                 /\ there \in {"enablestore", "unmaskout"} => mask = {}
        PROVE  Inv'
    <2>0. there \in Calls /\ there \in Pcs
      BY DEF Calls, Pcs, RtcRead
    <2>1. /\ Moves(there, mask)
          /\ UNCHANGED <<irr, isr, imr, cached_irq_mask, iflag, current, away, races, boot, codes,
                          regC, ticking, flag>>
      BY <1>b DEF Load, Moves, programs, pic, devices
    <2>2. frames'[1].pc = there /\ frames'[1].reg = mask
      BY <1>0, <2>0, <2>1, MovesFacts
    <2>3. races = 0 => Alone(frames[1])'
      BY <1>b, <2>1, <2>2
    <2> QED
      BY <1>0, <1>1, <1>2, <2>0, <2>1, <2>3, SysStepInv
  <1>3. CASE SysClosed
    <2>1. CASE Leave
      <3>1. /\ depth' = 0 /\ iflag' = 1 /\ frames' = [k \in Levels |-> NoFrame]
            /\ UNCHANGED <<irr, isr, imr, cached_irq_mask, current, away, races, boot, codes, regC,
                            ticking, flag>>
            /\ frames[1].pc = "cli"
        BY <1>1, <1>3, <2>1 DEF SysClosed, Running, Top, pic, devices, programs, Leave
      <3>2. frames'[1] = NoFrame /\ 1 \in Levels
        BY <3>1
      <3>3. TypeOK'
        BY <3>1, NoFrameType DEF Inv, TypeOK
      <3>4. StackOK(depth, frames)'
        BY <3>1 DEF StackOK
      <3>5. {frames[1].pc, frames'[1].pc} \cap RtcRead = {}
        BY <3>1, <3>2, NoFrameType DEF RtcRead
      <3>6. Masks' /\ Kept'
        BY <3>1, <3>5, MasksKept, KeptKept
      <3> QED
        BY <1>1, <1>2, <3>1, <3>3, <3>4, <3>6, ResumedInv DEF Inv
    <2>2. CASE ~Leave
      <3>1. /\ Moves("finish", frames[depth].reg) /\ frames[depth].pc = "cli"
            /\ UNCHANGED <<irr, isr, imr, cached_irq_mask, iflag, current, away, races, boot, codes,
                            regC, ticking, flag>>
        BY <1>3, <2>2 DEF SysClosed, Running, Top, pic, devices, Moves, programs
      <3>2. frames'[1].pc = "finish" /\ "finish" \in Calls
        <4>1. "finish" \in Pcs /\ "finish" \in Calls /\ frames[depth].reg \in SUBSET Irqs
          BY <1>1 DEF Pcs, Calls
        <4> QED
          BY <1>0, <3>1, <4>1, MovesFacts
      <3>3. races = 0 => Alone(frames[1])'
        BY <1>1, <3>1, <3>2
      <3> QED
        BY <1>0, <1>1, <1>2, <3>1, <3>2, <3>3, SysStepInv
    <2> QED
      BY <2>1, <2>2
  <1>4. CASE RtcRate
    <2>1. /\ Step("rate", "finish") /\ frames[1].pc = "rate" /\ ticking' \in BOOLEAN /\ "finish" \in Calls
          /\ UNCHANGED <<imr, cached_irq_mask, flag>>
      BY <1>1, <1>4 DEF RtcRate, Step, Running, Top, Calls
    <2> QED
      BY <1>1, <1>2, <1>a, <2>1
  <1>5. CASE disable_irq
    <2>1. CASE Load("load", "store", cached_irq_mask \cup {KB})
      <3>1. frames[1].pc = "load"
        BY <1>1, <2>1 DEF Load, Running, Top
      <3> QED
        BY <1>1, <1>b, <2>1, <3>1
    <2>2. CASE StoreMask("store", "mask")
      <3>1. /\ Step("store", "mask") /\ frames[1].pc = "store" /\ cached_irq_mask' = frames[1].reg
            /\ "mask" \in Calls /\ UNCHANGED <<imr, ticking, flag>>
        BY <1>1, <2>2 DEF StoreMask, Step, Running, Top, Calls, RtcRead
      <3> QED
        BY <1>1, <1>2, <1>a, <3>1
    <2>3. CASE Load("mask", "maskout", cached_irq_mask)
      <3>1. frames[1].pc = "mask"
        BY <1>1, <2>3 DEF Load, Running, Top
      <3> QED
        BY <1>1, <1>b, <2>3, <3>1
    <2>4. CASE SendMask("maskout", "zero")
      <3>1. /\ Step("maskout", "zero") /\ frames[1].pc = "maskout" /\ WriteMask(KB, frames[1].reg)
            /\ "zero" \in Calls /\ UNCHANGED <<cached_irq_mask, ticking, flag>>
        BY <1>1, <2>4 DEF SendMask, Step, Running, Top, Calls, RtcRead
      <3>2. imr' = frames[1].reg
        BY <1>1, <3>1, WriteKeyboard
      <3> QED
        BY <1>1, <1>2, <1>a, <3>1, <3>2
    <2> QED
      BY <1>5, <2>1, <2>2, <2>3, <2>4 DEF disable_irq
  <1>6. CASE Spin
    <2>1. CASE Step("zero", "spin") /\ flag' = 0 /\ UNCHANGED <<imr, cached_irq_mask, ticking>>
      <3>1. frames[1].pc = "zero" /\ "spin" \in Calls
        BY <1>1, <2>1 DEF Step, Running, Top, Calls, RtcRead
      <3> QED
        BY <1>1, <1>2, <1>a, <2>1, <3>1
    <2>2. CASE Step("spin", "enable") /\ UNCHANGED <<imr, cached_irq_mask, ticking, flag>>
      <3>1. frames[1].pc = "spin" /\ "enable" \in Calls
        BY <1>1, <2>2 DEF Step, Running, Top, Calls, RtcRead
      <3> QED
        BY <1>1, <1>2, <1>a, <2>2, <3>1
    <2> QED
      BY <1>6, <2>1, <2>2 DEF Spin
  <1>7. CASE enable_irq
    <2>1. CASE Load("enable", "enablestore", cached_irq_mask \ {KB})
      <3>1. frames[1].pc = "enable" /\ cached_irq_mask \ {KB} = {}
        BY <1>1, <2>1 DEF Load, Running, Top
      <3> QED
        BY <1>1, <1>b, <2>1, <3>1
    <2>2. CASE StoreMask("enablestore", "unmask")
      <3>1. /\ Step("enablestore", "unmask") /\ frames[1].pc = "enablestore"
            /\ cached_irq_mask' = frames[1].reg
            /\ "unmask" \in Calls /\ UNCHANGED <<imr, ticking, flag>>
        BY <1>1, <2>2 DEF StoreMask, Step, Running, Top, Calls, RtcRead
      <3> QED
        BY <1>1, <1>2, <1>a, <3>1
    <2>3. CASE Load("unmask", "unmaskout", cached_irq_mask)
      <3>1. frames[1].pc = "unmask"
        BY <1>1, <2>3 DEF Load, Running, Top
      <3> QED
        BY <1>1, <1>b, <2>3, <3>1
    <2>4. CASE SendMask("unmaskout", "finish")
      <3>1. /\ Step("unmaskout", "finish") /\ frames[1].pc = "unmaskout" /\ WriteMask(KB, frames[1].reg)
            /\ "finish" \in Calls /\ UNCHANGED <<cached_irq_mask, ticking, flag>>
        BY <1>1, <2>4 DEF SendMask, Step, Running, Top, Calls, RtcRead
      <3>2. imr' = frames[1].reg
        BY <1>1, <3>1, WriteKeyboard
      <3> QED
        BY <1>1, <1>2, <1>a, <3>1, <3>2
    <2> QED
      BY <1>7, <2>1, <2>2, <2>3, <2>4 DEF enable_irq
  <1>8. CASE SysFinish
    <2>1. /\ Pop /\ frames[depth].pc = "finish"
          /\ UNCHANGED <<irr, isr, imr, cached_irq_mask, current, away, races, boot, codes, regC,
                          ticking, flag>>
      BY <1>8 DEF SysFinish, Running, Top, pic, devices, programs
    <2>2. frames[depth].pc \notin RtcRead
      BY <2>1 DEF RtcRead
    <2> QED
      BY <1>0, <1>1, <2>1, <2>2, SysAlone, ReturnInv
  <1> QED
    BY <1>3, <1>4, <1>5, <1>6, <1>7, <1>8 DEF sys_call, rtc_read

LEMMA BootInv ==
  ASSUME Inv, Boot
  PROVE  Inv'
  <1>0. /\ depth = 0 /\ OnStack = {} /\ boot \in 0..9 /\ boot' = boot + 1
        /\ UNCHANGED <<depth, frames, current, away, races, codes, regC, flag>>
    BY DEF Boot, stack, programs
  <1>a. frames[1] = NoFrame /\ 1 \in Levels
    BY <1>0 DEF Inv, Stacked
  <1>1. UNCHANGED <<irr, isr>> /\ iflag' = (IF boot' < 2 THEN 0 ELSE 1) /\ ticking' \in BOOLEAN
    <2>1. iflag = IF boot < 2 THEN 0 ELSE 1
      BY <1>0 DEF Inv, Stacked
    <2>2. \/ boot = 1 /\ ticking' = TRUE /\ iflag' = 1 /\ UNCHANGED <<irr, isr>>
          \/ boot # 1 /\ ticking' = ticking /\ iflag' = iflag /\ UNCHANGED <<irr, isr>>
      <3>1. CASE boot = 0 /\ i8259_init /\ UNCHANGED <<iflag, ticking>>
        BY <3>1 DEF i8259_init
      <3>2. CASE boot = 1 /\ iflag' = 1 /\ ticking' = TRUE /\ UNCHANGED pic
        BY <3>2 DEF pic
      <3>3. CASE \E i \in 1..4 : boot \in {2 * i, 2 * i + 1} /\ UNCHANGED <<irr, isr, iflag, ticking>>
        BY <3>3
      <3> QED
        BY <3>1, <3>2, <3>3 DEF Boot
    <2>3. ticking' \in BOOLEAN
      BY <2>2, Types
    <2> QED
      BY <1>0, <2>1, <2>2, <2>3
  <1>2. /\ boot < 2 => imr' = {} /\ cached_irq_mask' = cached_irq_mask
        /\ \A i \in 1..4 :
             /\ boot = 2 * i => /\ cached_irq_mask' = cached_irq_mask \ {Enabled(i)}
                                /\ imr' = imr
             /\ boot = 2 * i + 1 => WriteMask(Enabled(i), cached_irq_mask) /\ cached_irq_mask' = cached_irq_mask
    BY <1>0 DEF Boot, Inv, Masks, i8259_init, pic
  <1>3. Masks'
    <2>1. CASE boot < 2
      BY <1>0, <1>2, <2>1 DEF Inv, Masks
    <2>2. CASE boot \in {2, 3}
      <3>1. Enabled(1) = KB
        BY DEF Enabled
      <3> QED
        BY <1>0, <1>2, <2>2, <3>1 DEF Inv, Masks, WriteMask
    <2>3. CASE boot \in {4, 5}
      <3>1. Enabled(2) = CASCADE
        BY DEF Enabled
      <3> QED
        BY <1>0, <1>2, <2>3, <3>1 DEF Inv, Masks, WriteMask
    <2>4. CASE boot \in {6, 7}
      <3>1. Enabled(3) = RTC
        BY DEF Enabled
      <3> QED
        BY <1>0, <1>2, <2>4, <3>1 DEF Inv, Masks, WriteMask
    <2>5. CASE boot = 8
      <3>1. Enabled(4) = PIT
        BY DEF Enabled
      <3> QED
        BY <1>0, <1>2, <2>5, <3>1 DEF Inv, Masks, WriteMask
    <2>6. CASE boot = 9
      <3>1. Enabled(4) = PIT
        BY DEF Enabled
      <3>2. imr' = {} /\ cached_irq_mask' = {}
        BY <1>0, <1>2, <2>6, <3>1 DEF Inv, Masks, WriteMask
      <3>3. Alone(frames[1])'
        BY <1>0, <1>a, <3>2, NoFrameType DEF Alone, Cached, Masked
      <3> QED
        BY <1>0, <2>6, <3>2, <3>3 DEF Masks
    <2> QED
      BY <1>0, <2>1, <2>2, <2>3, <2>4, <2>5, <2>6
  <1>4. TypeOK'
    <2>1. imr' \subseteq Irqs /\ cached_irq_mask' \subseteq Irqs
      BY <1>0, <1>3 DEF Masks
    <2> QED
      BY <1>0, <1>1, <2>1 DEF Inv, TypeOK
  <1>5. Stacked' /\ Nesting' /\ CodesWait' /\ NoRequestLost'
    BY <1>0, <1>1 DEF Inv, Stacked, Nesting, CodesWait, NoRequestLost
  <1>6. Serviced'
    BY <1>0, <1>1 DEF Inv, Serviced, InService
  <1>7. Kept'
    BY <1>0 DEF Inv, Kept, StackOK
  <1> QED
    BY <1>3, <1>4, <1>5, <1>6, <1>7 DEF Inv

-----------------------------------------------------------------------------
LEMMA HandlerInv ==
  ASSUME Inv, Handler
  PROVE  Inv'
  <1>1. CASE pit_handler
    BY <1>1, TickHandlerInv DEF pit_handler, devices, programs, Inv, TypeOK
  <1>2. CASE rtc_interrupt_handler
    BY <1>2, TickHandlerInv DEF rtc_interrupt_handler, programs
  <1>3. CASE Key
    <2>1. Goes("done", FALSE)
      BY <1>3 DEF Key, Running, Top, Goes, Inv, Stacked, FrameOK, TypeOK
    <2> QED
      BY <1>3, <2>1, KeyStaysInv DEF Key, programs
  <1>4. CASE KeySwitch
    BY <1>4, KeySwitchInv
  <1>5. CASE KeyDone
    BY <1>5, KeyDoneInv
  <1>6. CASE KeyReturn
    <2>1. /\ depth > 0 /\ frames[depth].irq = KB /\ frames[depth].pc = "iret" /\ Pop
          /\ UNCHANGED <<irr, isr, imr, cached_irq_mask, current, away, races, boot, codes, regC,
                          ticking, flag>>
      BY <1>6 DEF KeyReturn, Running, Top, pic, devices, programs
    <2>2. frames[depth].eoi /\ frames[depth].pc \notin RtcRead
      BY <2>1 DEF Inv, TypeOK, Stacked, FrameOK, RtcRead
    <2> QED
      BY <2>1, <2>2, ReturnInv
  <1> QED
    BY <1>1, <1>2, <1>3, <1>4, <1>5, <1>6 DEF Handler, kb_interrupt

LEMMA NextInv == Inv /\ [Next]_vars => Inv'
  <1> SUFFICES ASSUME Inv, [Next]_vars PROVE Inv'
    OBVIOUS
  <1>1. CASE UNCHANGED vars
    <2>1. UNCHANGED <<irr, isr, imr, cached_irq_mask, iflag, depth, frames, current, away, races,
                      boot, codes, regC, ticking, flag>>
      BY <1>1 DEF vars, pic, stack, devices, programs
    <2>2. Masks' /\ Kept'
      BY <2>1, MasksKept, KeptKept
    <2> QED
      BY <2>1, <2>2 DEF Inv, TypeOK, Stacked, FrameOK, Nesting, Serviced, InService, CodesWait,
                        NoRequestLost
  <1>2. CASE Next
    BY <1>2, BootInv, QuietInv, InterruptInv, HandlerInv, SysCallInv, SysInv DEF Next
  <1> QED
    BY <1>1, <1>2

\* The inductive invariant.
THEOREM Invariance == Spec => []Inv
  BY InitInv, NextInv, PTL DEF Spec

\* The state keeps its type, for every depth of the stack.
THEOREM TypeCorrect == Spec => []TypeOK
  <1>1. Inv => TypeOK
    BY DEF Inv
  <1> QED
    BY <1>1, Invariance, PTL

\* No line stays in service without a handler that will send its EOI
\* (i8259.c:100-107, idt.c:177-195).
THEOREM EveryEoiIsSent == Spec => []InServiceOwned
  <1>1. Inv => InServiceOwned
    <2> SUFFICES ASSUME Inv PROVE isr = UNION {{frames[k].irq, OnMaster(frames[k].irq)} : k \in Unfinished}
      BY DEF InServiceOwned
    <2>1. \A k \in OnStack : frames[k].irq \in Devices \/ frames[k].eoi
      BY DEF Inv, TypeOK, Stacked, FrameOK, Frames
    <2> QED
      BY <2>1 DEF Inv, Serviced, InService, Unfinished
  <1> QED
    BY <1>1, Invariance, PTL

\* Handlers that have not sent their EOI nest by priority, although
\* terminal_write turns interrupts on inside one (terminal.c:73, idt.c:191-195).
THEOREM HandlersNestByPriority == Spec => []NestsByPriority
  <1>1. Inv => NestsByPriority
    <2> SUFFICES ASSUME Inv, NEW j \in Unfinished, NEW k \in Unfinished, j < k
                 PROVE  OnMaster(frames[k].irq) < OnMaster(frames[j].irq)
      BY DEF NestsByPriority
    <2>1. frames[j].irq = KB
      BY DEF Unfinished, Inv, TypeOK, Stacked, FrameOK, Frames
    <2>2. frames[k].irq = PIT
      BY DEF Unfinished, Inv, TypeOK, Stacked, FrameOK, Frames, Nesting
    <2> QED
      BY <2>1, <2>2
  <1> QED
    BY <1>1, Invariance, PTL

\* No interrupt of the keyboard or the RTC is lost (idt.c:131-132, rtc.c:37-39).
THEOREM NoRequestIsLost == Spec => []NoRequestLost
  <1>1. Inv => NoRequestLost
    BY DEF Inv
  <1> QED
    BY <1>1, Invariance, PTL

\* Once booted only the keyboard is ever masked, and programs run with
\* interrupts on; until a switch falls inside rtc_read, the masks the kernel
\* remembers are those of the controllers whenever nobody is about to send
\* them, and programs run with every line open (i8259.c:60-93, rtc.c:124-128).
THEOREM MasksAlwaysAgree == Spec => []MasksAgree
  <1>1. Inv => MasksAgree
    <2> SUFFICES ASSUME Inv PROVE MasksAgree
      OBVIOUS
    <2>0. boot \in 0..10 /\ races \in Nat /\ 1 \in Levels
      BY DEF Inv, TypeOK
    <2>1. boot = 10 => imr \cup cached_irq_mask \subseteq {KB}
      BY DEF Inv, Masks
    <2>2. boot = 10 /\ depth = 0 => iflag = 1 /\ frames[1] = NoFrame
      BY <2>0 DEF Inv, Stacked
    <2>3. races = 0 /\ boot = 10 /\ depth = 0 => imr = {}
      BY <2>0, <2>2, NoFrameType DEF Inv, Masks, Alone, Masked
    <2>4. ASSUME races = 0, Sent
          PROVE  /\ {n \in imr : ~OnSlave(n)} = {n \in cached_irq_mask : ~OnSlave(n)}
                 /\ boot >= 8 => imr = cached_irq_mask
      <3>1. CASE boot < 10
        <4>1. boot \in {4, 6, 8}
          BY <2>0, <2>4, <3>1 DEF Sent
        <4> QED
          BY <4>1 DEF Inv, Masks
      <3>2. CASE boot = 10
        <4>1. frames[1].pc \notin {"mask", "maskout", "unmask", "unmaskout"}
          BY <2>0, <2>2, <2>4, <3>2, NoFrameType DEF Sent, Inv, TypeOK
        <4> QED
          BY <2>4, <3>2, <4>1 DEF Inv, Masks, Alone, Cached, Masked
      <3> QED
        BY <2>0, <3>1, <3>2
    <2> QED
      BY <2>1, <2>2, <2>3, <2>4 DEF MasksAgree
  <1> QED
    BY <1>1, Invariance, PTL

=============================================================================
