---------------------------- MODULE KeyboardProofs ---------------------------
(***************************************************************************)
(* Proof about Keyboard: no order of presses, releases and interrupts      *)
(* leaves a modifier stuck, for every number of keys held and of scan      *)
(* codes that wait.                                                        *)
(***************************************************************************)
EXTENDS Keyboard, TLAPS

Codes == [key : Keys \cup {"E0"}, release : BOOLEAN]
Groups == {Shifts, Alts, Ctrls}

\* A code that sets the flag of a group of keys, and one that clears it.
Presses(c, group) == c.key \in group /\ ~c.release
Releases(c, group) == c.key \in group /\ c.release

\* None of the codes cs from place k on clears the flag.
NoRelease(cs, group, k) == \A j \in k..Len(cs) : ~Releases(cs[j], group)

\* A flag that the codes cs still waiting will not clear, and a press among them
\* that none behind it clears, has a key of the group among those down.
Held(cs, keys, group, flag, excuse) ==
  /\ flag = 1 /\ NoRelease(cs, group, 1) => keys \cap group # {} \/ excuse
  /\ \A k \in 1..Len(cs) :
       Presses(cs[k], group) /\ NoRelease(cs, group, k) => keys \cap group # {}

Inv ==
  /\ codes \in Seq(Codes)
  /\ extended \in BOOLEAN
  /\ Held(codes, down, Shifts, shift_pressed, FALSE)
  /\ Held(codes, down, Alts, alt_pressed, FALSE)
  /\ Held(codes, down, Ctrls, ctrl_pressed, extended)

-----------------------------------------------------------------------------
(***************************************************************************)
(* The codes a key sends                                                   *)
(***************************************************************************)
\* Nothing but keys of its own sets or clears the flag of a group.
LEMMA GroupKeys ==
  ASSUME NEW group \in Groups
  PROVE  group \subseteq Keys /\ "E0" \notin group
BY DEF Groups, Shifts, Alts, Ctrls, Keys, FKeys, Extended

LEMMA CodeFields ==
  ASSUME NEW key \in Keys, NEW release \in BOOLEAN
  PROVE  /\ Prefix \in Codes /\ Prefix.key = "E0" /\ Prefix.release = FALSE
         /\ Code(key, release) \in Codes
         /\ Code(key, release).key = key /\ Code(key, release).release = release
BY DEF Prefix, Code, Codes

LEMMA SentCodes ==
  ASSUME NEW key \in Keys, NEW release \in BOOLEAN
  PROVE  /\ Sent(key, release) \in Seq(Codes)
         /\ Len(Sent(key, release)) \in 1..2
         /\ Sent(key, release)[Len(Sent(key, release))] = Code(key, release)
         /\ Len(Sent(key, release)) = 2 => Sent(key, release)[1] = Prefix
<1>1. Prefix \in Codes /\ Code(key, release) \in Codes
  BY CodeFields
<1>2. CASE key \in Extended
  <2>1. ASSUME NEW a \in Codes, NEW b \in Codes
        PROVE  /\ <<a>> \o <<b>> \in Seq(Codes) /\ Len(<<a>> \o <<b>>) = 2
               /\ (<<a>> \o <<b>>)[1] = a /\ (<<a>> \o <<b>>)[2] = b
    OBVIOUS
  <2>2. Sent(key, release) = <<Prefix>> \o <<Code(key, release)>>
    BY <1>2 DEF Sent
  <2> QED  BY <1>1, <2>1, <2>2
<1>3. CASE key \notin Extended
  <2>1. ASSUME NEW b \in Codes
        PROVE  <<>> \o <<b>> = <<b>>
    OBVIOUS
  <2>2. Sent(key, release) = <<>> \o <<Code(key, release)>>
    BY <1>3 DEF Sent
  <2>3. Sent(key, release) = <<Code(key, release)>>
    BY <1>1, <2>1, <2>2
  <2> QED  BY <1>1, <2>3
<1> QED  BY <1>2, <1>3

-----------------------------------------------------------------------------
(***************************************************************************)
(* What keeps a group in order                                             *)
(***************************************************************************)
\* Codes behind cs that end with a release of the group.
LEMMA AppendRelease ==
  ASSUME NEW cs \in Seq(Codes), NEW q \in Seq(Codes), Len(q) > 0, NEW keys,
         NEW group, NEW flag, NEW excuse, Releases(q[Len(q)], group)
  PROVE  Held(cs \o q, keys, group, flag, excuse)
<1> DEFINE all == cs \o q
<1>1. Len(all) \in Nat /\ Len(all) >= 1 /\ all[Len(all)] = q[Len(q)]
  OBVIOUS
<1>2. \A k \in 1..Len(all) : ~NoRelease(all, group, k)
  BY <1>1 DEF NoRelease
<1> HIDE DEF all
<1>3. 1 \in 1..Len(all)
  BY <1>1
<1>4. Held(all, keys, group, flag, excuse)
  BY <1>2, <1>3 DEF Held
<1> QED  BY <1>4 DEF all

\* Codes behind cs that have nothing to do with the group.
LEMMA AppendOther ==
  ASSUME NEW cs \in Seq(Codes), NEW q \in Seq(Codes), NEW keys, NEW keys2,
         NEW group, NEW flag, NEW excuse, Held(cs, keys, group, flag, excuse),
         keys2 \cap group = keys \cap group,
         \A j \in 1..Len(q) : q[j].key \notin group
  PROVE  Held(cs \o q, keys2, group, flag, excuse)
<1> DEFINE all == cs \o q
<1>1. /\ Len(all) = Len(cs) + Len(q) /\ Len(cs) \in Nat /\ Len(q) \in Nat
      /\ \A j \in 1..Len(cs) : all[j] = cs[j]
      /\ \A j \in (Len(cs) + 1)..Len(all) : all[j] = q[j - Len(cs)]
  OBVIOUS
<1> HIDE DEF all
<1>2. ASSUME NEW k \in Nat, NoRelease(all, group, k), k >= 1
      PROVE  NoRelease(cs, group, k)
  BY <1>1, <1>2 DEF NoRelease
<1>3. ASSUME NEW k \in 1..Len(all), Presses(all[k], group)
      PROVE  k \in 1..Len(cs)
  <2>1. ASSUME k > Len(cs) PROVE FALSE
    <3>1. k - Len(cs) \in 1..Len(q) /\ k \in (Len(cs) + 1)..Len(all)
      BY <1>1, <2>1
    <3> QED  BY <1>1, <1>3, <3>1 DEF Presses
  <2> QED  BY <1>1, <2>1
<1>4. Held(all, keys2, group, flag, excuse)
  <2>1. flag = 1 /\ NoRelease(all, group, 1) => keys2 \cap group # {} \/ excuse
    BY <1>2 DEF Held
  <2>2. ASSUME NEW k \in 1..Len(all), Presses(all[k], group), NoRelease(all, group, k)
        PROVE  keys2 \cap group # {}
    <3>1. k \in 1..Len(cs) /\ all[k] = cs[k] /\ k \in Nat /\ k >= 1
      BY <1>1, <1>3, <2>2
    <3> QED  BY <1>2, <2>2, <3>1 DEF Held
  <2> QED  BY <2>1, <2>2 DEF Held
<1> QED  BY <1>4 DEF all

\* The first code handled: the flag follows it.
LEMMA HandleOne ==
  ASSUME NEW cs \in Seq(Codes), cs # <<>>, NEW keys, NEW group, NEW flag, NEW flag2,
         NEW excuse, NEW excuse2, Held(cs, keys, group, flag, excuse),
         Releases(Head(cs), group) => flag2 # 1,
         ~Releases(Head(cs), group) /\ ~Presses(Head(cs), group) /\ flag2 = 1
           => excuse2 \/ (flag = 1 /\ (excuse => excuse2))
  PROVE  Held(Tail(cs), keys, group, flag2, excuse2)
<1> DEFINE rest == Tail(cs)
<1>1. /\ Len(cs) \in Nat /\ Len(cs) >= 1 /\ Len(rest) = Len(cs) - 1 /\ Head(cs) = cs[1]
      /\ \A j \in 1..Len(rest) : rest[j] = cs[j + 1]
  OBVIOUS
<1> HIDE DEF rest
<1>2. ASSUME NEW k \in 1..(Len(rest) + 1), NoRelease(rest, group, k)
      PROVE  NoRelease(cs, group, k + 1)
  <2>1. ASSUME NEW j \in (k + 1)..Len(cs) PROVE ~Releases(cs[j], group)
    <3>1. j - 1 \in k..Len(rest) /\ j - 1 \in 1..Len(rest) /\ rest[j - 1] = cs[j]
      BY <1>1
    <3> QED  BY <1>2, <3>1 DEF NoRelease
  <2> QED  BY <2>1 DEF NoRelease
<1>3. ASSUME NoRelease(rest, group, 1), ~Releases(cs[1], group)
      PROVE  NoRelease(cs, group, 1)
  <2>1. NoRelease(cs, group, 2)
    BY <1>1, <1>2, <1>3
  <2> QED  BY <1>1, <1>3, <2>1 DEF NoRelease
<1>4. ASSUME flag2 = 1, NoRelease(rest, group, 1)
      PROVE  keys \cap group # {} \/ excuse2
  <2>1. NoRelease(cs, group, 1) /\ 1 \in 1..Len(cs)
    BY <1>1, <1>3, <1>4
  <2>2. CASE Presses(cs[1], group)
    BY <2>1, <2>2 DEF Held
  <2>3. CASE ~Presses(cs[1], group)
    BY <1>1, <1>4, <2>1, <2>3 DEF Held
  <2> QED  BY <2>2, <2>3
<1>5. ASSUME NEW k \in 1..Len(rest), Presses(rest[k], group), NoRelease(rest, group, k)
      PROVE  keys \cap group # {}
  <2>1. k \in 1..(Len(rest) + 1) /\ k + 1 \in 1..Len(cs) /\ rest[k] = cs[k + 1]
    BY <1>1
  <2> QED  BY <1>2, <1>5, <2>1 DEF Held
<1>6. Held(rest, keys, group, flag2, excuse2)
  BY <1>4, <1>5 DEF Held
<1> QED  BY <1>6 DEF rest

-----------------------------------------------------------------------------
(***************************************************************************)
(* The steps                                                               *)
(***************************************************************************)
LEMMA InitInv == Init => Inv
<1> SUFFICES ASSUME Init PROVE Inv
  OBVIOUS
<1>1. extended \in BOOLEAN
  BY Zenon DEF Init
<1>2. codes \in Seq(Codes)
  BY DEF Init
<1>3. ASSUME NEW group, NEW excuse PROVE Held(codes, down, group, 0, excuse)
  BY DEF Init, Held
<1> QED  BY <1>1, <1>2, <1>3 DEF Init, Inv

\* A key pressed or released.
LEMMA KeyHeld ==
  ASSUME Inv, NEW key \in Keys, NEW release \in BOOLEAN, NEW keys, NEW group \in Groups,
         keys = IF release THEN down \ {key} ELSE down \cup {key},
         NEW flag, NEW excuse, Held(codes, down, group, flag, excuse)
  PROVE  Held(codes \o Sent(key, release), keys, group, flag, excuse)
<1> DEFINE q == Sent(key, release)
<1>1. /\ q \in Seq(Codes) /\ Len(q) \in 1..2 /\ q[Len(q)] = Code(key, release)
      /\ Len(q) = 2 => q[1] = Prefix
  BY SentCodes
<1>2. Code(key, release).key = key /\ Code(key, release).release = release
  BY CodeFields
<1>3. codes \in Seq(Codes)
  BY DEF Inv
<1> HIDE DEF q
<1>4. CASE key \in group /\ release
  <2>1. Releases(q[Len(q)], group)
    BY <1>1, <1>2, <1>4 DEF Releases
  <2>2. Held(codes \o q, keys, group, flag, excuse)
    BY <1>1, <1>3, <2>1, AppendRelease
  <2> QED  BY <2>2 DEF q
<1>5. CASE key \in group /\ ~release
  <2>1. keys \cap group # {}
    BY <1>5
  <2>2. Held(codes \o q, keys, group, flag, excuse)
    BY <2>1 DEF Held
  <2> QED  BY <2>2 DEF q
<1>6. CASE key \notin group
  <2>1. keys \cap group = down \cap group
    BY <1>6
  <2>2. \A j \in 1..Len(q) : q[j].key \notin group
    <3>1. Prefix.key = "E0" /\ "E0" \notin group
      BY CodeFields, GroupKeys
    <3>2. ASSUME NEW j \in 1..Len(q) PROVE j = Len(q) \/ (Len(q) = 2 /\ j = 1)
      BY <1>1
    <3> QED  BY <1>1, <1>2, <1>6, <3>1, <3>2
  <2>3. Held(codes \o q, keys, group, flag, excuse)
    BY <1>1, <1>3, <2>1, <2>2, AppendOther
  <2> QED  BY <2>3 DEF q
<1> QED  BY <1>4, <1>5, <1>6

LEMMA PressInv ==
  ASSUME Inv, NEW key \in Keys, Press(key)
  PROVE  Inv'
<1>1. codes' = codes \o Sent(key, FALSE) /\ down' = down \cup {key}
  BY DEF Press
<1>2. UNCHANGED <<shift_pressed, alt_pressed, ctrl_pressed, extended>>
  BY DEF Press, flags
<1>3. codes' \in Seq(Codes)
  <2>1. Sent(key, FALSE) \in Seq(Codes) /\ codes \in Seq(Codes)
    BY SentCodes DEF Inv
  <2>2. ASSUME NEW x \in Seq(Codes), NEW y \in Seq(Codes) PROVE x \o y \in Seq(Codes)
    OBVIOUS
  <2>3. codes \o Sent(key, FALSE) \in Seq(Codes)
    BY <2>1, <2>2, Zenon
  <2> QED  BY <1>1, <2>3, Zenon
<1>4. ASSUME NEW group \in Groups, NEW flag, NEW excuse,
             Held(codes, down, group, flag, excuse)
      PROVE  Held(codes', down', group, flag, excuse)
  BY <1>1, <1>4, KeyHeld
<1> QED  BY <1>2, <1>3, <1>4 DEF Inv, Groups

LEMMA ReleaseInv ==
  ASSUME Inv, NEW key \in Keys, Release(key)
  PROVE  Inv'
<1>1. codes' = codes \o Sent(key, TRUE) /\ down' = down \ {key}
  BY DEF Release
<1>2. UNCHANGED <<shift_pressed, alt_pressed, ctrl_pressed, extended>>
  BY DEF Release, flags
<1>3. codes' \in Seq(Codes)
  <2>1. Sent(key, TRUE) \in Seq(Codes) /\ codes \in Seq(Codes)
    BY SentCodes DEF Inv
  <2>2. ASSUME NEW x \in Seq(Codes), NEW y \in Seq(Codes) PROVE x \o y \in Seq(Codes)
    OBVIOUS
  <2>3. codes \o Sent(key, TRUE) \in Seq(Codes)
    BY <2>1, <2>2, Zenon
  <2> QED  BY <1>1, <2>3, Zenon
<1>4. ASSUME NEW group \in Groups, NEW flag, NEW excuse,
             Held(codes, down, group, flag, excuse)
      PROVE  Held(codes', down', group, flag, excuse)
  BY <1>1, <1>4, KeyHeld
<1> QED  BY <1>2, <1>3, <1>4 DEF Inv, Groups

\* An interrupt: each group's flag follows the code, and the prefix, which sets
\* ctrl_pressed, sets the history that excuses it.
LEMMA InterruptInv ==
  ASSUME Inv, kb_interrupt_do
  PROVE  Inv'
<1> DEFINE c == Head(codes)
<1>1. /\ codes \in Seq(Codes) /\ codes # <<>> /\ codes' = Tail(codes) /\ down' = down
      /\ Released(c) \/ Modifier(c) \/ Editing(c) \/ Command(c) \/ Character(c)
  BY DEF kb_interrupt_do, Inv
<1>2. codes' \in Seq(Codes) /\ c \in Codes
  BY <1>1
<1>3. c.release \in BOOLEAN
  BY <1>2 DEF Codes
<1> HIDE DEF c
<1>4. /\ Releases(c, Shifts) => shift_pressed' # 1
      /\ ~Releases(c, Shifts) /\ ~Presses(c, Shifts) => shift_pressed' = shift_pressed
  BY <1>1 DEF Released, Modifier, Editing, Command, Character, Symbol, flags, Is, Clears,
     Releases, Presses
<1>5. /\ Releases(c, Alts) => alt_pressed' # 1
      /\ ~Releases(c, Alts) /\ ~Presses(c, Alts) => alt_pressed' = alt_pressed
  BY <1>1 DEF Released, Modifier, Editing, Command, Character, Symbol, flags, Is, Clears,
     Releases, Presses
<1>6. /\ Releases(c, Ctrls) => ctrl_pressed' # 1
      /\ ~Releases(c, Ctrls) /\ ~Presses(c, Ctrls) =>
           extended' \/ (ctrl_pressed' = ctrl_pressed /\ (extended => extended'))
      /\ extended' \in BOOLEAN
  <2>1. extended \in BOOLEAN
    BY DEF Inv
  <2>2. CASE Released(c)
    BY <2>1, <2>2 DEF Released, Is, Clears, Releases, Presses
  <2>3. CASE Modifier(c)
    <3>1. ~c.release /\ extended' = (extended \/ c.key = "E0")
      BY <2>3 DEF Modifier, Is
    <3>2. c.key \in Ctrls \/ c.key = "E0" \/ ctrl_pressed' = ctrl_pressed
      BY <2>3 DEF Modifier, Is
    <3> QED  BY <2>1, <3>1, <3>2 DEF Releases, Presses
  <2>4. CASE Editing(c) \/ Command(c) \/ Character(c)
    <3>1. ~c.release /\ extended' = extended /\ ctrl_pressed' = ctrl_pressed
      BY <2>4 DEF Editing, Command, Character, Symbol, flags
    <3> QED  BY <2>1, <3>1 DEF Releases, Presses
  <2> QED  BY <1>1, <2>2, <2>3, <2>4
<1>7. Held(Tail(codes), down, Shifts, shift_pressed', FALSE)
  BY <1>1, <1>4, HandleOne DEF Inv, c
<1>8. Held(Tail(codes), down, Alts, alt_pressed', FALSE)
  BY <1>1, <1>5, HandleOne DEF Inv, c
<1>9. Held(Tail(codes), down, Ctrls, ctrl_pressed', extended')
  BY <1>1, <1>6, HandleOne DEF Inv, c
<1> QED  BY <1>1, <1>2, <1>6, <1>7, <1>8, <1>9 DEF Inv

LEMMA NextInv == Inv /\ [Next]_vars => Inv'
<1>1. Inv /\ UNCHANGED vars => Inv'
  BY DEF Inv, vars
<1> QED  BY <1>1, PressInv, ReleaseInv, InterruptInv DEF Next

\* Once every scan code has been handled, a modifier flag that is set has its
\* key down, or is ctrl_pressed after a prefix: whatever the order of presses
\* and releases and however late the interrupts (terminal.h:20-25,
\* idt.c:135-155).
THEOREM ModifiersFollowKeys == Spec => []NoStuckModifier
<1>1. Inv => NoStuckModifier
  BY DEF Inv, NoStuckModifier, Held, NoRelease
<1> QED  BY <1>1, InitInv, NextInv, PTL DEF Spec

=============================================================================
