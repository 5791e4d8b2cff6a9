------------------------------ MODULE Keyboard -------------------------------
(***************************************************************************)
(* The keyboard interrupt handler (kb_interrupt_do in idt.c): scan codes   *)
(* arrive one per interrupt, and flags remember the modifiers. The keys of *)
(* the right-hand block send the prefix 0xE0 first, which the handler      *)
(* takes for Ctrl.                                                         *)
(*                                                                         *)
(* A scan code is the key's name, whether it is a release, or the prefix.  *)
(***************************************************************************)
EXTENDS Integers, Sequences, FiniteSets

CONSTANTS
  MaxCodes,            \* bound on the codes that wait in the controller
  MaxDown              \* bound on the keys held down together

ASSUME KeyboardAssumption == MaxCodes \in Nat /\ MaxDown \in Nat

\* Right Shift has a code of its own, Right Ctrl and Right Alt have those of the
\* left ones after the prefix.
FKeys == {"F1"}
Extended == {"RCtrl", "RAlt", "Up"}
Keys == {"LShift", "RShift", "LAlt", "LCtrl", "Caps", "Enter", "Backspace", "a", "1", "l"}
          \cup FKeys \cup Extended
Shifts == {"LShift", "RShift"}
Alts == {"LAlt", "RAlt"}
Ctrls == {"LCtrl", "RCtrl"}

Prefix == [key |-> "E0", release |-> FALSE]
Code(key, release) == [key |-> key, release |-> release]

VARIABLES
  shift_pressed, alt_pressed, ctrl_pressed, caps_enabled,
  codes,       \* scan codes in the controller
  down,        \* the keys held down
  extended,    \* history: a prefix was met since Ctrl was last released
  output       \* what the last interrupt led to

vars == <<shift_pressed, alt_pressed, ctrl_pressed, caps_enabled, codes, down,
          extended, output>>
flags == <<shift_pressed, alt_pressed, ctrl_pressed, caps_enabled>>

Init ==
  /\ shift_pressed = 0
  /\ alt_pressed = 0
  /\ ctrl_pressed = 0
  /\ caps_enabled = 0
  /\ codes = <<>>
  /\ down = {}
  /\ extended = FALSE
  /\ output = "none"

-----------------------------------------------------------------------------
Sent(key, release) ==
  (IF key \in Extended THEN <<Prefix>> ELSE <<>>) \o <<Code(key, release)>>

Press(key) ==
  /\ key \notin down
  /\ codes' = codes \o Sent(key, FALSE)
  /\ Len(codes') <= MaxCodes
  /\ down' = down \cup {key}
  /\ Cardinality(down') <= MaxDown
  /\ UNCHANGED <<flags, extended, output>>

Release(key) ==
  /\ key \in down
  /\ codes' = codes \o Sent(key, TRUE)
  /\ Len(codes') <= MaxCodes
  /\ down' = down \ {key}
  /\ UNCHANGED <<flags, extended, output>>

-----------------------------------------------------------------------------
(***************************************************************************)
(* kb_interrupt_do for code c                                              *)
(***************************************************************************)
Is(c, keys) == c.key \in keys
Clears(flag, c, keys) == IF Is(c, keys) THEN 0 ELSE flag

\* Mutant: a release of Alt is not noticed.
ReleasedButAlt(c) ==
  /\ c.release
  /\ ctrl_pressed' = Clears(ctrl_pressed, c, Ctrls)
  /\ shift_pressed' = Clears(shift_pressed, c, Shifts)
  /\ output' = "none"
  /\ extended' = (extended /\ ~Is(c, Ctrls))
  /\ UNCHANGED <<alt_pressed, caps_enabled>>

Released(c) ==
  /\ c.release
  /\ ctrl_pressed' = Clears(ctrl_pressed, c, Ctrls)
  /\ shift_pressed' = Clears(shift_pressed, c, Shifts)
  /\ alt_pressed' = Clears(alt_pressed, c, Alts)
  /\ output' = "none"
  /\ extended' = (extended /\ ~Is(c, Ctrls))
  /\ UNCHANGED caps_enabled

Modifier(c) ==
  /\ ~c.release
  /\ \/ /\ Is(c, Shifts)
        /\ shift_pressed' = 1
        /\ UNCHANGED <<alt_pressed, ctrl_pressed, caps_enabled>>
     \/ /\ Is(c, Alts)
        /\ alt_pressed' = 1
        /\ UNCHANGED <<shift_pressed, ctrl_pressed, caps_enabled>>
     \/ /\ Is(c, Ctrls \cup {"E0"})
        /\ ctrl_pressed' = 1
        /\ UNCHANGED <<shift_pressed, alt_pressed, caps_enabled>>
     \/ /\ Is(c, {"Caps"})
        /\ caps_enabled' = 1 - caps_enabled
        /\ UNCHANGED <<shift_pressed, alt_pressed, ctrl_pressed>>
  /\ extended' = (extended \/ Is(c, {"E0"}))
  /\ output' = "none"

\* Enter and Backspace go to the terminal whatever the modifiers.
Editing(c) ==
  /\ ~c.release
  /\ Is(c, {"Enter", "Backspace"})
  /\ output' = c.key
  /\ UNCHANGED <<flags, extended>>

Symbol(c) == ~c.release /\ Is(c, {"a", "1", "l", "Up"} \cup FKeys)

\* With Alt or Ctrl: Ctrl+L clears, Alt+Fn switches, the rest is ignored.
Command(c) ==
  /\ Symbol(c)
  /\ alt_pressed = 1 \/ ctrl_pressed = 1
  /\ output' = CASE ctrl_pressed = 1 /\ c.key = "l" -> "clear"
                 [] alt_pressed = 1 /\ c.key \in FKeys -> "switch"
                 [] OTHER -> "none"
  /\ UNCHANGED <<flags, extended>>

\* Without: a letter takes Shift and Caps Lock, another character Shift only,
\* and codes above 58 are ignored.
Character(c) ==
  /\ Symbol(c)
  /\ alt_pressed = 0 /\ ctrl_pressed = 0
  /\ output' = CASE c.key \in {"a", "l"} -> IF shift_pressed # caps_enabled
                                            THEN "upper" ELSE "lower"
                 [] c.key = "1" -> IF shift_pressed = 1 THEN "upper" ELSE "lower"
                 [] OTHER -> "none"
  /\ UNCHANGED <<flags, extended>>

kb_interrupt_do ==
  /\ codes # <<>>
  /\ LET c == Head(codes) IN
       Released(c) \/ Modifier(c) \/ Editing(c) \/ Command(c) \/ Character(c)
  /\ codes' = Tail(codes)
  /\ UNCHANGED down

Next ==
  \/ \E key \in Keys : Press(key)
  \/ \E key \in Keys : Release(key)
  \/ kb_interrupt_do

Spec == Init /\ [][Next]_vars

-----------------------------------------------------------------------------
(***************************************************************************)
(* Properties                                                              *)
(***************************************************************************)

\* Once every scan code has been handled, a modifier flag that is set has its
\* key down: no order of presses and releases of the two Shift, Alt and Ctrl
\* keys leaves one stuck. A key with a prefix is the exception: it leaves
\* ctrl_pressed set until Ctrl is used (terminal.h:20-25, idt.c:135-155).
NoStuckModifier ==
  codes = <<>> =>
    /\ shift_pressed = 1 => down \cap Shifts # {}
    /\ alt_pressed = 1 => down \cap Alts # {}
    /\ ctrl_pressed = 1 => down \cap Ctrls # {} \/ extended

=============================================================================
