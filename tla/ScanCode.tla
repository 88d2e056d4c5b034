------------------------------ MODULE ScanCode ------------------------------
(***************************************************************************)
(* What keyboard_irq_handler makes of one scan code (keyboard.c): the      *)
(* prefix and modifier state it keeps between interrupts, and whether the  *)
(* code stores a character, scrolls the terminal or does nothing.          *)
(* Scan codes are the code's numbers; a character is <<code, column>>, the *)
(* table entry it comes from, in place of the byte of that entry.          *)
(***************************************************************************)
EXTENDS Integers

E0 == 224
ShiftDown == {42, 54}          \* SCANCODE_LSHIFT_DOWN, SCANCODE_RSHIFT_DOWN
ShiftUp   == {170, 182}        \* SCANCODE_LSHIFT_UP, SCANCODE_RSHIFT_UP
CapsLock  == 58
NumLock   == 69
Up == 72  Down == 80  Left == 75  Right == 77  PageUp == 73  PageDown == 81

(* Make codes whose entry in both tables is 0. *)
Unmapped == {0, 29, 42, 54, 56} \cup 58 .. 70 \cup 84 .. 127

(* Make codes with the same entry in both tables: ESC, backspace, tab,     *)
(* enter, the keypad's '*' and digits, space.                              *)
Caseless == {1, 14, 15, 28, 55, 57} \cup 71 .. 83

(* The static variables of the handler: e0_mode, shift_held, capslock_on,  *)
(* numlock_on.                                                             *)
DecoderState == [e0 : BOOLEAN, shift : BOOLEAN, caps : BOOLEAN, num : BOOLEAN]

DecoderInit == [e0 |-> FALSE, shift |-> FALSE, caps |-> FALSE, num |-> FALSE]

(* Effects of a scan code besides the decoder state. *)
Nothing == [kind |-> "none"]
Character(ch) == [kind |-> "store", char |-> ch]
Scroll(lines) == [kind |-> "scroll", lines |-> lines]   \* > 0 is up

IsModifier(code) == code \in ShiftDown \cup ShiftUp \cup {CapsLock, NumLock, E0}

NextDecoder(d, code) ==
  [e0    |-> code = E0,
   shift |-> (d.shift \/ code \in ShiftDown) /\ code \notin ShiftUp,
   caps  |-> d.caps # (code = CapsLock),
   num   |-> d.num # (code = NumLock)]

(* Keypad keys navigate while Num Lock is off. *)
IsNumpadNav(d, code) == /\ ~d.e0 /\ ~d.num
                        /\ code \in (71 .. 83) \ {74, 78}

Navigation(d, code) ==
  CASE code = Up /\ d.shift      -> Scroll(1)
    [] code = Down /\ d.shift    -> Scroll(-1)
    [] code \in {Up, Down} /\ ~d.shift -> Character(<<code, "arrow">>)
    [] code \in {Left, Right}    -> Character(<<code, "arrow">>)
    [] code = PageUp             -> Scroll(10)
    [] code = PageDown           -> Scroll(-10)
    [] OTHER                     -> Nothing

Mapped(d, code) ==
  IF code \in Unmapped THEN Nothing
  ELSE Character(<<code, IF code \in Caseless THEN "same"
                         ELSE IF d.shift # d.caps THEN "upper" ELSE "lower">>)

(* The prefix is recognised before anything else, modifiers before the     *)
(* prefix is looked at, releases (bit 7) are ignored.                      *)
Effect(d, code) ==
  IF IsModifier(code) \/ code >= 128 THEN Nothing
  ELSE IF d.e0 \/ IsNumpadNav(d, code) THEN Navigation(d, code)
  ELSE Mapped(d, code)
=============================================================================
