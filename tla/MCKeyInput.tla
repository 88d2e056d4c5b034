----------------------------- MODULE MCKeyInput -----------------------------
(* Keyboard input on a ring of four slots (room for three characters).     *)
(* Taken for the command byte, the scan code of the letter H leaves the    *)
(* keyboard enabled, that of the shift key clears its interrupt, and an    *)
(* acknowledgement read again stops its clock.  The firmware's 69 and the  *)
(* wheel's id may be read as scan codes: Num Lock and the key "2".         *)
EXTENDS KeyInput

LetterH == 35
const_Lines == {Timer, Keyboard, Mouse}
const_Codes == {LetterH, 42}
const_Firmware == {69}
const_Char == {LetterH, 3} \X {"lower", "upper"}
=============================================================================
