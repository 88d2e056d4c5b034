------------------------------ MODULE MCMouse ------------------------------
(* A key whose scan code clears bit 0 and sets bit 4 of a command byte     *)
(* (30, the letter A), the key "2" (3), reports of a button, of the wheel  *)
(* in both directions and of movements whose bytes have bit 3 set or clear *)
EXTENDS Mouse

const_Reports == { <<8, 0, 0, 0>>, <<8, 0, 8, 1>>, <<24, 248, 0, 255>> }
=============================================================================
