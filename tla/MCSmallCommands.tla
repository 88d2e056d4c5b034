-------------------------- MODULE MCSmallCommands --------------------------
(* Ints of 16 bits, -32768 .. 32767: numbers on either side of the bounds, *)
(* and products far beyond them.  Four ticks a second, so that there are   *)
(* hours, up to a hundred.  All texts of up to four characters; counts on  *)
(* either side of their number of lines.                                   *)
EXTENDS SmallCommands

const_TaskText == {<<>>, <<"a">>, <<"b", "a">>}
const_Number == {<<"0">>, <<"1">>, <<"0", "7">>, <<"6", "4">>, <<"5", "1", "2">>,
                 <<"3", "2", "7", "6", "7">>, <<"3", "2", "7", "6", "8">>}
const_Ticks == {4 * 3661, 4 * 3600 - 1, 4 * 360000, 239, 240, 3, 65535}
const_Blank == {<<>>, <<" ">>}
const_Text == UNION {[1 .. n -> {"x", " ", Newline}] : n \in 0 .. 4}
const_Word == {<<"x">>, <<"x", "x">>, <<"x", " ">>}
const_Count == {-2, 0, 1, 2, 3, 15}

(* No step reads what an earlier one asked or printed. *)
StateView == <<todoVars, halted, tasks>>
=============================================================================
