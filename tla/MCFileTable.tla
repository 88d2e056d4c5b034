----------------------------- MODULE MCFileTable -----------------------------
(* Three slots for four valid names, buffers of two bytes, contents of one *)
(* and three: a short write over a long one, and a truncated one.          *)
EXTENDS FileTable, TLC

CONSTANTS root, a, b, c, tooLong, x, y

const_ValidName == {root, a, b, c}
const_Name == const_ValidName \cup {tooLong, Empty}
const_Byte == {x, y}
const_Content == {<<x>>, <<y, x, x>>}
symmetry == Permutations({a, b, c})
=============================================================================
