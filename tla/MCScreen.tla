------------------------------ MODULE MCScreen ------------------------------
(* A page of two rows, tab stops every two columns, a history of three     *)
(* lines.  The row one below the page is what the shell's line editor asks *)
(* for when it steps right at the last column of the last row.             *)
EXTENDS Screen

const_Printable == {"x"}
const_ScrollLines == {1, 2}
const_CursorRows == {VGA_ROWS - 1, VGA_ROWS}
const_CursorCols == {0, VGA_COLS - 1}
=============================================================================
