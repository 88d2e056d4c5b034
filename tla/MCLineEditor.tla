---------------------------- MODULE MCLineEditor ----------------------------
(* Lines of at most three characters on a screen of three rows of two      *)
(* columns, a history of two lines.                                        *)
EXTENDS LineEditor

const_Char == {"a", " "}
=============================================================================
