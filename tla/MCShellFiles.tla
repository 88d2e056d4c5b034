---------------------------- MODULE MCShellFiles ----------------------------
(* Three slots: /root, and room for a file and its copy, or for a file and *)
(* a directory.  Paths of at most two components, files of at most two     *)
(* bytes.                                                                  *)
EXTENDS Listings

Rel(parts) == [abs |-> FALSE, parts |-> parts]
Abs(parts) == [abs |-> TRUE, parts |-> parts]

Component == {"root", "d", "f"}
const_Root == Abs(<<"root">>)
const_Empty == Rel(<<>>)
const_Name == {[abs |-> abs, parts |-> parts] :
                 abs \in BOOLEAN, parts \in UNION {[1 .. n -> Component] : n \in 0 .. 2}}
const_ValidName == const_Name \ {const_Empty}
const_Arg == {Rel(<<"f">>), Abs(<<"d">>), Slash}
const_WithExtension == {"f"}
const_Rank == [c \in Component |-> IF c = "d" THEN 1 ELSE IF c = "f" THEN 2 ELSE 3]
const_Byte == {120}

(* No step reads ret as an earlier one left it. *)
View == <<fs_table, current_dir, pc, job>>

const_Content == UNION {[1 .. n -> const_Byte] : n \in 0 .. 2}
=============================================================================
