----------------------------- MODULE CommandLine -----------------------------
(***************************************************************************)
(* What the shell's prompt promises its user: a line edited at a cursor,   *)
(* and the last lines entered, to browse and edit again.                   *)
(***************************************************************************)
EXTENDS Integers, SequencesExt

CONSTANTS Char,       \* what can be typed
          Space,      \* the one that separates words
          MaxLen,     \* characters of a line
          MaxPast     \* lines remembered

VARIABLES before, after,   \* the line on either side of the cursor
          past,            \* the last lines entered, oldest first
          at               \* the one shown; Len(past) + 1 for a new line

vars == <<before, after, past, at>>

Init == before = <<>> /\ after = <<>> /\ past = <<>> /\ at = 1

Type(c) == /\ Len(before) + Len(after) < MaxLen
           /\ before' = Append(before, c)
           /\ UNCHANGED <<after, past, at>>

Erase == /\ before # <<>>
         /\ before' = Front(before)
         /\ UNCHANGED <<after, past, at>>

Left == /\ before # <<>>
        /\ before' = Front(before)
        /\ after' = <<Last(before)>> \o after
        /\ UNCHANGED <<past, at>>

Right == /\ after # <<>>
         /\ before' = Append(before, Head(after))
         /\ after' = Tail(after)
         /\ UNCHANGED <<past, at>>

(* The line being edited is forgotten. *)
Browse(i) == /\ i \in 1 .. Len(past) + 1
             /\ at' = i
             /\ before' = IF i \in DOMAIN past THEN past[i] ELSE <<>>
             /\ after' = <<>>
             /\ UNCHANGED past

Trimmed(line) ==
  IF \A i \in DOMAIN line : line[i] = Space THEN <<>>
  ELSE CHOOSE rest \in {SubSeq(line, i, Len(line)) : i \in DOMAIN line} :
         Head(rest) # Space /\ IsSuffix(rest, line)
           /\ \A i \in 1 .. Len(line) - Len(rest) : line[i] = Space

Remember(line) ==
  past' = IF line = <<>> THEN past
          ELSE IF Len(past) < MaxPast THEN Append(past, line)
          ELSE Append(Tail(past), line)

Enter == /\ Remember(Trimmed(before \o after))
         /\ at' = Len(past') + 1
         /\ before' = <<>> /\ after' = <<>>

Next == \/ \E c \in Char : Type(c)
        \/ Erase \/ Left \/ Right
        \/ Browse(at - 1) \/ Browse(at + 1)
        \/ Enter

Spec == Init /\ [][Next]_vars
=============================================================================
