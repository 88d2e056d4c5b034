------------------------------ MODULE KeyQueue ------------------------------
(***************************************************************************)
(* What the keyboard driver promises its caller: a bounded first-in        *)
(* first-out queue of characters that loses a character only when it is    *)
(* full.  KeyRing (the circular buffer of keyboard.c) implements it.       *)
(***************************************************************************)
EXTENDS Integers, Sequences

CONSTANTS Char,       \* the characters the driver can store
          NUL,        \* the value of a register before the first call
          Capacity    \* how many characters fit

VARIABLES queue,      \* accepted characters, oldest first
          last,       \* the character the last completed call returned
          lost        \* how many characters were dropped

vars == <<queue, last, lost>>

Init == queue = <<>> /\ last = NUL /\ lost = 0

(* The producer offers a character: kept if there is room. *)
Accept(ch) == /\ Len(queue) < Capacity
              /\ queue' = Append(queue, ch)
              /\ UNCHANGED <<last, lost>>

(* The producer offers a character to a full queue. *)
Refuse == /\ Len(queue) = Capacity
          /\ lost' = lost + 1
          /\ UNCHANGED <<queue, last>>

(* The consumer takes the oldest character. *)
Take == /\ queue # <<>>
        /\ last' = Head(queue)
        /\ queue' = Tail(queue)
        /\ UNCHANGED lost

Next == (\E ch \in Char : Accept(ch)) \/ Refuse \/ Take

Spec == Init /\ [][Next]_vars
=============================================================================
