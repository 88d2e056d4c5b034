------------------------------- MODULE KeyRing -------------------------------
(***************************************************************************)
(* The circular buffer of keyboard.c: keyboard_irq_handler writes at       *)
(* kb_head, keyboard_getchar on the main thread reads at kb_tail, with no  *)
(* lock and interrupts enabled.  The handler runs to completion (its gate  *)
(* masks interrupts), so Store is one step; keyboard_getchar is            *)
(* interruptible between its statements, so each of them is a step.        *)
(***************************************************************************)
EXTENDS Integers, Sequences

CONSTANTS KB_BUF_SIZE,   \* slots of the ring (256 in the code)
          Char,          \* characters the scan code tables produce
          NUL            \* the zero an untouched slot holds

ASSUME RingAssumption == KB_BUF_SIZE \in Nat /\ KB_BUF_SIZE >= 2

VARIABLES kb_buf, kb_head, kb_tail,
          pc,    \* where keyboard_getchar is; "idle" outside of it
          c,     \* its local variable
          ret,   \* what the last completed call returned
          lost   \* history: characters dropped because the ring was full

ringVars == <<kb_buf, kb_head, kb_tail, pc, c, ret, lost>>

Slots == 0 .. KB_BUF_SIZE - 1

(* Faulty variants, against which the properties are tried: the mask left  *)
(* out, the full test left out, the slot read after kb_tail's next value.  *)
SuccUnmasked(i) == i + 1

StoreUnchecked(ch) == /\ kb_buf' = [kb_buf EXCEPT ![kb_head] = ch]
                      /\ kb_head' = (kb_head + 1) % KB_BUF_SIZE
                      /\ UNCHANGED <<kb_tail, pc, c, ret, lost>>

FetchNext == /\ pc = "fetch"
             /\ c' = kb_buf[(kb_tail + 1) % KB_BUF_SIZE]
             /\ pc' = "advance"
             /\ UNCHANGED <<kb_buf, kb_head, kb_tail, ret, lost>>

(* (i + 1) & KB_BUF_MASK *)
Succ(i) == (i + 1) % KB_BUF_SIZE

RingInit == /\ kb_buf = [i \in Slots |-> NUL]
            /\ kb_head = 0
            /\ kb_tail = 0
            /\ pc = "idle"
            /\ c = NUL
            /\ ret = NUL
            /\ lost = 0

-----------------------------------------------------------------------------
(* The end of keyboard_irq_handler: store ch unless the ring is full. *)
StoreInRing(ch) == /\ Succ(kb_head) # kb_tail
                   /\ kb_buf' = [kb_buf EXCEPT ![kb_head] = ch]
                   /\ kb_head' = Succ(kb_head)
                   /\ UNCHANGED <<kb_tail, pc, c, ret, lost>>

DropWhenFull == /\ Succ(kb_head) = kb_tail
                /\ lost' = lost + 1
                /\ UNCHANGED <<kb_buf, kb_head, kb_tail, pc, c, ret>>

Store(ch) == StoreInRing(ch) \/ DropWhenFull

(* keyboard_getchar, statement by statement. *)
Call == /\ pc = "idle"
        /\ pc' = "test"
        /\ UNCHANGED <<kb_buf, kb_head, kb_tail, c, ret, lost>>

Test == /\ pc = "test"
        /\ pc' = IF kb_head = kb_tail THEN "hlt" ELSE "fetch"
        /\ UNCHANGED <<kb_buf, kb_head, kb_tail, c, ret, lost>>

Halt == /\ pc = "hlt"
        /\ pc' = "halted"
        /\ UNCHANGED <<kb_buf, kb_head, kb_tail, c, ret, lost>>

(* Any interrupt ends hlt; the loop tests again. *)
Wake == /\ pc = "halted"
        /\ pc' = "test"
        /\ UNCHANGED <<kb_buf, kb_head, kb_tail, c, ret, lost>>

Fetch == /\ pc = "fetch"
         /\ c' = kb_buf[kb_tail]
         /\ pc' = "advance"
         /\ UNCHANGED <<kb_buf, kb_head, kb_tail, ret, lost>>

Advance == /\ pc = "advance"
           /\ kb_tail' = Succ(kb_tail)
           /\ ret' = c
           /\ pc' = "idle"
           /\ UNCHANGED <<kb_buf, kb_head, c, lost>>

RingNext == \/ \E ch \in Char : Store(ch)
            \/ Call \/ Test \/ Halt \/ Wake \/ Fetch \/ Advance

RingSpec == RingInit /\ [][RingNext]_ringVars

-----------------------------------------------------------------------------
RingTypeOK == /\ kb_buf \in [Slots -> Char \cup {NUL}]
              /\ kb_head \in Slots
              /\ kb_tail \in Slots
              /\ pc \in {"idle", "test", "hlt", "halted", "fetch", "advance"}
              /\ c \in Char \cup {NUL}
              /\ ret \in Char \cup {NUL}
              /\ lost \in Nat

(* How many characters wait, and the slot of the k-th oldest. *)
Occupied == IF kb_head >= kb_tail
              THEN kb_head - kb_tail
              ELSE kb_head - kb_tail + KB_BUF_SIZE

SlotAt(k) == (kb_tail + k - 1) % KB_BUF_SIZE

Waiting == [k \in 1 .. Occupied |-> kb_buf[SlotAt(k)]]

(* The reader owns the slot at kb_tail from its test of the ring until it  *)
(* moves kb_tail: while it fetches there is a character, and the character *)
(* it fetched is still in the slot (an interrupt between lines 194 and 195 *)
(* of keyboard.c does not overwrite it).                                   *)
ReaderOwnsSlot ==
  /\ pc \in {"fetch", "advance"} => kb_head # kb_tail
  /\ pc = "advance" => c = kb_buf[kb_tail]

(* Every waiting slot holds a character some handler stored. *)
WaitingAreStored == \A k \in 1 .. Occupied : kb_buf[SlotAt(k)] \in Char

RingInv == RingTypeOK /\ ReaderOwnsSlot /\ WaitingAreStored

-----------------------------------------------------------------------------
Abstract == INSTANCE KeyQueue
              WITH Capacity <- KB_BUF_SIZE - 1,
                   queue <- Waiting, last <- ret, lost <- lost

(* The ring is a first-in first-out queue of KB_BUF_SIZE - 1 characters    *)
(* that loses one only when it is full, whatever the interleaving of       *)
(* keyboard_irq_handler with the statements of keyboard_getchar.           *)
ImplementsQueue == Abstract!Spec
=============================================================================
