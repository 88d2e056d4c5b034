--------------------------- MODULE KeyInputProofs ---------------------------
(***************************************************************************)
(* Proofs about keyboard input as a whole: the interrupt path, the         *)
(* installation order of kernel_main and the ring composed, for every set  *)
(* of lines, every set of scan codes and every size of the ring.           *)
(***************************************************************************)
EXTENDS KeyInput, SequenceTheorems, TLAPS

-----------------------------------------------------------------------------
(***************************************************************************)
(* The keyboard ring buffer, for every size of the ring.                   *)
(***************************************************************************)

(* Arithmetic of the indices: the mask is a conditional subtraction.       *)

(* An index less than two turns ahead is reduced by at most one turn.      *)
LEMMA OneTurn ==
  ASSUME NEW i \in Nat, i < 2 * KB_BUF_SIZE
  PROVE  i % KB_BUF_SIZE = IF i < KB_BUF_SIZE THEN i ELSE i - KB_BUF_SIZE
  <1>1. CASE i < KB_BUF_SIZE
    BY <1>1, RingAssumption
  <1>2. CASE i >= KB_BUF_SIZE
    BY <1>2, RingAssumption
  <1> QED
    BY <1>1, <1>2, RingAssumption

(* (i + 1) & KB_BUF_MASK stays in the ring and wraps only at its end.      *)
LEMMA SuccValue ==
  ASSUME NEW i \in Slots
  PROVE  /\ Succ(i) \in Slots
         /\ Succ(i) = IF i = KB_BUF_SIZE - 1 THEN 0 ELSE i + 1
  <1>1. i + 1 \in Nat /\ i + 1 < 2 * KB_BUF_SIZE
    BY RingAssumption DEF Slots
  <1>2. Succ(i) = IF i + 1 < KB_BUF_SIZE THEN i + 1 ELSE i + 1 - KB_BUF_SIZE
    BY <1>1, OneTurn, RingAssumption DEF Succ, Slots
  <1> QED
    BY <1>2, RingAssumption DEF Slots

(* The slot of the k-th waiting character, without the modulo.             *)
LEMMA SlotAtValue ==
  ASSUME RingTypeOK, NEW k \in 1 .. KB_BUF_SIZE
  PROVE  /\ SlotAt(k) \in Slots
         /\ SlotAt(k) = IF kb_tail + k - 1 < KB_BUF_SIZE
                          THEN kb_tail + k - 1
                          ELSE kb_tail + k - 1 - KB_BUF_SIZE
  <1> DEFINE i == kb_tail + k - 1
  <1>1. i \in Nat /\ i < 2 * KB_BUF_SIZE
    BY RingAssumption DEF RingTypeOK, Slots
  <1>2. SlotAt(k) = i % KB_BUF_SIZE
    BY DEF SlotAt
  <1> HIDE DEF i
  <1>3. i % KB_BUF_SIZE = IF i < KB_BUF_SIZE THEN i ELSE i - KB_BUF_SIZE
    BY <1>1, OneTurn
  <1>4. (IF i < KB_BUF_SIZE THEN i ELSE i - KB_BUF_SIZE) \in Slots
    BY <1>1, RingAssumption DEF Slots
  <1>5. /\ SlotAt(k) \in Slots
        /\ SlotAt(k) = IF i < KB_BUF_SIZE THEN i ELSE i - KB_BUF_SIZE
    BY <1>2, <1>3, <1>4
  <1> QED
    BY <1>1, <1>5, RingAssumption DEF i, RingTypeOK, Slots

(* Moving kb_tail on makes the next character the first.                   *)
LEMMA SlotShift ==
  ASSUME RingTypeOK, NEW k \in 1 .. KB_BUF_SIZE - 1, kb_tail' = Succ(kb_tail)
  PROVE  SlotAt(k)' = SlotAt(k + 1)
  <1> DEFINE i == kb_tail + k - 1
  <1>1. i \in Nat /\ i + 1 \in Nat /\ i + 1 < 2 * KB_BUF_SIZE
    BY RingAssumption DEF RingTypeOK, Slots
  <1>2. kb_tail' = IF kb_tail = KB_BUF_SIZE - 1 THEN 0 ELSE kb_tail + 1
    BY SuccValue DEF RingTypeOK
  <1> DEFINE j == kb_tail' + k - 1
  <1>3. j \in Nat /\ j < 2 * KB_BUF_SIZE
    BY <1>2, RingAssumption DEF RingTypeOK, Slots
  <1>4. j = i + 1 \/ j = i + 1 - KB_BUF_SIZE
    BY <1>2, RingAssumption DEF RingTypeOK, Slots
  <1>5. SlotAt(k)' = j % KB_BUF_SIZE
    BY DEF SlotAt
  <1>6. SlotAt(k + 1) = (i + 1) % KB_BUF_SIZE
    BY RingAssumption DEF SlotAt, RingTypeOK, Slots
  <1> HIDE DEF i, j
  <1>7. j % KB_BUF_SIZE = IF j < KB_BUF_SIZE THEN j ELSE j - KB_BUF_SIZE
    BY <1>3, OneTurn
  <1>8. (i + 1) % KB_BUF_SIZE = IF i + 1 < KB_BUF_SIZE THEN i + 1
                                                 ELSE i + 1 - KB_BUF_SIZE
    BY <1>1, OneTurn, RingAssumption
  <1> QED
    BY <1>1, <1>3, <1>4, <1>5, <1>6, <1>7, <1>8, RingAssumption

(* The ring never claims more characters than it has slots for: at most    *)
(* KB_BUF_SIZE - 1 wait, and none wait exactly when the indices are equal. *)
LEMMA OccupiedRange ==
  ASSUME RingTypeOK
  PROVE  /\ Occupied \in 0 .. KB_BUF_SIZE - 1
         /\ Occupied = 0 <=> kb_head = kb_tail
         /\ Occupied = KB_BUF_SIZE - 1 <=> Succ(kb_head) = kb_tail
  <1>1. kb_head \in Slots /\ kb_tail \in Slots
    BY DEF RingTypeOK
  <1>2. Succ(kb_head) = IF kb_head = KB_BUF_SIZE - 1 THEN 0 ELSE kb_head + 1
    BY <1>1, SuccValue
  <1> QED
    BY <1>1, <1>2, RingAssumption DEF Occupied, Slots

-----------------------------------------------------------------------------
(* A step of an interrupt or of keyboard_getchar keeps the ring's types.   *)
LEMMA TypeStep == RingTypeOK /\ [RingNext]_ringVars => RingTypeOK'
  <1> SUFFICES ASSUME RingTypeOK, [RingNext]_ringVars
               PROVE  RingTypeOK'
    OBVIOUS
  <1>1. Succ(kb_head) \in Slots /\ Succ(kb_tail) \in Slots
    BY SuccValue DEF RingTypeOK
  <1>2. ASSUME NEW ch \in Char, StoreInRing(ch)
        PROVE  RingTypeOK'
    BY <1>1, <1>2 DEF RingTypeOK, StoreInRing
  <1>3. CASE DropWhenFull
    BY <1>3 DEF RingTypeOK, DropWhenFull
  <1>4. CASE Call \/ Test \/ Halt \/ Wake
    BY <1>4 DEF RingTypeOK, Call, Test, Halt, Wake
  <1>5. CASE Fetch
    BY <1>5 DEF RingTypeOK, Fetch
  <1>6. CASE Advance
    BY <1>1, <1>6 DEF RingTypeOK, Advance
  <1>7. CASE UNCHANGED ringVars
    BY <1>7 DEF RingTypeOK, ringVars
  <1> QED
    BY <1>2, <1>3, <1>4, <1>5, <1>6, <1>7 DEF RingNext, Store

(* Every variable of the ring keeps its type: in particular kb_head and    *)
(* kb_tail index the buffer (keyboard.c never reads or writes outside it). *)
THEOREM TypeCorrect == RingSpec => []RingTypeOK
  <1>1. RingInit => RingTypeOK
    BY RingAssumption DEF RingInit, RingTypeOK, Slots
  <1> QED
    BY <1>1, TypeStep, PTL DEF RingSpec

-----------------------------------------------------------------------------
(* What the two operations do to the waiting characters.                   *)

(* A store adds one slot at the end and leaves the waiting ones alone.     *)
LEMMA StoreEffect ==
  ASSUME RingTypeOK, NEW ch \in Char, StoreInRing(ch)
  PROVE  /\ Occupied' = Occupied + 1
         /\ Occupied < KB_BUF_SIZE - 1
         /\ \A k \in 1 .. Occupied + 1 :
              /\ SlotAt(k)' = SlotAt(k)
              /\ kb_buf'[SlotAt(k)'] = IF k = Occupied + 1 THEN ch
                                                          ELSE kb_buf[SlotAt(k)]
  <1>1. kb_head' = IF kb_head = KB_BUF_SIZE - 1 THEN 0 ELSE kb_head + 1
    BY SuccValue DEF StoreInRing, RingTypeOK
  <1>2. Occupied' = Occupied + 1
    BY <1>1, RingAssumption DEF StoreInRing, Occupied, RingTypeOK, Slots
  <1>3. Occupied \in 0 .. KB_BUF_SIZE - 1 /\ Occupied < KB_BUF_SIZE - 1
    BY OccupiedRange, RingAssumption DEF StoreInRing
  <1>4. ASSUME NEW k \in 1 .. Occupied + 1
        PROVE  /\ SlotAt(k)' = SlotAt(k)
               /\ kb_buf'[SlotAt(k)'] = IF k = Occupied + 1
                                          THEN ch ELSE kb_buf[SlotAt(k)]
    <2>1. SlotAt(k)' = SlotAt(k)
      BY DEF StoreInRing, SlotAt
    <2>2. /\ SlotAt(k) \in Slots
          /\ SlotAt(k) = IF kb_tail + k - 1 < KB_BUF_SIZE
                           THEN kb_tail + k - 1
                           ELSE kb_tail + k - 1 - KB_BUF_SIZE
      <3>1. k \in 1 .. KB_BUF_SIZE
        BY <1>3, RingAssumption
      <3> QED
        BY <3>1, SlotAtValue
    <2>3. SlotAt(k) = kb_head <=> k = Occupied + 1
      BY <1>3, <2>2, RingAssumption DEF Occupied, RingTypeOK, Slots
    <2>4. kb_buf'[SlotAt(k)] = IF SlotAt(k) = kb_head THEN ch ELSE kb_buf[SlotAt(k)]
      BY <2>2 DEF StoreInRing, RingTypeOK
    <2> QED
      BY <2>1, <2>3, <2>4
  <1> QED
    BY <1>2, <1>3, <1>4

(* Moving kb_tail removes the first slot and leaves the others alone.      *)
LEMMA AdvanceEffect ==
  ASSUME RingTypeOK, ReaderOwnsSlot, Advance
  PROVE  /\ Occupied \in 1 .. KB_BUF_SIZE - 1
         /\ Occupied' = Occupied - 1
         /\ SlotAt(1) = kb_tail
         /\ \A k \in 1 .. Occupied - 1 : kb_buf'[SlotAt(k)'] = kb_buf[SlotAt(k + 1)]
  <1>1. kb_tail' = IF kb_tail = KB_BUF_SIZE - 1 THEN 0 ELSE kb_tail + 1
    BY SuccValue DEF Advance, RingTypeOK
  <1>2. kb_head # kb_tail /\ kb_head' = kb_head /\ kb_buf' = kb_buf
    BY DEF Advance, ReaderOwnsSlot
  <1>3. Occupied \in 1 .. KB_BUF_SIZE - 1
    BY <1>2, OccupiedRange, RingAssumption
  <1>4. Occupied' = Occupied - 1
    BY <1>1, <1>2, RingAssumption DEF Occupied, RingTypeOK, Slots
  <1>5. SlotAt(1) = kb_tail
    BY SlotAtValue, RingAssumption DEF RingTypeOK, Slots
  <1>6. ASSUME NEW k \in 1 .. Occupied - 1
        PROVE  kb_buf'[SlotAt(k)'] = kb_buf[SlotAt(k + 1)]
    <2>1. k \in 1 .. KB_BUF_SIZE - 1
      BY <1>3, RingAssumption
    <2>2. SlotAt(k)' = SlotAt(k + 1)
      BY <2>1, SlotShift DEF Advance
    <2> QED
      BY <1>2, <2>2
  <1> QED
    BY <1>3, <1>4, <1>5, <1>6

-----------------------------------------------------------------------------
(* One step of an interrupt or of keyboard_getchar preserves what the      *)
(* reader relies on.                                                       *)
LEMMA InvariantStep ==
  RingInv /\ RingTypeOK' /\ [RingNext]_ringVars => RingInv'
  <1> SUFFICES ASSUME RingInv, RingTypeOK', [RingNext]_ringVars
               PROVE  ReaderOwnsSlot' /\ WaitingAreStored'
    BY DEF RingInv
  <1> USE DEF RingInv
  <1>1. Occupied \in 0 .. KB_BUF_SIZE - 1
    BY OccupiedRange
  <1>2. UNCHANGED <<kb_buf, kb_head, kb_tail>> => WaitingAreStored'
    BY DEF WaitingAreStored, Occupied, SlotAt
  <1>3. ASSUME NEW ch \in Char, StoreInRing(ch)
        PROVE  ReaderOwnsSlot' /\ WaitingAreStored'
    <2>1. kb_head' # kb_tail /\ kb_tail' = kb_tail /\ pc' = pc /\ c' = c
      BY <1>3 DEF StoreInRing
    <2>2. pc' = "advance" => kb_head # kb_tail /\ c = kb_buf[kb_tail]
      BY <2>1 DEF ReaderOwnsSlot
    <2>3. kb_head # kb_tail => kb_buf'[kb_tail] = kb_buf[kb_tail]
      BY <1>3 DEF StoreInRing, RingTypeOK
    <2>4. ASSUME NEW k \in 1 .. Occupied'
          PROVE  kb_buf'[SlotAt(k)'] \in Char
      BY <1>1, <1>3, StoreEffect DEF WaitingAreStored
    <2> QED
      BY <2>1, <2>2, <2>3, <2>4 DEF ReaderOwnsSlot, WaitingAreStored
  <1>4. CASE DropWhenFull
    BY <1>2, <1>4 DEF DropWhenFull, ReaderOwnsSlot
  <1>5. CASE Call \/ Test \/ Halt \/ Wake
    BY <1>2, <1>5 DEF Call, Test, Halt, Wake, ReaderOwnsSlot
  <1>6. CASE Fetch
    BY <1>2, <1>6 DEF Fetch, ReaderOwnsSlot
  <1>7. CASE Advance
    <2>1. ASSUME NEW k \in 1 .. Occupied'
          PROVE  kb_buf'[SlotAt(k)'] \in Char
      BY <1>7, AdvanceEffect DEF WaitingAreStored
    <2>2. ReaderOwnsSlot'
      BY <1>7 DEF Advance, ReaderOwnsSlot
    <2> QED
      BY <2>1, <2>2 DEF WaitingAreStored
  <1>8. CASE UNCHANGED ringVars
    BY <1>2, <1>8 DEF ringVars, ReaderOwnsSlot
  <1> QED
    BY <1>3, <1>4, <1>5, <1>6, <1>7, <1>8 DEF RingNext, Store

(* The ring starts empty.                                                  *)
LEMMA RingInitially == RingInit => RingInv
  <1> SUFFICES ASSUME RingInit PROVE RingInv
    OBVIOUS
  <1>1. RingTypeOK
    BY RingAssumption DEF RingInit, RingTypeOK, Slots
  <1>2. Occupied = 0
    BY DEF RingInit, Occupied
  <1> QED
    BY <1>1, <1>2 DEF RingInit, RingInv, ReaderOwnsSlot, WaitingAreStored

(* The reader owns the slot it reads and every waiting slot is initialised,*)
(* however interrupts interleave with keyboard_getchar.                    *)
THEOREM RingInvariant == RingSpec => []RingInv
  BY RingInitially, InvariantStep, TypeCorrect, PTL DEF RingSpec

-----------------------------------------------------------------------------
WaitingSequence == /\ Waiting \in Seq(Char)
                   /\ Len(Waiting) = Occupied
                   /\ \A k \in 1 .. Occupied : Waiting[k] = kb_buf[SlotAt(k)]

(* The waiting characters form a sequence. *)
LEMMA WaitingIsSeq == RingInv => WaitingSequence
  <1> SUFFICES ASSUME RingInv PROVE WaitingSequence
    OBVIOUS
  <1>1. Occupied \in Nat
    BY OccupiedRange, RingAssumption DEF RingInv
  <1>2. Waiting \in [1 .. Occupied -> Char]
    BY DEF Waiting, RingInv, WaitingAreStored
  <1> QED
    BY <1>1, <1>2, SeqDef DEF Waiting, WaitingSequence

(* Every step of the ring is a step of the abstract queue or a stutter.    *)
LEMMA StepRefines ==
  RingInv /\ RingInv' /\ [RingNext]_ringVars => [Abstract!Next]_Abstract!vars
  <1> SUFFICES ASSUME RingInv, RingInv', [RingNext]_ringVars
               PROVE  [Abstract!Next]_Abstract!vars
    OBVIOUS
  <1> USE DEF RingInv
  <1>1. /\ Waiting \in Seq(Char) /\ Len(Waiting) = Occupied
        /\ \A k \in 1 .. Occupied : Waiting[k] = kb_buf[SlotAt(k)]
    BY WaitingIsSeq DEF WaitingSequence
  <1>2. /\ Waiting' \in Seq(Char) /\ Len(Waiting') = Occupied'
        /\ \A k \in 1 .. Occupied' : Waiting'[k] = kb_buf'[SlotAt(k)']
    <2>1. WaitingSequence'
      BY WaitingIsSeq, PTL
    <2> QED
      BY <2>1 DEF WaitingSequence
  <1>3. Occupied \in 0 .. KB_BUF_SIZE - 1
    BY OccupiedRange
  <1>4. UNCHANGED <<kb_buf, kb_head, kb_tail>> => Waiting' = Waiting
    BY DEF Waiting, Occupied, SlotAt
  <1>5. ASSUME NEW ch \in Char, StoreInRing(ch)
        PROVE  Abstract!Accept(ch)
    <2>1. Waiting' = Append(Waiting, ch)
      <3>1. Append(Waiting, ch) \in Seq(Char) /\ Len(Append(Waiting, ch)) = Occupied + 1
        BY <1>1
      <3>2. ASSUME NEW k \in 1 .. Occupied + 1
            PROVE  Waiting'[k] = Append(Waiting, ch)[k]
        BY <1>1, <1>2, <1>3, <1>5, StoreEffect
      <3> QED
        BY <1>2, <1>5, <3>1, <3>2, StoreEffect, SeqEqual
    <2> QED
      BY <1>1, <1>5, <2>1, StoreEffect DEF Abstract!Accept, StoreInRing
  <1>6. CASE DropWhenFull
    <2>1. Len(Waiting) = KB_BUF_SIZE - 1
      BY <1>1, <1>6, OccupiedRange DEF DropWhenFull
    <2> QED
      BY <1>4, <1>6, <2>1 DEF DropWhenFull, Abstract!Refuse, Abstract!Next
  <1>7. CASE Call \/ Test \/ Halt \/ Wake \/ Fetch \/ UNCHANGED ringVars
    BY <1>4, <1>7 DEF Call, Test, Halt, Wake, Fetch, ringVars, Abstract!vars
  <1>8. CASE Advance
    <2>1. Waiting # <<>>
      BY <1>1, <1>8, AdvanceEffect
    <2>2. Waiting' = Tail(Waiting)
      <3>1. /\ Tail(Waiting) \in Seq(Char) /\ Len(Tail(Waiting)) = Occupied - 1
            /\ \A k \in 1 .. Occupied - 1 : Tail(Waiting)[k] = Waiting[k + 1]
        BY <1>1, <2>1, HeadTailProperties
      <3>2. ASSUME NEW k \in 1 .. Occupied - 1
            PROVE  Waiting'[k] = Tail(Waiting)[k]
        BY <1>1, <1>2, <1>8, <3>1, AdvanceEffect
      <3> QED
        BY <1>2, <1>8, <3>1, <3>2, AdvanceEffect, SeqEqual
    <2>3. ret' = Head(Waiting)
      BY <1>1, <1>8, AdvanceEffect DEF Advance, ReaderOwnsSlot
    <2> QED
      BY <1>8, <2>1, <2>2, <2>3 DEF Advance, Abstract!Take, Abstract!Next
  <1> QED
    BY <1>5, <1>6, <1>7, <1>8 DEF RingNext, Store, Abstract!Next

(* An interrupt between the statements of keyboard_getchar never empties   *)
(* the ring or overwrites the slot being read.                             *)
THEOREM ReaderKeepsItsSlot == RingSpec => []ReaderOwnsSlot
  <1>1. RingInv => ReaderOwnsSlot
    BY DEF RingInv
  <1> QED
    BY <1>1, RingInvariant, PTL

(* The circular buffer implements the bounded queue of KeyQueue: first in, *)
(* first out, nothing lost unless KB_BUF_SIZE - 1 characters wait.         *)
THEOREM RingImplementsQueue == RingSpec => ImplementsQueue
  <1>1. RingInit => Abstract!Init
    BY DEF RingInit, Abstract!Init, Waiting, Occupied
  <1> QED
    BY <1>1, RingInvariant, StepRefines, PTL
       DEF RingSpec, ImplementsQueue, Abstract!Spec

-----------------------------------------------------------------------------
(***************************************************************************)
(* The interrupt path, the installation order of kernel_main and the ring  *)
(* composed.                                                               *)
(***************************************************************************)

(* Before shell_run's sti nothing can interrupt kernel_main.               *)
QuietBoot == boot # "running" => intFlag = FALSE /\ frames = <<>>

(* pic_init masks every line and each driver registers its handler before  *)
(* it unmasks its own.                                                     *)
UnmaskedAreHandled ==
  boot # "pic_init" => \A l \in Lines : l \in imr \/ l \in handlers

(* IF is set inside a handler's frame only between the sti of the stub and *)
(* its iret.                                                               *)
FlagOffInHandler == InIrq /\ intFlag => Top.step = "iret"

IntInv == /\ IntTypeOK
          /\ HandlersDoNotNest
          /\ NoEarlyInterrupt
          /\ QuietBoot
          /\ UnmaskedAreHandled
          /\ FlagOffInHandler

(* As NoStrandedByte, from the moment the buffer has been drained.         *)
NoByteStrandedSinceDrain ==
  port.full /\ boot \in {"keyboard_install", "mouse_command", "mouse_install",
                         "shell_run", "running"}
    => \/ Keyboard \in irr
       \/ AtStep("call") /\ Top.irq = Keyboard
       \/ KbdInterrupt \notin command

DeviceTypeOK == /\ port \in [full : BOOLEAN, byte : PortBytes]
                /\ command \subseteq {KbdInterrupt, KbdClockOff}
                /\ decoder \in DecoderState
                /\ sent \in 0 .. MaxScan
                /\ ticked \in BOOLEAN
                /\ off \in BOOLEAN

KeyInputInv == IntInv /\ RingInv /\ DeviceTypeOK /\ NoByteStrandedSinceDrain
-----------------------------------------------------------------------------
(* The interrupt path by itself.                                           *)

(* A stack of at most one frame that is not empty holds exactly one.       *)
LEMMA Singleton ==
  ASSUME NEW S, NEW s \in Seq(S), s # <<>>, Len(s) <= 1
  PROVE  Len(s) = 1 /\ s[1] \in S
  <1>1. Len(s) \in Nat /\ Len(s) # 0
    BY EmptySeq
  <1>2. Len(s) = 1
    BY <1>1
  <1> QED
    BY <1>2, ElementOfSeq

Frame == [irq : Lines, step : {"call", "eoi", "sti", "iret"}]

(* While a handler runs there is exactly one frame.                        *)
LEMMA OneFrame ==
  ASSUME IntTypeOK, HandlersDoNotNest, InIrq
  PROVE  Len(frames) = 1 /\ frames[1] \in Frame /\ Top = frames[1]
  <1>1. frames \in Seq(Frame) /\ frames # <<>>
    BY DEF IntTypeOK, InIrq, Frame
  <1>2. Len(frames) <= 1
    BY DEF HandlersDoNotNest
  <1>3. Len(frames) = 1 /\ frames[1] \in Frame
    BY <1>1, <1>2, Singleton
  <1> QED
    BY <1>3 DEF Top

(* Moving a handler on changes the step of its frame and nothing else.     *)
LEMMA ThenEffect ==
  ASSUME IntTypeOK, HandlersDoNotNest, InIrq,
         NEW step \in {"call", "eoi", "sti", "iret"}, Then(step)
  PROVE  /\ frames' \in Seq(Frame)
         /\ Len(frames') = 1
         /\ InIrq'
         /\ Top' = [Top EXCEPT !.step = step]
         /\ Top'.irq = Top.irq /\ Top'.step = step
  <1> DEFINE moved == [frames[1] EXCEPT !.step = step]
  <1>1. Len(frames) = 1 /\ frames[1] \in Frame /\ Top = frames[1]
    BY OneFrame
  <1>2. moved \in Frame /\ moved.irq = frames[1].irq /\ moved.step = step
    BY <1>1 DEF Frame
  <1>3. frames' = [frames EXCEPT ![1] = moved]
    BY <1>1 DEF Then
  <1>4. frames \in Seq(Frame) /\ 1 \in 1 .. Len(frames)
    BY <1>1 DEF IntTypeOK, Frame
  <1> HIDE DEF moved
  <1>5. frames' \in Seq(Frame) /\ Len(frames') = 1 /\ frames'[1] = moved
    <2>1. moved \in Frame
      BY <1>2
    <2>2. [frames EXCEPT ![1] = moved] \in Seq(Frame)
      BY <1>4, <2>1, ExceptSeq
    <2>3. Len([frames EXCEPT ![1] = moved]) = Len(frames)
      BY <1>4, <2>1, ExceptSeq
    <2>4. [frames EXCEPT ![1] = moved][1] = moved
      BY <1>4, <2>1, ExceptSeq
    <2> QED
      BY <1>1, <1>3, <2>2, <2>3, <2>4
  <1>6. InIrq'
    BY <1>5, EmptySeq DEF InIrq
  <1>7. Top' = moved
    BY <1>5 DEF Top
  <1> QED
    BY <1>1, <1>2, <1>5, <1>6, <1>7 DEF moved
(* What one action of the interrupt path, or one of kernel_main, may do to *)
(* the variables of Interrupts.                                            *)
Latch == /\ irr \subseteq irr' /\ irr' \subseteq Lines
         /\ UNCHANGED <<imr, inService, handlers, intFlag, frames, boot>>

Drain == /\ boot = "keyboard_flush"
         /\ boot' = "keyboard_install"
         /\ UNCHANGED <<picVars, handlers, intFlag, frames>>

Reprogram == /\ boot = "mouse_command"
             /\ boot' = "mouse_install"
             /\ irr \subseteq irr' /\ irr' \subseteq Lines
             /\ UNCHANGED <<imr, inService, handlers, intFlag, frames>>

BootStep == \/ PicInit \/ TimerInstall \/ Drain \/ KeyboardInstall \/ Reprogram
            \/ MouseInstall \/ ShellRunSti

HandlerStep == \/ \E l \in Lines : CallHandler(l)
               \/ SendEoi \/ Sti \/ Iret

IntNext == \/ Latch
           \/ BootStep
           \/ \E l \in Lines : Deliver(l)
           \/ HandlerStep
           \/ Cli /\ OnMain

(* Every step of the composition is one of these or leaves Interrupts be.  *)
LEMMA StepIsIntStep == IntInv /\ [Next]_vars => [IntNext]_intVars
  <1> SUFFICES ASSUME IntInv, [Next]_vars PROVE [IntNext]_intVars
    OBVIOUS
  <1>1. Timer \in Lines /\ Keyboard \in Lines /\ Mouse \in Lines /\ irr \subseteq Lines
    BY LinesAssumption DEF IntInv, IntTypeOK
  <1>2. ASSUME \/ \E code \in Codes : Scan(code)
               \/ Tick
               \/ MouseMoves
        PROVE  IntNext
    <2>1. irr \subseteq irr' /\ irr' \subseteq Lines
      BY <1>1, <1>2 DEF Scan, Tick, MouseMoves, Raise
    <2> QED
      BY <1>2, <2>1 DEF Scan, Tick, MouseMoves, IntNext, Latch
  <1>3. CASE Booting
    <2>1. CASE MouseCommand
      <3>1. irr \subseteq irr' /\ irr' \subseteq Lines
        BY <1>1, <2>1 DEF MouseCommand, CommandInTime, CommandMistaken, Raise
      <3> QED
        BY <2>1, <3>1 DEF MouseCommand, IntNext, BootStep, Reprogram
    <2> QED
      BY <1>3, <2>1 DEF Booting, KeyboardFlush, MousePolls, IntNext, BootStep, Drain
  <1>4. ASSUME NEW l \in Lines, TakeInterrupt(l)
        PROVE  IntNext
    BY <1>4 DEF TakeInterrupt, IntNext
  <1>5. CASE KeyboardIrq \/ OtherIrq \/ EndOfIrq
    BY <1>1, <1>5 DEF KeyboardIrq, OtherIrq, EndOfIrq, IntNext, HandlerStep
  <1>6. CASE GetChar \/ UNCHANGED vars
    BY <1>6 DEF GetChar, vars
  <1>7. CASE CmdBye
    BY <1>7 DEF CmdBye, IntNext
  <1> QED
    BY <1>2, <1>3, <1>4, <1>5, <1>6, <1>7 DEF Next

-----------------------------------------------------------------------------
(* A device raising its line, or a driver being installed, interrupts      *)
(* nobody.                                                                 *)
LEMMA LatchPreserves == IntInv /\ Latch => IntInv'
  <1> SUFFICES ASSUME IntInv, Latch PROVE IntInv'
    OBVIOUS
  <1>1. (InIrq' <=> InIrq) /\ Top' = Top
    BY DEF Latch, InIrq, Top
  <1>2. IntTypeOK'
    BY DEF IntInv, IntTypeOK, Latch
  <1> QED
    BY <1>1, <1>2 DEF IntInv, Latch, HandlersDoNotNest, NoEarlyInterrupt,
                      QuietBoot, UnmaskedAreHandled, FlagOffInHandler, AtStep

(* Boot's steps, with interrupts still off, set up a line before they      *)
(* unmask it.                                                              *)
LEMMA BootPreserves == IntInv /\ BootStep => IntInv'
  <1> SUFFICES ASSUME IntInv, BootStep PROVE IntInv'
    OBVIOUS
  <1>1. boot # "running" /\ frames = <<>> /\ frames' = frames
    BY DEF IntInv, QuietBoot, BootStep, PicInit, TimerInstall, Drain, Reprogram,
           KeyboardInstall, MouseInstall, Install, ShellRunSti
  <1>2. ~InIrq /\ ~InIrq' /\ Len(frames) <= 1 /\ inService = {}
    BY <1>1 DEF IntInv, HandlersDoNotNest, InIrq, AtStep
  <1>3. IntTypeOK'
    BY <1>1 DEF IntInv, IntTypeOK, BootStep, PicInit, TimerInstall, Drain, Reprogram,
                KeyboardInstall, MouseInstall, Install, ShellRunSti, picVars
  <1>4. HandlersDoNotNest'
    BY <1>1, <1>2 DEF HandlersDoNotNest, AtStep, BootStep, PicInit, TimerInstall,
                Drain, Reprogram, KeyboardInstall, MouseInstall, Install, ShellRunSti, picVars
  <1>5. NoEarlyInterrupt' /\ FlagOffInHandler'
    BY <1>2 DEF NoEarlyInterrupt, FlagOffInHandler
  <1>6. QuietBoot'
    BY <1>1 DEF IntInv, QuietBoot, BootStep, PicInit, TimerInstall, Drain, Reprogram,
                KeyboardInstall, MouseInstall, Install, ShellRunSti
  <1>7. UnmaskedAreHandled'
    BY LinesAssumption DEF IntInv, UnmaskedAreHandled, BootStep, PicInit,
       TimerInstall, Drain, Reprogram, KeyboardInstall, MouseInstall, Install, ShellRunSti,
       picVars
  <1> QED
    BY <1>3, <1>4, <1>5, <1>6, <1>7 DEF IntInv
(* An interrupt is only accepted on an empty stack: inside a handler IF is *)
(* clear, and the instruction after its sti is the iret.                   *)
LEMMA DeliverPreserves ==
  ASSUME IntInv, NEW l \in Lines, Deliver(l)
  PROVE  IntInv'
  <1>1. ~InIrq
    BY DEF IntInv, FlagOffInHandler, Deliver, StiShadow
  <1>2. frames = <<>> /\ inService = {} /\ boot = "running" /\ l \in handlers
    <2>1. frames = <<>> /\ inService = {}
      BY <1>1 DEF IntInv, HandlersDoNotNest, InIrq, AtStep
    <2>2. boot = "running"
      BY DEF IntInv, QuietBoot, Deliver
    <2>3. l \notin imr
      BY DEF Deliver, Requesting, ServiceBits
    <2> QED
      BY <2>1, <2>2, <2>3 DEF IntInv, UnmaskedAreHandled
  <1>3. frames' = <<[irq |-> l, step |-> "call"]>>
    BY <1>2 DEF Deliver
  <1>4. /\ frames' \in Seq(Frame) /\ Len(frames') = 1 /\ InIrq'
        /\ Top'.irq = l /\ Top'.step = "call"
    BY <1>3 DEF Frame, InIrq, Top
  <1>5. IntTypeOK'
    <2>1. ServiceBits(l) \subseteq Lines \cup {Cascade}
      BY DEF ServiceBits, MasterLine
    <2> QED
      BY <1>4, <2>1 DEF IntInv, IntTypeOK, Deliver, Frame
  <1>6. HandlersDoNotNest'
    <2>1. inService' = ServiceBits(l) /\ AtStep("call")'
      BY <1>2, <1>4 DEF Deliver, AtStep
    <2> QED
      BY <1>4, <2>1 DEF HandlersDoNotNest
  <1>7. NoEarlyInterrupt' /\ FlagOffInHandler'
    BY <1>2, <1>4 DEF NoEarlyInterrupt, FlagOffInHandler, Deliver
  <1>8. QuietBoot' /\ UnmaskedAreHandled'
    BY <1>2 DEF IntInv, QuietBoot, UnmaskedAreHandled, Deliver
  <1> QED
    BY <1>5, <1>6, <1>7, <1>8 DEF IntInv

(* One EOI to the master, after one to the slave for IRQ 8 to 15, ends     *)
(* exactly the lines a single interrupt takes into service.                *)
LEMMA EoiEndsTheLine ==
  ASSUME NEW l \in Lines
  PROVE  EoiMaster(IF l >= 8 THEN EoiSlave(ServiceBits(l)) ELSE ServiceBits(l)) = {}
  <1>1. l \in 0 .. 15 /\ l # Cascade
    BY LinesAssumption
  <1>2. CASE l >= 8
    <2>1. {m \in ServiceBits(l) : m >= 8} = {l} /\ {m \in ServiceBits(l) : m < 8} = {2}
      BY <1>1, <1>2 DEF ServiceBits, MasterLine, Cascade
    <2>2. EndHighest({l}) = {} /\ EndHighest({2}) = {}
      BY <1>1 DEF EndHighest
    <2>3. EoiSlave(ServiceBits(l)) = {2}
      BY <2>1, <2>2 DEF EoiSlave
    <2>4. {m \in {2} : m < 8} = {2} /\ {m \in {2} : m >= 8} = {}
      OBVIOUS
    <2>5. EoiMaster({2}) = {}
      BY <2>2, <2>4 DEF EoiMaster
    <2> QED
      BY <1>2, <2>3, <2>5
  <1>3. CASE l < 8
    <2>1. ServiceBits(l) = {l}
      BY <1>1, <1>3 DEF ServiceBits, MasterLine
    <2>2. {m \in {l} : m < 8} = {l} /\ {m \in {l} : m >= 8} = {}
      BY <1>1, <1>3
    <2>3. EndHighest({l}) = {}
      BY <1>1 DEF EndHighest
    <2>4. EoiMaster({l}) = {}
      BY <2>2, <2>3 DEF EoiMaster
    <2> QED
      BY <1>1, <1>3, <2>1, <2>4
  <1> QED
    BY <1>1, <1>2, <1>3

(* The handler, the EOI, the sti and the iret follow one another with the  *)
(* lines in service until the EOI and IF clear until the sti.              *)
LEMMA HandlerPreserves == IntInv /\ HandlerStep => IntInv'
  <1> SUFFICES ASSUME IntInv, HandlerStep PROVE IntInv'
    OBVIOUS
  <1>1. InIrq
    BY DEF HandlerStep, CallHandler, SendEoi, Sti, Iret, AtStep
  <1>2. /\ Len(frames) = 1 /\ Top \in Frame /\ Top = frames[1]
        /\ boot = "running" /\ Top.irq \in handlers
    BY <1>1, OneFrame DEF IntInv, NoEarlyInterrupt
  <1>3. ASSUME UNCHANGED <<handlers, boot>>, imr' = imr
        PROVE  QuietBoot' /\ UnmaskedAreHandled'
    BY <1>2, <1>3 DEF IntInv, QuietBoot, UnmaskedAreHandled
  <1>4. ASSUME NEW l \in Lines, CallHandler(l)
        PROVE  IntInv'
    <2>1. /\ frames' \in Seq(Frame) /\ Len(frames') = 1 /\ InIrq'
          /\ Top'.irq = Top.irq /\ Top'.step = "eoi"
      BY <1>1, <1>4, ThenEffect DEF IntInv, CallHandler
    <2>2. inService = ServiceBits(Top.irq) /\ ~intFlag
      BY <1>1, <1>4 DEF CallHandler, IntInv, HandlersDoNotNest, FlagOffInHandler, AtStep
    <2>3. HandlersDoNotNest'
      BY <1>4, <2>1, <2>2 DEF CallHandler, HandlersDoNotNest, AtStep, picVars
    <2> QED
      BY <1>2, <1>3, <1>4, <2>1, <2>2, <2>3
         DEF IntInv, CallHandler, IntTypeOK, NoEarlyInterrupt, FlagOffInHandler,
             picVars, Frame
  <1>5. CASE SendEoi
    <2>1. /\ frames' \in Seq(Frame) /\ Len(frames') = 1 /\ InIrq'
          /\ Top'.irq = Top.irq /\ Top'.step = "sti"
      BY <1>1, <1>5, ThenEffect DEF IntInv, SendEoi
    <2>2. inService = ServiceBits(Top.irq) /\ ~intFlag
      BY <1>1, <1>5 DEF SendEoi, IntInv, HandlersDoNotNest, FlagOffInHandler, AtStep
    <2>3. inService' = {}
      BY <1>2, <1>5, <2>2, EoiEndsTheLine DEF SendEoi, Frame
    <2>4. HandlersDoNotNest'
      BY <2>1, <2>3 DEF HandlersDoNotNest, AtStep
    <2> QED
      BY <1>2, <1>3, <1>5, <2>1, <2>2, <2>3, <2>4
         DEF IntInv, SendEoi, IntTypeOK, NoEarlyInterrupt, FlagOffInHandler, Frame
  <1>6. CASE Sti
    <2>1. /\ frames' \in Seq(Frame) /\ Len(frames') = 1 /\ InIrq'
          /\ Top'.irq = Top.irq /\ Top'.step = "iret"
      BY <1>1, <1>6, ThenEffect DEF IntInv, Sti
    <2>2. inService = {}
      BY <1>1, <1>6 DEF Sti, IntInv, HandlersDoNotNest, AtStep
    <2>3. HandlersDoNotNest'
      BY <1>6, <2>1, <2>2 DEF Sti, HandlersDoNotNest, AtStep, picVars
    <2> QED
      BY <1>2, <1>3, <1>6, <2>1, <2>3
         DEF IntInv, Sti, IntTypeOK, NoEarlyInterrupt, FlagOffInHandler, picVars, Frame
  <1>7. CASE Iret
    <2>1. inService = {}
      BY <1>1, <1>7 DEF Iret, IntInv, HandlersDoNotNest, AtStep
    <2>2. frames' = <<>>
      BY <1>2, <1>7, SubSeqEmpty DEF Iret
    <2>3. ~InIrq' /\ Len(frames') = 0
      BY <2>2 DEF InIrq
    <2>4. HandlersDoNotNest'
      BY <1>7, <2>1, <2>3 DEF Iret, HandlersDoNotNest, AtStep, picVars
    <2> QED
      BY <1>2, <1>3, <1>7, <2>2, <2>3, <2>4
         DEF IntInv, Iret, IntTypeOK, NoEarlyInterrupt, FlagOffInHandler, picVars
  <1> QED
    BY <1>4, <1>5, <1>6, <1>7 DEF HandlerStep
(* Whatever happens, the interrupt path keeps its invariant.               *)
LEMMA IntStepPreserves == IntInv /\ [IntNext]_intVars => IntInv'
  <1> SUFFICES ASSUME IntInv, [IntNext]_intVars PROVE IntInv'
    OBVIOUS
  <1>1. ASSUME Cli, OnMain PROVE IntInv'
    BY <1>1 DEF Cli, OnMain, picVars, IntInv, IntTypeOK, HandlersDoNotNest, AtStep,
                InIrq, Top, NoEarlyInterrupt, QuietBoot, UnmaskedAreHandled,
                FlagOffInHandler
  <1>2. CASE UNCHANGED intVars
    BY <1>2 DEF intVars, IntInv, IntTypeOK, HandlersDoNotNest, AtStep, InIrq, Top,
                NoEarlyInterrupt, QuietBoot, UnmaskedAreHandled, FlagOffInHandler
  <1> QED
    BY <1>1, <1>2, LatchPreserves, BootPreserves, DeliverPreserves,
       HandlerPreserves DEF IntNext

-----------------------------------------------------------------------------
(* The devices and the decoder.                                            *)

(* The decoder of keyboard_irq_handler stores only characters of Char,    *)
(* whoever left the byte it reads.                                         *)
LEMMA DecoderEffect ==
  ASSUME NEW d \in DecoderState, NEW code \in PortBytes
  PROVE  /\ NextDecoder(d, code) \in DecoderState
         /\ Effect(d, code).kind = "store" => Effect(d, code).char \in Char
  <1>1. NextDecoder(d, code) \in DecoderState
    BY DEF NextDecoder, DecoderState
  <1> QED
    BY <1>1, CodesAssumption

(* Of the ring, an interrupt and the main thread see only its own steps:   *)
(* the handler's store, the wake-up from hlt, or a statement of            *)
(* keyboard_getchar.                                                       *)
LEMMA StepIsRingStep ==
  ASSUME DeviceTypeOK, [Next]_vars
  PROVE  [RingNext]_ringVars
  <1>1. ASSUME \/ \E code \in Codes : Scan(code)
               \/ Tick \/ MouseMoves \/ Booting \/ OtherIrq \/ EndOfIrq \/ CmdBye
               \/ UNCHANGED vars
        PROVE  UNCHANGED ringVars
    BY <1>1 DEF Scan, Tick, MouseMoves, Booting, OtherIrq, EndOfIrq, CmdBye, vars
  <1>2. ASSUME NEW l \in Lines, TakeInterrupt(l)
        PROVE  [RingNext]_ringVars
    BY <1>2 DEF TakeInterrupt, RingNext
  <1>3. CASE KeyboardIrq
    <2>1. decoder \in DecoderState /\ port.byte \in PortBytes
      BY DEF DeviceTypeOK
    <2> DEFINE effect == Effect(decoder, port.byte)
    <2>2. effect.kind = "store" => effect.char \in Char
      BY <2>1, DecoderEffect
    <2>3. IF effect.kind = "store" THEN Store(effect.char) ELSE UNCHANGED ringVars
      BY <1>3 DEF KeyboardIrq
    <2> QED
      BY <2>2, <2>3 DEF RingNext
  <1>4. CASE GetChar
    BY <1>4 DEF GetChar, RingNext
  <1> QED
    BY <1>1, <1>2, <1>3, <1>4 DEF Next

(* Every step keeps the types of the keyboard's controller and decoder.    *)
LEMMA DeviceTypeStep == DeviceTypeOK /\ [Next]_vars => DeviceTypeOK'
  <1> SUFFICES ASSUME DeviceTypeOK, [Next]_vars PROVE DeviceTypeOK'
    OBVIOUS
  <1> USE DEF DeviceTypeOK
  <1>1. ASSUME NEW code \in Codes, Scan(code)
        PROVE  DeviceTypeOK'
    BY <1>1, CodesAssumption DEF Scan, PortBytes
  <1>2. CASE Tick \/ MouseMoves
    BY <1>2 DEF Tick, MouseMoves
  <1>3. CASE Booting
    <2>1. PICK full \in BOOLEAN, b \in PortBytes :
            port' = port \/ port' = [full |-> full, byte |-> b]
      <3>1. CASE UNCHANGED port
        BY <3>1 DEF PortBytes, Answers
      <3>2. CASE KeyboardFlush
        BY <3>2 DEF KeyboardFlush
      <3>3. ASSUME NEW answer \in Firmware,
                   CommandInTime(answer) \/ CommandMistaken(answer)
            PROVE  \E full \in BOOLEAN, b \in PortBytes :
                     port' = [full |-> full, byte |-> b]
        BY <3>3 DEF CommandInTime, CommandMistaken, PortBytes
      <3>4. CASE MousePolls
        BY <3>4 DEF MousePolls, PortBytes
      <3> QED
        BY <1>3, <3>1, <3>2, <3>3, <3>4 DEF Booting, MouseCommand
    <2>2. command' \subseteq {KbdInterrupt, KbdClockOff}
      BY <1>3 DEF Booting, MouseCommand, CommandInTime, CommandMistaken, MousePolls,
                  KeyboardBits
    <2> QED
      BY <1>3, <2>1, <2>2 DEF Booting
  <1>4. ASSUME NEW l \in Lines, TakeInterrupt(l)
        PROVE  DeviceTypeOK'
    BY <1>4 DEF TakeInterrupt
  <1>5. CASE KeyboardIrq
    <2>1. decoder' \in DecoderState
      BY <1>5, DecoderEffect DEF KeyboardIrq
    <2> QED
      BY <1>5, <2>1 DEF KeyboardIrq
  <1>6. CASE OtherIrq \/ EndOfIrq
    BY <1>6 DEF OtherIrq, EndOfIrq
  <1>7. CASE GetChar
    <2>1. (ticked /\ ~AllServed) \in BOOLEAN
      OBVIOUS
    <2> QED
      BY <1>7, <2>1 DEF GetChar
  <1>8. CASE CmdBye
    BY <1>8 DEF CmdBye
  <1>9. CASE UNCHANGED vars
    BY <1>9 DEF vars
  <1> QED
    BY <1>1, <1>2, <1>3, <1>4, <1>5, <1>6, <1>7, <1>8, <1>9 DEF Next

(* A byte in the 8042's buffer keeps its interrupt: its latched edge, then *)
(* the handler's frame, and only keyboard_irq_handler ends the latter.     *)
LEMMA StrandedStep ==
  IntInv /\ DeviceTypeOK /\ NoByteStrandedSinceDrain /\ [Next]_vars
    => NoByteStrandedSinceDrain'
  <1> SUFFICES ASSUME IntInv, DeviceTypeOK, NoByteStrandedSinceDrain, [Next]_vars
               PROVE  NoByteStrandedSinceDrain'
    OBVIOUS
  <1> USE DEF NoByteStrandedSinceDrain
  <1>1. ASSUME NEW code \in Codes, Scan(code)
        PROVE  NoByteStrandedSinceDrain'
    BY <1>1 DEF Scan
  <1>2. CASE Tick \/ MouseMoves
    BY <1>2 DEF Tick, MouseMoves, Raise, AtStep, InIrq, Top
  <1>3. CASE Booting
    <2>1. CASE PicInit \/ TimerInstall \/ KeyboardFlush
      BY <2>1 DEF PicInit, TimerInstall, Install, KeyboardFlush, DeviceTypeOK
    <2>2. CASE MouseCommand
      <3>1. PICK answer \in Firmware : CommandInTime(answer) \/ CommandMistaken(answer)
        BY <2>2 DEF MouseCommand
      <3> QED
        BY <3>1 DEF CommandInTime, CommandMistaken, Raise
    <2>3. CASE \/ (KeyboardInstall \/ ShellRunSti) /\ UNCHANGED <<port, command>>
               \/ MousePolls
      <3>1. ~AtStep("call") /\ irr' = irr /\ command' = command
        BY <2>3 DEF KeyboardInstall, MousePolls, MouseInstall, Install, ShellRunSti,
           picVars, IntInv, QuietBoot, InIrq, AtStep
      <3>2. boot \in {"keyboard_install", "mouse_install", "shell_run"}
        BY <2>3 DEF KeyboardInstall, MousePolls, MouseInstall, Install, ShellRunSti
      <3>3. port' = port \/ port'.full = FALSE
        BY <2>3 DEF MousePolls
      <3> QED
        BY <3>1, <3>2, <3>3
    <2> QED
      BY <1>3, <2>1, <2>2, <2>3 DEF Booting
  <1>4. ASSUME NEW l \in Lines, TakeInterrupt(l)
        PROVE  NoByteStrandedSinceDrain'
    <2>1. ~InIrq /\ ~AtStep("call")
      BY <1>4 DEF TakeInterrupt, Deliver, IntInv, FlagOffInHandler, StiShadow, AtStep
    <2>2. frames = <<>>
      BY <2>1 DEF InIrq
    <2>3. frames' = <<[irq |-> l, step |-> "call"]>>
      BY <1>4, <2>2 DEF TakeInterrupt, Deliver
    <2>4. AtStep("call")' /\ Top'.irq = l
      BY <2>3 DEF AtStep, InIrq, Top
    <2> QED
      BY <1>4, <2>1, <2>4 DEF TakeInterrupt, Deliver
  <1>5. CASE KeyboardIrq
    BY <1>5 DEF KeyboardIrq, DeviceTypeOK
  <1>6. CASE OtherIrq
    <2>1. ~(Top.irq = Keyboard)
      BY <1>6 DEF OtherIrq, CallHandler
    <2> QED
      BY <1>6, <2>1 DEF OtherIrq, CallHandler, picVars
  <1>7. CASE EndOfIrq
    <2>1. ~AtStep("call")
      BY <1>7 DEF EndOfIrq, SendEoi, Sti, Iret, AtStep
    <2> QED
      BY <1>7, <2>1 DEF EndOfIrq, SendEoi, Sti, Iret, picVars
  <1>8. CASE GetChar \/ CmdBye \/ UNCHANGED vars
    BY <1>8 DEF GetChar, CmdBye, Cli, vars, intVars, picVars, AtStep, InIrq, Top
  <1> QED
    BY <1>1, <1>2, <1>3, <1>4, <1>5, <1>6, <1>7, <1>8 DEF Next
-----------------------------------------------------------------------------
(* The invariant of the composition: the interrupt path's, the ring's, and *)
(* what relates the 8042's buffer to both.                                 *)
THEOREM KeyInputInvariant == Spec => []KeyInputInv
  <1>1. Init => KeyInputInv
    <2> SUFFICES ASSUME Init PROVE KeyInputInv
      OBVIOUS
    <2>1. IntInv
      <3>1. frames = <<>> /\ ~InIrq /\ frames \in Seq(Frame) /\ Len(frames) <= 1
        BY DEF Init, IntInit, InIrq
      <3> QED
        BY <3>1 DEF Init, IntInit, IntInv, IntTypeOK, HandlersDoNotNest, AtStep,
           NoEarlyInterrupt, QuietBoot, UnmaskedAreHandled, FlagOffInHandler, Frame
    <2>2. RingInv
      BY RingInitially DEF Init
    <2>3. DeviceTypeOK
      <3>1. port \in [full : BOOLEAN, byte : PortBytes]
        BY DEF Init
      <3>2. 0 \in 0 .. MaxScan
        BY CodesAssumption
      <3> QED
        BY <3>1, <3>2 DEF Init, DeviceTypeOK, DecoderInit, DecoderState
    <2>4. NoByteStrandedSinceDrain
      BY DEF Init, IntInit, NoByteStrandedSinceDrain
    <2> QED
      BY <2>1, <2>2, <2>3, <2>4 DEF KeyInputInv
  <1>2. KeyInputInv /\ [Next]_vars => KeyInputInv'
    <2>1. RingInv /\ [RingNext]_ringVars => RingInv'
      BY TypeStep, InvariantStep DEF RingInv
    <2> QED
      BY <2>1, StepIsIntStep, IntStepPreserves, StepIsRingStep, DeviceTypeStep,
         StrandedStep DEF KeyInputInv
  <1> QED
    BY <1>1, <1>2, PTL DEF Spec

(* Every variable of keyboard input keeps its type.                        *)
THEOREM KeyInputTypeCorrect == Spec => []TypeOK
  <1>1. KeyInputInv => TypeOK
    BY DEF KeyInputInv, IntInv, RingInv, DeviceTypeOK, TypeOK
  <1> QED
    BY <1>1, KeyInputInvariant, PTL

(* Interrupt handlers never nest: the gate and the stub's cli keep IF clear*)
(* until the sti, and the single EOI ends exactly the line being served.   *)
THEOREM HandlersNeverNest == Spec => []HandlersDoNotNest
  <1>1. KeyInputInv => HandlersDoNotNest
    BY DEF KeyInputInv, IntInv
  <1> QED
    BY <1>1, KeyInputInvariant, PTL

(* No interrupt comes before shell_run's sti, and none ever without a      *)
(* registered handler, whatever the firmware left masked or latched.       *)
THEOREM InterruptsComeAfterBoot == Spec => []NoEarlyInterrupt
  <1>1. KeyInputInv => NoEarlyInterrupt
    BY DEF KeyInputInv, IntInv
  <1> QED
    BY <1>1, KeyInputInvariant, PTL

(* Once keyboard_install has drained the buffer, a byte in it has its      *)
(* interrupt on the way, as long as the command byte written back by       *)
(* mouse_install leaves the keyboard its interrupt: nothing else silences  *)
(* the keyboard.                                                           *)
THEOREM BytesAreNotStranded == Spec => []NoStrandedByte
  <1>1. KeyInputInv => NoStrandedByte
    BY DEF KeyInputInv, NoByteStrandedSinceDrain, NoStrandedByte
  <1> QED
    BY <1>1, KeyInputInvariant, PTL

(* In the whole composition, as in the ring alone, no interrupt disturbs   *)
(* the slot keyboard_getchar is reading.                                   *)
THEOREM ReaderKeepsItsSlotUnderInterrupts == Spec => []ReaderOwnsSlot
  <1>1. KeyInputInv => ReaderOwnsSlot
    BY DEF KeyInputInv, RingInv
  <1> QED
    BY <1>1, KeyInputInvariant, PTL

(* What the shell gets from keyboard_getchar under real interrupts is the  *)
(* bounded queue of KeyQueue.                                              *)
THEOREM KeyInputImplementsQueue == Spec => ImplementsQueue
  <1>1. Init => Abstract!Init
    BY DEF Init, RingInit, Abstract!Init, Waiting, Occupied
  <1>2. KeyInputInv /\ KeyInputInv' /\ [Next]_vars => [Abstract!Next]_Abstract!vars
    BY StepIsRingStep, StepRefines DEF KeyInputInv
  <1> QED
    BY <1>1, <1>2, KeyInputInvariant, PTL DEF Spec, ImplementsQueue, Abstract!Spec
=============================================================================
