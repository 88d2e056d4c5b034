---------------------------- MODULE MouseProofs ----------------------------
(***************************************************************************)
(* The mouse's installation and packets, for every mouse, keyboard and     *)
(* command byte the controller may present.                                *)
(***************************************************************************)
EXTENDS Mouse, SequenceTheorems, TLAPS

(* Steps of the script.                                                    *)
Writes == {5, 7, 9, 11, 13, 15, 17, 19, 22}
Acks == {6, 8, 10, 12, 14, 16, 18, 20, 23}

(* The mouse waits for a sample rate only where the script sends one, and  *)
(* reports only when the script is at its last answer or done.             *)
ScriptInv ==
  /\ mouse.rateNext => pc \in {8, 9, 12, 13, 16, 17} /\ mouse.kind # "none"
  /\ mouse.reporting => pc >= 23 /\ mouse.kind # "none"
  /\ pc <= 23 => packet = <<>>

(* Where the interrupt of a byte in the output buffer is.                  *)
IrqInv ==
  /\ pc <= 5 => \A i \in DOMAIN queue : ~queue[i].aux
  /\ pc >= 5 => AuxInterrupt \in command
  /\ out.full /\ out.aux => Mouse \in irr
  /\ pc >= 7 /\ out.full /\ ~out.aux => Keyboard \in irr \/ KbdInterrupt \notin command

(* Where a 3 on its way to mouse_install comes from.                       *)
IdInv ==
  /\ pc <= 22 => \A i \in DOMAIN queue : queue[i].aux /\ queue[i].byte = WheelId => mouse.wheel
  /\ pc <= 21 /\ out.byte = WheelId =>
       (out.full /\ ~out.aux) \/ mouse.wheel \/ WheelId \in taken
  /\ IdIsVerified

MouseInv == TypeOK /\ ScriptInv /\ IrqInv /\ IdInv

-----------------------------------------------------------------------------
(* The script.                                                             *)

(* What mouse_install does at each of its steps.                           *)
LEMMA ScriptValue ==
  /\ Len(Script) = 23
  /\ Script[1].op = "enable" /\ Script[2].op = "ask" /\ Script[3].op = "answer"
  /\ Script[4].op = "restore" /\ Script[21].op = "id"
  /\ \A i \in Writes : Script[i].op = "write"
  /\ \A i \in Acks : Script[i].op = "ack"
  /\ Script[5].byte = 246
  /\ \A i \in {7, 11, 15} : Script[i].byte = 243
  /\ Script[9].byte = 200 /\ Script[13].byte = 100 /\ Script[17].byte = 80
  /\ Script[19].byte = 242 /\ Script[22].byte = 244
BY DEF Script, WriteAck, Writes, Acks

(* The step an action of the script is taken at.                           *)
LEMMA ScriptSteps ==
  ASSUME pc \in 1 .. Len(Script) + 1
  PROVE  /\ pc \in 1 .. 24 /\ (Installed <=> pc = 24)
         /\ At("enable") => pc = 1
         /\ At("ask") => pc = 2
         /\ At("answer") => pc = 3
         /\ At("restore") => pc = 4
         /\ At("write") => pc \in Writes
         /\ At("ack") => pc \in Acks
         /\ At("id") => pc = 21
<1>1. pc \in 1 .. 24 /\ (Installed <=> pc = 24)
  BY ScriptValue DEF Installed
<1>2. \/ pc \in {1, 2, 3, 4, 21, 24}
      \/ pc \in Writes \/ pc \in Acks
  BY <1>1 DEF Writes, Acks
<1> QED BY <1>1, <1>2, ScriptValue DEF At

-----------------------------------------------------------------------------
(* Bytes and bits.                                                         *)

(* The bits of a byte are numbered 0 to 7.                                 *)
LEMMA BitsType == \A b : Bits(b) \subseteq 0 .. 7
BY DEF Bits

(* The powers of two of a byte's bits.                                     *)
LEMMA Powers ==
  /\ 2^0 = 1 /\ 2^1 = 2 /\ 2^2 = 4 /\ 2^3 = 8
  /\ 2^4 = 16 /\ 2^5 = 32 /\ 2^6 = 64 /\ 2^7 = 128
OBVIOUS

(* The bits of b, from the lowest, are x[0] to x[7].                       *)
HasBits(b, x) ==
  /\ (b \div 1) % 2 = x[0] /\ (b \div 2) % 2 = x[1]
  /\ (b \div 4) % 2 = x[2] /\ (b \div 8) % 2 = x[3]
  /\ (b \div 16) % 2 = x[4] /\ (b \div 32) % 2 = x[5]
  /\ (b \div 64) % 2 = x[6] /\ (b \div 128) % 2 = x[7]

(* A choice of eight bits is that of some byte.                            *)
LEMMA BinarySum ==
  ASSUME NEW x \in [0 .. 7 -> {0, 1}]
  PROVE  \E b \in 0 .. 255 : HasBits(b, x)
<1> DEFINE x0 == x[0]  x1 == x[1]  x2 == x[2]  x3 == x[3]
           x4 == x[4]  x5 == x[5]  x6 == x[6]  x7 == x[7]
           b == x0 + 2 * x1 + 4 * x2 + 8 * x3 + 16 * x4 + 32 * x5 + 64 * x6 + 128 * x7
<1>1. /\ x0 \in {0, 1} /\ x1 \in {0, 1} /\ x2 \in {0, 1} /\ x3 \in {0, 1}
      /\ x4 \in {0, 1} /\ x5 \in {0, 1} /\ x6 \in {0, 1} /\ x7 \in {0, 1}
  <2>1. \A n \in 0 .. 7 : x[n] \in {0, 1}
    OBVIOUS
  <2> QED BY <2>1
<1> HIDE DEF x0, x1, x2, x3, x4, x5, x6, x7
<1>2. b \in 0 .. 255
  BY <1>1
<1>3. /\ (b \div 1) % 2 = x0 /\ (b \div 2) % 2 = x1
      /\ (b \div 4) % 2 = x2 /\ (b \div 8) % 2 = x3
      /\ (b \div 16) % 2 = x4 /\ (b \div 32) % 2 = x5
      /\ (b \div 64) % 2 = x6 /\ (b \div 128) % 2 = x7
  BY <1>1
<1> HIDE DEF b
<1>4. HasBits(b, x)
  BY <1>3 DEF HasBits, x0, x1, x2, x3, x4, x5, x6, x7
<1> QED BY <1>2, <1>4

(* Every set of bits is that of a byte, so a command byte can be sent.     *)
LEMMA ByteOfBits ==
  ASSUME NEW S \in SUBSET (0 .. 7)
  PROVE  \E b \in 0 .. 255 : Bits(b) = S
<1> DEFINE x == [n \in 0 .. 7 |-> IF n \in S THEN 1 ELSE 0]
<1>1. PICK b \in 0 .. 255 : HasBits(b, x)
  <2>1. x \in [0 .. 7 -> {0, 1}]
    OBVIOUS
  <2> QED BY <2>1, BinarySum
<1>2. ASSUME NEW n \in 0 .. 7 PROVE (b \div 2^n) % 2 = x[n]
  <2> HIDE DEF x
  <2>1. CASE n = 0
    BY <1>1, <2>1, Powers DEF HasBits
  <2>2. CASE n = 1
    BY <1>1, <2>2, Powers DEF HasBits
  <2>3. CASE n = 2
    BY <1>1, <2>3, Powers DEF HasBits
  <2>4. CASE n = 3
    BY <1>1, <2>4, Powers DEF HasBits
  <2>5. CASE n = 4
    BY <1>1, <2>5, Powers DEF HasBits
  <2>6. CASE n = 5
    BY <1>1, <2>6, Powers DEF HasBits
  <2>7. CASE n = 6
    BY <1>1, <2>7, Powers DEF HasBits
  <2>8. CASE n = 7
    BY <1>1, <2>8, Powers DEF HasBits
  <2>9. n = 0 \/ n = 1 \/ n = 2 \/ n = 3 \/ n = 4 \/ n = 5 \/ n = 6 \/ n = 7
    OBVIOUS
  <2> QED BY <2>1, <2>2, <2>3, <2>4, <2>5, <2>6, <2>7, <2>8, <2>9, Zenon
<1>3. ASSUME NEW n \in 0 .. 7 PROVE (b \div 2^n) % 2 = 1 <=> n \in S
  <2>1. x[n] = 1 <=> n \in S
    OBVIOUS
  <2> HIDE DEF x
  <2> QED BY <1>2, <2>1, Zenon
<1>4. Bits(b) = {n \in 0 .. 7 : n \in S}
  BY <1>3, Zenon DEF Bits
<1>5. {n \in 0 .. 7 : n \in S} = S
  OBVIOUS
<1> QED BY <1>4, <1>5

(* The command byte, as it is read back, is a byte.                        *)
LEMMA CommandByteType ==
  ASSUME command \subseteq 0 .. 7
  PROVE  CommandByte \in 0 .. 255
<1>1. \E b \in 0 .. 255 : Bits(b) = command
  BY ByteOfBits
<1> QED BY <1>1 DEF CommandByte

-----------------------------------------------------------------------------
(* mouse_install keeps the invariant.                                      *)

(* Reading the port leaves its last byte in it.                            *)
LEMMA PortRead ==
  ASSUME Ps2TypeOK, ReadPort
  PROVE  /\ out' \in [full : BOOLEAN, aux : BOOLEAN, byte : 0 .. 255, at : 0 .. 4]
         /\ out'.full = FALSE /\ out'.aux = FALSE
         /\ out'.byte = out.byte /\ out'.at = out.at
<1>1. out \in [full : BOOLEAN, aux : BOOLEAN, byte : 0 .. 255, at : 0 .. 4]
  BY DEF Ps2TypeOK
<1>2. out' = [out EXCEPT !.full = FALSE, !.aux = FALSE]
  BY DEF ReadPort
<1> QED BY <1>1, <1>2

(* What the invariant needs of a step that changes nothing else.           *)
LEMMA InvTypes ==
  ASSUME MouseInv
  PROVE  /\ pc \in 1 .. 24 /\ (Installed <=> pc = 24) /\ Ps2TypeOK /\ size \in {3, 4}
         /\ packet \in Seq([byte : 0 .. 255, at : 0 .. 4]) /\ Len(packet) \in Nat
         /\ Len(packet) < size
BY ScriptSteps DEF MouseInv, TypeOK

(* The installation is at one of its 23 steps, or done.                    *)
LEMMA Position == ASSUME MouseInv PROVE pc \in 1 .. 24
BY InvTypes

(* A poll takes the byte that is there and leaves the rest alone.          *)
LEMMA PollPreserves ==
  ASSUME MouseInv, Poll, UNCHANGED <<queue, packet, scroll, disturbed>>, pc' = pc + 1,
         pc \in {3, 21} \cup Acks, status' \in 0 .. 255, size' \in {3, 4},
         size' = 4 => size = 4 \/ (pc = 21 /\ out.byte = WheelId)
  PROVE  MouseInv'
<1>1. /\ ReadPort /\ UNCHANGED <<command, mouse, irr>>
      /\ taken' = taken \cup {b \in {out.byte} : out.full /\ ~out.aux}
      /\ late' = late \/ (late' = late + 1 /\ late < MaxLate)
  BY DEF Poll, GiveUp
<1>2. /\ out' \in [full : BOOLEAN, aux : BOOLEAN, byte : 0 .. 255, at : 0 .. 4]
      /\ out'.full = FALSE /\ out'.aux = FALSE
      /\ out'.byte = out.byte /\ out'.at = out.at
  BY <1>1, InvTypes, PortRead
<1>3. pc \in 1 .. 23 /\ pc' \in 1 .. 24 /\ pc # 4 /\ pc # 5 /\ packet = <<>>
  BY DEF Acks, MouseInv, ScriptInv
<1>4. TypeOK'
  <2>1. Ps2TypeOK'
    BY <1>1, <1>2, InvTypes DEF Ps2TypeOK
  <2>2. late' \in 0 .. MaxLate
    BY <1>1, LateAssumption DEF MouseInv, TypeOK
  <2>3. taken' \subseteq 0 .. 255
    <3>1. taken \subseteq 0 .. 255 /\ out.byte \in 0 .. 255
      BY DEF MouseInv, TypeOK, Ps2TypeOK
    <3> QED BY <1>1, <3>1
  <2>4. pc' \in 1 .. Len(Script) + 1
    BY <1>3, ScriptValue
  <2>5. packet' \in Seq([byte : 0 .. 255, at : 0 .. 4]) /\ Len(packet') < size'
    BY <1>3
  <2> QED BY <2>1, <2>2, <2>3, <2>4, <2>5 DEF MouseInv, TypeOK
<1>5. ScriptInv'
  BY <1>1, <1>3 DEF MouseInv, ScriptInv, Acks
<1>6. IrqInv'
  BY <1>1, <1>2, <1>3 DEF MouseInv, IrqInv
<1>7. IdInv'
  <2>1. pc' <= 22 => \A i \in DOMAIN queue' : queue'[i].aux /\ queue'[i].byte = WheelId
                                                => mouse'.wheel
    BY <1>1, <1>3 DEF MouseInv, IdInv
  <2>2. pc <= 21 /\ out.byte = WheelId => mouse'.wheel \/ WheelId \in taken'
    BY <1>1 DEF MouseInv, IdInv
  <2>3. pc' <= 21 /\ out'.byte = WheelId => mouse'.wheel \/ WheelId \in taken'
    BY <1>2, <1>3, <2>2
  <2>4. IdIsVerified'
    BY <1>1, <2>2 DEF MouseInv, IdInv, IdIsVerified
  <2> QED BY <2>1, <2>3, <2>4 DEF IdInv
<1> QED BY <1>4, <1>5, <1>6, <1>7 DEF MouseInv

(* Commands to the controller change its command byte or ask for it.       *)
LEMMA ControllerPreserves ==
  ASSUME MouseInv, Enable \/ Ask \/ Restore, pc' = pc + 1,
         UNCHANGED <<packet, scroll, disturbed>>
  PROVE  MouseInv'
<1>1. UNCHANGED <<out, irr, late, taken, mouse, status, size>> /\ pc \in {1, 2, 4}
  BY InvTypes, ScriptSteps, ScriptValue DEF Enable, Ask, Restore, NoPoll, MouseInv, TypeOK
<1>2. \/ command' = Restored(status)
      \/ pc # 4 /\ (command' = command \/ command' = command \ {AuxClockOff})
  BY ScriptSteps DEF Enable, Ask, Restore, EnableAux, MouseInv, TypeOK
<1>3. queue' = queue \/ queue' = Append(queue, Answer(CommandByte, FALSE))
  BY DEF Enable, Ask, Restore, AskCommand
<1>4. /\ queue' \in Seq(Byte)
      /\ \A i \in DOMAIN queue' : (i \in DOMAIN queue /\ queue'[i] = queue[i]) \/ ~queue'[i].aux
  <2>1. CASE queue' = queue
    BY <2>1, InvTypes DEF Ps2TypeOK
  <2>2. CASE queue' = Append(queue, Answer(CommandByte, FALSE))
    <3>1. Answer(CommandByte, FALSE) \in Byte /\ ~Answer(CommandByte, FALSE).aux
      BY CommandByteType, InvTypes DEF Answer, Byte, Ps2TypeOK
    <3>2. queue \in Seq(Byte)
      BY InvTypes DEF Ps2TypeOK
    <3> DEFINE answer == Answer(CommandByte, FALSE)
    <3> HIDE DEF answer
    <3>3. queue' = Append(queue, answer) /\ answer \in Byte /\ ~answer.aux
      BY <2>2, <3>1 DEF answer
    <3> QED BY <3>2, <3>3
  <2> QED BY <1>3, <2>1, <2>2
<1>5. command' \subseteq 0 .. 7 /\ (pc = 4 => AuxInterrupt \in command')
  <2>1. CASE command' = Restored(status)
    <3>1. Bits(status) \subseteq 0 .. 7
      BY BitsType
    <3> QED BY <2>1, <3>1 DEF Restored, AuxInterrupt, AuxClockOff
  <2>2. CASE pc # 4 /\ (command' = command \/ command' = command \ {AuxClockOff})
    BY <2>2, InvTypes DEF Ps2TypeOK
  <2> QED BY <1>2, <2>1, <2>2
<1>6. TypeOK'
  <2>1. pc' \in 1 .. Len(Script) + 1 /\ packet = <<>>
    BY <1>1, ScriptValue DEF MouseInv, ScriptInv
  <2>2. Ps2TypeOK'
    BY <1>1, <1>4, <1>5, InvTypes DEF Ps2TypeOK
  <2> QED BY <1>1, <2>1, <2>2 DEF MouseInv, TypeOK
<1>7. ScriptInv'
  BY <1>1 DEF MouseInv, ScriptInv
<1>8. IrqInv'
  <2>1. pc \in {1, 2, 4} /\ \A i \in DOMAIN queue : ~queue[i].aux
    BY <1>1 DEF MouseInv, IrqInv
  <2>2. \A i \in DOMAIN queue' : ~queue'[i].aux
    BY <1>4, <2>1
  <2>3. pc' <= 5 /\ (pc' >= 5 => pc = 4)
    BY <2>1
  <2>4. out'.full /\ out'.aux => Mouse \in irr'
    BY <1>1 DEF MouseInv, IrqInv
  <2> QED BY <1>5, <2>2, <2>3, <2>4 DEF IrqInv
<1>9. IdInv'
  BY <1>1, <1>4 DEF MouseInv, IdInv, IdIsVerified
<1> QED BY <1>6, <1>7, <1>8, <1>9 DEF MouseInv

(* What the mouse may be.                                                  *)
MouseStates == [kind : Kinds, wheel : BOOLEAN, reporting : BOOLEAN,
                rateNext : BOOLEAN, rates : Seq(SampleRates)]

(* The mouse keeps the last three sample rates.                            *)
LEMMA RatesType ==
  ASSUME mouse \in MouseStates, NEW b \in SampleRates
  PROVE  Rates(b) \in Seq(SampleRates)
<1> DEFINE r == Append(mouse.rates, b)
<1>1. mouse.rates \in Seq(SampleRates)
  BY DEF MouseStates
<1>2. r \in Seq(SampleRates) /\ Len(r) \in Nat
  BY <1>1
<1> HIDE DEF r
<1>3. \A m \in 1 .. 2 : SubSeq(r, m, Len(r)) \in Seq(SampleRates)
  <2> TAKE m \in 1 .. 2
  <2>1. \A i \in m .. Len(r) : r[i] \in SampleRates
    BY <1>2
  <2> QED BY <1>2, <2>1, SubSeqProperties
<1>4. Rates(b) = SubSeq(r, IF Len(r) > 3 THEN 2 ELSE 1, Len(r))
  BY DEF Rates, r
<1> QED BY <1>3, <1>4

(* What a byte of the script does to the mouse.                            *)
LEMMA AfterByteValue ==
  ASSUME mouse \in MouseStates, NEW b, mouse.rateNext => b \in SampleRates
  PROVE  /\ AfterByte(b) \in MouseStates
         /\ mouse.wheel => AfterByte(b).wheel
         /\ AfterByte(b).rateNext => b = 243
         /\ AfterByte(b).reporting => mouse.reporting \/ b = 244
         /\ AfterByte(b).kind = mouse.kind
<1>1. CASE mouse.rateNext
  <2>1. Rates(b) \in Seq(SampleRates)
    BY <1>1, RatesType
  <2> DEFINE wheel == mouse.wheel \/ (mouse.kind = "wheel" /\ Rates(b) = <<200, 100, 80>>)
  <2>2. AfterByte(b) = [mouse EXCEPT !.rateNext = FALSE, !.rates = Rates(b), !.wheel = wheel]
    BY <1>1 DEF AfterByte
  <2>3. wheel \in BOOLEAN /\ (mouse.wheel => wheel)
    BY DEF MouseStates
  <2> HIDE DEF wheel
  <2>4. AfterByte(b).kind = mouse.kind /\ AfterByte(b).rateNext = FALSE
        /\ AfterByte(b).wheel = wheel /\ AfterByte(b).reporting = mouse.reporting
    BY <2>2 DEF MouseStates
  <2>5. AfterByte(b) \in MouseStates
    BY <2>1, <2>2, <2>3 DEF MouseStates
  <2> QED BY <2>3, <2>4, <2>5
<1>2. CASE ~mouse.rateNext
  <2>1. CASE b = 246
    <3>1. AfterByte(b) = [mouse EXCEPT !.reporting = FALSE, !.rates = <<>>]
      BY <1>2, <2>1 DEF AfterByte
    <3>2. AfterByte(b) \in MouseStates
      <4>1. <<>> \in Seq(SampleRates)
        OBVIOUS
      <4> DEFINE none == <<>>
      <4> HIDE DEF none
      <4>2. none \in Seq(SampleRates) /\ AfterByte(b) = [mouse EXCEPT !.reporting = FALSE, !.rates = none]
        BY <3>1, <4>1 DEF none
      <4> QED BY <4>2 DEF MouseStates
    <3>3. /\ AfterByte(b).wheel = mouse.wheel /\ AfterByte(b).rateNext = mouse.rateNext
          /\ AfterByte(b).reporting = FALSE /\ AfterByte(b).kind = mouse.kind
      BY <1>2, <3>1 DEF MouseStates
    <3> QED BY <1>2, <3>2, <3>3
  <2>2. CASE b = 243
    <3>1. AfterByte(b) = [mouse EXCEPT !.rateNext = TRUE]
      BY <1>2, <2>2 DEF AfterByte
    <3>2. AfterByte(b) \in MouseStates
      BY <3>1 DEF MouseStates
    <3>3. /\ AfterByte(b).wheel = mouse.wheel /\ AfterByte(b).rateNext = TRUE
          /\ AfterByte(b).reporting = mouse.reporting /\ AfterByte(b).kind = mouse.kind
      BY <1>2, <3>1 DEF MouseStates
    <3> QED BY <1>2, <2>2, <3>2, <3>3
  <2>3. CASE b = 244
    <3>1. AfterByte(b) = [mouse EXCEPT !.reporting = TRUE]
      BY <1>2, <2>3 DEF AfterByte
    <3>2. AfterByte(b) \in MouseStates
      BY <3>1 DEF MouseStates
    <3>3. /\ AfterByte(b).wheel = mouse.wheel /\ AfterByte(b).rateNext = mouse.rateNext
          /\ AfterByte(b).reporting = TRUE /\ AfterByte(b).kind = mouse.kind
      BY <1>2, <3>1 DEF MouseStates
    <3> QED BY <1>2, <2>3, <3>2, <3>3
  <2>4. CASE b # 246 /\ b # 243 /\ b # 244
    BY <1>2, <2>4 DEF AfterByte
  <2> QED BY <2>1, <2>2, <2>3, <2>4
<1> QED BY <1>1, <1>2

(* A function on 1 .. n is a sequence of length n.                         *)
LEMMA ListOf ==
  ASSUME NEW S, NEW n \in Nat, NEW f \in [1 .. n -> S]
  PROVE  f \in Seq(S) /\ Len(f) = n /\ DOMAIN f = 1 .. n
OBVIOUS

(* What the mouse answers to a byte goes to the end of the queue.          *)
Answered(b) == [i \in DOMAIN Answers(b) |-> Answer(Answers(b)[i], TRUE)]

(* Its answer is an acknowledgment, after which an id may follow.          *)
LEMMA AnsweredValue ==
  ASSUME NEW b
  PROVE  /\ Answered(b) \in Seq(Byte) /\ Len(Answered(b)) \in {1, 2}
         /\ \A i \in DOMAIN Answered(b) : /\ Answered(b)[i].aux /\ Answered(b)[i].at = 0
                                          /\ Answered(b)[i].byte = WheelId => mouse.wheel
<1>1. CASE b = 242 /\ ~mouse.rateNext
  <2> DEFINE id == IF mouse.wheel THEN WheelId ELSE 0
  <2>1. Answers(b) = <<ACK, id>>
    BY <1>1 DEF Answers
  <2>2. id \in 0 .. 255 /\ (id = WheelId => mouse.wheel) /\ ACK \in 0 .. 255 /\ ACK # WheelId
    BY DEF WheelId, ACK
  <2> HIDE DEF id
  <2>3. /\ Answered(b) = [i \in 1 .. 2 |-> Answer(Answers(b)[i], TRUE)]
    BY <2>1 DEF Answered
  <2>4. \A i \in 1 .. 2 : Answers(b)[i] \in {ACK, id}
    BY <2>1
  <2>5. \A i \in 1 .. 2 : /\ Answer(Answers(b)[i], TRUE) \in Byte
                          /\ Answer(Answers(b)[i], TRUE).aux
                          /\ Answer(Answers(b)[i], TRUE).at = 0
                          /\ Answer(Answers(b)[i], TRUE).byte = WheelId => mouse.wheel
    BY <2>2, <2>4 DEF Answer, Byte
  <2>6. Answered(b) \in [1 .. 2 -> Byte]
    BY <2>3, <2>5
  <2>7. Answered(b) \in Seq(Byte) /\ Len(Answered(b)) = 2 /\ DOMAIN Answered(b) = 1 .. 2
    BY <2>6, ListOf
  <2> QED BY <2>3, <2>5, <2>7
<1>2. CASE ~(b = 242 /\ ~mouse.rateNext)
  <2>1. Answers(b) = <<ACK>>
    BY <1>2 DEF Answers
  <2>2. Answered(b) = [i \in 1 .. 1 |-> Answer(Answers(b)[i], TRUE)]
    BY <2>1 DEF Answered
  <2>3. \A i \in 1 .. 1 : /\ Answer(Answers(b)[i], TRUE) \in Byte
                          /\ Answer(Answers(b)[i], TRUE).aux
                          /\ Answer(Answers(b)[i], TRUE).at = 0
                          /\ Answer(Answers(b)[i], TRUE).byte # WheelId
    BY <2>1 DEF Answer, Byte, ACK, WheelId
  <2>4. Answered(b) \in [1 .. 1 -> Byte]
    BY <2>2, <2>3
  <2>5. Answered(b) \in Seq(Byte) /\ Len(Answered(b)) = 1 /\ DOMAIN Answered(b) = 1 .. 1
    BY <2>4, ListOf
  <2> QED BY <2>2, <2>3, <2>5
<1> QED BY <1>1, <1>2

(* A byte sent to the mouse, at each write of the script.                  *)
LEMMA WritePreserves ==
  ASSUME MouseInv, MouseWrite, pc' = pc + 1, UNCHANGED <<packet, scroll, disturbed>>
  PROVE  MouseInv'
<1> DEFINE b == Script[pc].byte
<1>1. /\ pc \in Writes /\ UNCHANGED <<out, irr, late, taken, command, status, size>>
      /\ SendToMouse(b)
  BY ScriptSteps DEF MouseWrite, NoPoll, MouseInv, TypeOK
<1>2. /\ b = 243 => pc \in {7, 11, 15}
      /\ b = 244 => pc = 22
      /\ pc \in {9, 13, 17} => b \in SampleRates
  BY <1>1, ScriptValue DEF Writes, SampleRates
<1> HIDE DEF b
<1>3. mouse \in MouseStates /\ (mouse.rateNext => b \in SampleRates) /\ queue \in Seq(Byte)
  <2>1. mouse.rateNext => pc \in {9, 13, 17}
    BY <1>1 DEF MouseInv, ScriptInv, Writes
  <2> QED BY <1>2, <2>1, InvTypes DEF Ps2TypeOK, MouseStates
<1>4. /\ mouse' \in MouseStates /\ (mouse.wheel => mouse'.wheel)
      /\ mouse'.rateNext => b = 243 /\ mouse'.kind # "none"
      /\ mouse'.reporting => (mouse.reporting \/ b = 244) /\ mouse'.kind # "none"
  <2>1. CASE mouse.kind = "none"
    BY <1>1, <1>3, <2>1 DEF SendToMouse, MouseInv, ScriptInv
  <2>2. CASE mouse.kind # "none"
    BY <1>1, <1>3, <2>2, AfterByteValue DEF SendToMouse
  <2> QED BY <2>1, <2>2
<1>5. queue' = queue \/ queue' = queue \o Answered(b)
  BY <1>1 DEF SendToMouse, Answered
<1>6. /\ queue' \in Seq(Byte)
      /\ \A i \in DOMAIN queue' : \/ i \in DOMAIN queue /\ queue'[i] = queue[i]
                                  \/ queue'[i].byte = WheelId => mouse.wheel
  <2>1. CASE queue' = queue
    BY <1>3, <2>1
  <2>2. CASE queue' = queue \o Answered(b)
    <3> DEFINE more == Answered(b)
    <3>1. more \in Seq(Byte) /\ \A i \in DOMAIN more : more[i].byte = WheelId => mouse.wheel
      BY AnsweredValue
    <3> HIDE DEF more
    <3>2. queue' = queue \o more
      BY <2>2 DEF more
    <3>3. /\ queue' \in Seq(Byte) /\ Len(queue') = Len(queue) + Len(more)
          /\ \A i \in 1 .. Len(queue) : queue'[i] = queue[i]
          /\ \A i \in Len(queue) + 1 .. Len(queue) + Len(more) :
               queue'[i] = more[i - Len(queue)]
      BY <1>3, <3>1, <3>2, ConcatProperties
    <3>4. ASSUME NEW i \in DOMAIN queue'
          PROVE  \/ i \in DOMAIN queue /\ queue'[i] = queue[i]
                 \/ queue'[i].byte = WheelId => mouse.wheel
      <4>1. /\ DOMAIN queue = 1 .. Len(queue) /\ DOMAIN more = 1 .. Len(more)
            /\ DOMAIN queue' = 1 .. Len(queue') /\ Len(queue) \in Nat /\ Len(more) \in Nat
        BY <1>3, <3>1, <3>3
      <4>2. CASE i \in 1 .. Len(queue)
        BY <3>3, <4>1, <4>2
      <4>3. CASE i \in Len(queue) + 1 .. Len(queue) + Len(more)
        <5>1. i - Len(queue) \in DOMAIN more
          BY <4>1, <4>3
        <5> QED BY <3>1, <3>3, <4>3, <5>1
      <4> QED BY <3>3, <4>1, <4>2, <4>3
    <3> QED BY <3>3, <3>4
  <2> QED BY <1>5, <2>1, <2>2
<1>7. pc' \in 6 .. 23 /\ pc \in 5 .. 22 /\ packet = <<>> /\ (b = 243 => pc' \in {8, 12, 16})
      /\ (b = 244 => pc' = 23)
  BY <1>1, <1>2 DEF Writes, MouseInv, ScriptInv
<1>8. TypeOK'
  <2>1. Ps2TypeOK'
    BY <1>1, <1>4, <1>6, InvTypes DEF Ps2TypeOK, MouseStates
  <2>2. pc' \in 1 .. Len(Script) + 1
    BY <1>7, ScriptValue
  <2> QED BY <1>1, <2>1, <2>2 DEF MouseInv, TypeOK
<1>9. ScriptInv'
  BY <1>4, <1>7 DEF MouseInv, ScriptInv
<1>10. IrqInv'
  BY <1>1, <1>7 DEF MouseInv, IrqInv, Writes
<1>11. IdInv'
  <2>1. pc <= 22 /\ \A i \in DOMAIN queue : queue[i].aux /\ queue[i].byte = WheelId => mouse.wheel
    BY <1>7 DEF MouseInv, IdInv
  <2>2. \A i \in DOMAIN queue' : queue'[i].aux /\ queue'[i].byte = WheelId => mouse'.wheel
    BY <1>4, <1>6, <2>1
  <2>3. pc' <= 21 /\ out'.byte = WheelId =>
          (out'.full /\ ~out'.aux) \/ mouse'.wheel \/ WheelId \in taken'
    BY <1>1, <1>4, <1>7 DEF MouseInv, IdInv
  <2>4. IdIsVerified'
    BY <1>1, <1>4 DEF MouseInv, IdInv, IdIsVerified
  <2> QED BY <2>2, <2>3, <2>4 DEF IdInv
<1> QED BY <1>8, <1>9, <1>10, <1>11 DEF MouseInv

(* A poll of mouse_install.                                                *)
LEMMA InstallPreserves == MouseInv /\ MouseInstall => MouseInv'
<1> SUFFICES ASSUME MouseInv, MouseInstall PROVE MouseInv'
  OBVIOUS
<1>1. pc' = pc + 1 /\ UNCHANGED <<packet, scroll, disturbed>>
  BY DEF MouseInstall
<1>2. pc \in Nat /\ status \in 0 .. 255 /\ size \in {3, 4} /\ out.byte \in 0 .. 255
  BY InvTypes DEF MouseInv, TypeOK, Ps2TypeOK
<1>3. CASE Enable \/ Ask \/ Restore
  BY <1>1, <1>3, ControllerPreserves
<1>4. CASE MouseWrite
  BY <1>1, <1>4, WritePreserves
<1>5. CASE GetCommand
  <2>1. /\ Poll /\ UNCHANGED <<queue, size>> /\ status' = out.byte /\ pc = 3
    BY <1>5, ScriptSteps DEF GetCommand, MouseInv, TypeOK
  <2> QED BY <1>1, <1>2, <2>1, PollPreserves
<1>6. CASE ReadAck
  <2>1. /\ Poll /\ UNCHANGED <<queue, status, size>> /\ pc \in Acks
    BY <1>6, ScriptSteps DEF ReadAck, MouseInv, TypeOK
  <2> QED BY <1>1, <1>2, <2>1, PollPreserves
<1>7. CASE ReadId
  <2>1. /\ Poll /\ UNCHANGED <<queue, status>> /\ size' = SizeOf(out.byte) /\ pc = 21
    BY <1>7, ScriptSteps DEF ReadId, MouseInv, TypeOK
  <2>2. size' \in {3, 4} /\ (size' = 4 => out.byte = WheelId)
    BY <2>1 DEF SizeOf
  <2> QED BY <1>1, <1>2, <2>1, <2>2, PollPreserves
<1> QED BY <1>3, <1>4, <1>5, <1>6, <1>7 DEF MouseInstall

-----------------------------------------------------------------------------
(* So do the handlers and the devices.                                     *)

(* The keyboard's handler, which reads whatever byte is in the port.       *)
LEMMA KeyboardIrqPreserves == MouseInv /\ KeyboardIrq => MouseInv'
<1> SUFFICES ASSUME MouseInv, KeyboardIrq PROVE MouseInv'
  OBVIOUS
<1>1. /\ pc = 24 /\ irr' = irr \ {Keyboard} /\ ReadPort /\ disturbed' = (disturbed \/ out.aux)
      /\ UNCHANGED <<queue, command, mouse, pc, status, size, packet, scroll, late, taken>>
  BY InvTypes DEF KeyboardIrq, driverVars
<1>2. /\ out' \in [full : BOOLEAN, aux : BOOLEAN, byte : 0 .. 255, at : 0 .. 4]
      /\ out'.full = FALSE /\ out'.aux = FALSE
  BY <1>1, InvTypes, PortRead
<1>3. disturbed' \in BOOLEAN
  BY <1>1, InvTypes DEF Ps2TypeOK, MouseInv, TypeOK
<1>4. Ps2TypeOK'
  BY <1>1, <1>2, InvTypes DEF Ps2TypeOK
<1>5. TypeOK'
  BY <1>1, <1>3, <1>4 DEF MouseInv, TypeOK
<1>6. ScriptInv' /\ IrqInv' /\ IdInv'
  BY <1>1, <1>2 DEF MouseInv, ScriptInv, IrqInv, IdInv, IdIsVerified
<1> QED BY <1>5, <1>6 DEF MouseInv

(* The packet takes a byte and is emptied when it is complete.             *)
LEMMA AssembleValue ==
  ASSUME MouseInv, Assemble
  PROVE  /\ packet' \in Seq([byte : 0 .. 255, at : 0 .. 4]) /\ Len(packet') < size
         /\ scroll' \in {"none", "up", "down"}
<1> DEFINE last == [byte |-> out.byte, at |-> out.at]
           p == Append(packet, last)
<1>1. last \in [byte : 0 .. 255, at : 0 .. 4]
  BY InvTypes DEF Ps2TypeOK
<1>2. p \in Seq([byte : 0 .. 255, at : 0 .. 4]) /\ Len(p) <= size /\ size \in {3, 4}
      /\ Len(p) \in Nat
  <2> HIDE DEF last
  <2> QED BY <1>1, InvTypes
<1>3. packet' = (IF Len(p) = size THEN <<>> ELSE p)
  BY DEF Assemble, Complete
<1>4. scroll' \in {"none", "up", "down"}
  BY DEF Assemble, Complete, Direction, MouseInv, TypeOK
<1> HIDE DEF p
<1> QED BY <1>2, <1>3, <1>4

(* The mouse's handler adds a byte to the packet, or drops it.             *)
LEMMA MouseIrqPreserves == MouseInv /\ MouseIrq => MouseInv'
<1> SUFFICES ASSUME MouseInv, MouseIrq PROVE MouseInv'
  OBVIOUS
<1>1. /\ pc = 24 /\ irr = {Mouse} /\ irr' = {}
      /\ disturbed' = (disturbed \/ (out.aux /\ out.at = 0))
      /\ UNCHANGED <<queue, command, mouse, pc, status, size, late, taken>>
  BY InvTypes DEF MouseIrq
<1>2. \/ ~out.aux /\ UNCHANGED <<out, packet, scroll>>
      \/ ReadPort /\ UNCHANGED <<packet, scroll>>
      \/ ReadPort /\ Assemble
  BY DEF MouseIrq, NotOurs, OutOfStep, Assemble
<1>3. /\ packet' \in Seq([byte : 0 .. 255, at : 0 .. 4]) /\ Len(packet') < size
      /\ scroll' \in {"none", "up", "down"}
  BY <1>2, AssembleValue DEF MouseInv, TypeOK
<1>4. /\ out' \in [full : BOOLEAN, aux : BOOLEAN, byte : 0 .. 255, at : 0 .. 4]
      /\ \/ out'.full = FALSE
         \/ out' = out /\ ~out.aux
  BY <1>2, InvTypes, PortRead DEF Ps2TypeOK
<1>5. disturbed' \in BOOLEAN
  BY <1>1, InvTypes DEF Ps2TypeOK, MouseInv, TypeOK
<1>6. Ps2TypeOK'
  BY <1>1, <1>4, InvTypes DEF Ps2TypeOK
<1>7. TypeOK'
  BY <1>1, <1>3, <1>5, <1>6 DEF MouseInv, TypeOK
<1>8. ScriptInv' /\ IdInv'
  BY <1>1 DEF MouseInv, ScriptInv, IdInv, IdIsVerified
<1>9. IrqInv'
  <2>1. Keyboard \notin irr
    BY <1>1 DEF Keyboard, Mouse
  <2> QED BY <1>1, <1>4, <2>1 DEF MouseInv, IrqInv
<1> QED BY <1>7, <1>8, <1>9 DEF MouseInv

(* A byte that arrives raises its line, if the command byte says so.       *)
LEMMA FillValue ==
  ASSUME Ps2TypeOK, NEW b \in Byte, Fill(b)
  PROVE  /\ out' \in [full : BOOLEAN, aux : BOOLEAN, byte : 0 .. 255, at : 0 .. 4]
         /\ out'.full /\ out'.aux = b.aux /\ out'.byte = b.byte /\ out'.at = b.at
         /\ irr' \subseteq {Keyboard, Mouse}
         /\ b.aux /\ AuxInterrupt \in command => Mouse \in irr'
         /\ ~b.aux /\ KbdInterrupt \in command => Keyboard \in irr'
<1>1. b.byte \in 0 .. 255 /\ b.aux \in BOOLEAN /\ b.at \in 0 .. 4
  BY DEF Byte
<1>2. out' = [full |-> TRUE, aux |-> b.aux, byte |-> b.byte, at |-> b.at]
  BY DEF Fill
<1>3. out' \in [full : BOOLEAN, aux : BOOLEAN, byte : 0 .. 255, at : 0 .. 4]
  BY <1>1, <1>2
<1>4. irr \subseteq {Keyboard, Mouse}
  BY DEF Ps2TypeOK
<1>5. irr' = irr \cup (IF b.aux THEN {Mouse : n \in command \cap {AuxInterrupt}}
                                ELSE {Keyboard : n \in command \cap {KbdInterrupt}})
  BY DEF Fill
<1>6. /\ irr' \subseteq {Keyboard, Mouse}
      /\ b.aux /\ AuxInterrupt \in command => Mouse \in irr'
      /\ ~b.aux /\ KbdInterrupt \in command => Keyboard \in irr'
  BY <1>4, <1>5
<1> QED BY <1>2, <1>3, <1>6

(* The user, the mouse and the controller.                                 *)
LEMMA DevicesPreserve == MouseInv /\ Devices => MouseInv'
<1> SUFFICES ASSUME MouseInv, Devices PROVE MouseInv'
  OBVIOUS
<1>1. UNCHANGED <<pc, status, size, packet, scroll, late, taken, disturbed>>
  BY DEF Devices, driverVars
<1>2. ASSUME Ps2TypeOK', IrqInv', IdInv', UNCHANGED mouse PROVE MouseInv'
  BY <1>1, <1>2 DEF MouseInv, TypeOK, ScriptInv
<1>3. ASSUME NEW code \in Codes, Press(code) PROVE MouseInv'
  <2>1. Answer(code, FALSE) \in Byte /\ ~Answer(code, FALSE).aux
    BY Ps2Assumption DEF Answer, Byte
  <2>2. /\ out' \in [full : BOOLEAN, aux : BOOLEAN, byte : 0 .. 255, at : 0 .. 4]
        /\ out'.full /\ ~out'.aux /\ irr' \subseteq {Keyboard, Mouse}
        /\ KbdInterrupt \in command => Keyboard \in irr'
        /\ UNCHANGED <<queue, command, mouse>>
    BY <1>3, <2>1, InvTypes, FillValue DEF Press
  <2>3. Ps2TypeOK'
    BY <2>2, InvTypes DEF Ps2TypeOK
  <2>4. IrqInv' /\ IdInv'
    BY <1>1, <2>2 DEF MouseInv, IrqInv, IdInv, IdIsVerified
  <2> QED BY <1>2, <2>2, <2>3, <2>4
<1>4. ASSUME Arrive PROVE MouseInv'
  <2> DEFINE b == Head(queue)
  <2>1. queue \in Seq(Byte) /\ queue # <<>>
    BY <1>4, InvTypes DEF Arrive, Ps2TypeOK
  <2>2. /\ b \in Byte /\ b = queue[1] /\ 1 \in DOMAIN queue
        /\ Tail(queue) \in Seq(Byte)
        /\ \A i \in DOMAIN Tail(queue) : i + 1 \in DOMAIN queue /\ Tail(queue)[i] = queue[i + 1]
    BY <2>1
  <2> HIDE DEF b
  <2>3. Fill(b) /\ queue' = Tail(queue) /\ UNCHANGED <<command, mouse>>
    BY <1>4 DEF Arrive, b
  <2>4. /\ out' \in [full : BOOLEAN, aux : BOOLEAN, byte : 0 .. 255, at : 0 .. 4]
        /\ out'.full /\ out'.aux = b.aux /\ out'.byte = b.byte
        /\ irr' \subseteq {Keyboard, Mouse}
        /\ b.aux /\ AuxInterrupt \in command => Mouse \in irr'
        /\ ~b.aux /\ KbdInterrupt \in command => Keyboard \in irr'
    BY <2>2, <2>3, InvTypes, FillValue
  <2>5. Ps2TypeOK'
    BY <2>2, <2>3, <2>4, InvTypes DEF Ps2TypeOK
  <2>6. IrqInv'
    <3>1. pc <= 5 => ~b.aux /\ \A i \in DOMAIN queue' : ~queue'[i].aux
      BY <2>2, <2>3 DEF MouseInv, IrqInv
    <3>2. pc >= 5 => AuxInterrupt \in command
      BY DEF MouseInv, IrqInv
    <3>3. out'.aux => Mouse \in irr'
      <4>1. pc <= 5 \/ pc >= 5
        BY Position
      <4> QED BY <2>4, <3>1, <3>2, <4>1
    <3>4. ~out'.aux => Keyboard \in irr' \/ KbdInterrupt \notin command'
      BY <2>3, <2>4
    <3> QED BY <1>1, <2>3, <3>1, <3>2, <3>3, <3>4 DEF IrqInv
  <2>7. IdInv'
    <3>1. pc <= 22 => /\ \A i \in DOMAIN queue' :
                           queue'[i].aux /\ queue'[i].byte = WheelId => mouse.wheel
                      /\ b.aux /\ b.byte = WheelId => mouse.wheel
      BY <2>2, <2>3 DEF MouseInv, IdInv
    <3>2. pc <= 21 /\ out'.byte = WheelId => (out'.full /\ ~out'.aux) \/ mouse.wheel
      <4>1. pc <= 21 => pc <= 22
        BY Position
      <4> QED BY <2>4, <3>1, <4>1
    <3>3. IdIsVerified'
      BY <1>1, <2>3 DEF MouseInv, IdInv, IdIsVerified
    <3> QED BY <1>1, <2>3, <3>1, <3>2, <3>3 DEF IdInv
  <2> QED BY <1>2, <2>3, <2>5, <2>6, <2>7
<1>5. ASSUME NEW r \in Reports, Report(r) PROVE MouseInv'
  <2>1. /\ pc >= 23 /\ UNCHANGED <<out, command, mouse, irr>>
        /\ queue' = [i \in 1 .. ReportLength |-> [byte |-> r[i], aux |-> TRUE, at |-> i]]
    BY <1>5 DEF Report, MouseInv, ScriptInv
  <2>2. \A i \in 1 .. 4 : r[i] \in 0 .. 255
    BY Ps2Assumption
  <2>3. ReportLength \in {3, 4}
    BY DEF ReportLength
  <2>4. queue' \in [1 .. ReportLength -> Byte]
    <3> DEFINE n == ReportLength
           bytes == [i \in 1 .. 4 |-> [byte |-> r[i], aux |-> TRUE, at |-> i]]
    <3>1. \A i \in 1 .. 4 : bytes[i] \in Byte
      BY <2>2 DEF Byte
    <3>2. n \in {3, 4} /\ queue' = [i \in 1 .. n |-> bytes[i]]
      BY <2>1, <2>3
    <3> HIDE DEF n, bytes
    <3>3. queue' \in [1 .. n -> Byte]
      BY <3>1, <3>2
    <3> QED BY <3>3 DEF n
  <2>5. queue' \in Seq(Byte)
    BY <2>3, <2>4, ListOf
  <2>6. Ps2TypeOK'
    BY <2>1, <2>5, InvTypes DEF Ps2TypeOK
  <2>7. pc' \in {23, 24} /\ pc = pc'
    <3>1. pc >= 23 => pc \in {23, 24}
      BY Position
    <3> QED BY <1>1, <2>1, <3>1
  <2>8. IrqInv'
    BY <2>1, <2>7 DEF MouseInv, IrqInv
  <2>9. IdIsVerified'
    BY <1>1, <2>1 DEF MouseInv, IdInv, IdIsVerified
  <2>10. IdInv'
    BY <2>7, <2>9 DEF IdInv
  <2> QED BY <1>2, <2>1, <2>6, <2>8, <2>10
<1> QED BY <1>3, <1>4, <1>5 DEF Devices

(* The invariant holds at power-on, whatever the firmware left.            *)
LEMMA MouseInitially == Init => MouseInv
<1> SUFFICES ASSUME Init PROVE MouseInv
  OBVIOUS
<1>1. command \subseteq 0 .. 7
  BY BitsType DEF Init, Ps2Init
<1>2. Ps2TypeOK
  <2> DEFINE none == <<>>
  <2>1. none \in Seq(SampleRates) /\ queue \in Seq(Byte)
    BY DEF Init, Ps2Init
  <2>2. mouse \in [kind : Kinds, wheel : {FALSE}, reporting : {FALSE},
                   rateNext : {FALSE}, rates : {none}]
    BY DEF Init, Ps2Init
  <2> HIDE DEF none
  <2>3. mouse \in MouseStates
    BY <2>1, <2>2 DEF MouseStates
  <2>4. out \in [full : BOOLEAN, aux : BOOLEAN, byte : 0 .. 255, at : 0 .. 4] /\ irr = {}
    BY DEF Init, Ps2Init, ACK
  <2> QED BY <1>1, <2>1, <2>3, <2>4 DEF Ps2TypeOK, MouseStates
<1>3. TypeOK
  <2>1. packet \in Seq([byte : 0 .. 255, at : 0 .. 4]) /\ Len(packet) = 0
    BY DEF Init
  <2>2. pc \in 1 .. Len(Script) + 1 /\ late \in 0 .. MaxLate
    BY ScriptValue, LateAssumption DEF Init
  <2>3. status = 0 /\ size = 3 /\ scroll = "none" /\ taken = {} /\ disturbed = FALSE
    BY DEF Init
  <2>4. size \in {3, 4} /\ Len(packet) < size
    BY <2>1, <2>3
  <2>5. status \in 0 .. 255
    BY <2>3
  <2>6. scroll \in {"none", "up", "down"}
    BY <2>3
  <2>7. taken \subseteq 0 .. 255
    BY <2>3
  <2>8. disturbed \in BOOLEAN
    BY <2>3
  <2> QED BY <1>2, <2>1, <2>2, <2>4, <2>5, <2>6, <2>7, <2>8 DEF TypeOK
<1>4. ScriptInv
  BY DEF Init, Ps2Init, ScriptInv
<1>5. IrqInv /\ IdInv
  BY DEF Init, Ps2Init, IrqInv, IdInv, IdIsVerified, ACK, WheelId
<1> QED BY <1>3, <1>4, <1>5 DEF MouseInv

(* Every step keeps it.                                                    *)
LEMMA MouseStep == MouseInv /\ [Next]_vars => MouseInv'
<1> SUFFICES ASSUME MouseInv, [Next]_vars PROVE MouseInv'
  OBVIOUS
<1>1. CASE UNCHANGED vars
  BY <1>1 DEF vars, ps2Vars, driverVars, MouseInv, TypeOK, Ps2TypeOK, ScriptInv, IrqInv,
              IdInv, IdIsVerified
<1> QED BY <1>1, InstallPreserves, KeyboardIrqPreserves, MouseIrqPreserves, DevicesPreserve
        DEF Next

(* What mouse_install, the two handlers, the controller and the mouse know *)
(* of each other at every step of the script and after it.                 *)
THEOREM MouseInvariant == Spec => []MouseInv
BY MouseInitially, MouseStep, PTL DEF Spec

(* The state keeps its types: no packet outgrows mouse_packet and every    *)
(* byte sent where the mouse expects a sample rate is one.                 *)
THEOREM MouseTypeCorrect == Spec => []TypeOK
<1>1. MouseInv => TypeOK
  BY DEF MouseInv
<1> QED BY <1>1, MouseInvariant, PTL

(* Packets of four bytes are expected only of a mouse that sends them,     *)
(* whatever answers are late, unless a key's scan code passed for one.     *)
THEOREM WheelIsVerified == Spec => []IdIsVerified
<1>1. MouseInv => IdIsVerified
  BY DEF MouseInv, IdInv
<1> QED BY <1>1, MouseInvariant, PTL

(* Every byte in the output buffer has its interrupt coming, for every     *)
(* command byte that mouse_install may have written.                       *)
THEOREM MouseStrandsNoByte == Spec => []NoStrandedByte
<1>1. MouseInv => NoStrandedByte
  BY InvTypes DEF MouseInv, IrqInv, NoStrandedByte
<1> QED BY <1>1, MouseInvariant, PTL

-----------------------------------------------------------------------------
(* A packet is a report, as long as no byte was lost to another reader.    *)

(* No byte of a report is on its way to the handler.                       *)
NoReport == /\ packet = <<>>
            /\ \A i \in DOMAIN queue : queue[i].at = 0
            /\ out.aux => out.at = 0

(* The queue holds a report from its byte j on.                            *)
ReportFrom(j) == /\ Len(queue) = ReportLength + 1 - j
                 /\ \A i \in DOMAIN queue : queue[i].aux /\ queue[i].at = j - 1 + i

(* The packet holds the first k bytes of a report.                         *)
Delivered(k) == Len(packet) = k /\ \A i \in 1 .. k : packet[i].at = i

(* The output buffer has the byte before the queue's first: one of the     *)
(* same report, the last one of the report before, or a late answer.       *)
OutTakes(j) == /\ out.aux
               /\ out.at = j - 1 \/ (j = 1 /\ out.at = ReportLength)
               /\ Delivered(IF out.at = 0 THEN 0 ELSE out.at - 1)

QueueTakes(j) == ~out.aux /\ j <= ReportLength /\ Delivered(j - 1)

InOrder ==
  \/ NoReport
  \/ \E j \in 1 .. ReportLength + 1 : ReportFrom(j) /\ (OutTakes(j) \/ QueueTakes(j))

(* The answer to the last command is still ahead of any report.            *)
AckComing == \/ out.aux /\ out.at = 0
             \/ \E i \in DOMAIN queue : queue[i].aux /\ queue[i].at = 0

(* The first byte of a report has its bit 3, wherever it waits.            *)
FirstBits ==
  /\ out.aux => out.full
  /\ \A i \in DOMAIN queue : queue[i].aux /\ queue[i].at = 1 => 3 \in Bits(queue[i].byte)
  /\ out.aux /\ out.at = 1 => 3 \in Bits(out.byte)

SyncInv ==
  /\ FirstBits
  /\ pc <= 22 => NoReport
  /\ pc = 23 => \/ NoReport /\ (mouse.kind = "none" \/ AckComing)
                \/ ReportFrom(1) /\ out.aux /\ out.at = 0
  /\ pc = 24 /\ ~disturbed /\ size = ReportLength => InOrder

(* At first no report is on its way.                                       *)
LEMMA SyncInitially == Init => SyncInv
BY ScriptValue DEF Init, Ps2Init, SyncInv, FirstBits, NoReport

(* A poll of the last answer takes no byte of a report.                    *)
LEMMA PollSync ==
  ASSUME MouseInv, SyncInv, ReadPort, UNCHANGED <<queue, mouse, packet>>, pc' = pc + 1,
         pc \in 1 .. 21 \cup {23}
  PROVE  SyncInv'
<1>1. ~out'.aux /\ ~out'.full
  BY InvTypes, PortRead
<1>2. FirstBits'
  BY <1>1 DEF SyncInv, FirstBits
<1>3. CASE NoReport
  <2>1. NoReport'
    BY <1>1, <1>3 DEF NoReport
  <2>2. pc' # 23
    OBVIOUS
  <2> QED BY <1>2, <2>1, <2>2 DEF SyncInv, InOrder
<1>4. CASE ~NoReport
  <2>1. pc = 23 /\ ReportFrom(1) /\ packet = <<>>
    BY <1>4 DEF SyncInv, MouseInv, ScriptInv
  <2>2. ReportFrom(1)' /\ ReportLength' = ReportLength /\ ReportLength \in {3, 4}
    BY <2>1 DEF ReportFrom, ReportLength
  <2>3. QueueTakes(1)'
    BY <1>1, <2>1, <2>2 DEF QueueTakes, Delivered
  <2>4. InOrder'
    BY <2>2, <2>3 DEF InOrder
  <2> QED BY <1>2, <2>1, <2>4 DEF SyncInv
<1> QED BY <1>3, <1>4

(* Installation takes no byte of a report unless it is too late for its    *)
(* own answer.                                                             *)
LEMMA InstallSync == MouseInv /\ SyncInv /\ MouseInstall => SyncInv'
<1> SUFFICES ASSUME MouseInv, SyncInv, MouseInstall PROVE SyncInv'
  OBVIOUS
<1>1. pc' = pc + 1 /\ UNCHANGED <<packet, scroll, disturbed>>
  BY DEF MouseInstall
<1>2. CASE GetCommand \/ ReadAck \/ ReadId
  <2>1. ReadPort /\ UNCHANGED <<queue, mouse>> /\ pc \in {3, 21} \cup Acks
    BY <1>2, ScriptSteps DEF GetCommand, ReadAck, ReadId, Poll, MouseInv, TypeOK
  <2>2. pc \in 1 .. 21 \cup {23}
    BY <2>1 DEF Acks
  <2> QED BY <1>1, <2>1, <2>2, PollSync
<1>3. CASE Enable \/ Ask \/ Restore
  <2>1. UNCHANGED <<out, mouse>> /\ pc \in {1, 2, 4}
    BY <1>3, ScriptSteps DEF Enable, Ask, Restore, NoPoll, MouseInv, TypeOK
  <2>2. queue' = queue \/ queue' = Append(queue, Answer(CommandByte, FALSE))
    BY <1>3 DEF Enable, Ask, Restore, AskCommand
  <2>3. \A i \in DOMAIN queue' : \/ i \in DOMAIN queue /\ queue'[i] = queue[i]
                                 \/ ~queue'[i].aux /\ queue'[i].at = 0
    <3> DEFINE answer == Answer(CommandByte, FALSE)
    <3>1. answer \in Byte /\ ~answer.aux /\ answer.at = 0 /\ queue \in Seq(Byte)
      BY CommandByteType, InvTypes DEF Answer, Byte, Ps2TypeOK
    <3> HIDE DEF answer
    <3>2. queue' = queue \/ queue' = Append(queue, answer)
      BY <2>2 DEF answer
    <3> QED BY <3>1, <3>2
  <2>4. NoReport' /\ FirstBits'
    BY <1>1, <2>1, <2>3 DEF SyncInv, NoReport, FirstBits
  <2> QED BY <1>1, <2>1, <2>4 DEF SyncInv
<1>4. CASE MouseWrite
  <2> DEFINE b == Script[pc].byte
  <2>1. pc \in Writes /\ UNCHANGED out /\ SendToMouse(b)
    BY <1>4, ScriptSteps DEF MouseWrite, NoPoll, MouseInv, TypeOK
  <2>2. \/ queue' = queue /\ mouse' = mouse /\ mouse.kind = "none"
        \/ queue' = queue \o Answered(b)
    BY <2>1 DEF SendToMouse, Answered
  <2> HIDE DEF b
  <2>3. NoReport /\ pc \in 1 .. 22
    BY <2>1 DEF SyncInv, Writes
  <2>4. CASE queue' = queue /\ mouse' = mouse /\ mouse.kind = "none"
    BY <1>1, <2>1, <2>3, <2>4 DEF SyncInv, NoReport, FirstBits
  <2>5. CASE queue' = queue \o Answered(b)
    <3> DEFINE more == Answered(b)
    <3>1. /\ more \in Seq(Byte) /\ Len(more) \in {1, 2}
          /\ \A i \in DOMAIN more : more[i].aux /\ more[i].at = 0
          /\ queue \in Seq(Byte)
      BY AnsweredValue, InvTypes DEF Ps2TypeOK
    <3> HIDE DEF more
    <3>2. /\ queue' \in Seq(Byte) /\ Len(queue') = Len(queue) + Len(more)
          /\ \A i \in 1 .. Len(queue) : queue'[i] = queue[i]
          /\ \A i \in Len(queue) + 1 .. Len(queue) + Len(more) :
               queue'[i] = more[i - Len(queue)]
      <4>1. queue' = queue \o more
        BY <2>5 DEF more
      <4> QED BY <3>1, <4>1, ConcatProperties
    <3>3. /\ DOMAIN queue = 1 .. Len(queue) /\ DOMAIN more = 1 .. Len(more)
          /\ DOMAIN queue' = 1 .. Len(queue') /\ Len(queue) \in Nat /\ Len(more) \in Nat
      BY <3>1, <3>2
    <3>4. ASSUME NEW i \in DOMAIN queue' PROVE queue'[i].at = 0
      <4>1. CASE i \in 1 .. Len(queue)
        BY <2>3, <3>2, <3>3, <4>1 DEF NoReport
      <4>2. CASE i \in Len(queue) + 1 .. Len(queue) + Len(more)
        <5>1. i - Len(queue) \in DOMAIN more
          BY <3>3, <4>2
        <5> QED BY <3>1, <3>2, <4>2, <5>1
      <4> QED BY <3>2, <3>3, <4>1, <4>2
    <3>5. queue'[Len(queue) + 1].aux /\ Len(queue) + 1 \in DOMAIN queue'
      <4>1. /\ Len(queue) + 1 \in Len(queue) + 1 .. Len(queue) + Len(more)
            /\ Len(queue) + 1 - Len(queue) = 1 /\ 1 \in DOMAIN more
        BY <3>1, <3>3
      <4>2. queue'[Len(queue) + 1] = more[1]
        BY <3>2, <4>1
      <4> QED BY <3>1, <3>2, <3>3, <4>1, <4>2
    <3>6. NoReport' /\ AckComing'
      BY <1>1, <2>1, <2>3, <3>4, <3>5 DEF NoReport, AckComing
    <3>7. FirstBits'
      BY <2>1, <3>4 DEF SyncInv, FirstBits
    <3> QED BY <1>1, <2>3, <3>6, <3>7 DEF SyncInv
  <2> QED BY <2>2, <2>4, <2>5
<1> QED BY <1>2, <1>3, <1>4 DEF MouseInstall

(* The keyboard's handler disturbs nothing unless it takes a mouse's byte. *)
LEMMA KeyboardIrqSync == MouseInv /\ SyncInv /\ KeyboardIrq => SyncInv'
<1> SUFFICES ASSUME MouseInv, SyncInv, KeyboardIrq PROVE SyncInv'
  OBVIOUS
<1>1. /\ pc = 24 /\ pc' = 24 /\ ReadPort /\ disturbed' = (disturbed \/ out.aux)
      /\ UNCHANGED <<queue, mouse, size, packet>>
  BY InvTypes DEF KeyboardIrq, driverVars
<1>2. ~out'.aux /\ ~out'.full
  BY <1>1, InvTypes, PortRead
<1>3. FirstBits'
  BY <1>1, <1>2 DEF SyncInv, FirstBits
<1>4. ASSUME ~disturbed', size' = ReportLength' PROVE InOrder'
  <2>1. ~out.aux /\ ~disturbed
    BY <1>1, <1>4
  <2>2. InOrder /\ ReportLength' = ReportLength
    BY <1>1, <1>4, <2>1 DEF SyncInv, ReportLength
  <2>3. CASE NoReport
    BY <1>1, <1>2, <2>3 DEF NoReport, InOrder
  <2>4. ASSUME NEW j \in 1 .. ReportLength + 1, ReportFrom(j), OutTakes(j) \/ QueueTakes(j)
        PROVE  InOrder'
    <3>1. ReportFrom(j)' /\ QueueTakes(j)'
      BY <1>1, <1>2, <2>1, <2>2, <2>4 DEF ReportFrom, OutTakes, QueueTakes, Delivered
    <3> QED BY <2>2, <3>1 DEF InOrder
  <2> QED BY <2>2, <2>3, <2>4 DEF InOrder
<1> QED BY <1>1, <1>3, <1>4 DEF SyncInv

(* The packet with the byte in the buffer added.                           *)
Added == Append(packet, [byte |-> out.byte, at |-> out.at])

(* The packet with the byte from the port.                                 *)
LEMMA AddedValue ==
  ASSUME MouseInv
  PROVE  /\ Added \in Seq([byte : 0 .. 255, at : 0 .. 4]) /\ Len(Added) = Len(packet) + 1
         /\ \A i \in 1 .. Len(packet) : Added[i] = packet[i]
         /\ Added[Len(packet) + 1].byte = out.byte /\ Added[Len(packet) + 1].at = out.at
<1> DEFINE last == [byte |-> out.byte, at |-> out.at]
<1>1. /\ last \in [byte : 0 .. 255, at : 0 .. 4] /\ last.byte = out.byte /\ last.at = out.at
  BY InvTypes DEF Ps2TypeOK
<1> HIDE DEF last
<1>2. Added = Append(packet, last)
  BY DEF Added, last
<1> QED BY <1>1, <1>2, InvTypes, AppendProperties

(* What an undisturbed handler of IRQ 12 meets is the next byte of a       *)
(* report.                                                                 *)
LEMMA NextOfReport ==
  ASSUME MouseInv, SyncInv, MouseIrq, out.aux, ~disturbed', size = ReportLength
  PROVE  /\ Len(packet) + 1 = out.at /\ out.at \in 1 .. ReportLength
         /\ Delivered(out.at - 1)
         /\ \E j \in 1 .. ReportLength + 1 :
              ReportFrom(j) /\ (out.at = j - 1 \/ (j = 1 /\ out.at = ReportLength))
         /\ Assemble
<1>1. pc = 24 /\ ~disturbed /\ out.at # 0
  BY InvTypes DEF MouseIrq
<1>2. InOrder /\ out.at \in Nat /\ ReportLength \in {3, 4}
  BY <1>1, InvTypes DEF SyncInv, Ps2TypeOK, ReportLength
<1>3. PICK j \in 1 .. ReportLength + 1 : ReportFrom(j) /\ OutTakes(j)
  BY <1>1, <1>2 DEF InOrder, NoReport, QueueTakes
<1>4. /\ out.at = j - 1 \/ (j = 1 /\ out.at = ReportLength)
      /\ Delivered(out.at - 1)
  BY <1>1, <1>3 DEF OutTakes
<1>5. Len(packet) + 1 = out.at /\ out.at \in 1 .. ReportLength
  BY <1>1, <1>2, <1>4, InvTypes DEF Delivered
<1>6. Assemble
  <2>1. ~OutOfStep
    <3>1. packet = <<>> => out.at = 1
      BY <1>5
    <3> QED BY <3>1 DEF OutOfStep, SyncInv, FirstBits, FirstOfPacket
  <2> QED BY <2>1 DEF MouseIrq, NotOurs
<1> QED BY <1>3, <1>4, <1>5, <1>6

(* The mouse's handler takes the next byte of the report, or begins        *)
(* another.                                                                *)
LEMMA MouseIrqSync == MouseInv /\ SyncInv /\ MouseIrq => SyncInv'
<1> SUFFICES ASSUME MouseInv, SyncInv, MouseIrq PROVE SyncInv'
  OBVIOUS
<1>1. /\ pc = 24 /\ pc' = 24 /\ disturbed' = (disturbed \/ (out.aux /\ out.at = 0))
      /\ UNCHANGED <<queue, mouse, size>>
  BY InvTypes DEF MouseIrq
<1>2. CASE ~out.aux
  <2>1. UNCHANGED <<out, packet>> /\ (~disturbed' => ~disturbed)
    BY <1>1, <1>2 DEF MouseIrq, NotOurs, OutOfStep, Assemble
  <2> QED BY <1>1, <2>1 DEF SyncInv, FirstBits, InOrder, NoReport, ReportFrom, OutTakes,
                            QueueTakes, Delivered, ReportLength
<1>3. CASE out.aux
  <2>1. ReadPort
    BY <1>3 DEF MouseIrq, NotOurs, OutOfStep, Assemble
  <2>2. ~out'.aux /\ ~out'.full
    BY <2>1, InvTypes, PortRead
  <2>3. FirstBits'
    BY <1>1, <2>2 DEF SyncInv, FirstBits
  <2>4. ASSUME ~disturbed', size' = ReportLength' PROVE InOrder'
    <3>1. ReportLength' = ReportLength /\ size = ReportLength /\ ReportLength \in {3, 4}
      BY <1>1, <2>4 DEF ReportLength
    <3>2. /\ Len(packet) + 1 = out.at /\ out.at \in 1 .. ReportLength
          /\ Delivered(out.at - 1) /\ Assemble
      BY <1>3, <2>4, <3>1, NextOfReport
    <3>3. PICK j \in 1 .. ReportLength + 1 :
            ReportFrom(j) /\ (out.at = j - 1 \/ (j = 1 /\ out.at = ReportLength))
      BY <1>3, <2>4, <3>1, NextOfReport
    <3>4. packet' = IF Len(Added) = size THEN <<>> ELSE Added
      BY <3>2 DEF Assemble, Complete, Added
    <3>5. Len(Added) = out.at /\ \A i \in 1 .. out.at : Added[i].at = i
      <4>1. \A i \in 1 .. Len(packet) : Added[i] = packet[i]
        BY AddedValue
      <4>2. Added[out.at].at = out.at /\ Len(Added) = out.at
        BY <3>2, AddedValue
      <4>3. ASSUME NEW i \in 1 .. out.at PROVE Added[i].at = i
        <5>1. CASE i = out.at
          BY <4>2, <5>1
        <5>2. CASE i # out.at
          <6>1. i \in 1 .. Len(packet) /\ i \in 1 .. out.at - 1
            BY <3>2, <5>2, InvTypes
          <6> QED BY <3>2, <4>1, <6>1 DEF Delivered
        <5> QED BY <5>1, <5>2
      <4> QED BY <4>2, <4>3
    <3>6. CASE out.at = ReportLength
      <4>1. packet' = <<>>
        BY <3>1, <3>4, <3>5, <3>6
      <4>2. CASE j = 1
        <5>1. ReportFrom(1)' /\ QueueTakes(1)'
          BY <1>1, <2>2, <3>1, <3>3, <4>1, <4>2 DEF ReportFrom, QueueTakes, Delivered
        <5> QED BY <3>1, <5>1 DEF InOrder
      <4>3. CASE j # 1
        <5>1. Len(queue) = 0 /\ queue \in Seq(Byte)
          BY <3>1, <3>3, <3>6, <4>3, InvTypes DEF ReportFrom, Ps2TypeOK
        <5>2. NoReport'
          BY <1>1, <2>2, <4>1, <5>1 DEF NoReport
        <5> QED BY <5>2 DEF InOrder
      <4> QED BY <4>2, <4>3
    <3>7. CASE out.at # ReportLength
      <4>1. packet' = Added /\ out.at = j - 1 /\ j <= ReportLength
        BY <3>1, <3>2, <3>3, <3>4, <3>5, <3>7
      <4>2. Delivered(j - 1)'
        BY <3>5, <4>1 DEF Delivered
      <4>3. ReportFrom(j)' /\ QueueTakes(j)'
        BY <1>1, <2>2, <3>1, <3>3, <4>1, <4>2 DEF ReportFrom, QueueTakes
      <4> QED BY <3>1, <4>3 DEF InOrder
    <3> QED BY <3>6, <3>7
  <2> QED BY <1>1, <2>3, <2>4 DEF SyncInv
<1> QED BY <1>2, <1>3

(* Bytes pass from the mouse to the port in their order.                   *)
LEMMA DevicesSync == MouseInv /\ SyncInv /\ Devices => SyncInv'
<1> SUFFICES ASSUME MouseInv, SyncInv, Devices PROVE SyncInv'
  OBVIOUS
<1>1. UNCHANGED <<pc, size, packet, disturbed>> /\ pc \in 1 .. 24
  BY InvTypes DEF Devices, driverVars
<1>2. queue \in Seq(Byte) /\ ReportLength \in {3, 4}
  BY InvTypes DEF Ps2TypeOK, ReportLength
<1>3. ASSUME NEW code \in Codes, Press(code) PROVE SyncInv'
  <2>1. Answer(code, FALSE) \in Byte /\ ~Answer(code, FALSE).aux /\ ~out.full
    BY <1>3, Ps2Assumption DEF Answer, Byte, Press, Fill
  <2>2. out'.full /\ ~out'.aux /\ UNCHANGED <<queue, mouse>>
    BY <1>3, <2>1, InvTypes, FillValue DEF Press
  <2>3. ~out.aux
    BY <2>1 DEF SyncInv, FirstBits
  <2>4. FirstBits'
    BY <2>2 DEF SyncInv, FirstBits
  <2>5. ReportLength' = ReportLength
    BY <2>2 DEF ReportLength
  <2>6. (NoReport => NoReport') /\ (AckComing => AckComing')
    BY <1>1, <2>2, <2>3 DEF NoReport, AckComing
  <2>7. InOrder => InOrder'
    BY <1>1, <2>2, <2>3, <2>5, <2>6
       DEF InOrder, ReportFrom, OutTakes, QueueTakes, Delivered
  <2> QED BY <1>1, <2>2, <2>3, <2>4, <2>5, <2>6, <2>7 DEF SyncInv
<1>4. ASSUME Arrive PROVE SyncInv'
  <2> DEFINE b == Head(queue)
  <2>1. /\ b \in Byte /\ b = queue[1] /\ 1 \in DOMAIN queue
        /\ Len(Tail(queue)) = Len(queue) - 1 /\ Len(queue) \in Nat
        /\ DOMAIN queue = 1 .. Len(queue) /\ DOMAIN Tail(queue) = 1 .. Len(queue) - 1
        /\ \A i \in DOMAIN Tail(queue) : i + 1 \in DOMAIN queue /\ Tail(queue)[i] = queue[i + 1]
    BY <1>2, <1>4 DEF Arrive
  <2> HIDE DEF b
  <2>2. Fill(b) /\ queue' = Tail(queue) /\ mouse' = mouse /\ ~out.full
    BY <1>4 DEF Arrive, Fill, b
  <2>3. out'.full /\ out'.aux = b.aux /\ out'.byte = b.byte /\ out'.at = b.at
    BY <2>1, <2>2, InvTypes, FillValue
  <2>4. ~out.aux
    BY <2>2 DEF SyncInv, FirstBits
  <2>5. FirstBits'
    BY <2>1, <2>2, <2>3 DEF SyncInv, FirstBits
  <2>6. ReportLength' = ReportLength
    BY <2>2 DEF ReportLength
  <2>7. NoReport => NoReport'
    BY <1>1, <2>1, <2>2, <2>3 DEF NoReport
  <2>8. NoReport /\ AckComing => AckComing'
    <3>1. SUFFICES ASSUME NoReport, AckComing PROVE AckComing'
      OBVIOUS
    <3>2. PICK i \in DOMAIN queue : queue[i].aux /\ queue[i].at = 0
      BY <2>4, <3>1 DEF AckComing
    <3>3. CASE i = 1
      BY <2>1, <2>3, <3>2, <3>3 DEF AckComing
    <3>4. CASE i # 1
      <4>1. i - 1 \in DOMAIN queue' /\ queue'[i - 1] = queue[i]
        BY <2>1, <2>2, <3>4
      <4> QED BY <3>2, <4>1 DEF AckComing
    <3> QED BY <3>3, <3>4
  <2>9. ASSUME NEW j \in 1 .. ReportLength + 1, ReportFrom(j), QueueTakes(j) PROVE InOrder'
    <3>1. b.aux /\ b.at = j /\ j + 1 \in 1 .. ReportLength + 1
      BY <1>2, <2>1, <2>9 DEF ReportFrom, QueueTakes
    <3>2. ReportFrom(j + 1)'
      <4>1. Len(queue') = ReportLength + 1 - (j + 1)
        BY <1>2, <2>1, <2>2, <2>9 DEF ReportFrom
      <4>2. ASSUME NEW i \in DOMAIN queue' PROVE queue'[i].aux /\ queue'[i].at = (j + 1) - 1 + i
        <5>1. i + 1 \in DOMAIN queue /\ queue'[i] = queue[i + 1] /\ i \in Nat
          BY <2>1, <2>2
        <5>2. queue[i + 1].aux /\ queue[i + 1].at = j - 1 + (i + 1)
          BY <2>9, <5>1 DEF ReportFrom
        <5>3. j - 1 + (i + 1) = (j + 1) - 1 + i
          BY <5>1
        <5> QED BY <5>1, <5>2, <5>3
      <4> QED BY <2>6, <4>1, <4>2 DEF ReportFrom
    <3>3. OutTakes(j + 1)'
      <4>1. Delivered(j - 1)'
        BY <1>1, <2>9 DEF QueueTakes, Delivered
      <4>2. out'.aux /\ out'.at = j /\ (j + 1) - 1 = j /\ j # 0
        BY <2>3, <3>1
      <4> QED BY <4>1, <4>2 DEF OutTakes
    <3> QED BY <2>6, <3>1, <3>2, <3>3 DEF InOrder
  <2>10. InOrder => InOrder'
    BY <2>4, <2>7, <2>9 DEF InOrder, OutTakes
  <2> QED BY <1>1, <2>2, <2>4, <2>5, <2>6, <2>7, <2>8, <2>10 DEF SyncInv
<1>5. ASSUME NEW r \in Reports, Report(r) PROVE SyncInv'
  <2> DEFINE n == ReportLength
             bytes == [i \in 1 .. 4 |-> [byte |-> r[i], aux |-> TRUE, at |-> i]]
  <2>1. /\ pc >= 23 /\ UNCHANGED <<out, mouse>> /\ queue = <<>> /\ mouse.kind # "none"
        /\ queue' = [i \in 1 .. n |-> bytes[i]]
    BY <1>2, <1>5 DEF Report, MouseInv, ScriptInv
  <2>2. \A i \in 1 .. 4 : bytes[i].aux /\ bytes[i].at = i /\ bytes[i].byte = r[i]
    OBVIOUS
  <2>3. ReportLength' = n
    BY <2>1 DEF ReportLength
  <2>4. n \in {3, 4}
    BY <1>2
  <2>5. \A i \in 1 .. 4 : bytes[i] \in Byte
    BY Ps2Assumption DEF Byte
  <2> HIDE DEF n, bytes
  <2>6. queue' \in [1 .. n -> Byte]
    BY <2>1, <2>4, <2>5
  <2>7. Len(queue') = n /\ DOMAIN queue' = 1 .. n
    BY <2>4, <2>6, ListOf
  <2>8. \A i \in 1 .. n : /\ queue'[i].aux /\ queue'[i].at = i
                          /\ i = 1 => queue'[i].byte = r[1]
    BY <2>1, <2>2, <2>4
  <2>9. FirstBits'
    BY <2>1, <2>7, <2>8, Ps2Assumption DEF SyncInv, FirstBits
  <2>10. ReportFrom(1)'
    BY <2>3, <2>4, <2>7, <2>8 DEF ReportFrom
  <2>11. CASE pc = 23
    <3>1. out.aux /\ out.at = 0
      <4>1. Len(queue) = 0 /\ DOMAIN queue = {}
        BY <2>1
      <4>2. ~ReportFrom(1)
        BY <1>2, <4>1 DEF ReportFrom
      <4> QED BY <2>1, <2>11, <4>1, <4>2 DEF SyncInv, AckComing
    <3> QED BY <1>1, <2>1, <2>9, <2>10, <2>11, <3>1 DEF SyncInv
  <2>12. CASE pc = 24
    <3>1. ASSUME InOrder PROVE InOrder'
      <4>1. 1 \in 1 .. ReportLength' + 1 /\ ReportLength' \in {3, 4}
        BY <2>3, <2>4
      <4>2. CASE NoReport
        <5>1. (OutTakes(1) \/ QueueTakes(1))'
          <6>1. Delivered(0)'
            BY <1>1, <4>2 DEF NoReport, Delivered
          <6> QED BY <2>1, <4>1, <4>2, <6>1 DEF NoReport, OutTakes, QueueTakes
        <5> QED BY <2>10, <4>1, <5>1 DEF InOrder
      <4>3. ASSUME NEW j \in 1 .. n + 1, ReportFrom(j), OutTakes(j) \/ QueueTakes(j)
            PROVE  InOrder'
        <5>1. j = n + 1
          BY <2>1, <2>4, <4>3 DEF ReportFrom, n
        <5>2. OutTakes(j) /\ out.at = n
          BY <2>4, <4>3, <5>1 DEF OutTakes, QueueTakes, n
        <5>3. OutTakes(1)'
          BY <1>1, <2>1, <2>3, <2>4, <5>2 DEF OutTakes, Delivered
        <5> QED BY <2>10, <4>1, <5>3 DEF InOrder
      <4> QED BY <3>1, <4>2, <4>3 DEF InOrder, n
    <3> QED BY <1>1, <2>3, <2>9, <2>12, <3>1 DEF SyncInv, n
  <2> QED BY <1>1, <2>1, <2>11, <2>12
<1> QED BY <1>3, <1>4, <1>5 DEF Devices

(* Every step keeps the reports in order.                                  *)
LEMMA SyncStep == MouseInv /\ SyncInv /\ [Next]_vars => SyncInv'
<1> SUFFICES ASSUME MouseInv, SyncInv, [Next]_vars PROVE SyncInv'
  OBVIOUS
<1>1. CASE UNCHANGED vars
  BY <1>1 DEF vars, ps2Vars, driverVars, SyncInv, FirstBits, InOrder, NoReport, ReportFrom,
              OutTakes, QueueTakes, Delivered, AckComing, ReportLength
<1> QED BY <1>1, InstallSync, KeyboardIrqSync, MouseIrqSync, DevicesSync DEF Next

(* Until a byte is lost to another reader or a late answer comes in, the   *)
(* bytes on their way are those of one report, from the one the packet     *)
(* waits for on.                                                           *)
THEOREM ReportsStayInOrder == Spec => []SyncInv
<1>1. MouseInv /\ SyncInv /\ [Next]_vars => (MouseInv /\ SyncInv)'
  BY MouseStep, SyncStep
<1>2. Init => MouseInv /\ SyncInv
  BY MouseInitially, SyncInitially
<1> QED BY <1>1, <1>2, PTL DEF Spec

(* The packet that is complete is one report, and scrolls as it says.      *)
LEMMA CompletedFollows ==
  ASSUME MouseInv, SyncInv, CompletesPacket, ~disturbed', size = ReportLength
  PROVE  FollowsWheel
<1>1. MouseIrq /\ packet # <<>> /\ packet' = <<>>
  BY DEF CompletesPacket
<1>2. CASE out.aux
  <2>1. /\ Len(packet) + 1 = out.at /\ out.at \in 1 .. ReportLength
        /\ Delivered(out.at - 1) /\ Assemble
    BY <1>1, <1>2, NextOfReport
  <2>2. packet' = (IF Len(Added) = size THEN <<>> ELSE Added)
    BY <2>1 DEF Assemble, Complete, Added
  <2>3. Len(Added) = size /\ out.at = size
    BY <1>1, <2>1, <2>2, AddedValue, InvTypes
  <2>4. \A i \in DOMAIN packet : packet[i].at = i
    BY <2>1, InvTypes DEF Delivered
  <2>5. ASSUME size = 4
        PROVE  /\ scroll' = "down" <=> Notches(out.byte) > 0
               /\ scroll' = "up" <=> Notches(out.byte) < 0
    <3>1. scroll' = Direction(Added[4].byte)
      BY <2>1, <2>3, <2>5 DEF Assemble, Complete, Added
    <3>2. Added[4].byte = out.byte /\ out.byte \in 0 .. 255
      BY <2>1, <2>3, <2>5, AddedValue, InvTypes DEF Ps2TypeOK
    <3> QED BY <3>1, <3>2 DEF Direction, Notches
  <2> QED BY <2>3, <2>4, <2>5 DEF FollowsWheel
<1>3. CASE ~out.aux
  BY <1>1, <1>3 DEF MouseIrq, NotOurs, OutOfStep, Assemble
<1> QED BY <1>2, <1>3

(* As long as nothing was lost, every packet the handler completes is one  *)
(* report of the mouse, byte by byte, and the screen scrolls the way the   *)
(* wheel turned.                                                           *)
THEOREM WheelScrolls == Spec => ScrollsFollowWheel
<1>1. MouseInv /\ SyncInv /\ [Next]_vars
        => [CompletesPacket /\ ~disturbed' /\ size = ReportLength => FollowsWheel]_vars
  BY CompletedFollows
<1> QED BY <1>1, MouseInvariant, ReportsStayInOrder, PTL DEF Spec, ScrollsFollowWheel
=============================================================================
