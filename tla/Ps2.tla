-------------------------------- MODULE Ps2 --------------------------------
(***************************************************************************)
(* The 8042 controller and the mouse behind it, as mouse.c uses them       *)
(* (external hardware; the details are those of QEMU, which the project    *)
(* runs on).  Keyboard, mouse and controller share one output buffer of    *)
(* one byte, read at port 0x60.                                            *)
(***************************************************************************)
EXTENDS Integers, Sequences, FiniteSets

CONSTANTS Codes,      \* scan codes the keyboard may send
          Kinds,      \* the mice: "none", "plain" or "wheel"
          Reports,    \* the reports of a mouse, as four bytes
          Firmware    \* command bytes the firmware may leave behind

VARIABLES out,        \* output buffer: full and AUX status bits, last byte
          queue,      \* answers and reports still on their way to it
          command,    \* the set bits of the controller's command byte
          mouse,      \* the mouse's own state
          irr         \* interrupt lines whose edge the 8259 has latched

ps2Vars == <<out, queue, command, mouse, irr>>

Keyboard == 1         \* IRQ lines
Mouse == 12

Bits(b) == {n \in 0 .. 7 : (b \div 2^n) % 2 = 1}

KbdInterrupt == 0     \* bits of the command byte
AuxInterrupt == 1
KbdClockOff == 4
AuxClockOff == 5

ACK == 250
WheelId == 3
SampleRates == {80, 100, 200}

(* A byte on its way; at is its place in a report, 0 for anything else.    *)
Answer(b, aux) == [byte |-> b, aux |-> aux, at |-> 0]

ReportLength == IF mouse.wheel THEN 4 ELSE 3

(* Bytes; bit 3 of the first one of a report is always set.                *)
ASSUME Ps2Assumption ==
  /\ Codes \subseteq 0 .. 255 /\ Firmware \subseteq 0 .. 255
  /\ \A r \in Reports : r \in [1 .. 4 -> 0 .. 255] /\ 3 \in Bits(r[1])

Ps2Init ==
  /\ out = [full |-> FALSE, aux |-> FALSE, byte |-> ACK, at |-> 0]
  /\ queue = <<>>
  /\ command \in {Bits(b) : b \in Firmware}
  /\ mouse \in [kind : Kinds, wheel : {FALSE}, reporting : {FALSE},
                rateNext : {FALSE}, rates : {<<>>}]
  /\ irr = {}

-----------------------------------------------------------------------------
(* The buffer takes the next byte when it is empty, and raises the line of *)
(* its source if the command byte says so.                                 *)
Fill(b) ==
  /\ ~out.full
  /\ out' = [full |-> TRUE, aux |-> b.aux, byte |-> b.byte, at |-> b.at]
  /\ irr' = irr \cup (IF b.aux THEN {Mouse : n \in command \cap {AuxInterrupt}}
                               ELSE {Keyboard : n \in command \cap {KbdInterrupt}})

Press(code) == /\ KbdClockOff \notin command
               /\ Fill(Answer(code, FALSE))
               /\ UNCHANGED <<queue, command, mouse>>

Arrive == /\ queue # <<>>
          /\ Head(queue).aux => AuxClockOff \notin command
          /\ Fill(Head(queue))
          /\ queue' = Tail(queue)
          /\ UNCHANGED <<command, mouse>>

(* The mouse moves, or a button or its wheel does.                         *)
Report(r) ==
  /\ mouse.reporting
  /\ queue = <<>>
  /\ queue' = [i \in 1 .. ReportLength |-> [byte |-> r[i], aux |-> TRUE, at |-> i]]
  /\ UNCHANGED <<out, command, mouse, irr>>

(* inb(0x60): an empty buffer gives its last byte again.                   *)
ReadPort == out' = [out EXCEPT !.full = FALSE, !.aux = FALSE]

-----------------------------------------------------------------------------
(* Commands to the controller: enable the mouse, send the command byte.    *)
EnableAux == command' = command \ {AuxClockOff}

(* The command byte's own value does not matter, its bits do.              *)
CommandByte == CHOOSE b \in 0 .. 255 : Bits(b) = command

AskCommand == queue' = Append(queue, Answer(CommandByte, FALSE))

(* A byte sent to the mouse (0xD4): a rate, or one of its commands.        *)
Rates(b) == LET r == Append(mouse.rates, b)
            IN  SubSeq(r, IF Len(r) > 3 THEN 2 ELSE 1, Len(r))

AfterByte(b) ==
  IF mouse.rateNext
    THEN [mouse EXCEPT !.rateNext = FALSE, !.rates = Rates(b),
                       !.wheel = @ \/ /\ mouse.kind = "wheel"
                                      /\ Rates(b) = <<200, 100, 80>>]
    ELSE CASE b = 246 -> [mouse EXCEPT !.reporting = FALSE, !.rates = <<>>]
           [] b = 243 -> [mouse EXCEPT !.rateNext = TRUE]
           [] b = 244 -> [mouse EXCEPT !.reporting = TRUE]
           [] OTHER   -> mouse

Answers(b) == IF b = 242 /\ ~mouse.rateNext
                THEN <<ACK, IF mouse.wheel THEN WheelId ELSE 0>>
                ELSE <<ACK>>

SendToMouse(b) ==
  IF mouse.kind = "none"
    THEN UNCHANGED <<mouse, queue>>
    ELSE /\ mouse' = AfterByte(b)
         /\ queue' = queue \o [i \in DOMAIN Answers(b) |->
                                 Answer(Answers(b)[i], TRUE)]

-----------------------------------------------------------------------------
Byte == [byte : 0 .. 255, aux : BOOLEAN, at : 0 .. 4]

Ps2TypeOK ==
  /\ out \in [full : BOOLEAN, aux : BOOLEAN, byte : 0 .. 255, at : 0 .. 4]
  /\ queue \in Seq(Byte)
  /\ command \subseteq 0 .. 7
  /\ mouse \in [kind : Kinds, wheel : BOOLEAN, reporting : BOOLEAN,
                rateNext : BOOLEAN, rates : Seq(SampleRates)]
  /\ irr \subseteq {Keyboard, Mouse}
=============================================================================
