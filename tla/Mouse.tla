------------------------------- MODULE Mouse -------------------------------
(***************************************************************************)
(* The mouse driver of mouse.c: mouse_install, which polls the controller  *)
(* with interrupts off, and the IRQ 12 handler that assembles packets and  *)
(* scrolls; with the keyboard's handler, which reads the same port.        *)
(* Handlers do not nest and run once boot is over (Interrupts), so each is *)
(* one step here.                                                          *)
(***************************************************************************)
EXTENDS Ps2

CONSTANT MaxLate      \* bound: waits given up although an answer is coming

ASSUME LateAssumption == MaxLate \in Nat

VARIABLES pc,         \* the step of mouse_install to do next
          status,     \* its local: what it read as the command byte
          size,       \* mouse_packet_size
          packet,     \* mouse_packet up to mouse_cycle
          scroll,     \* what the last complete packet did to the screen
          late,       \* waits given up too early so far
          taken,      \* history: bytes not the mouse's that mouse_install took
          disturbed   \* history: the handler missed a byte or got an answer

driverVars == <<pc, status, size, packet, scroll>>
vars == <<ps2Vars, driverVars, late, taken, disturbed>>

WriteAck(b) == << [op |-> "write", byte |-> b], [op |-> "ack", byte |-> b] >>

(* mouse_install, in order; mouse_write_ack is a write and a read.         *)
Script == << [op |-> "enable"], [op |-> "ask"], [op |-> "answer"],
             [op |-> "restore"] >>
          \o WriteAck(246)
          \o WriteAck(243) \o WriteAck(200)
          \o WriteAck(243) \o WriteAck(100)
          \o WriteAck(243) \o WriteAck(80)
          \o WriteAck(242) \o << [op |-> "id"] >>
          \o WriteAck(244)

Installed == pc > Len(Script)

At(op) == ~Installed /\ Script[pc].op = op

Init == /\ Ps2Init
        /\ pc = 1
        /\ status = 0
        /\ size = 3
        /\ packet = <<>>
        /\ scroll = "none"
        /\ late = 0
        /\ taken = {}
        /\ disturbed = FALSE

-----------------------------------------------------------------------------
(* Faulty variants, against which the properties are tried. *)

(* mouse_install takes any answer but 0 for the wheel's. *)
SizeOfNonzeroId(id) == IF id # 0 THEN 4 ELSE 3

(* mouse_install does not set the bit of IRQ 12. *)
RestoredWithoutIrq(b) == Bits(b) \ {AuxClockOff}

(* The handler takes any byte as the first one. *)
AnyFirst(b) == TRUE

(* The packet is found complete one byte too late. *)
CompleteLate(p) == Len(p) > size

(* The wheel's byte compared as unsigned. *)
UnsignedDirection(z) == IF z > 0 THEN "down" ELSE "none"

-----------------------------------------------------------------------------
(* mouse_install *)

(* mouse_wait(0) and inb: the byte that is there, whoever sent it; or the  *)
(* wait is given up and the last byte is read again.                       *)
GiveUp == ~out.full /\ (queue = <<>> \/ late < MaxLate)

Poll == /\ out.full \/ GiveUp
        /\ ReadPort
        /\ late' = IF GiveUp /\ queue # <<>> THEN late + 1 ELSE late
        /\ taken' = taken \cup {b \in {out.byte} : out.full /\ ~out.aux}
        /\ UNCHANGED <<command, mouse, irr>>

NoPoll == UNCHANGED <<out, irr, late, taken>>

Enable == /\ At("enable")
          /\ EnableAux
          /\ NoPoll
          /\ UNCHANGED <<queue, mouse, status, size>>

Ask == /\ At("ask")
       /\ AskCommand
       /\ NoPoll
       /\ UNCHANGED <<command, mouse, status, size>>

GetCommand == /\ At("answer")
              /\ Poll
              /\ status' = out.byte
              /\ UNCHANGED <<queue, size>>

(* status |= 2; status &= ~0x20 *)
Restored(b) == (Bits(b) \cup {AuxInterrupt}) \ {AuxClockOff}

Restore == /\ At("restore")
           /\ command' = Restored(status)
           /\ NoPoll
           /\ UNCHANGED <<queue, mouse, status, size>>

MouseWrite == /\ At("write")
              /\ SendToMouse(Script[pc].byte)
              /\ NoPoll
              /\ UNCHANGED <<command, status, size>>

ReadAck == /\ At("ack")
           /\ Poll
           /\ UNCHANGED <<queue, status, size>>

SizeOf(id) == IF id = WheelId THEN 4 ELSE 3

ReadId == /\ At("id")
          /\ Poll
          /\ size' = SizeOf(out.byte)
          /\ UNCHANGED <<queue, status>>

MouseInstall == /\ Enable \/ Ask \/ GetCommand \/ Restore \/ MouseWrite
                   \/ ReadAck \/ ReadId
                /\ pc' = pc + 1
                /\ UNCHANGED <<packet, scroll, disturbed>>

-----------------------------------------------------------------------------
(* Interrupts, once shell_run has enabled them: IRQ 1 before IRQ 12. *)

(* keyboard_irq_handler reads port 0x60 whatever is there; the decoder's   *)
(* own work is in ScanCode.                                                *)
KeyboardIrq == /\ Installed
               /\ Keyboard \in irr
               /\ irr' = irr \ {Keyboard}
               /\ ReadPort
               /\ disturbed' = (disturbed \/ out.aux)
               /\ UNCHANGED <<queue, command, mouse, driverVars, late, taken>>

(* Bit 3 is set in the first byte of every report. *)
FirstOfPacket(b) == 3 \in Bits(b)

Direction(z) == IF z \in 1 .. 127 THEN "down" ELSE IF z >= 128 THEN "up" ELSE "none"

Complete(p) == Len(p) = size

NotOurs == /\ ~out.aux
           /\ UNCHANGED <<out, packet, scroll>>

OutOfStep == /\ out.aux
             /\ packet = <<>>
             /\ ~FirstOfPacket(out.byte)
             /\ ReadPort
             /\ UNCHANGED <<packet, scroll>>

Assemble ==
  LET p == Append(packet, [byte |-> out.byte, at |-> out.at])
  IN  /\ out.aux
      /\ packet # <<>> \/ FirstOfPacket(out.byte)
      /\ ReadPort
      /\ packet' = IF Complete(p) THEN <<>> ELSE p
      /\ scroll' = IF ~Complete(p) THEN scroll
                   ELSE IF size = 4 THEN Direction(p[4].byte) ELSE "none"

MouseIrq == /\ Installed
            /\ irr = {Mouse}
            /\ irr' = {}
            /\ NotOurs \/ OutOfStep \/ Assemble
            /\ disturbed' = (disturbed \/ (out.aux /\ out.at = 0))
            /\ UNCHANGED <<queue, command, mouse, pc, status, size, late, taken>>

Devices == /\ \/ \E code \in Codes : Press(code)
              \/ Arrive
              \/ \E r \in Reports : Report(r)
           /\ UNCHANGED <<driverVars, late, taken, disturbed>>

Next == MouseInstall \/ KeyboardIrq \/ MouseIrq \/ Devices

Spec == Init /\ [][Next]_vars /\ WF_vars(MouseInstall)
                /\ WF_vars(KeyboardIrq) /\ WF_vars(MouseIrq)

-----------------------------------------------------------------------------
TypeOK == /\ Ps2TypeOK
          /\ pc \in 1 .. Len(Script) + 1
          /\ status \in 0 .. 255
          /\ size \in {3, 4}
          /\ packet \in Seq([byte : 0 .. 255, at : 0 .. 4]) /\ Len(packet) < size
          /\ scroll \in {"none", "up", "down"}
          /\ late \in 0 .. MaxLate
          /\ taken \subseteq 0 .. 255
          /\ disturbed \in BOOLEAN

(* "Defaults to 3 unless IntelliMouse is verified" (mouse.c:49): packets   *)
(* of four bytes are expected only of a mouse that sends them, whatever    *)
(* was late, unless a pressed "2" (scan code 3) was taken for an answer.   *)
IdIsVerified == size = 4 => mouse.wheel \/ WheelId \in taken

(* A byte in the output buffer has its interrupt coming, so neither device *)
(* is blocked by a byte that nobody reads, as long as the command byte     *)
(* still enables the keyboard's interrupt.                                 *)
NoStrandedByte ==
  Installed /\ out.full => \/ out.aux /\ Mouse \in irr
                           \/ ~out.aux /\ Keyboard \in irr
                           \/ ~out.aux /\ KbdInterrupt \notin command

(* Byte 4 as a number of two's complement. *)
Notches(b) == IF b < 128 THEN b ELSE b - 256

(* "Z-axis is in the 4th byte. Positive = scroll down, negative = scroll   *)
(* up" (mouse.c:70): until a byte is lost to the keyboard's handler or a   *)
(* late answer arrives, every packet is one report, and the screen scrolls *)
(* as the wheel turned.                                                    *)
CompletesPacket == MouseIrq /\ packet # <<>> /\ packet' = <<>>

FollowsWheel ==
  /\ \A i \in DOMAIN packet : packet[i].at = i
  /\ out.at = size
  /\ size = 4 => /\ scroll' = "down" <=> Notches(out.byte) > 0
                 /\ scroll' = "up" <=> Notches(out.byte) < 0

ScrollsFollowWheel ==
  [][CompletesPacket /\ ~disturbed' /\ size = ReportLength => FollowsWheel]_vars

(* The byte that comes next is the one the driver takes it for. *)
NextAt == IF out.full /\ out.aux THEN out.at
          ELSE IF queue # <<>> THEN Head(queue).at ELSE 1

InSync == NextAt = Len(packet) + 1

(* The first byte of a report without movement, such as a button's.        *)
StillReport == /\ Len(queue) = ReportLength
               /\ \A i \in 2 .. ReportLength : queue[i].byte = 0

StillReportArrives == Arrive /\ StillReport

(* Bit 3 brings the framing back after whatever was lost or came too much, *)
(* and for good, if the mouse now and then reports no movement.            *)
Resyncs == []<><<StillReportArrives>>_vars /\ <>[](size = ReportLength)
             => <>[]InSync

(* mouse_install asks to enable IRQ 12 and the mouse's clock and nothing   *)
(* else ("Enable IRQ12", "Clear Disable Mouse Clock bit", mouse.c:91-92):  *)
(* the keyboard stays enabled.                                             *)
KeyboardStaysEnabled == Installed => /\ KbdInterrupt \in command
                                     /\ KbdClockOff \notin command
=============================================================================
