------------------------------ MODULE KeyInput ------------------------------
(***************************************************************************)
(* Keyboard input from the 8042 controller to the caller of                *)
(* keyboard_getchar: the interrupt path (Interrupts), the scan code        *)
(* decoder (ScanCode) and the ring buffer (KeyRing) composed, with the     *)
(* timer, the mouse line and the main thread's hlt.                        *)
(***************************************************************************)
EXTENDS Interrupts, ScanCode, KeyRing

CONSTANTS Codes,     \* scan codes the keyboard may send
          Firmware,  \* command bytes the firmware may leave behind
          MaxScan    \* bound: how many scan codes it sends

KbdInterrupt == 0    \* the command byte's bits that concern the keyboard
KbdClockOff == 4

KeyboardBits(b) == {n \in {KbdInterrupt, KbdClockOff} : (b \div 2^n) % 2 = 1}

(* What the mouse answers: its acknowledgement, or the wheel's device id;  *)
(* another mouse's id, 0, is no key either and stands with the former.     *)
Answers == {250, 3}

PortBytes == Codes \cup Firmware \cup Answers

(* The firmware leaves the keyboard enabled, and Char holds every          *)
(* character that the handler may store.                                   *)
ASSUME CodesAssumption ==
  /\ Codes \cup Firmware \subseteq 0 .. 255
  /\ \A b \in Firmware : KeyboardBits(b) = {KbdInterrupt}
  /\ MaxScan \in Nat
  /\ \A d \in DecoderState, code \in PortBytes :
       Effect(d, code).kind = "store" => Effect(d, code).char \in Char

VARIABLES port,      \* 8042 output buffer: its full bit and its last byte
          command,   \* 8042: those bits of its command byte that are set
          decoder,   \* static state of keyboard_irq_handler
          sent,      \* how many scan codes the keyboard has sent
          ticked,    \* a tick came and the CPU has not caught up since
          off        \* cmd_bye has run

vars == <<intVars, ringVars, port, command, decoder, sent, ticked, off>>

Init == /\ IntInit
        /\ RingInit
        /\ port \in [full : BOOLEAN, byte : PortBytes]
        /\ command = {KbdInterrupt}
        /\ decoder = DecoderInit
        /\ sent = 0
        /\ ticked = FALSE
        /\ off = FALSE

-----------------------------------------------------------------------------
(* Devices *)

(* The 8042 takes the keyboard's next byte when its buffer is empty and    *)
(* its command byte lets the keyboard send, and raises the line if the     *)
(* command byte says so.                                                   *)
Scan(code) == /\ sent < MaxScan
              /\ ~port.full
              /\ KbdClockOff \notin command
              /\ port' = [full |-> TRUE, byte |-> code]
              /\ sent' = sent + 1
              /\ irr' = irr \cup {Keyboard : n \in command \cap {KbdInterrupt}}
              /\ UNCHANGED <<imr, inService, handlers, intFlag, frames, boot,
                             ringVars, command, decoder, ticked, off>>

(* The timer is slow: 10 ms after a tick the CPU has served what was       *)
(* requested, and the main thread has run or sleeps in hlt.                *)
AllServed == ~InIrq /\ \A l \in irr : ~Requesting(l)

Tick == /\ ~ticked \/ (AllServed /\ pc = "halted")
        /\ ticked' = TRUE
        /\ Raise(Timer)
        /\ UNCHANGED <<imr, inService, handlers, intFlag, frames, boot,
                       ringVars, port, command, decoder, sent, off>>

MouseMoves == /\ Raise(Mouse)
              /\ UNCHANGED <<imr, inService, handlers, intFlag, frames, boot,
                             ringVars, port, command, decoder, sent, ticked,
                             off>>

-----------------------------------------------------------------------------
(* kernel_main: the drivers' installation *)

(* A faulty variant, against which the properties are tried: no drain. *)
KeyboardNoFlush == /\ boot = "keyboard_flush"
                   /\ boot' = "keyboard_install"
                   /\ UNCHANGED <<picVars, handlers, intFlag, frames, port>>

(* keyboard_install, lines 177-179: drain the output buffer. *)
KeyboardFlush == /\ boot = "keyboard_flush"
                 /\ port' = [port EXCEPT !.full = FALSE]
                 /\ boot' = "keyboard_install"
                 /\ UNCHANGED <<picVars, handlers, intFlag, frames>>

(* mouse_install asks for the command byte, polls port 0x60 and writes     *)
(* what it read back, with the mouse's bits changed.  The answer comes in  *)
(* time, if no scan code is in its way ...                                 *)
CommandInTime(answer) == /\ ~port.full
                         /\ port' = [full |-> FALSE, byte |-> answer]
                         /\ command' = KeyboardBits(answer)
                         /\ Raise(Keyboard)

(* ... or the byte of the keyboard is taken for it, or the wait is given   *)
(* up and the last byte read again; then the answer fills the buffer, and  *)
(* raises the line unless the new command byte came first and forbids it.  *)
CommandMistaken(answer) == /\ port' = [full |-> TRUE, byte |-> answer]
                           /\ command' = KeyboardBits(port.byte)
                           /\ \/ Raise(Keyboard)
                              \/ UNCHANGED irr /\ KbdInterrupt \notin command'

MouseCommand == /\ boot = "mouse_command"
                /\ boot' = "mouse_install"
                /\ \E b \in Firmware : CommandInTime(b) \/ CommandMistaken(b)
                /\ UNCHANGED <<imr, inService, handlers, intFlag, frames>>

(* The polls for the mouse's answers, with interrupts off: they take any   *)
(* byte that is there and leave the last one they read, if any came, or    *)
(* the byte that came after the last of them.                              *)
MousePolls ==
  /\ MouseInstall
  /\ port' \in [full : {FALSE}, byte : Answers \cup {port.byte}] \cup {port}
  /\ UNCHANGED command

Booting == /\ \/ /\ PicInit \/ TimerInstall \/ KeyboardInstall \/ ShellRunSti
                 /\ UNCHANGED <<port, command>>
              \/ KeyboardFlush /\ UNCHANGED command
              \/ MouseCommand
              \/ MousePolls
           /\ UNCHANGED <<ringVars, decoder, sent, ticked, off>>

-----------------------------------------------------------------------------
(* Interrupts *)

(* An interrupt ends the hlt of keyboard_getchar. *)
TakeInterrupt(l) == /\ Deliver(l)
                    /\ IF pc = "halted" THEN Wake ELSE UNCHANGED ringVars
                    /\ ~off
                    /\ UNCHANGED <<port, command, decoder, sent, ticked, off>>

(* keyboard_irq_handler: it reads port 0x60 without asking whether a byte  *)
(* is there.                                                               *)
KeyboardIrq == /\ CallHandler(Keyboard)
               /\ port' = [port EXCEPT !.full = FALSE]
               /\ decoder' = NextDecoder(decoder, port.byte)
               /\ LET effect == Effect(decoder, port.byte)
                  IN  IF effect.kind = "store" THEN Store(effect.char)
                                               ELSE UNCHANGED ringVars
               /\ UNCHANGED <<command, sent, ticked, off>>

(* The timer's and the mouse's handlers leave the keyboard alone. *)
OtherIrq == /\ \E l \in Lines \ {Keyboard} : CallHandler(l)
            /\ UNCHANGED <<ringVars, port, command, decoder, sent, ticked, off>>

EndOfIrq == /\ SendEoi \/ Sti \/ Iret
            /\ UNCHANGED <<ringVars, port, command, decoder, sent, ticked,
                             off>>

-----------------------------------------------------------------------------
(* The main thread: it runs only when no handler does. *)

OnMain == boot = "running" /\ ~InIrq /\ ~off

GetChar == /\ OnMain
           /\ Call \/ Test \/ Halt \/ Fetch \/ Advance
           /\ ticked' = (ticked /\ ~AllServed)
           /\ UNCHANGED <<intVars, port, command, decoder, sent, off>>

CmdBye == /\ OnMain
          /\ pc = "idle"
          /\ Cli
          /\ off' = TRUE
          /\ UNCHANGED <<ringVars, port, command, decoder, sent, ticked>>

Next == \/ \E code \in Codes : Scan(code)
        \/ Tick
        \/ MouseMoves
        \/ Booting
        \/ \E l \in Lines : TakeInterrupt(l)
        \/ KeyboardIrq
        \/ OtherIrq
        \/ EndOfIrq
        \/ GetChar
        \/ CmdBye

(* The CPU executes what it can execute, and the timer ticks for ever.     *)
(* A line that keeps requesting is served, and the main thread gets on     *)
(* between interrupts: strong fairness, because each handler disables both *)
(* for a while.                                                            *)
Fairness == /\ WF_vars(Booting)
            /\ WF_vars(KeyboardIrq \/ OtherIrq \/ EndOfIrq)
            /\ WF_vars(Tick)
            /\ SF_vars(\E l \in Lines : TakeInterrupt(l))
            /\ SF_vars(GetChar)

Spec == Init /\ [][Next]_vars /\ Fairness

-----------------------------------------------------------------------------
TypeOK == /\ IntTypeOK
          /\ RingTypeOK
          /\ port \in [full : BOOLEAN, byte : PortBytes]
          /\ command \subseteq {KbdInterrupt, KbdClockOff}
          /\ decoder \in DecoderState
          /\ sent \in 0 .. MaxScan
          /\ ticked \in BOOLEAN
          /\ off \in BOOLEAN

(* Once the driver is installed a byte in the 8042's buffer has its        *)
(* interrupt on the way.  Otherwise the buffer would stay full, no new     *)
(* edge would come and the keyboard would be dead: the edge is forgotten   *)
(* by pic_init, which is why keyboard_install drains the buffer first.     *)
(* Only the command byte can take the interrupt away: mouse_install may    *)
(* have written a scan code there.                                         *)
NoStrandedByte ==
  port.full /\ boot \in {"mouse_command", "mouse_install", "shell_run", "running"}
    => \/ Keyboard \in irr
       \/ AtStep("call") /\ Top.irq = Keyboard
       \/ KbdInterrupt \notin command

(* A byte in the 8042's buffer is eventually read, unless the machine was  *)
(* switched off or mouse_install cleared the keyboard's interrupt.         *)
EveryScanIsRead == port.full ~> (~port.full \/ off \/ KbdInterrupt \notin command)

(* A stored key is eventually returned by keyboard_getchar, although an    *)
(* interrupt that stores it between the test of the ring and hlt leaves    *)
(* the main thread asleep with a character waiting: the next tick wakes it.*)
StoredKeyIsReturned == (kb_head # kb_tail) ~> (pc = "advance" \/ off)
=============================================================================
