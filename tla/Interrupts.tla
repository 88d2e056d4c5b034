----------------------------- MODULE Interrupts -----------------------------
(***************************************************************************)
(* The interrupt path of MiniOS on its single CPU: the two cascaded 8259   *)
(* controllers as pic.c programs them (external hardware), the gates and   *)
(* stubs of idt.c and interrupts.asm, the dispatcher irq_handler, and the  *)
(* order in which kernel_main brings the drivers up.  What a handler does  *)
(* to its own driver is conjoined by the module that composes this one.    *)
(***************************************************************************)
EXTENDS Integers, Sequences

CONSTANT Lines       \* the IRQ lines some device may raise

VARIABLES irr,        \* 8259: lines whose edge is latched
          imr,        \* 8259: masked lines
          inService,  \* 8259: lines accepted and not yet ended
          handlers,   \* idt.c: lines with an entry in irq_handlers
          intFlag,    \* CPU: EFLAGS.IF
          frames,     \* interrupt frames on the kernel stack, oldest first
          boot        \* the step of kernel_main to do next

intVars == <<irr, imr, inService, handlers, intFlag, frames, boot>>
picVars == <<irr, imr, inService>>

Cascade == 2
Timer == 0
Keyboard == 1
Mouse == 12

(* The two controllers have inputs 0 to 15; input 2 of the master is wired *)
(* to the slave and is no device's line.                                   *)
ASSUME LinesAssumption == /\ Lines \subseteq (0 .. 15) \ {Cascade}
                          /\ {Timer, Keyboard, Mouse} \subseteq Lines

(* The master's input a line reaches the CPU through. *)
MasterLine(l) == IF l >= 8 THEN Cascade ELSE l

Outranks(a, b) == \/ MasterLine(a) < MasterLine(b)
                  \/ MasterLine(a) = MasterLine(b) /\ a < b

(* A slave line takes the master's cascade line into service with it. *)
ServiceBits(l) == {l, MasterLine(l)}

(* Fully nested mode: nothing of equal or higher priority in service. *)
Requesting(l) == /\ l \in irr
                 /\ ServiceBits(l) \cap imr = {}
                 /\ \A s \in inService : s < 8 => MasterLine(l) < s

Top == frames[Len(frames)]

InIrq == frames # <<>>

(* The instruction after sti still runs with interrupts held off. *)
StiShadow == InIrq /\ Top.step = "iret"

-----------------------------------------------------------------------------
(* Faulty variants, against which the properties are tried. *)

(* timer_install forgets to unmask its line. *)
TimerStaysMasked == /\ boot = "timer_install"
                    /\ handlers' = handlers \cup {Timer}
                    /\ boot' = "keyboard_flush"
                    /\ UNCHANGED <<picVars, intFlag, frames>>

(* timer_install enables interrupts at once. *)
TimerInstallSti == /\ boot = "timer_install"
                   /\ handlers' = handlers \cup {Timer}
                   /\ imr' = imr \ {Timer}
                   /\ intFlag' = TRUE
                   /\ boot' = "keyboard_flush"
                   /\ UNCHANGED <<irr, inService, frames>>

(* Trap gates, and no cli in the stub: the handler runs with IF set. *)
DeliverThroughTrapGate(l) ==
  /\ intFlag
  /\ ~StiShadow
  /\ Requesting(l)
  /\ \A other \in irr : Requesting(other) => ~Outranks(other, l)
  /\ irr' = irr \ {l}
  /\ inService' = inService \cup ServiceBits(l)
  /\ frames' = Append(frames, [irq |-> l, step |-> "call"])
  /\ UNCHANGED <<imr, handlers, intFlag, boot>>

(* irq_handler returns without an EOI. *)
SkipEoi == /\ InIrq
           /\ Top.step = "eoi"
           /\ frames' = [frames EXCEPT ![Len(frames)].step = "sti"]
           /\ UNCHANGED <<picVars, handlers, intFlag, boot>>

-----------------------------------------------------------------------------
(* GRUB enters the kernel with interrupts off; the controllers are as the  *)
(* firmware left them.                                                     *)
IntInit == /\ irr \in SUBSET Lines
           /\ imr \in SUBSET (Lines \cup {Cascade})
           /\ inService = {}
           /\ handlers = {}
           /\ intFlag = FALSE
           /\ frames = <<>>
           /\ boot = "pic_init"

(* A device raises its line: the edge is latched even while masked. *)
Raise(l) == irr' = irr \cup {l}

(* pic_init: ICW1 forgets latched edges, the last two writes mask all. *)
PicInit == /\ boot = "pic_init"
           /\ irr' = {}
           /\ inService' = {}
           /\ imr' = Lines \cup {Cascade}
           /\ boot' = "timer_install"
           /\ UNCHANGED <<handlers, intFlag, frames>>

(* idt_set_handler, then pic_unmask_irq: how every driver installs. *)
Install(line, unmasked, step, next) ==
  /\ boot = step
  /\ handlers' = handlers \cup {line}
  /\ imr' = imr \ unmasked
  /\ boot' = next
  /\ UNCHANGED <<irr, inService, intFlag, frames>>

TimerInstall == Install(Timer, {Timer}, "timer_install", "keyboard_flush")
KeyboardInstall == Install(Keyboard, {Keyboard}, "keyboard_install", "mouse_command")
MouseInstall == Install(Mouse, {Mouse, Cascade}, "mouse_install", "shell_run")

(* shell_run enables interrupts, once everything is installed. *)
ShellRunSti == /\ boot = "shell_run"
               /\ intFlag' = TRUE
               /\ boot' = "running"
               /\ UNCHANGED <<picVars, handlers, frames>>

-----------------------------------------------------------------------------
(* The CPU acknowledges the line of highest priority; the interrupt gate   *)
(* (0x8E) and the stub's cli clear IF.                                     *)
Deliver(l) == /\ intFlag
              /\ ~StiShadow
              /\ Requesting(l)
              /\ \A other \in irr : Requesting(other) => ~Outranks(other, l)
              /\ irr' = irr \ {l}
              /\ inService' = inService \cup ServiceBits(l)
              /\ intFlag' = FALSE
              /\ frames' = Append(frames, [irq |-> l, step |-> "call"])
              /\ UNCHANGED <<imr, handlers, boot>>

AtStep(step) == InIrq /\ Top.step = step

Then(step) == frames' = [frames EXCEPT ![Len(frames)].step = step]

(* irq_handler calls the registered handler, if there is one. *)
CallHandler(l) == /\ AtStep("call")
                  /\ Top.irq = l
                  /\ Then("eoi")
                  /\ UNCHANGED <<picVars, handlers, intFlag, boot>>

(* A non-specific EOI ends the highest-priority line of its controller. *)
EndHighest(S) == S \ {l \in S : \A other \in S : l <= other}

EoiMaster(S) == EndHighest({l \in S : l < 8}) \cup {l \in S : l >= 8}
EoiSlave(S)  == EndHighest({l \in S : l >= 8}) \cup {l \in S : l < 8}

(* pic_send_eoi: the slave too for IRQ 8 to 15. *)
SendEoi == /\ AtStep("eoi")
           /\ inService' = EoiMaster(IF Top.irq >= 8 THEN EoiSlave(inService)
                                                     ELSE inService)
           /\ Then("sti")
           /\ UNCHANGED <<irr, imr, handlers, intFlag, boot>>

(* The end of irq_common_stub. *)
Sti == /\ AtStep("sti")
       /\ intFlag' = TRUE
       /\ Then("iret")
       /\ UNCHANGED <<picVars, handlers, boot>>

Iret == /\ AtStep("iret")
        /\ frames' = SubSeq(frames, 1, Len(frames) - 1)
        /\ UNCHANGED <<picVars, handlers, intFlag, boot>>

(* cmd_bye: cli; hlt *)
Cli == /\ intFlag' = FALSE
       /\ UNCHANGED <<picVars, handlers, frames, boot>>

-----------------------------------------------------------------------------
IntTypeOK == /\ irr \subseteq Lines
             /\ imr \subseteq Lines \cup {Cascade}
             /\ inService \subseteq Lines \cup {Cascade}
             /\ handlers \subseteq {Timer, Keyboard, Mouse}
             /\ intFlag \in BOOLEAN
             /\ frames \in Seq([irq : Lines,
                                step : {"call", "eoi", "sti", "iret"}])
             /\ boot \in {"pic_init", "timer_install", "keyboard_flush",
                          "keyboard_install", "mouse_command", "mouse_install",
                          "shell_run", "running"}

(* Handlers never nest, so they may share the ring, the decoder state and  *)
(* the screen among themselves without a lock: at most one frame is on the *)
(* stack, and exactly its lines are in service until its EOI.              *)
HandlersDoNotNest ==
  /\ Len(frames) <= 1
  /\ inService = IF AtStep("call") \/ AtStep("eoi") THEN ServiceBits(Top.irq)
                                                    ELSE {}

(* No interrupt is taken before kernel_main has installed every driver,    *)
(* and none is ever accepted on a line without a handler.                  *)
NoEarlyInterrupt == InIrq => boot = "running" /\ Top.irq \in handlers
=============================================================================
