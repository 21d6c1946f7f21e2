-------------------------------- MODULE Irq ---------------------------------
(***************************************************************************)
(* Interrupts: idt_install and the handlers of kernel/idt/idt.c, the stubs *)
(* of kernel/idt/idt.asm and the halt of kernel/panic.c, between the two   *)
(* 8259A controllers and the code they interrupt.  The controllers and the *)
(* CPU's own part are modelled from how the code programs them: edge       *)
(* triggered, fixed priorities, an explicit end of interrupt.              *)
(*                                                                         *)
(* All gates are interrupt gates (flags 0x8E), so the handlers run with    *)
(* interrupts disabled; devices still raise their lines between any two    *)
(* steps.                                                                  *)
(***************************************************************************)
EXTENDS Integers, FiniteSets, Sequences

CONSTANTS
  Lines,             \* the lines that have a device, of 0 .. 15
  Faults,            \* exceptions the code may raise: vector, and error code or NULL
  RIP, CS, RFLAGS, RSP, SS,
  TICK_WRAP,         \* bound: 2^64 in the code
  NULL

(* No processor in 64-bit mode raises exception 9, whose gate stays empty. *)
ASSUME IrqAssumption ==
  /\ Lines \subseteq 0 .. 15 \ {2}
  /\ \A f \in Faults : f.vector \in 0 .. 31 \ {9}
  /\ TICK_WRAP \in Nat \ {0} /\ NULL \notin Int \cup [kind : {"isr", "irq"}, n : 0 .. 31]

AllLines == 0 .. 15
Frame    == <<RIP, CS, RFLAGS, RSP, SS>>     \* what the CPU pushes, RSP first

VARIABLES
  boot,              \* the next step of idt_install, "done" after sti
  idt, idtr,         \* the gates' stubs, and whether lidt has loaded the table
  base,              \* the vectors of lines 0 and 8
  imr, irr, isr,     \* the controllers: lines masked, requested, in service
  obf,               \* the keyboard controller holds a byte to be read
  interrupts,        \* RFLAGS.IF
  cpu,               \* what the CPU executes next
  stub, stack, rdi, rsi,
  timer_ticks,
  message,           \* the index of the text panic_handler prints
  cause              \* history: the stub of the line or exception the CPU answered

install == <<boot, idt, idtr, base>>
pic     == <<imr, irr, isr>>
regs    == <<stack, rdi, rsi>>
vars    == <<install, pic, obf, interrupts, cpu, stub, regs, timer_ticks, message, cause>>

Isr(v) == [kind |-> "isr", n |-> v]
Irq(l) == [kind |-> "irq", n |-> l]
Stubs  == {Isr(v) : v \in 0 .. 31} \cup {Irq(l) : l \in AllLines}

(* The bootloader leaves interrupts disabled and the controllers as the
   firmware set them up. *)
Init ==
  /\ boot = "gates" /\ idt = [v \in 0 .. 255 |-> NULL] /\ idtr = FALSE
  /\ base = [master |-> 8, slave |-> 112]
  /\ imr \in {{}, AllLines} /\ irr = {} /\ isr = {}
  /\ obf = FALSE /\ interrupts = FALSE /\ cpu = "code"
  /\ stub = NULL /\ stack = <<>> /\ rdi = 0 /\ rsi = 0
  /\ timer_ticks = 0 /\ message = NULL /\ cause = NULL

-----------------------------------------------------------------------------
(* idt_install *)

Gate(v) ==
  CASE v \in 0 .. 31 \ {9} -> Isr(v)
    [] v \in 32 .. 47      -> Irq(v - 32)
    [] OTHER               -> NULL

Step(from, to) == cpu = "code" /\ boot = from /\ boot' = to

others == <<obf, cpu, stub, regs, timer_ticks, message, cause>>

install_gates ==
  /\ Step("gates", "remap")
  /\ idt' = [v \in 0 .. 255 |-> Gate(v)]
  /\ UNCHANGED <<idtr, base, pic, interrupts, others>>

RemappedMasterOnly == [master |-> 32, slave |-> 112]
Remapped == [master |-> 32, slave |-> 40]

(* The first initialisation word clears the controller's request, service and
   mask registers. *)
pic_remap ==
  /\ Step("remap", "mask")
  /\ base' = Remapped
  /\ imr' = {} /\ irr' = {} /\ isr' = {}
  /\ UNCHANGED <<idt, idtr, interrupts, others>>

mask_all ==
  /\ Step("mask", "lidt")
  /\ imr' = AllLines
  /\ UNCHANGED <<idt, idtr, base, irr, isr, interrupts, others>>

idt_load_asm ==
  /\ Step("lidt", "unmask")
  /\ idtr' = TRUE
  /\ UNCHANGED <<idt, base, pic, interrupts, others>>

unmask_all ==
  /\ Step("unmask", "sti")
  /\ imr' = {}
  /\ UNCHANGED <<idt, idtr, base, irr, isr, interrupts, others>>

sti ==
  /\ Step("sti", "done")
  /\ interrupts' = TRUE
  /\ UNCHANGED <<idt, idtr, base, pic, others>>

Install == install_gates \/ pic_remap \/ mask_all \/ idt_load_asm \/ unmask_all \/ sti

-----------------------------------------------------------------------------
(* The devices, the controllers and the CPU. *)

Raise(l) ==
  /\ l # 1 /\ l \notin irr
  /\ irr' = irr \cup {l}
  /\ UNCHANGED <<install, imr, isr, obf, interrupts, cpu, stub, regs, timer_ticks, message, cause>>

KeyArrives ==
  /\ 1 \in Lines /\ ~obf
  /\ obf' = TRUE /\ irr' = irr \cup {1}
  /\ UNCHANGED <<install, imr, isr, interrupts, cpu, stub, regs, timer_ticks, message, cause>>

(* The slave is cascaded into line 2 of the master. *)
MasterLine(l) == IF l >= 8 THEN 2 ELSE l
Rank(l) == 16 * MasterLine(l) + l

Requested ==
  {l \in irr \ imr :
     /\ \A m \in isr : m < 8 => MasterLine(l) < m
     /\ l >= 8 => 2 \notin imr /\ \A m \in isr : m >= 8 => l < m}

Vector(l) == IF l >= 8 THEN base.slave + l - 8 ELSE base.master + l

(* The CPU pushes its frame on the kernel's own stack and enters the gate. *)
Enter(vector, error) ==
  /\ stack' = (IF error = NULL THEN <<>> ELSE <<error>>) \o Frame \o stack
  /\ stub' = IF idtr THEN idt[vector] ELSE NULL
  /\ interrupts' = FALSE /\ cpu' = "stub"

Accept ==
  /\ cpu = "code" /\ interrupts
  /\ \E l \in Requested :
       /\ \A m \in Requested : Rank(l) <= Rank(m)
       /\ irr' = irr \ {l} /\ cause' = Irq(l)
       /\ isr' = isr \cup {l, MasterLine(l)}
       /\ Enter(Vector(l), NULL)
  /\ UNCHANGED <<install, imr, obf, rdi, rsi, timer_ticks, message>>

Last(l) == IF l >= 8 THEN 15 ELSE 7

(* A request withdrawn before the CPU acknowledges it is answered with the
   last line of its controller, which is not marked in service. *)
Spurious ==
  /\ cpu = "code" /\ interrupts
  /\ \E l \in Requested :
       /\ \A m \in Requested : Rank(l) <= Rank(m)
       /\ irr' = irr \ {l} /\ cause' = Irq(Last(l))
       /\ isr' = IF l >= 8 THEN isr \cup {2} ELSE isr
       /\ Enter(Vector(Last(l)), NULL)
  /\ UNCHANGED <<install, imr, obf, rdi, rsi, timer_ticks, message>>

(* An exception, in idt_install too once the table is loaded; one before that
   finds no table of the kernel's. *)
Fault(f) ==
  /\ cpu = "code" /\ idtr
  /\ cause' = Isr(f.vector)
  /\ Enter(f.vector, f.error)
  /\ UNCHANGED <<install, pic, obf, rdi, rsi, timer_ticks, message>>

-----------------------------------------------------------------------------
(* idt.asm *)

HasError == {8, 10, 11, 12, 13, 14, 17}      \* the stubs made by ISR_ERR

Pushes(s) ==
  CASE s.kind = "irq"                       -> <<32 + s.n, 0>>
    [] s.kind = "isr" /\ s.n \in HasError    -> <<s.n>>
    [] s.kind = "isr" /\ s.n \notin HasError -> <<s.n, 0>>

Stub ==
  /\ cpu = "stub" /\ stub # NULL
  /\ stack' = Pushes(stub) \o stack
  /\ cpu' = IF stub.kind = "irq" THEN "irq_common" ELSE "isr_common"
  /\ UNCHANGED <<install, pic, obf, interrupts, stub, rdi, rsi, timer_ticks, message, cause>>

Above(n) == stack[n \div 8 + 1]              \* [rsp + n]
PoppedOnce(s) == Tail(s)
Popped(s) == SubSeq(s, 3, Len(s))            \* add rsp, 16

irq_common ==
  /\ cpu = "irq_common"
  /\ rdi' = Above(8)
  /\ cpu' = "irq_handler"
  /\ UNCHANGED <<install, pic, obf, interrupts, stub, stack, rsi, timer_ticks, message, cause>>

iretq ==
  /\ cpu = "iretq"
  /\ stack' = SubSeq(Popped(stack), Len(Frame) + 1, Len(Popped(stack)))
  /\ interrupts' = TRUE /\ cpu' = "code"
  /\ stub' = NULL /\ cause' = NULL
  /\ UNCHANGED <<install, pic, obf, rdi, rsi, timer_ticks, message>>

isr_common ==
  /\ cpu = "isr_common"
  /\ rdi' = Above(8) /\ rsi' = Above(16)
  /\ cpu' = "isr_handler"
  /\ UNCHANGED <<install, pic, obf, interrupts, stub, stack, timer_ticks, message, cause>>

-----------------------------------------------------------------------------
(* idt.c and panic.c *)

(* A non-specific end of interrupt: the controller's highest line in service. *)
Ended(S) == {l \in S : \E m \in S : m < l}

pic_send_eoiMasterOnly(irq) == Ended({l \in isr : l < 8}) \cup {l \in isr : l >= 8}
pic_send_eoiEither(irq) ==
  IF irq >= 8 THEN {l \in isr : l < 8} \cup Ended({l \in isr : l >= 8})
              ELSE Ended({l \in isr : l < 8}) \cup {l \in isr : l >= 8}
pic_send_eoi(irq) ==
  Ended({l \in isr : l < 8}) \cup (IF irq >= 8 THEN Ended({l \in isr : l >= 8})
                                               ELSE {l \in isr : l >= 8})

(* The argument of pic_send_eoi is a uint8_t.  kbd_handler reads the byte. *)
irq_handler ==
  /\ cpu = "irq_handler"
  /\ timer_ticks' = IF rdi = 32 THEN (timer_ticks + 1) % TICK_WRAP ELSE timer_ticks
  /\ obf' = (obf /\ rdi # 33)
  /\ isr' = pic_send_eoi((rdi - 32) % 256)
  /\ cpu' = "iretq"
  /\ UNCHANGED <<install, imr, irr, interrupts, stub, regs, message, cause>>

panic_handler(text) ==
  /\ interrupts' = FALSE /\ imr' = AllLines
  /\ message' = text
  /\ cpu' = "halted"

(* exception_messages has 32 entries; beyond them the text is whatever the
   memory after the table makes of it, here NULL. *)
isr_handler ==
  /\ cpu = "isr_handler"
  /\ panic_handler(IF rdi \in 0 .. 31 THEN rdi ELSE NULL)
  /\ UNCHANGED <<install, irr, isr, obf, stub, regs, timer_ticks, cause>>

-----------------------------------------------------------------------------
Kernel == Stub \/ irq_common \/ irq_handler \/ iretq \/ isr_common \/ isr_handler
Cpu    == Install \/ Accept \/ Spurious \/ Kernel

Next ==
  \/ Install \/ Accept \/ Spurious \/ Kernel
  \/ \E l \in Lines : Raise(l)
  \/ KeyArrives
  \/ \E f \in Faults : Fault(f)

(* The CPU takes its next step; no device has to raise its line. *)
Spec == Init /\ [][Next]_vars /\ WF_vars(Cpu)

-----------------------------------------------------------------------------
TypeOK ==
  /\ idt \in [0 .. 255 -> Stubs \cup {NULL}] /\ idtr \in BOOLEAN
  /\ imr \subseteq AllLines /\ irr \subseteq Lines /\ isr \subseteq AllLines
  /\ stub \in Stubs \cup {NULL}
  /\ Len(stack) <= Len(Frame) + 3
  /\ timer_ticks \in 0 .. TICK_WRAP - 1
  /\ message \in 0 .. 31 \cup {NULL} /\ cause \in Stubs \cup {NULL}

(* An interrupt, wherever in idt_install its line was raised, and an exception
   from lidt on enter a gate of the loaded table, and the stub behind it is the
   stub of that line or of that exception: the base vectors and the table agree. *)
EntersItsStub ==
  cpu = "stub" => stub = cause

(* When code runs with interrupts enabled the controllers have nothing in
   service, so no line is shut out by an interrupt that has ended: not even
   one of the slave, which needs two ends, nor after a spurious request. *)
NothingLeftInService ==
  cpu = "code" => isr = {}

(* The stub and the common tail remove exactly what the stub pushed: the
   interrupted code gets its own frame back. *)
ReturnsToInterrupted ==
  /\ cpu = "iretq" => Popped(stack) = Frame
  /\ cpu = "code" => stack = <<>>

(* A timer request does not stay behind the other lines for ever, unless the
   kernel has panicked: it is acknowledged, or withdrawn, or cleared by pic_remap. *)
TimerServed ==
  0 \in irr ~> (0 \notin irr \/ cpu = "halted")

-----------------------------------------------------------------------------
(* "PIT 100Hz (10ms ticks)": each timer interrupt that is handled advances
   timer_ticks, on which timer_wait counts. *)
TicksCountInterrupts ==
  [][irq_handler /\ cause = Irq(0) => timer_ticks' = (timer_ticks + 1) % TICK_WRAP]_vars

(* The text on the panic screen is the one of the exception that occurred. *)
PanicNamesFault ==
  cpu = "halted" => message = cause.n
=============================================================================
