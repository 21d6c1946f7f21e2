----------------------------- MODULE IrqProofs ------------------------------
(***************************************************************************)
(* Theorems about the interrupts of kernel/idt/idt.c and idt.asm, for      *)
(* every set of lines with a device, every set of exceptions and every     *)
(* order in which they occur, from the first step of idt_install on.       *)
(***************************************************************************)
EXTENDS Irq, SequenceTheorems, TLAPS

(* What the stack holds. *)
Words == {RIP, CS, RFLAGS, RSP, SS} \cup 0 .. 47 \cup {f.error : f \in Faults}

-----------------------------------------------------------------------------
(* The inductive invariant. *)

(* Before lidt nothing is delivered and before sti no interrupt; from lidt on the
   table is complete and loaded, and the base vectors are the ones it was made for. *)
Installed ==
  /\ boot \in {"gates", "remap", "mask", "lidt", "unmask", "sti", "done"}
  /\ boot # "gates" => \A v \in 0 .. 255 : idt[v] = Gate(v)
  /\ idtr <=> boot \in {"unmask", "sti", "done"}
  /\ boot \notin {"gates", "remap"} => base = Remapped
  /\ boot # "done" => /\ ~interrupts /\ cpu \notin {"irq_common", "irq_handler", "iretq"}
                      /\ cpu = "stub" => cause.kind = "isr"

(* At most one line of each controller is in service. *)
OneEach(S) == \A a, b \in S : (a < 8 <=> b < 8) => a = b

(* What is on the stack, in rdi and in service at each point of the way
   through a stub, its tail and its handler. *)
Underway ==
  /\ cpu \in {"code", "stub", "irq_common", "irq_handler", "iretq",
              "isr_common", "isr_handler", "halted"}
  /\ stack \in Seq(Words)
  /\ cpu = "code" => stack = <<>> /\ isr = {}
  /\ cpu = "stub" =>
       /\ stub = cause /\ cause # NULL
       /\ cause.kind = "irq" => stack = Frame
       /\ Len(stack) <= Len(Frame) + 1
  /\ cpu \in {"irq_common", "irq_handler", "iretq"} =>
       \E l \in AllLines : stub = Irq(l) /\ stack = <<32 + l, 0>> \o Frame
  /\ cpu \in {"stub", "irq_common", "irq_handler"} => OneEach(isr)
  /\ cpu = "irq_handler" => rdi = 0
  /\ cpu = "iretq" => isr = {}

IInv == TypeOK /\ Installed /\ Underway

-----------------------------------------------------------------------------
(* The words of a stub and of the processor. *)

LEMMA FrameFacts ==
  /\ Frame \in Seq(Words) /\ Len(Frame) = 5
  /\ \A l \in AllLines : <<32 + l, 0>> \in Seq(Words) /\ Len(<<32 + l, 0>>) = 2
  /\ <<>> \in Seq(Words) /\ Len(<<>>) = 0
<1>1. RIP \in Words /\ CS \in Words /\ RFLAGS \in Words /\ RSP \in Words /\ SS \in Words
  BY DEF Words
<1>2. \A l \in AllLines : 32 + l \in Words /\ 0 \in Words
  BY DEF Words, AllLines
<1>3. Frame \in Seq(Words) /\ Len(Frame) = 5
  BY <1>1 DEF Frame
<1> QED BY <1>2, <1>3

(* Two stubs are the same only if they are of the same kind and number. *)
LEMMA StubFacts ==
  /\ \A l : Irq(l).kind = "irq" /\ Irq(l).n = l
  /\ \A v : Isr(v).kind = "isr" /\ Isr(v).n = v
  /\ \A l \in AllLines : Irq(l) \in Stubs
  /\ \A v \in 0 .. 31 : Isr(v) \in Stubs
  /\ NULL \notin Stubs
  /\ \A s \in Stubs : \/ s.kind = "irq" /\ s.n \in AllLines /\ s = Irq(s.n)
                      \/ s.kind = "isr" /\ s.n \in 0 .. 31 /\ s = Isr(s.n)
<1>1. /\ \A l : Irq(l).kind = "irq" /\ Irq(l).n = l
      /\ \A v : Isr(v).kind = "isr" /\ Isr(v).n = v
  BY DEF Irq, Isr
<1>2. /\ \A l \in AllLines : Irq(l) \in Stubs
      /\ \A v \in 0 .. 31 : Isr(v) \in Stubs
  BY DEF Stubs
<1>3. \A s \in Stubs : (\E l \in AllLines : s = Irq(l)) \/ (\E v \in 0 .. 31 : s = Isr(v))
  BY DEF Stubs
<1>4. NULL \notin Stubs
  BY <1>3, IrqAssumption DEF Irq, Isr, AllLines
<1> QED BY <1>1, <1>2, <1>3, <1>4

(* The complete table has the stub of line l behind vector 32 + l and the stub
   of every exception but 9 behind its own. *)
LEMMA GateFacts ==
  /\ \A v \in 0 .. 255 : Gate(v) \in Stubs \cup {NULL}
  /\ \A l \in AllLines : Gate(32 + l) = Irq(l)
  /\ \A v \in 0 .. 31 \ {9} : Gate(v) = Isr(v)
<1>1. \A v \in 0 .. 31 \ {9} : Gate(v) = Isr(v)
  BY DEF Gate
<1>2. ASSUME NEW v \in 32 .. 47 PROVE Gate(v) = Irq(v - 32) /\ v - 32 \in AllLines
  <2>1. v \notin 0 .. 31 \ {9} /\ v - 32 \in AllLines
    BY DEF AllLines
  <2> QED BY <2>1 DEF Gate
<1>3. ASSUME NEW v \in 0 .. 255, v \notin 0 .. 31 \ {9}, v \notin 32 .. 47 PROVE Gate(v) = NULL
  BY <1>3 DEF Gate
<1>4. ASSUME NEW l \in AllLines PROVE Gate(32 + l) = Irq(l)
  <2>1. 32 + l \in 32 .. 47 /\ (32 + l) - 32 = l
    BY DEF AllLines
  <2> QED BY <1>2, <2>1
<1>5. ASSUME NEW v \in 0 .. 255 PROVE Gate(v) \in Stubs \cup {NULL}
  <2>1. CASE v \in 0 .. 31 \ {9}
    BY <1>1, <2>1, StubFacts
  <2>2. CASE v \in 32 .. 47
    BY <1>2, <2>2, StubFacts
  <2>3. CASE v \notin 0 .. 31 \ {9} /\ v \notin 32 .. 47
    BY <1>3, <2>3
  <2> QED BY <2>1, <2>2, <2>3
<1> QED BY <1>1, <1>4, <1>5

(* Taking off what a stub of a line pushed leaves the processor's frame, and
   taking off the frame leaves nothing. *)
LEMMA PoppedFrame ==
  ASSUME NEW l \in AllLines
  PROVE  /\ <<32 + l, 0>> \o Frame \in Seq(Words)
         /\ Len(<<32 + l, 0>> \o Frame) = 7
         /\ (<<32 + l, 0>> \o Frame)[2] = 0
         /\ Popped(<<32 + l, 0>> \o Frame) = Frame
<1> DEFINE p == <<32 + l, 0>>
           s == p \o Frame
<1>0. p \in Seq(Words) /\ Len(p) = 2 /\ p[2] = 0 /\ Frame \in Seq(Words) /\ Len(Frame) = 5
  BY FrameFacts
<1> HIDE DEF p
<1>c. /\ s \in Seq(Words) /\ Len(s) = Len(p) + Len(Frame)
      /\ \A i \in 1 .. Len(p) + Len(Frame) :
           s[i] = IF i <= Len(p) THEN p[i] ELSE Frame[i - Len(p)]
  <2>1. p \in Seq(Words) /\ Frame \in Seq(Words)
    BY <1>0
  <2> QED BY <2>1, ConcatProperties
<1>1. s \in Seq(Words) /\ Len(s) = 7
  BY <1>0, <1>c
<1>2. 2 \in 1 .. Len(p) + Len(Frame) /\ 2 <= Len(p)
  BY <1>0
<1>3. s[2] = 0
  BY <1>0, <1>2, <1>c
<1>4. Popped(s) = Frame
  <2>1. SubSeq(s, 3, 7) = SubSeq(Frame, 3 - Len(p), 7 - Len(p))
    <3>1. 3 \in Len(p) + 1 .. Len(p) + Len(Frame) /\ 7 \in Len(p) + 1 .. Len(p) + Len(Frame)
      BY <1>0
    <3> QED BY <1>0, <3>1, SubSeqOfConcat2
  <2>2. SubSeq(Frame, 1, Len(Frame)) = Frame
    BY <1>0, SubSeqFull
  <2>3. Popped(s) = SubSeq(s, 3, 7)
    BY <1>1 DEF Popped
  <2>4. 3 - Len(p) = 1 /\ 7 - Len(p) = Len(Frame)
    BY <1>0
  <2> QED BY <2>1, <2>2, <2>3, <2>4
<1> HIDE DEF s
<1>5. s \in Seq(Words) /\ Len(s) = 7 /\ s[2] = 0 /\ Popped(s) = Frame
  BY <1>1, <1>3, <1>4
<1> QED BY <1>5 DEF s, p

-----------------------------------------------------------------------------
(* The controllers. *)

(* A request puts one line of its controller in service, and one of the slave
   the cascade of the master too. *)
LEMMA OneEachEntered ==
  ASSUME NEW l \in Lines
  PROVE  OneEach({l, MasterLine(l)}) /\ {l, MasterLine(l)} \subseteq AllLines
<1>1. l \in 0 .. 15 /\ l # 2
  BY IrqAssumption
<1> QED BY <1>1 DEF OneEach, MasterLine, AllLines

(* The argument of pic_send_eoi is a uint8_t. *)
LEMMA Remainder ==
  ASSUME NEW x \in Int, NEW q \in Int, NEW r \in 0 .. 255, x = 256 * q + r
  PROVE  x % 256 = r
  OBVIOUS

(* The handler is given 0 for every line, and 224 is no line of the master:
   it ends an interrupt at both controllers, whichever line it was. *)
LEMMA EndOfBoth ==
  ASSUME isr \subseteq AllLines, OneEach(isr)
  PROVE  pic_send_eoi((0 - 32) % 256) = {}
<1>1. (0 - 32) % 256 = 224
  <2>1. 0 - 32 \in Int /\ -1 \in Int /\ 224 \in 0 .. 255 /\ 0 - 32 = 256 * (-1) + 224
    OBVIOUS
  <2> QED BY <2>1, Remainder, ZenonT(60)
<1>2. pic_send_eoi(224) = Ended({l \in isr : l < 8}) \cup Ended({l \in isr : l >= 8})
  BY DEF pic_send_eoi
<1>3. \A l \in isr : l \in 0 .. 15
  BY DEF AllLines
<1>4. Ended({l \in isr : l < 8}) = {} /\ Ended({l \in isr : l >= 8}) = {}
  BY <1>3 DEF Ended, OneEach
<1> QED BY <1>1, <1>2, <1>4

(* The vector of a line, once the controllers are programmed. *)
LEMMA VectorOfLine ==
  ASSUME base = Remapped, NEW l \in AllLines
  PROVE  Vector(l) = 32 + l
  BY DEF Vector, Remapped, AllLines

(* What the CPU does when it answers a line. *)
LEMMA EnterLine ==
  ASSUME IInv, boot = "done", cpu = "code", NEW l \in AllLines, Enter(Vector(l), NULL),
         cause' = Irq(l)
  PROVE  /\ stack' = Frame /\ stub' = Irq(l) /\ cpu' = "stub" /\ ~interrupts'
         /\ stub' = cause' /\ cause' \in Stubs /\ cause' # NULL
<1>1. Vector(l) = 32 + l /\ 32 + l \in 0 .. 255
  BY VectorOfLine DEF IInv, Installed, AllLines
<1>2. idtr /\ idt[32 + l] = Irq(l)
  BY <1>1, GateFacts DEF IInv, Installed
<1>3. stack = <<>> /\ <<>> \o Frame = Frame /\ Frame \o <<>> = Frame
  BY FrameFacts, ConcatEmptySeq DEF IInv, Underway
<1>4. stack' = Frame
  BY <1>3 DEF Enter
<1>5. Irq(l) \in Stubs /\ Irq(l) # NULL
  BY StubFacts
<1> QED BY <1>1, <1>2, <1>4, <1>5 DEF Enter

-----------------------------------------------------------------------------
(* The steps. *)

LEMMA InitIInv == Init => IInv
<1> SUFFICES ASSUME Init PROVE IInv
  OBVIOUS
<1>1. stack = <<>> /\ Len(stack) = 0 /\ stack \in Seq(Words) /\ Len(Frame) = 5
  BY FrameFacts DEF Init
<1>2. TICK_WRAP \in Nat \ {0} /\ 0 \in 0 .. TICK_WRAP - 1
  BY IrqAssumption
<1>3. TypeOK
  <2>1. imr \subseteq AllLines /\ irr \subseteq Lines /\ isr \subseteq AllLines
    BY DEF Init
  <2>2. idt \in [0 .. 255 -> Stubs \cup {NULL}] /\ idtr \in BOOLEAN
    BY DEF Init
  <2>3. timer_ticks \in 0 .. TICK_WRAP - 1 /\ Len(stack) <= Len(Frame) + 3
    BY <1>1, <1>2 DEF Init
  <2> QED BY <2>1, <2>2, <2>3 DEF Init, TypeOK
<1>4. Installed
  BY DEF Init, Installed
<1>5. Underway
  BY <1>1 DEF Init, Underway
<1> QED BY <1>3, <1>4, <1>5 DEF IInv

(* A step of idt_install, while nothing is delivered. *)
LEMMA InstallStep == IInv /\ Install => IInv'
<1> SUFFICES ASSUME IInv, Install PROVE IInv'
  OBVIOUS
<1> USE DEF Step, others, regs, pic
<1>0. TypeOK /\ Installed /\ Underway
  BY DEF IInv
<1>1. CASE install_gates
  <2>1. idt' = [v \in 0 .. 255 |-> Gate(v)] /\ boot' = "remap"
    BY <1>1 DEF install_gates
  <2>2. TypeOK'
    <3>1. idt' \in [0 .. 255 -> Stubs \cup {NULL}]
      BY <2>1, GateFacts
    <3>2. UNCHANGED <<idtr, imr, irr, isr, stub, stack, timer_ticks, message, cause>>
      BY <1>1 DEF install_gates
    <3> QED BY <1>0, <3>1, <3>2 DEF TypeOK
  <2>3. Installed'
    BY <1>0, <1>1, <2>1 DEF install_gates, Installed
  <2>4. Underway'
    BY <1>0, <1>1 DEF install_gates, Underway
  <2> QED BY <2>2, <2>3, <2>4 DEF IInv
<1>2. CASE pic_remap
  <2>1. TypeOK'
    BY <1>0, <1>2 DEF pic_remap, TypeOK
  <2>2. Installed'
    BY <1>0, <1>2 DEF pic_remap, Installed
  <2>3. Underway'
    BY <1>0, <1>2 DEF pic_remap, Underway
  <2> QED BY <2>1, <2>2, <2>3 DEF IInv
<1>3. CASE mask_all
  <2>1. TypeOK'
    BY <1>0, <1>3 DEF mask_all, TypeOK
  <2>2. Installed'
    BY <1>0, <1>3 DEF mask_all, Installed
  <2>3. Underway'
    BY <1>0, <1>3 DEF mask_all, Underway
  <2> QED BY <2>1, <2>2, <2>3 DEF IInv
<1>4. CASE idt_load_asm
  <2>1. TypeOK'
    BY <1>0, <1>4 DEF idt_load_asm, TypeOK
  <2>2. Installed'
    BY <1>0, <1>4 DEF idt_load_asm, Installed
  <2>3. Underway'
    BY <1>0, <1>4 DEF idt_load_asm, Underway
  <2> QED BY <2>1, <2>2, <2>3 DEF IInv
<1>5. CASE unmask_all
  <2>1. TypeOK'
    BY <1>0, <1>5 DEF unmask_all, TypeOK
  <2>2. Installed'
    BY <1>0, <1>5 DEF unmask_all, Installed
  <2>3. Underway'
    BY <1>0, <1>5 DEF unmask_all, Underway
  <2> QED BY <2>1, <2>2, <2>3 DEF IInv
<1>6. CASE sti
  <2>1. TypeOK'
    BY <1>0, <1>6 DEF sti, TypeOK
  <2>2. Installed'
    BY <1>0, <1>6 DEF sti, Installed
  <2>3. Underway'
    BY <1>0, <1>6 DEF sti, Underway
  <2> QED BY <2>1, <2>2, <2>3 DEF IInv
<1> QED BY <1>1, <1>2, <1>3, <1>4, <1>5, <1>6 DEF Install

(* A device raises its line, at any point. *)
LEMMA DeviceStep ==
  IInv /\ ((\E l \in Lines : Raise(l)) \/ KeyArrives) => IInv'
<1> SUFFICES ASSUME IInv, (\E l \in Lines : Raise(l)) \/ KeyArrives PROVE IInv'
  OBVIOUS
<1>1. /\ irr' \subseteq Lines
      /\ UNCHANGED <<install, imr, isr, interrupts, cpu, stub, regs, timer_ticks, message, cause>>
  <2>1. ASSUME NEW l \in Lines, Raise(l)
        PROVE  /\ irr' \subseteq Lines
               /\ UNCHANGED <<install, imr, isr, interrupts, cpu, stub, regs, timer_ticks, message, cause>>
    BY <2>1 DEF Raise, IInv, TypeOK
  <2>2. ASSUME KeyArrives
        PROVE  /\ irr' \subseteq Lines
               /\ UNCHANGED <<install, imr, isr, interrupts, cpu, stub, regs, timer_ticks, message, cause>>
    BY <2>2 DEF KeyArrives, IInv, TypeOK
  <2> QED BY <2>1, <2>2
<1>2. TypeOK'
  BY <1>1 DEF install, regs, IInv, TypeOK
<1>3. Installed'
  BY <1>1 DEF install, IInv, Installed
<1>4. Underway'
  BY <1>1 DEF regs, IInv, Underway
<1> QED BY <1>2, <1>3, <1>4 DEF IInv

(* The CPU has answered a line that is in service, or a request that was
   withdrawn. *)
LEMMA AnsweredIInv ==
  ASSUME IInv, cpu = "code", interrupts, NEW l \in AllLines, Enter(Vector(l), NULL),
         cause' = Irq(l), irr' \subseteq irr, isr' \subseteq AllLines, OneEach(isr'),
         UNCHANGED <<install, imr, obf, rdi, rsi, timer_ticks, message>>
  PROVE  IInv'
<1>0. boot = "done"
  BY DEF IInv, Installed
<1>1. /\ stack' = Frame /\ stub' = Irq(l) /\ cpu' = "stub" /\ ~interrupts'
      /\ stub' = cause' /\ cause' \in Stubs /\ cause' # NULL
  BY <1>0, EnterLine
<1>2. Len(Frame) = 5 /\ Frame \in Seq(Words)
  BY FrameFacts
<1>3. TypeOK'
  <2>1. Len(stack') <= Len(Frame) + 3
    BY <1>1, <1>2
  <2>2. imr' \subseteq AllLines /\ irr' \subseteq Lines /\ isr' \subseteq AllLines
    BY DEF IInv, TypeOK
  <2>3. /\ idt' \in [0 .. 255 -> Stubs \cup {NULL}] /\ idtr' \in BOOLEAN
        /\ timer_ticks' \in 0 .. TICK_WRAP - 1 /\ message' \in 0 .. 31 \cup {NULL}
    BY DEF install, IInv, TypeOK
  <2>4. stub' \in Stubs \cup {NULL} /\ cause' \in Stubs \cup {NULL}
    BY <1>1
  <2> QED BY <2>1, <2>2, <2>3, <2>4 DEF TypeOK
<1>4. Installed'
  BY <1>0, <1>1 DEF install, IInv, Installed
<1>5. Underway'
  BY <1>1, <1>2 DEF Underway
<1> QED BY <1>3, <1>4, <1>5 DEF IInv

LEMMA AcceptStep == IInv /\ Accept => IInv'
<1> SUFFICES ASSUME IInv, Accept PROVE IInv'
  OBVIOUS
<1>1. PICK l \in Requested :
        /\ irr' = irr \ {l} /\ cause' = Irq(l)
        /\ isr' = isr \cup {l, MasterLine(l)}
        /\ Enter(Vector(l), NULL)
  BY DEF Accept
<1>2. l \in Lines /\ l \in AllLines
  BY IrqAssumption DEF Requested, IInv, TypeOK, AllLines
<1>3. isr' = {l, MasterLine(l)}
  BY <1>1 DEF Accept, IInv, Underway
<1>4. isr' \subseteq AllLines /\ OneEach(isr')
  BY <1>2, <1>3, OneEachEntered
<1>5. /\ cpu = "code" /\ interrupts
      /\ UNCHANGED <<install, imr, obf, rdi, rsi, timer_ticks, message>>
  BY DEF Accept
<1>6. irr' \subseteq irr
  BY <1>1
<1> QED BY <1>1, <1>2, <1>4, <1>5, <1>6, AnsweredIInv

LEMMA SpuriousStep == IInv /\ Spurious => IInv'
<1> SUFFICES ASSUME IInv, Spurious PROVE IInv'
  OBVIOUS
<1>1. PICK l \in Requested :
        /\ irr' = irr \ {l} /\ cause' = Irq(Last(l))
        /\ isr' = IF l >= 8 THEN isr \cup {2} ELSE isr
        /\ Enter(Vector(Last(l)), NULL)
  BY DEF Spurious
<1>2. Last(l) \in AllLines
  BY DEF Last, AllLines
<1>3. isr' \subseteq {2}
  BY <1>1 DEF Spurious, IInv, Underway
<1>4. isr' \subseteq AllLines /\ OneEach(isr')
  BY <1>3 DEF AllLines, OneEach
<1>5. /\ cpu = "code" /\ interrupts
      /\ UNCHANGED <<install, imr, obf, rdi, rsi, timer_ticks, message>>
  BY DEF Spurious
<1>6. irr' \subseteq irr
  BY <1>1
<1> QED BY <1>1, <1>2, <1>4, <1>5, <1>6, AnsweredIInv

LEMMA FaultStep ==
  ASSUME IInv, NEW f \in Faults, Fault(f)
  PROVE  IInv'
<1> DEFINE e == IF f.error = NULL THEN <<>> ELSE <<f.error>>
<1>1. /\ cpu = "code" /\ idtr /\ cause' = Isr(f.vector)
      /\ stack' = e \o Frame \o stack
      /\ stub' = IF idtr THEN idt[f.vector] ELSE NULL
      /\ ~interrupts' /\ cpu' = "stub"
      /\ UNCHANGED <<install, pic, obf, rdi, rsi, timer_ticks, message>>
  BY DEF Fault, Enter
<1>2. f.vector \in 0 .. 31 \ {9} /\ f.vector \in 0 .. 255
  BY IrqAssumption
<1>3. stub' = Isr(f.vector)
  BY <1>1, <1>2, GateFacts DEF IInv, Installed
<1>4. Isr(f.vector) \in Stubs /\ Isr(f.vector).kind = "isr" /\ Isr(f.vector) # NULL
  BY <1>2, StubFacts
<1>5. e \in Seq(Words) /\ Len(e) <= 1 /\ Len(e) \in Nat
  <2>1. f.error \in Words
    BY DEF Words
  <2> QED BY <2>1
<1> HIDE DEF e
<1>6. stack' = e \o Frame /\ stack' \in Seq(Words) /\ Len(stack') <= 6
  <2>1. stack = <<>> /\ Frame \in Seq(Words) /\ Len(Frame) = 5
    BY <1>1, FrameFacts DEF IInv, Underway
  <2>2. e \o Frame \in Seq(Words) /\ Len(e \o Frame) = Len(e) + Len(Frame)
    BY <1>5, <2>1, ConcatProperties
  <2>3. (e \o Frame) \o <<>> = e \o Frame
    BY <2>2, ConcatEmptySeq
  <2>4. stack' = e \o Frame
    BY <1>1, <2>1, <2>3
  <2> QED BY <1>5, <2>1, <2>2, <2>4
<1>7. Len(Frame) = 5
  BY FrameFacts
<1>8. OneEach(isr')
  BY <1>1 DEF pic, IInv, Underway, OneEach
<1>9. TypeOK'
  <2>1. Len(stack') <= Len(Frame) + 3
    BY <1>6, <1>7, LenProperties
  <2> QED BY <1>1, <1>3, <1>4, <2>1 DEF install, pic, IInv, TypeOK
<1>10. Installed'
  BY <1>1, <1>4 DEF install, IInv, Installed
<1>11. Underway'
  BY <1>1, <1>3, <1>4, <1>6, <1>7, <1>8 DEF Underway
<1> QED BY <1>9, <1>10, <1>11 DEF IInv

(* The words a stub pushes. *)
LEMMA PushFacts ==
  ASSUME NEW s \in Stubs
  PROVE  /\ s.kind = "irq" => s.n \in AllLines /\ s = Irq(s.n) /\ Pushes(s) = <<32 + s.n, 0>>
         /\ s.kind # "irq" => s.kind = "isr" /\ Pushes(s) \in Seq(Words) /\ Len(Pushes(s)) <= 2
                              /\ Len(Pushes(s)) \in Nat
<1>1. CASE s.kind = "irq"
  BY <1>1, StubFacts DEF Pushes
<1>2. CASE s.kind # "irq"
  <2>1. s.kind = "isr" /\ s.n \in 0 .. 31 /\ s.n \in Words /\ 0 \in Words
    BY <1>2, StubFacts DEF Words
  <2>2. CASE s.n \in HasError
    <3>1. Pushes(s) = <<s.n>>
      BY <2>1, <2>2 DEF Pushes
    <3> QED BY <1>2, <2>1, <3>1
  <2>3. CASE s.n \notin HasError
    <3>1. Pushes(s) = <<s.n, 0>>
      BY <2>1, <2>3 DEF Pushes
    <3> QED BY <1>2, <2>1, <3>1
  <2> QED BY <2>2, <2>3
<1> QED BY <1>1, <1>2

LEMMA StubStep == IInv /\ Stub => IInv'
<1> SUFFICES ASSUME IInv, Stub PROVE IInv'
  OBVIOUS
<1>1. /\ cpu = "stub" /\ stub # NULL /\ stack' = Pushes(stub) \o stack
      /\ cpu' = IF stub.kind = "irq" THEN "irq_common" ELSE "isr_common"
      /\ UNCHANGED <<install, pic, obf, interrupts, stub, rdi, rsi, timer_ticks, message, cause>>
  BY DEF Stub
<1>2. /\ stub \in Stubs /\ stub = cause /\ OneEach(isr)
      /\ stub.kind = "irq" => stack = Frame
      /\ stack \in Seq(Words) /\ Len(stack) <= 6 /\ Len(stack) \in Nat
  <2>1. Len(Frame) = 5
    BY FrameFacts
  <2>2. stack \in Seq(Words)
    BY DEF IInv, Underway
  <2>3. Len(stack) \in Nat
    BY <2>2, LenProperties
  <2> QED BY <1>1, <2>1, <2>2, <2>3 DEF IInv, TypeOK, Underway
<1>3. boot # "done" => stub.kind = "isr"
  BY <1>1, <1>2 DEF IInv, Installed
<1>4. Installed'
  BY <1>1, <1>3 DEF install, IInv, Installed
<1>5. stack' \in Seq(Words) /\ Len(stack') <= 8
  <2>1. CASE stub.kind = "irq"
    <3>1. stack' = <<32 + stub.n, 0>> \o Frame /\ stub.n \in AllLines
      BY <1>1, <1>2, <2>1, PushFacts
    <3> QED BY <3>1, PoppedFrame
  <2>2. CASE stub.kind # "irq"
    <3>1. Pushes(stub) \in Seq(Words) /\ Len(Pushes(stub)) <= 2 /\ Len(Pushes(stub)) \in Nat
      BY <1>2, <2>2, PushFacts
    <3>2. stack' \in Seq(Words) /\ Len(stack') = Len(Pushes(stub)) + Len(stack)
      BY <1>1, <1>2, <3>1, ConcatProperties
    <3> QED BY <1>2, <3>1, <3>2
  <2> QED BY <2>1, <2>2
<1>6. TypeOK'
  <2>1. Len(stack') <= Len(Frame) + 3
    BY <1>5, FrameFacts
  <2> QED BY <1>1, <2>1 DEF install, pic, IInv, TypeOK
<1>7. stub.kind = "irq" => \E l \in AllLines : stub = Irq(l) /\ stack' = <<32 + l, 0>> \o Frame
  BY <1>1, <1>2, PushFacts
<1>8. Underway'
  BY <1>1, <1>2, <1>5, <1>7 DEF pic, Underway
<1> QED BY <1>4, <1>6, <1>8 DEF IInv

LEMMA IrqCommonStep == IInv /\ irq_common => IInv'
<1> SUFFICES ASSUME IInv, irq_common PROVE IInv'
  OBVIOUS
<1>1. /\ cpu = "irq_common" /\ rdi' = stack[8 \div 8 + 1] /\ cpu' = "irq_handler"
      /\ UNCHANGED <<install, pic, obf, interrupts, stub, stack, rsi, timer_ticks, message, cause>>
  BY DEF irq_common, Above
<1>2. PICK l \in AllLines : stub = Irq(l) /\ stack = <<32 + l, 0>> \o Frame
  BY <1>1 DEF IInv, Underway
<1>3. rdi' = 0
  <2>1. 8 \div 8 + 1 = 2
    OBVIOUS
  <2>2. stack[2] = 0
    BY <1>2, PoppedFrame
  <2> QED BY <1>1, <2>1, <2>2
<1>4. TypeOK'
  BY <1>1 DEF install, pic, IInv, TypeOK
<1>5. Installed'
  BY <1>1 DEF install, IInv, Installed
<1>6. Underway'
  BY <1>1, <1>2, <1>3 DEF pic, IInv, Underway
<1> QED BY <1>4, <1>5, <1>6 DEF IInv

LEMMA IrqHandlerStep == IInv /\ irq_handler => IInv'
<1> SUFFICES ASSUME IInv, irq_handler PROVE IInv'
  OBVIOUS
<1>1. /\ cpu = "irq_handler" /\ rdi = 0 /\ OneEach(isr) /\ isr \subseteq AllLines
      /\ timer_ticks \in 0 .. TICK_WRAP - 1 /\ cpu' = "iretq"
      /\ isr' = pic_send_eoi((rdi - 32) % 256)
      /\ timer_ticks' = IF rdi = 32 THEN (timer_ticks + 1) % TICK_WRAP ELSE timer_ticks
      /\ UNCHANGED <<install, imr, irr, interrupts, stub, regs, message, cause>>
  BY DEF irq_handler, IInv, Underway, TypeOK
<1>2. isr' = {} /\ timer_ticks' = timer_ticks
  BY <1>1, EndOfBoth
<1>3. TypeOK'
  BY <1>1, <1>2 DEF install, regs, IInv, TypeOK
<1>4. Installed'
  BY <1>1 DEF install, IInv, Installed
<1>5. Underway'
  BY <1>1, <1>2 DEF regs, IInv, Underway
<1> QED BY <1>3, <1>4, <1>5 DEF IInv

LEMMA IretqStep == IInv /\ iretq => IInv'
<1> SUFFICES ASSUME IInv, iretq PROVE IInv'
  OBVIOUS
<1>1. /\ cpu = "iretq" /\ cpu' = "code" /\ stub' = NULL /\ cause' = NULL
      /\ stack' = SubSeq(Popped(stack), Len(Frame) + 1, Len(Popped(stack)))
      /\ UNCHANGED <<install, pic, obf, rdi, rsi, timer_ticks, message>>
  BY DEF iretq
<1>2. Popped(stack) = Frame
  BY <1>1, PoppedFrame DEF IInv, Underway
<1>3. stack' = <<>>
  <2>1. Len(Frame) = 5 /\ stack' = SubSeq(Frame, 6, 5)
    BY <1>1, <1>2, FrameFacts
  <2> QED BY <2>1, SubSeqEmpty
<1>4. isr' = {} /\ boot = "done"
  BY <1>1 DEF pic, IInv, Underway, Installed
<1>5. TypeOK'
  <2>1. Len(stack') <= Len(Frame) + 3
    BY <1>3, FrameFacts
  <2> QED BY <1>1, <2>1 DEF install, pic, IInv, TypeOK
<1>6. Installed'
  BY <1>1, <1>4 DEF install, IInv, Installed
<1>7. Underway'
  BY <1>1, <1>3, <1>4, FrameFacts DEF Underway
<1> QED BY <1>5, <1>6, <1>7 DEF IInv

LEMMA IsrCommonStep == IInv /\ isr_common => IInv'
<1> SUFFICES ASSUME IInv, isr_common PROVE IInv'
  OBVIOUS
<1>1. /\ cpu = "isr_common" /\ cpu' = "isr_handler"
      /\ UNCHANGED <<install, pic, obf, interrupts, stub, stack, timer_ticks, message, cause>>
  BY DEF isr_common
<1>2. TypeOK'
  BY <1>1 DEF install, pic, IInv, TypeOK
<1>3. Installed'
  BY <1>1 DEF install, IInv, Installed
<1>4. Underway'
  BY <1>1 DEF pic, IInv, Underway
<1> QED BY <1>2, <1>3, <1>4 DEF IInv

LEMMA IsrHandlerStep == IInv /\ isr_handler => IInv'
<1> SUFFICES ASSUME IInv, isr_handler PROVE IInv'
  OBVIOUS
<1>1. /\ cpu = "isr_handler" /\ cpu' = "halted" /\ ~interrupts' /\ imr' = AllLines
      /\ message' = IF rdi \in 0 .. 31 THEN rdi ELSE NULL
      /\ UNCHANGED <<install, irr, isr, obf, stub, regs, timer_ticks, cause>>
  BY DEF isr_handler, panic_handler
<1>2. TypeOK'
  BY <1>1 DEF install, regs, IInv, TypeOK
<1>3. Installed'
  BY <1>1 DEF install, IInv, Installed
<1>4. Underway'
  BY <1>1 DEF regs, IInv, Underway
<1> QED BY <1>2, <1>3, <1>4 DEF IInv

LEMMA NextIInv == IInv /\ [Next]_vars => IInv'
<1> SUFFICES ASSUME IInv, [Next]_vars PROVE IInv'
  OBVIOUS
<1>1. CASE UNCHANGED vars
  <2>1. TypeOK'
    BY <1>1 DEF vars, install, pic, regs, IInv, TypeOK
  <2>2. Installed'
    BY <1>1 DEF vars, install, IInv, Installed
  <2>3. Underway'
    BY <1>1 DEF vars, pic, regs, IInv, Underway
  <2> QED BY <2>1, <2>2, <2>3 DEF IInv
<1>2. CASE Kernel
  BY <1>2, StubStep, IrqCommonStep, IrqHandlerStep, IretqStep, IsrCommonStep, IsrHandlerStep DEF Kernel
<1>3. CASE \E f \in Faults : Fault(f)
  BY <1>3, FaultStep
<1> QED BY <1>1, <1>2, <1>3, InstallStep, DeviceStep, AcceptStep, SpuriousStep DEF Next

LEMMA Invariance == Spec => []IInv
  BY InitIInv, NextIInv, PTL DEF Spec

-----------------------------------------------------------------------------
(* Every variable keeps its type: no nesting of stubs makes the stack grow. *)
THEOREM IrqTypeCorrect == Spec => []TypeOK
<1>1. IInv => TypeOK
  BY DEF IInv
<1> QED BY <1>1, Invariance, PTL

(* Every line enters its own stub, wherever in idt_install a device raised it, and
   so does every exception once lidt has loaded the table. *)
THEOREM StubsAreEntered == Spec => []EntersItsStub
<1>1. IInv => EntersItsStub
  BY DEF IInv, Underway, EntersItsStub
<1> QED BY <1>1, Invariance, PTL

(* When the interrupted code runs again no line is shut out, although every
   handler is called with 0 and ends an interrupt at both controllers. *)
THEOREM ServiceIsEnded == Spec => []NothingLeftInService
<1>1. IInv => NothingLeftInService
  BY DEF IInv, Underway, NothingLeftInService
<1> QED BY <1>1, Invariance, PTL

(* iretq takes the words the processor pushed, and leaves nothing behind. *)
THEOREM FramesAreReturned == Spec => []ReturnsToInterrupted
<1>1. IInv => ReturnsToInterrupted
  <2> SUFFICES ASSUME IInv PROVE ReturnsToInterrupted
    OBVIOUS
  <2>1. cpu = "iretq" => Popped(stack) = Frame
    BY PoppedFrame DEF IInv, Underway
  <2>2. cpu = "code" => stack = <<>>
    BY DEF IInv, Underway
  <2> QED BY <2>1, <2>2 DEF ReturnsToInterrupted
<1> QED BY <1>1, Invariance, PTL
=============================================================================
