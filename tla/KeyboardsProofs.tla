-------------------------- MODULE KeyboardsProofs ---------------------------
(***************************************************************************)
(* Theorems about kernel/drv/drv_kbd.c beside kernel/kbd/kbd.c, for every  *)
(* ring size, set of keys, set of scancodes and length of a read.          *)
(***************************************************************************)
EXTENDS Keyboards, KbdProofs

drvRing   == <<drv_buffer, buf_start, buf_end>>
drvThread == <<drv_pc, len, count, dst, drv_init_i>>

(* drv_kbd.c's ring is a ring, so that what KbdProofs says of rings holds of it. *)
LEMMA DrvRingIsRing ==
  /\ Drv!Slots = Slots /\ Drv!NUL = NUL
  /\ \A i : Drv!NextSlot(i) = NextSlot(i)
  /\ \A s, e : Drv!RingFull(s, e) <=> RingFull(s, e)
  /\ \A b, s, e : Drv!RingSeq(b, s, e) = RingSeq(b, s, e)
  BY DEF Drv!Slots, Slots, Drv!NUL, NUL, Drv!NextSlot, NextSlot, Drv!RingFull, RingFull,
         Drv!RingSeq, RingSeq, Drv!RingLen, RingLen, Drv!RingSlot, RingSlot

(* The part of the driver's type invariant that its ring needs. *)
DrvRingOK ==
  /\ drv_buffer \in [Slots -> Drv!Cells]
  /\ buf_start \in Slots /\ buf_end \in Slots

(* Where kbd_driver_read and kbd_driver_init stand: the handler moves only
   the end index, and never onto start, so what the reader has tested and
   loaded still holds when it advances start. *)
DrvReaderInv ==
  /\ drv_pc \in {"load", "advance"} => buf_start # buf_end
  /\ drv_pc = "advance" => dst = drv_buffer[buf_start]
  /\ drv_pc = "init_end" => buf_start = 0

DrvInv == DrvRingOK /\ DrvReaderInv

-----------------------------------------------------------------------------
(* All that kbd_handler_isr does to the ring is to push a character, and only if
   the ring is not full. *)
Pushes(ch) ==
  /\ ~RingFull(buf_start, buf_end)
  /\ drv_buffer' = [drv_buffer EXCEPT ![buf_end] = ch]
  /\ buf_end' = NextSlot(buf_end)
  /\ buf_start' = buf_start

(* scancode_to_ascii gives a value of a char variable. *)
LEMMA AsciiType == \A code : Drv!scancode_to_ascii(code) \in Drv!Cells
  BY DEF Drv!scancode_to_ascii, Drv!Cells, Drv!Chars

(* What kbd_handler_isr does to the ring: nothing, or one push; it changes no
   local of the call it interrupts. *)
LEMMA IsrPushes ==
  ASSUME NEW sc \in Scancodes, Drv!kbd_handler_isr(sc)
  PROVE  /\ UNCHANGED drvThread
         /\ UNCHANGED drvRing \/ \E ch \in Drv!Chars : Pushes(ch)
<1>1. UNCHANGED drvThread
  BY DEF Drv!kbd_handler_isr, Drv!thread, drvThread
<1>2. CASE UNCHANGED drvRing
  BY <1>1, <1>2
<1>3. CASE Drv!buf_push(Drv!scancode_to_ascii(sc)) /\ ~UNCHANGED drvRing
  <2> DEFINE ch == Drv!scancode_to_ascii(sc)
  <2>1. ch # Drv!NUL /\ ch \in Drv!Cells
    BY <1>3, AsciiType DEF Drv!buf_push, Drv!ring, drvRing
  <2>2. ch \in Drv!Chars
    BY <2>1 DEF Drv!Cells
  <2>3. Pushes(ch)
    BY <1>3, DrvRingIsRing DEF Drv!buf_push, Drv!ring, drvRing, Pushes
  <2> QED BY <1>1, <2>2, <2>3
<1> QED BY <1>2, <1>3 DEF Drv!kbd_handler_isr, Drv!Released, Drv!Pressed, Drv!ring, drvRing

(* The driver starts in its invariant. *)
LEMMA DrvInvInit == BothInit => DrvInv
<1> SUFFICES ASSUME Drv!Init PROVE DrvInv
  BY DEF BothInit
<1>1. 0 \in Slots /\ Drv!NUL \in Drv!Cells
  BY RingAssumption DEF Slots, Drv!Cells
<1> QED BY <1>1, DrvRingIsRing DEF Drv!Init, DrvInv, DrvRingOK, DrvReaderInv

(* Every step of either driver keeps the invariant of the ring and its reader. *)
LEMMA DrvInvNext == DrvInv /\ [BothNext]_BothVars => DrvInv'
<1> SUFFICES ASSUME DrvInv, [BothNext]_BothVars PROVE DrvInv'
  OBVIOUS
<1>0. 0 \in Slots /\ NextSlot(buf_start) \in Slots /\ NextSlot(buf_end) \in Slots
  BY RingAssumption, NextSlotWraps DEF Slots, DrvInv, DrvRingOK
<1>1. CASE UNCHANGED drvVars
  BY <1>1 DEF drvVars, DrvInv, DrvRingOK, DrvReaderInv
<1>2. ASSUME NEW sc \in Scancodes, Drv!kbd_handler_isr(sc) PROVE DrvInv'
  <2>1. UNCHANGED drvThread
    BY <1>2, IsrPushes
  <2>2. CASE UNCHANGED drvRing
    BY <2>1, <2>2 DEF drvThread, drvRing, DrvInv, DrvRingOK, DrvReaderInv
  <2>3. ASSUME NEW ch \in Drv!Chars, Pushes(ch) PROVE DrvInv'
    <3>1. ch \in Drv!Cells
      BY DEF Drv!Cells
    <3>2. DrvRingOK'
      BY <1>0, <2>3, <3>1 DEF Pushes, DrvInv, DrvRingOK
    <3>3. buf_start' # buf_end'
      BY <2>3 DEF Pushes, RingFull
    <3>4. drv_pc = "advance" => drv_buffer'[buf_start] = drv_buffer[buf_start]
      BY <2>3 DEF Pushes, DrvInv, DrvRingOK, DrvReaderInv
    <3> QED BY <2>1, <2>3, <3>2, <3>3, <3>4 DEF Pushes, drvThread, DrvInv, DrvReaderInv
  <2> QED BY <1>2, IsrPushes, <2>2, <2>3
<1>3. CASE \E n \in 1 .. DrvMaxLen : Drv!ReadBegin(n)
  BY <1>3 DEF Drv!ReadBegin, Drv!ring, DrvInv, DrvRingOK, DrvReaderInv
<1>4. CASE Drv!kbd_driver_read
  <2>1. CASE Drv!ReadTest
    BY <2>1 DEF Drv!ReadTest, Drv!MoreToRead, Drv!ring, DrvInv, DrvRingOK, DrvReaderInv
  <2>2. CASE Drv!ReadLoad
    BY <2>2 DEF Drv!ReadLoad, Drv!ring, DrvInv, DrvRingOK, DrvReaderInv
  <2>3. CASE Drv!ReadAdvance
    BY <1>0, <2>3, DrvRingIsRing DEF Drv!ReadAdvance, DrvInv, DrvRingOK, DrvReaderInv
  <2> QED BY <1>4, <2>1, <2>2, <2>3 DEF Drv!kbd_driver_read
<1>5. CASE Drv!kbd_driver_init
  <2>1. CASE Drv!InitStart
    BY <1>0, <2>1 DEF Drv!InitStart, DrvInv, DrvRingOK, DrvReaderInv
  <2>2. CASE Drv!InitEnd
    BY <1>0, <2>2 DEF Drv!InitEnd, DrvInv, DrvRingOK, DrvReaderInv
  <2>3. CASE Drv!InitFlag
    BY <2>3 DEF Drv!InitFlag, Drv!ring, DrvInv, DrvRingOK, DrvReaderInv
  <2>4. CASE Drv!InitState
    BY <2>4 DEF Drv!InitState, Drv!ring, DrvInv, DrvRingOK, DrvReaderInv
  <2> QED BY <1>5, <2>1, <2>2, <2>3, <2>4 DEF Drv!kbd_driver_init
<1> QED BY <1>1, <1>2, <1>3, <1>4, <1>5 DEF BothNext, BothVars, Drv!Next

(* The invariant of the ring and its reader holds throughout. *)
LEMMA DrvInvariance == BothSpec => []DrvInv
  BY DrvInvInit, DrvInvNext, PTL DEF BothSpec

-----------------------------------------------------------------------------
(* The ring refines the bounded queue, step by step. *)
DrvSeq == RingSeq(drv_buffer, buf_start, buf_end)

(* What is unread is what the ring holds, less the character loaded. *)
UnreadFacts ==
  /\ drv_pc = "init_end" => Drv!Unread = <<>>
  /\ drv_pc \notin {"init_end", "advance"} => Drv!Unread = DrvSeq
  /\ drv_pc = "advance" => DrvSeq # <<>> /\ Drv!Unread = Tail(DrvSeq)
  /\ DrvSeq \in Seq(Drv!Cells) /\ (DrvSeq = <<>> <=> buf_start = buf_end)
  /\ Len(DrvSeq) <= BUFFER_SIZE - 1

(* The facts about what is unread follow from the invariant. *)
LEMMA UnreadNow == DrvInv => UnreadFacts
<1> SUFFICES ASSUME DrvInv PROVE UnreadFacts
  OBVIOUS
<1>1. Buffer(drv_buffer, Drv!Cells) /\ buf_start \in Slots /\ buf_end \in Slots
  BY DEF DrvInv, DrvRingOK, Buffer
<1>2. /\ DrvSeq \in Seq(Drv!Cells) /\ (DrvSeq = <<>> <=> buf_start = buf_end)
      /\ Len(DrvSeq) <= BUFFER_SIZE - 1
  BY <1>1, RingSeqType, RingEmpty, RingAssumption DEF DrvSeq
<1>3. drv_pc # "init_end" => Drv!Waiting = DrvSeq
  BY DrvRingIsRing DEF Drv!Waiting, Drv!Resetting, DrvSeq
<1>4. CASE drv_pc = "advance"
  <2>1. DrvSeq # <<>>
    BY <1>2, <1>4 DEF DrvInv, DrvReaderInv
  <2>2. Drv!Unread = SubSeq(DrvSeq, 2, Len(DrvSeq))
    BY <1>3, <1>4 DEF Drv!Unread
  <2>3. SubSeq(DrvSeq, 2, Len(DrvSeq)) = Tail(DrvSeq)
    BY <1>2, <2>1
  <2> QED BY <1>2, <1>4, <2>1, <2>2, <2>3 DEF UnreadFacts
<1>5. CASE drv_pc = "init_end"
  BY <1>2, <1>5 DEF Drv!Unread, Drv!Waiting, Drv!Resetting, UnreadFacts
<1>6. CASE drv_pc \notin {"init_end", "advance"}
  BY <1>2, <1>3, <1>6 DEF Drv!Unread, UnreadFacts
<1> QED BY <1>4, <1>5, <1>6

(* The same facts before and after a step. *)
LEMMA UnreadIs ==
  ASSUME DrvInv, DrvInv'
  PROVE  UnreadFacts /\ UnreadFacts'
<1>1. UnreadFacts
  BY UnreadNow
<1>2. DrvInv' => UnreadFacts'
  BY UnreadNow, PTL
<1> QED BY <1>1, <1>2

(* A push appends to what is unread, also between a load and its advance. *)
LEMMA PushRefines ==
  ASSUME DrvInv, DrvInv', UNCHANGED drvThread, NEW ch \in Drv!Chars, Pushes(ch)
  PROVE  [Drv!Queue!Next]_(Drv!Queue!vars)
<1>1. DrvSeq' = Append(DrvSeq, ch) /\ Len(DrvSeq) < BUFFER_SIZE - 1
  <2>1. /\ Buffer(drv_buffer, Drv!Cells) /\ Buffer(drv_buffer', Drv!Cells)
        /\ buf_start \in Slots /\ buf_end \in Slots /\ ch \in Drv!Cells
        /\ Stores(drv_buffer, drv_buffer', buf_end, ch) /\ ~RingFull(buf_start, buf_end)
    BY DEF DrvInv, DrvRingOK, Buffer, Stores, Pushes, Drv!Cells
  <2>2. /\ RingLen(buf_start, buf_end) < BUFFER_SIZE - 1
        /\ RingSeq(drv_buffer', buf_start, NextSlot(buf_end))
             = Append(RingSeq(drv_buffer, buf_start, buf_end), ch)
    BY <2>1, RingPush
  <2>3. Len(DrvSeq) = RingLen(buf_start, buf_end)
    BY <2>1, RingSeqType DEF DrvSeq
  <2>4. DrvSeq' = RingSeq(drv_buffer', buf_start, NextSlot(buf_end))
    BY DEF DrvSeq, Pushes, RingSeq, RingLen, RingSlot
  <2> QED BY <2>2, <2>3, <2>4 DEF DrvSeq
<1>2. drv_pc' = drv_pc /\ dst' = dst
  BY DEF drvThread
<1>3. CASE drv_pc = "init_end"
  BY <1>2, <1>3, UnreadIs DEF UnreadFacts, Drv!Queue!vars
<1>4. CASE drv_pc # "init_end"
  <2>1. Drv!Unread' = Append(Drv!Unread, ch) /\ Len(Drv!Unread) < BUFFER_SIZE - 1
    <3>1. CASE drv_pc = "advance"
      <4>1. DrvSeq \in Seq(Drv!Cells) /\ DrvSeq # <<>> /\ ch \in Drv!Cells
        BY <3>1, UnreadIs DEF UnreadFacts, Drv!Cells
      <4>2. Tail(Append(DrvSeq, ch)) = Append(Tail(DrvSeq), ch)
        BY <4>1
      <4>3. Len(Tail(DrvSeq)) < BUFFER_SIZE - 1
        BY <1>1, <4>1, RingAssumption
      <4>4. Drv!Unread = Tail(DrvSeq) /\ Drv!Unread' = Tail(DrvSeq')
        BY <1>2, <3>1, UnreadIs DEF UnreadFacts
      <4> QED BY <1>1, <4>2, <4>3, <4>4
    <3>2. CASE drv_pc # "advance"
      BY <1>1, <1>2, <1>4, <3>2, UnreadIs DEF UnreadFacts
    <3> QED BY <3>1, <3>2
  <2>2. Drv!Queue!Put(ch)
    BY <1>2, <2>1 DEF Drv!Queue!Put
  <2> QED BY <2>2 DEF Drv!Queue!Next
<1> QED BY <1>3, <1>4

(* Loading takes the oldest character; advancing start only makes its slot
   free. *)
LEMMA ReadRefines ==
  ASSUME DrvInv, DrvInv', Drv!kbd_driver_read
  PROVE  [Drv!Queue!Next]_(Drv!Queue!vars)
<1>1. CASE Drv!ReadTest
  <2>1. DrvSeq' = DrvSeq /\ dst' = dst
    BY <1>1 DEF Drv!ReadTest, Drv!ring, DrvSeq, RingSeq, RingLen, RingSlot
  <2>2. drv_pc = "test" /\ drv_pc' \in {"load", "idle"}
    BY <1>1 DEF Drv!ReadTest
  <2> QED BY <2>1, <2>2, UnreadIs DEF UnreadFacts, Drv!Queue!vars
<1>2. CASE Drv!ReadLoad
  <2>1. DrvSeq' = DrvSeq /\ dst' = drv_buffer[buf_start]
    BY <1>2 DEF Drv!ReadLoad, Drv!ring, DrvSeq, RingSeq, RingLen, RingSlot
  <2>2. drv_pc = "load" /\ drv_pc' = "advance" /\ buf_start # buf_end
    BY <1>2 DEF Drv!ReadLoad, DrvInv, DrvReaderInv
  <2>3. Buffer(drv_buffer, Drv!Cells) /\ buf_start \in Slots /\ buf_end \in Slots
    BY DEF DrvInv, DrvRingOK, Buffer
  <2>4. DrvSeq # <<>> /\ Head(DrvSeq) = drv_buffer[buf_start]
    BY <2>2, <2>3, RingPop DEF DrvSeq
  <2>5. Drv!Unread = DrvSeq /\ Drv!Unread' = Tail(DrvSeq)
    BY <2>1, <2>2, UnreadIs DEF UnreadFacts
  <2> QED BY <2>1, <2>4, <2>5 DEF Drv!Queue!Next, Drv!Queue!Get
<1>3. CASE Drv!ReadAdvance
  <2>1. drv_pc = "advance" /\ drv_pc' = "test" /\ dst' = dst /\ buf_start # buf_end
    BY <1>3 DEF Drv!ReadAdvance, DrvInv, DrvReaderInv
  <2>2. Buffer(drv_buffer, Drv!Cells) /\ buf_start \in Slots /\ buf_end \in Slots
    BY DEF DrvInv, DrvRingOK, Buffer
  <2>3. RingSeq(drv_buffer, NextSlot(buf_start), buf_end) = Tail(DrvSeq)
    BY <2>1, <2>2, RingPop DEF DrvSeq
  <2>4. DrvSeq' = RingSeq(drv_buffer, NextSlot(buf_start), buf_end)
    BY <1>3, DrvRingIsRing DEF Drv!ReadAdvance, DrvSeq, RingSeq, RingLen, RingSlot
  <2>5. Drv!Unread = Tail(DrvSeq) /\ Drv!Unread' = DrvSeq'
    BY <2>1, UnreadIs DEF UnreadFacts
  <2> QED BY <2>1, <2>3, <2>4, <2>5 DEF Drv!Queue!vars
<1> QED BY <1>1, <1>2, <1>3 DEF Drv!kbd_driver_read

(* kbd_driver_init empties the queue with its first assignment; the rest of it
   changes nothing that is unread. *)
LEMMA ResetRefines ==
  ASSUME DrvInv, DrvInv', Drv!kbd_driver_init
  PROVE  [Drv!Queue!Next]_(Drv!Queue!vars)
<1>0. dst' = dst
  BY DEF Drv!kbd_driver_init, Drv!InitStart, Drv!InitEnd, Drv!InitFlag, Drv!InitState
<1>1. CASE Drv!InitStart
  <2>1. Drv!Unread' = <<>>
    BY <1>1, UnreadIs DEF UnreadFacts, Drv!InitStart
  <2> QED BY <1>0, <2>1 DEF Drv!Queue!Next, Drv!Queue!Reset
<1>2. CASE Drv!InitEnd
  <2>1. /\ drv_pc = "init_end" /\ drv_pc' = "init_flags"
        /\ buf_start' = 0 /\ buf_end' = 0
    BY <1>2 DEF Drv!InitEnd, DrvInv, DrvReaderInv
  <2>2. Drv!Unread = <<>> /\ Drv!Unread' = DrvSeq' /\ DrvSeq' = <<>>
    BY <2>1, UnreadIs DEF UnreadFacts
  <2> QED BY <1>0, <2>2 DEF Drv!Queue!vars
<1>3. CASE Drv!InitFlag \/ Drv!InitState
  <2>1. DrvSeq' = DrvSeq
    BY <1>3 DEF Drv!InitFlag, Drv!InitState, Drv!ring, DrvSeq, RingSeq, RingLen, RingSlot
  <2>2. /\ drv_pc \notin {"init_end", "advance"}
        /\ drv_pc' \notin {"init_end", "advance"}
    BY <1>3 DEF Drv!InitFlag, Drv!InitState
  <2> QED BY <1>0, <2>1, <2>2, UnreadIs DEF UnreadFacts, Drv!Queue!vars
<1> QED BY <1>1, <1>2, <1>3 DEF Drv!kbd_driver_init

(* The ring of drv_kbd.c implements the bounded queue for every size: a reader
   that takes any number of characters in one call, and a handler that may run
   between any two of its statements, lose, repeat and reorder none. *)
THEOREM DrvRingIsAQueue == BothSpec => DrvRefinesKeyQueue
<1>1. BothInit => Drv!Queue!Init
  <2> SUFFICES ASSUME BothInit PROVE Drv!Queue!Init
    OBVIOUS
  <2>1. DrvInv
    BY DrvInvInit
  <2>2. drv_pc = "idle" /\ buf_start = buf_end /\ dst = Drv!NUL
    BY DEF BothInit, Drv!Init
  <2>3. Drv!Unread = <<>>
    BY <2>1, <2>2, UnreadNow DEF UnreadFacts
  <2> QED BY <2>2, <2>3 DEF Drv!Queue!Init
<1>2. DrvInv /\ DrvInv' /\ [BothNext]_BothVars => [Drv!Queue!Next]_(Drv!Queue!vars)
  <2> SUFFICES ASSUME DrvInv, DrvInv', [BothNext]_BothVars
               PROVE  [Drv!Queue!Next]_(Drv!Queue!vars)
    OBVIOUS
  <2>1. ASSUME UNCHANGED drvRing, drv_pc' = drv_pc, dst' = dst
        PROVE  [Drv!Queue!Next]_(Drv!Queue!vars)
    <3>1. DrvSeq' = DrvSeq
      BY <2>1 DEF drvRing, DrvSeq, RingSeq, RingLen, RingSlot
    <3> QED BY <2>1, <3>1, UnreadIs DEF UnreadFacts, Drv!Queue!vars
  <2>2. CASE UNCHANGED drvVars
    BY <2>1, <2>2 DEF drvVars, drvRing
  <2>3. ASSUME NEW sc \in Scancodes, Drv!kbd_handler_isr(sc)
        PROVE  [Drv!Queue!Next]_(Drv!Queue!vars)
    BY <2>1, <2>3, IsrPushes, PushRefines DEF drvThread
  <2>4. ASSUME NEW n \in 1 .. DrvMaxLen, Drv!ReadBegin(n)
        PROVE  [Drv!Queue!Next]_(Drv!Queue!vars)
    <3>1. DrvSeq' = DrvSeq /\ dst' = dst
      BY <2>4 DEF Drv!ReadBegin, Drv!ring, DrvSeq, RingSeq, RingLen, RingSlot
    <3>2. drv_pc = "idle" /\ drv_pc' = "test"
      BY <2>4 DEF Drv!ReadBegin
    <3> QED BY <3>1, <3>2, UnreadIs DEF UnreadFacts, Drv!Queue!vars
  <2> QED BY <2>2, <2>3, <2>4, ReadRefines, ResetRefines DEF BothNext, BothVars, Drv!Next
<1> QED BY <1>1, <1>2, DrvInvariance, PTL
        DEF BothSpec, DrvRefinesKeyQueue, Drv!RefinesKeyQueue, Drv!Queue!Spec

-----------------------------------------------------------------------------
(* A statement that only clears flags and entries, as those of kbd_driver_init
   do, gives none of them a life beyond its keys. *)
LEMMA OnlyTakesAway ==
  ASSUME DrvKeysDown, flags' \subseteq flags, kbd_state' \subseteq kbd_state, down' = down
  PROVE  DrvKeysDown'
  BY DEF DrvKeysDown, Drv!KeysDown

(* A release takes its key from flags, kbd_state and the keys that are down. *)
LEMMA ReleaseKeepsKeysDown ==
  ASSUME DrvKeysDown, NEW code, Drv!Released(code)
  PROVE  DrvKeysDown'
<1>1. kbd_state' \subseteq down'
  BY DEF DrvKeysDown, Drv!KeysDown, Drv!Released
<1>2. ASSUME NEW m \in flags' \ {"CAPS", "EXT"}
      PROVE  \E other \in down' : Drv!HeldModifier(other) = {m}
  <2>1. m \in flags \ {"CAPS", "EXT"} /\ m \notin Drv!HeldModifier(code)
    BY DEF Drv!Released, Drv!ReleasedFlag
  <2>2. PICK other \in down : Drv!HeldModifier(other) = {m}
    BY <2>1 DEF DrvKeysDown, Drv!KeysDown
  <2>3. other # code
    BY <2>1, <2>2
  <2> QED BY <2>2, <2>3 DEF Drv!Released
<1> QED BY <1>1, <1>2 DEF DrvKeysDown, Drv!KeysDown

(* A press sets nothing but what its own key, now down, holds. *)
LEMMA PressKeepsKeysDown ==
  ASSUME DrvKeysDown, NEW code, Drv!Pressed(code)
  PROVE  DrvKeysDown'
<1>1. kbd_state' \subseteq down' /\ down \subseteq down' /\ code \in down'
  BY DEF DrvKeysDown, Drv!KeysDown, Drv!Pressed
<1>2. flags' \subseteq flags \cup Drv!HeldModifier(code) \cup {"CAPS"}
  BY DEF Drv!Pressed, Drv!ToggleCaps
<1>3. ASSUME NEW m \in flags' \ {"CAPS", "EXT"}
      PROVE  \E other \in down' : Drv!HeldModifier(other) = {m}
  <2>1. CASE m \in flags
    BY <1>1, <2>1 DEF DrvKeysDown, Drv!KeysDown
  <2>2. CASE m \in Drv!HeldModifier(code)
    <3>1. Drv!HeldModifier(code) = {m}
      BY <2>2 DEF Drv!HeldModifier
    <3> QED BY <1>1, <3>1
  <2> QED BY <1>2, <2>1, <2>2
<1> QED BY <1>1, <1>3 DEF DrvKeysDown, Drv!KeysDown

(* kbd_handler_isr and kbd_driver_init leave no modifier and no kbd_state entry
   set without a key that is down, wherever the one interrupts the other. *)
THEOREM DrvKeysAreDown == BothSpec => []DrvKeysDown
<1>1. BothInit => DrvKeysDown
  BY DEF BothInit, Drv!Init, DrvKeysDown, Drv!KeysDown
<1>2. DrvKeysDown /\ [BothNext]_BothVars => DrvKeysDown'
  <2> SUFFICES ASSUME DrvKeysDown, [BothNext]_BothVars PROVE DrvKeysDown'
    OBVIOUS
  <2>1. CASE UNCHANGED drvVars
    BY <2>1, OnlyTakesAway DEF drvVars
  <2>2. ASSUME NEW sc \in Scancodes, Drv!kbd_handler_isr(sc) PROVE DrvKeysDown'
    <3>1. CASE flags' = flags \cup {"EXT"} /\ UNCHANGED <<kbd_state, down>>
      BY <3>1 DEF DrvKeysDown, Drv!KeysDown
    <3> QED BY <2>2, <3>1, ReleaseKeepsKeysDown, PressKeepsKeysDown DEF Drv!kbd_handler_isr
  <2>3. CASE \E n \in 1 .. DrvMaxLen : Drv!ReadBegin(n)
    BY <2>3, OnlyTakesAway DEF Drv!ReadBegin, Drv!keys
  <2>4. CASE Drv!kbd_driver_read
    BY <2>4, OnlyTakesAway
       DEF Drv!kbd_driver_read, Drv!ReadTest, Drv!ReadLoad, Drv!ReadAdvance, Drv!keys
  <2>5. CASE Drv!kbd_driver_init
    BY <2>5, OnlyTakesAway
       DEF Drv!kbd_driver_init, Drv!InitStart, Drv!InitEnd, Drv!InitFlag, Drv!InitState, Drv!keys
  <2> QED BY <2>1, <2>2, <2>3, <2>4, <2>5 DEF BothNext, BothVars, Drv!Next
<1> QED BY <1>1, <1>2, PTL DEF BothSpec

-----------------------------------------------------------------------------
(* A character is loaded only while the caller's buffer has room for it. *)
DrvTypeInv == DrvTypeOK /\ (drv_pc = "load" => count < len)

(* The handler keeps every variable in its type and leaves the thread alone. *)
LEMMA IsrType ==
  ASSUME DrvTypeInv, NEW sc \in Scancodes, Drv!kbd_handler_isr(sc)
  PROVE  DrvTypeInv'
<1>0. sc \in 0 .. 255 /\ (sc >= 128 => sc % 128 \in Drv!Codes) /\ (sc < 128 => sc \in Drv!Codes)
  BY KbdAssumption DEF Drv!Codes
<1>1. UNCHANGED drvThread
  BY IsrPushes
<1>2. drv_buffer' \in [Drv!Slots -> Drv!Cells] /\ buf_start' \in Drv!Slots /\ buf_end' \in Drv!Slots
  <2>1. drv_buffer \in [Slots -> Drv!Cells] /\ buf_start \in Slots /\ buf_end \in Slots
    BY DrvRingIsRing DEF DrvTypeInv, DrvTypeOK, Drv!TypeOK
  <2>2. CASE UNCHANGED drvRing
    BY <2>1, <2>2, DrvRingIsRing DEF drvRing
  <2>3. ASSUME NEW ch \in Drv!Chars, Pushes(ch)
        PROVE  /\ drv_buffer' \in [Slots -> Drv!Cells]
               /\ buf_start' \in Slots /\ buf_end' \in Slots
    <3>1. NextSlot(buf_end) \in Slots /\ ch \in Drv!Cells
      BY <2>1, NextSlotWraps DEF Drv!Cells
    <3> QED BY <2>1, <2>3, <3>1 DEF Pushes
  <2> QED BY <2>2, <2>3, IsrPushes, DrvRingIsRing
<1>3. /\ flags' \subseteq {"SHIFT", "CTRL", "ALT", "CAPS", "EXT"}
      /\ kbd_state' \subseteq Drv!Codes /\ down' \subseteq Drv!Codes
  <2>0. /\ flags \subseteq {"SHIFT", "CTRL", "ALT", "CAPS", "EXT"}
        /\ kbd_state \subseteq Drv!Codes /\ down \subseteq Drv!Codes
        /\ \A code : Drv!HeldModifier(code) \subseteq {"SHIFT", "CTRL", "ALT"}
    BY DEF DrvTypeInv, DrvTypeOK, Drv!TypeOK, Drv!HeldModifier
  <2>1. CASE flags' = flags \cup {"EXT"} /\ UNCHANGED <<kbd_state, down>>
    BY <2>0, <2>1
  <2>2. CASE Drv!Released(sc % 128)
    BY <2>0, <2>2 DEF Drv!Released
  <2>3. CASE sc < 128 /\ Drv!Pressed(sc)
    BY <1>0, <2>0, <2>3 DEF Drv!Pressed, Drv!ToggleCaps
  <2> QED BY <2>1, <2>2, <2>3 DEF Drv!kbd_handler_isr
<1> QED BY <1>1, <1>2, <1>3 DEF drvThread, DrvTypeInv, DrvTypeOK, Drv!TypeOK

(* Every variable of the driver stays in its type: in particular a read never
   stores more characters than its caller's buffer holds. *)
THEOREM DrvTypeCorrect == BothSpec => []DrvTypeOK
<1>1. BothInit => DrvTypeInv
  <2> SUFFICES ASSUME Drv!Init PROVE DrvTypeInv
    BY DEF BothInit
  <2>1. 0 \in Drv!Slots /\ Drv!NUL \in Drv!Cells /\ 0 \in 0 .. DrvMaxLen /\ 0 \in 0 .. 0
        /\ 0 \in 0 .. 128
    BY RingAssumption, KeyboardsAssumption DEF Drv!Slots, Drv!Cells
  <2> QED BY <2>1 DEF Drv!Init, DrvTypeInv, DrvTypeOK, Drv!TypeOK
<1>2. DrvTypeInv /\ [BothNext]_BothVars => DrvTypeInv'
  <2> SUFFICES ASSUME DrvTypeInv, [BothNext]_BothVars PROVE DrvTypeInv'
    OBVIOUS
  <2>0. 0 \in Drv!Slots /\ Drv!NextSlot(buf_start) \in Drv!Slots
    BY RingAssumption, NextSlotWraps, DrvRingIsRing DEF Slots, DrvTypeInv, DrvTypeOK, Drv!TypeOK
  <2>1. CASE UNCHANGED drvVars
    BY <2>1 DEF drvVars, DrvTypeInv, DrvTypeOK, Drv!TypeOK
  <2>2. CASE \E sc \in Scancodes : Drv!kbd_handler_isr(sc)
    BY <2>2, IsrType
  <2>3. ASSUME NEW n \in 1 .. DrvMaxLen, Drv!ReadBegin(n) PROVE DrvTypeInv'
    BY <2>3, KeyboardsAssumption
       DEF Drv!ReadBegin, Drv!ring, Drv!keys, DrvTypeInv, DrvTypeOK, Drv!TypeOK
  <2>4. CASE Drv!kbd_driver_read
    <3>1. CASE Drv!ReadTest
      BY <3>1, KeyboardsAssumption DEF Drv!ReadTest, Drv!MoreToRead, Drv!ring, Drv!keys,
                                       DrvTypeInv, DrvTypeOK, Drv!TypeOK
    <3>2. CASE Drv!ReadLoad
      BY <3>2, KeyboardsAssumption
         DEF Drv!ReadLoad, Drv!ring, Drv!keys, DrvTypeInv, DrvTypeOK, Drv!TypeOK
    <3>3. CASE Drv!ReadAdvance
      BY <2>0, <3>3 DEF Drv!ReadAdvance, Drv!keys, DrvTypeInv, DrvTypeOK, Drv!TypeOK
    <3> QED BY <2>4, <3>1, <3>2, <3>3 DEF Drv!kbd_driver_read
  <2>5. CASE Drv!kbd_driver_init
    <3>1. CASE Drv!InitStart
      BY <2>0, <3>1 DEF Drv!InitStart, Drv!keys, DrvTypeInv, DrvTypeOK, Drv!TypeOK
    <3>2. CASE Drv!InitEnd
      <4>1. 1 \in 0 .. 128
        OBVIOUS
      <4> QED BY <2>0, <3>2, <4>1 DEF Drv!InitEnd, Drv!keys, DrvTypeInv, DrvTypeOK, Drv!TypeOK
    <3>3. CASE Drv!InitFlag
      <4>1. drv_init_i \in 0 .. 128
        BY DEF DrvTypeInv, DrvTypeOK, Drv!TypeOK
      <4>2. \/ drv_init_i < 5 /\ drv_init_i' = drv_init_i + 1 /\ drv_pc' = drv_pc
            \/ drv_init_i' = 0 /\ drv_pc' = "init_state"
        BY <3>3 DEF Drv!InitFlag
      <4>3. drv_init_i' \in 0 .. 128
        BY <4>1, <4>2
      <4>4. /\ drv_pc = "init_flags"
            /\ flags' \subseteq flags /\ UNCHANGED <<drvRing, kbd_state, down, len, count, dst>>
        BY <3>3 DEF Drv!InitFlag, Drv!ring, drvRing
      <4> QED BY <4>2, <4>3, <4>4 DEF drvRing, DrvTypeInv, DrvTypeOK, Drv!TypeOK
    <3>4. CASE Drv!InitState
      <4>1. {sc % 128 : sc \in Scancodes \ {Drv!PREFIX}} \subseteq 0 .. 127
        BY KbdAssumption
      <4>2. drv_init_i' \in 0 .. 128
        BY <3>4, <4>1 DEF Drv!InitState
      <4>3. kbd_state' \subseteq kbd_state /\ drv_pc' \in {"init_state", "idle"}
        BY <3>4 DEF Drv!InitState
      <4>4. UNCHANGED <<drvRing, flags, down, len, count, dst>>
        BY <3>4 DEF Drv!InitState, Drv!ring, drvRing
      <4> QED BY <4>2, <4>3, <4>4 DEF drvRing, DrvTypeInv, DrvTypeOK, Drv!TypeOK
    <3> QED BY <2>5, <3>1, <3>2, <3>3, <3>4 DEF Drv!kbd_driver_init
  <2> QED BY <2>1, <2>2, <2>3, <2>4, <2>5 DEF BothNext, BothVars, Drv!Next
<1>3. DrvTypeInv => DrvTypeOK
  BY DEF DrvTypeInv
<1> QED BY <1>1, <1>2, <1>3, PTL DEF BothSpec
=============================================================================
