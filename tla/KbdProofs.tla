----------------------------- MODULE KbdProofs ------------------------------
(***************************************************************************)
(* Theorems about kernel/kbd/kbd.c for every ring size, key table and set  *)
(* of scancodes, with the lemmas on what the ring arithmetic does.         *)
(***************************************************************************)
EXTENDS Kbd, SequenceTheorems, TLAPS

(* A ring's array of values of T, and a store into it, as predicates, so that
   the lemmas apply to any array without the provers having to see inside. *)
Buffer(buf, T) == buf \in [Slots -> T]
Stores(buf, new, e, x) == new = [buf EXCEPT ![e] = x]

(* NextSlot is addition that wraps at the last slot. *)
LEMMA NextSlotWraps ==
  ASSUME NEW i \in Slots
  PROVE  /\ NextSlot(i) = IF i = BUFFER_SIZE - 1 THEN 0 ELSE i + 1
         /\ NextSlot(i) \in Slots
<1>1. BUFFER_SIZE \in Nat \ {0} /\ i \in 0 .. BUFFER_SIZE - 1
  BY RingAssumption DEF Slots
<1>2. CASE i = BUFFER_SIZE - 1
  <2>1. (i + 1) % BUFFER_SIZE = 0
    BY <1>1, <1>2
  <2> QED BY <2>1, <1>1, <1>2 DEF NextSlot, Slots
<1>3. CASE i # BUFFER_SIZE - 1
  <2>1. (i + 1) % BUFFER_SIZE = i + 1
    BY <1>1, <1>3
  <2> QED BY <2>1, <1>1, <1>3 DEF NextSlot, Slots
<1> QED BY <1>2, <1>3

(* RingSeq is a sequence of the ring's elements, shorter than the ring. *)
LEMMA RingSeqType ==
  ASSUME NEW T, NEW buf, Buffer(buf, T), NEW s \in Slots, NEW e \in Slots
  PROVE  /\ RingLen(s, e) \in 0 .. BUFFER_SIZE - 1
         /\ RingSeq(buf, s, e) \in Seq(T)
         /\ Len(RingSeq(buf, s, e)) = RingLen(s, e)
<1>1. RingLen(s, e) \in 0 .. BUFFER_SIZE - 1
  BY RingAssumption DEF Slots, RingLen
<1>2. \A k \in 1 .. RingLen(s, e) : RingSlot(s, k - 1) \in Slots
  BY <1>1, RingAssumption DEF Slots, RingSlot
<1>3. RingSeq(buf, s, e) \in [1 .. RingLen(s, e) -> T]
  BY <1>2 DEF RingSeq, Buffer
<1> QED BY <1>1, <1>3

(* A ring is empty exactly when its two indices meet. *)
LEMMA RingEmpty ==
  ASSUME NEW T, NEW buf, Buffer(buf, T), NEW s \in Slots, NEW e \in Slots
  PROVE  RingSeq(buf, s, e) = <<>> <=> s = e
<1>1. RingLen(s, e) = 0 <=> s = e
  BY RingAssumption DEF Slots, RingLen
<1>2. RingSeq(buf, s, e) \in Seq(T) /\ Len(RingSeq(buf, s, e)) = RingLen(s, e)
  BY RingSeqType
<1> QED BY <1>1, <1>2

(* Writing at end and advancing it appends, if the ring is not full. *)
LEMMA RingPush ==
  ASSUME NEW T, NEW buf, Buffer(buf, T), NEW s \in Slots, NEW e \in Slots,
         NEW x \in T, ~RingFull(s, e),
         NEW new, Buffer(new, T), Stores(buf, new, e, x)
  PROVE  /\ RingLen(s, e) < BUFFER_SIZE - 1
         /\ RingSeq(new, s, NextSlot(e)) = Append(RingSeq(buf, s, e), x)
<1> DEFINE n == NextSlot(e)
<1>0. BUFFER_SIZE \in Nat \ {0} /\ s \in 0 .. BUFFER_SIZE - 1 /\ e \in 0 .. BUFFER_SIZE - 1
  BY RingAssumption DEF Slots
<1>1. n = (IF e = BUFFER_SIZE - 1 THEN 0 ELSE e + 1) /\ n \in Slots /\ n # s
  BY NextSlotWraps DEF RingFull
<1>2. RingLen(s, e) < BUFFER_SIZE - 1 /\ RingLen(s, n) = RingLen(s, e) + 1
  BY <1>0, <1>1 DEF RingLen
<1>4. /\ RingSeq(buf, s, e) \in Seq(T) /\ Len(RingSeq(buf, s, e)) = RingLen(s, e)
      /\ RingSeq(new, s, n) \in Seq(T) /\ Len(RingSeq(new, s, n)) = RingLen(s, n)
      /\ RingLen(s, e) \in Nat
  <2>1. /\ RingSeq(buf, s, e) \in Seq(T) /\ Len(RingSeq(buf, s, e)) = RingLen(s, e)
        /\ RingLen(s, e) \in 0 .. BUFFER_SIZE - 1
    BY RingSeqType
  <2>2. RingSeq(new, s, n) \in Seq(T) /\ Len(RingSeq(new, s, n)) = RingLen(s, n)
    <3>1. n \in Slots
      BY <1>1
    <3> HIDE DEF n
    <3> QED BY <3>1, RingSeqType
  <2> QED BY <2>1, <2>2, <1>0
<1>5. \A k \in 1 .. RingLen(s, e) + 1 :
        new[RingSlot(s, k - 1)] = IF k = RingLen(s, e) + 1 THEN x ELSE buf[RingSlot(s, k - 1)]
  <2> TAKE k \in 1 .. RingLen(s, e) + 1
  <2>1. RingSlot(s, k - 1) \in Slots
    BY <1>0, <1>2, <1>4 DEF RingSlot, Slots
  <2>2. RingSlot(s, k - 1) = e <=> k = RingLen(s, e) + 1
    BY <1>0, <1>2, <1>4 DEF RingSlot, RingLen
  <2> QED BY <2>1, <2>2 DEF Buffer, Stores
<1>6. RingSeq(new, s, n) = Append(RingSeq(buf, s, e), x)
  <2>1. \A k \in 1 .. RingLen(s, e) + 1 :
          RingSeq(new, s, n)[k] = Append(RingSeq(buf, s, e), x)[k]
    <3> TAKE k \in 1 .. RingLen(s, e) + 1
    <3>1. RingSeq(new, s, n)[k] = new[RingSlot(s, k - 1)]
      BY <1>2 DEF RingSeq
    <3>2. CASE k = RingLen(s, e) + 1
      <4>1. Append(RingSeq(buf, s, e), x)[k] = x
        BY <1>4, <3>2
      <4> QED BY <4>1, <3>1, <3>2, <1>5
    <3>3. CASE k # RingLen(s, e) + 1
      <4>1. k \in 1 .. RingLen(s, e)
        BY <3>3, <1>4
      <4>2. Append(RingSeq(buf, s, e), x)[k] = RingSeq(buf, s, e)[k]
        BY <1>4, <4>1
      <4>3. RingSeq(buf, s, e)[k] = buf[RingSlot(s, k - 1)]
        BY <4>1 DEF RingSeq
      <4> QED BY <4>2, <4>3, <3>1, <3>3, <1>5
    <3> QED BY <3>2, <3>3
  <2> DEFINE a == RingSeq(new, s, n)
  <2> DEFINE b == Append(RingSeq(buf, s, e), x)
  <2>2. a \in Seq(T) /\ b \in Seq(T) /\ Len(a) = RingLen(s, e) + 1 /\ Len(b) = Len(a)
    BY <1>2, <1>4
  <2>4. \A k \in 1 .. Len(a) : a[k] = b[k]
    BY <2>1, <2>2
  <2> HIDE DEF a, b
  <2>3. a = b
    BY <2>2, <2>4, SeqEqual
  <2> QED BY <2>3 DEF a, b
<1> QED BY <1>2, <1>6

(* Advancing start takes the head. *)
LEMMA RingPop ==
  ASSUME NEW T, NEW buf, Buffer(buf, T), NEW s \in Slots, NEW e \in Slots, s # e
  PROVE  /\ RingSeq(buf, s, e) # <<>>
         /\ Head(RingSeq(buf, s, e)) = buf[s]
         /\ RingSeq(buf, NextSlot(s), e) = Tail(RingSeq(buf, s, e))
<1> DEFINE n == NextSlot(s)
<1>0. BUFFER_SIZE \in Nat \ {0} /\ s \in 0 .. BUFFER_SIZE - 1 /\ e \in 0 .. BUFFER_SIZE - 1
  BY RingAssumption DEF Slots
<1>1. n = (IF s = BUFFER_SIZE - 1 THEN 0 ELSE s + 1) /\ n \in Slots
  BY NextSlotWraps
<1>2. RingLen(s, e) > 0 /\ RingLen(n, e) = RingLen(s, e) - 1
  BY <1>0, <1>1 DEF RingLen
<1>3. /\ RingSeq(buf, s, e) \in Seq(T) /\ Len(RingSeq(buf, s, e)) = RingLen(s, e)
      /\ RingSeq(buf, n, e) \in Seq(T) /\ Len(RingSeq(buf, n, e)) = RingLen(n, e)
      /\ RingLen(s, e) \in Nat /\ RingLen(n, e) \in Nat
  BY <1>1, RingSeqType
<1>4. RingSeq(buf, s, e) # <<>>
  BY RingEmpty
<1>5. Head(RingSeq(buf, s, e)) = buf[s]
  <2>1. RingSeq(buf, s, e)[1] = buf[RingSlot(s, 0)]
    BY <1>2, <1>3 DEF RingSeq
  <2>2. RingSlot(s, 0) = s
    BY <1>0 DEF RingSlot
  <2> QED BY <2>1, <2>2, <1>3, <1>4
<1>6. \A k \in 1 .. RingLen(n, e) : RingSlot(n, k - 1) = RingSlot(s, k)
  BY <1>0, <1>1, <1>2, <1>3 DEF RingSlot, RingLen
<1>7. \A k \in 1 .. RingLen(n, e) : RingSeq(buf, n, e)[k] = RingSeq(buf, s, e)[k + 1]
  <2> TAKE k \in 1 .. RingLen(n, e)
  <2>1. RingSeq(buf, n, e)[k] = buf[RingSlot(n, k - 1)]
    BY DEF RingSeq
  <2>2. k + 1 \in 1 .. RingLen(s, e) /\ (k + 1) - 1 = k
    BY <1>2, <1>3
  <2>3. RingSeq(buf, s, e)[k + 1] = buf[RingSlot(s, (k + 1) - 1)]
    BY <2>2 DEF RingSeq
  <2> QED BY <2>1, <2>2, <2>3, <1>6
<1>8. RingSeq(buf, n, e) = Tail(RingSeq(buf, s, e))
  <2> DEFINE a == RingSeq(buf, n, e)
  <2> DEFINE b == RingSeq(buf, s, e)
  <2>1. a \in Seq(T) /\ b \in Seq(T) /\ b # <<>> /\ Len(b) = Len(a) + 1
    BY <1>2, <1>3, <1>4
  <2>2. \A k \in 1 .. Len(a) : a[k] = b[k + 1]
    BY <1>3, <1>7
  <2> HIDE DEF a, b
  <2>3. Tail(b) \in Seq(T) /\ Len(Tail(b)) = Len(a) /\ \A k \in 1 .. Len(a) : Tail(b)[k] = b[k + 1]
    BY <2>1
  <2>4. a = Tail(b)
    BY <2>1, <2>2, <2>3
  <2> QED BY <2>4 DEF a, b
<1> QED BY <1>4, <1>5, <1>8

-----------------------------------------------------------------------------
(* What a push may write, and where. *)
LEMMA TranslateType == \A code \in Codes : Translate(code) \in Cells
  BY KbdAssumption DEF Translate, Chars, NUL, Cells

LEMMA TypeInit == Init => TypeOK
<1> SUFFICES ASSUME Init PROVE TypeOK
  OBVIOUS
<1>1. 0 \in Slots /\ 0 \in 0 .. BUFFER_SIZE
  BY RingAssumption DEF Slots
<1>2. kbd_buffer \in [Slots -> Cells] /\ NUL \in Cells
  BY DEF Init, Cells
<1> QED BY <1>1, <1>2 DEF Init, TypeOK

LEMMA TypeHandler ==
  ASSUME TypeOK, NEW sc \in Scancodes, kbd_handler(sc)
  PROVE  TypeOK'
<1>1. sc \in 0 .. 255
  BY KbdAssumption
<1>2. CASE sc = PREFIX /\ Extend
  BY <1>2 DEF TypeOK, Extend, kbd_handler, ring, thread
<1>3. CASE sc >= 128 /\ Release(sc % 128)
  BY <1>1, <1>3 DEF TypeOK, Release, kbd_handler, ring, thread
<1>4. CASE sc < 128 /\ Press(sc)
  <2>1. sc \in Codes
    BY <1>1, <1>4 DEF Codes
  <2>2. HeldModifier(sc) \subseteq {"SHIFT", "CTRL", "ALT"}
    BY DEF HeldModifier
  <2>3. /\ kbd_pressed' \subseteq Codes
        /\ kbd_extended' \in BOOLEAN
        /\ kbd_modifiers' \subseteq {"SHIFT", "CTRL", "ALT", "CAPS"}
    BY <1>4, <2>1, <2>2 DEF TypeOK, Press, ToggleCaps
  <2>4. kbd_buffer' \in [Slots -> Cells] /\ kbd_buffer_start' \in Slots
        /\ kbd_buffer_end' \in Slots
    <3>1. CASE UNCHANGED ring
      BY <3>1 DEF TypeOK, ring
    <3>2. CASE kbd_buffer_push(Translate(sc))
      <4>1. NextSlot(kbd_buffer_end) \in Slots
        BY NextSlotWraps DEF TypeOK
      <4>2. Translate(sc) \in Cells
        BY <2>1, TranslateType
      <4> QED BY <3>2, <4>1, <4>2 DEF kbd_buffer_push, TypeOK, ring
    <3> QED BY <1>4, <3>1, <3>2 DEF Press
  <2> QED BY <2>3, <2>4 DEF TypeOK, kbd_handler, thread
<1> QED BY <1>2, <1>3, <1>4 DEF kbd_handler

LEMMA TypeNext == TypeOK /\ [Next]_vars => TypeOK'
<1> SUFFICES ASSUME TypeOK, [Next]_vars PROVE TypeOK'
  OBVIOUS
<1>0. BUFFER_SIZE \in Nat \ {0} /\ 0 \in Slots
  BY RingAssumption DEF Slots
<1>1. CASE \E sc \in Scancodes : kbd_handler(sc)
  BY <1>1, TypeHandler
<1>2. CASE kbd_getchar
  <2>1. NextSlot(kbd_buffer_start) \in Slots
    BY NextSlotWraps DEF TypeOK
  <2>2. CASE GetcharEmpty
    BY <2>2 DEF TypeOK, GetcharEmpty, ring, keys, Cells
  <2>3. CASE GetcharTest
    BY <2>3 DEF TypeOK, GetcharTest, ring, keys
  <2>4. CASE GetcharLoad
    BY <2>4 DEF TypeOK, GetcharLoad, ring, keys
  <2>5. CASE GetcharAdvance
    BY <2>1, <2>5 DEF TypeOK, GetcharAdvance, ring, keys
  <2> QED BY <1>2, <2>2, <2>3, <2>4, <2>5 DEF kbd_getchar
<1>3. CASE kbd_init
  <2>1. CASE InitBegin
    BY <1>0, <2>1 DEF TypeOK, InitBegin, ring, keys
  <2>2. CASE InitBuffer
    <3>1. init_i + 1 \in 0 .. BUFFER_SIZE
      BY <1>0, <2>2 DEF TypeOK, InitBuffer
    <3>2. kbd_buffer' \in [Slots -> Cells]
      BY <2>2 DEF TypeOK, InitBuffer, Cells
    <3> QED BY <2>2, <3>1, <3>2 DEF TypeOK, InitBuffer, keys
  <2>3. CASE InitStart
    BY <1>0, <2>3 DEF TypeOK, InitStart, keys
  <2>4. CASE InitEnd
    BY <1>0, <2>4 DEF TypeOK, InitEnd, keys
  <2>5. CASE InitModifiers \/ InitExtended \/ InitPressed
    BY <2>5 DEF TypeOK, InitModifiers, InitExtended, InitPressed, ring
  <2> QED BY <1>3, <2>1, <2>2, <2>3, <2>4, <2>5 DEF kbd_init
<1>4. CASE UNCHANGED vars
  BY <1>4 DEF TypeOK, vars, ring, keys, thread
<1> QED BY <1>1, <1>2, <1>3, <1>4 DEF Next

(* Every variable keeps its type and both indices stay inside kbd_buffer,
   for every ring size. *)
THEOREM TypeCorrect == Spec => []TypeOK
  BY TypeInit, TypeNext, PTL DEF Spec

-----------------------------------------------------------------------------
(* A modifier bit outlives no key that holds it down: kbd_handler and
   kbd_init keep kbd_modifiers inside what kbd_pressed accounts for. *)
THEOREM ModifiersAreHeld == Spec => []ModifiersHeld
<1>1. Init => ModifiersHeld
  BY DEF Init, ModifiersHeld
<1>2. ModifiersHeld /\ [Next]_vars => ModifiersHeld'
  <2> SUFFICES ASSUME ModifiersHeld, [Next]_vars PROVE ModifiersHeld'
    OBVIOUS
  <2>1. ASSUME NEW sc \in Scancodes, kbd_handler(sc) PROVE ModifiersHeld'
    <3>1. CASE Extend
      BY <3>1 DEF ModifiersHeld, Extend
    <3>2. ASSUME Release(sc % 128) PROVE ModifiersHeld'
      <4> SUFFICES ASSUME NEW m \in kbd_modifiers' \ {"CAPS"}
                   PROVE  \E code \in kbd_pressed' : HeldModifier(code) = {m}
        BY DEF ModifiersHeld
      <4>1. m \in kbd_modifiers \ {"CAPS"} /\ m \notin HeldModifier(sc % 128)
        BY <3>2 DEF Release, ClearedModifier
      <4>2. PICK code \in kbd_pressed : HeldModifier(code) = {m}
        BY <4>1 DEF ModifiersHeld
      <4>3. code # sc % 128
        BY <4>1, <4>2
      <4> QED BY <3>2, <4>2, <4>3 DEF Release
    <3>3. ASSUME Press(sc) PROVE ModifiersHeld'
      <4> SUFFICES ASSUME NEW m \in kbd_modifiers' \ {"CAPS"}
                   PROVE  \E code \in kbd_pressed' : HeldModifier(code) = {m}
        BY DEF ModifiersHeld
      <4>1. CASE m \in kbd_modifiers
        BY <3>3, <4>1 DEF ModifiersHeld, Press, ToggleCaps
      <4>2. CASE m \notin kbd_modifiers
        <5>1. m \in HeldModifier(sc) /\ sc \in kbd_pressed'
          BY <3>3, <4>2 DEF Press, ToggleCaps
        <5>2. HeldModifier(sc) = {m}
          BY <5>1 DEF HeldModifier
        <5> QED BY <5>1, <5>2
      <4> QED BY <4>1, <4>2
    <3> QED BY <2>1, <3>1, <3>2, <3>3 DEF kbd_handler
  <2>2. CASE kbd_getchar
    BY <2>2 DEF kbd_getchar, GetcharEmpty, GetcharTest, GetcharLoad, GetcharAdvance, keys,
                ModifiersHeld
  <2>3. CASE kbd_init
    <3>1. CASE InitBegin \/ InitBuffer \/ InitStart \/ InitEnd \/ InitExtended
      BY <3>1 DEF InitBegin, InitBuffer, InitStart, InitEnd, InitExtended, keys, ModifiersHeld
    <3>2. CASE InitModifiers
      BY <3>2 DEF InitModifiers, ModifiersHeld
    <3>3. CASE InitPressed
      <4>1. HeldModifier(CAPSLOCK) = {}
        BY DEF HeldModifier, CAPSLOCK, LSHIFT, RSHIFT, LCTRL, LALT
      <4> QED BY <3>3, <4>1 DEF InitPressed, ModifiersHeld
    <3> QED BY <2>3, <3>1, <3>2, <3>3 DEF kbd_init
  <2>4. CASE UNCHANGED vars
    BY <2>4 DEF vars, keys, ModifiersHeld
  <2> QED BY <2>1, <2>2, <2>3, <2>4 DEF Next
<1> QED BY <1>1, <1>2, PTL DEF Spec

-----------------------------------------------------------------------------
(* Where kbd_getchar and kbd_init stand.  The handler moves only the end
   index, and never onto start, so what a reader has tested and loaded still
   holds when it advances start. *)
ReaderInv ==
  /\ pc \in {"load", "advance"} => kbd_has_input
  /\ pc = "advance" => c = kbd_buffer[kbd_buffer_start]
  /\ pc = "init_end" => kbd_buffer_start = 0

Inv == TypeOK /\ ReaderInv

LEMMA ReaderHandler ==
  ASSUME Inv, NEW sc \in Scancodes, kbd_handler(sc)
  PROVE  ReaderInv'
<1>1. CASE UNCHANGED ring
  BY <1>1 DEF Inv, ReaderInv, kbd_has_input, kbd_handler, thread, ring
<1>2. CASE kbd_buffer_push(Translate(sc)) /\ ~UNCHANGED ring
  <2>1. /\ kbd_buffer_start' = kbd_buffer_start
        /\ kbd_buffer_end' = NextSlot(kbd_buffer_end)
        /\ NextSlot(kbd_buffer_end) # kbd_buffer_start
        /\ kbd_buffer' = [kbd_buffer EXCEPT ![kbd_buffer_end] = Translate(sc)]
    BY <1>2 DEF kbd_buffer_push, RingFull
  <2>2. pc' = pc /\ c' = c
    BY DEF kbd_handler, thread
  <2>3. kbd_has_input'
    BY <2>1 DEF kbd_has_input
  <2>4. pc = "advance" => kbd_buffer'[kbd_buffer_start] = kbd_buffer[kbd_buffer_start]
    BY <2>1 DEF Inv, TypeOK, ReaderInv, kbd_has_input
  <2> QED BY <2>1, <2>2, <2>3, <2>4 DEF Inv, ReaderInv
<1> QED BY <1>1, <1>2 DEF kbd_handler, Extend, Release, Press

LEMMA InvNext == Inv /\ [Next]_vars => Inv'
<1> SUFFICES ASSUME Inv, [Next]_vars PROVE ReaderInv'
  BY TypeNext DEF Inv
<1>1. CASE \E sc \in Scancodes : kbd_handler(sc)
  BY <1>1, ReaderHandler
<1>2. CASE kbd_getchar
  BY <1>2 DEF kbd_getchar, GetcharEmpty, GetcharTest, GetcharLoad, GetcharAdvance, keys, ring,
              Inv, ReaderInv, kbd_has_input
<1>3. CASE kbd_init
  BY <1>3 DEF kbd_init, InitBegin, InitBuffer, InitStart, InitEnd, InitModifiers, InitExtended,
              InitPressed, keys, ring, Inv, ReaderInv, kbd_has_input
<1>4. CASE UNCHANGED vars
  BY <1>4 DEF vars, ring, thread, Inv, ReaderInv, kbd_has_input
<1> QED BY <1>1, <1>2, <1>3, <1>4 DEF Next

LEMMA Invariance == Spec => []Inv
<1>1. Init => ReaderInv
  BY DEF Init, ReaderInv
<1> QED BY <1>1, TypeInit, InvNext, PTL DEF Spec, Inv

-----------------------------------------------------------------------------
LEMMA RingType ==
  ASSUME TypeOK
  PROVE  /\ RingLen(kbd_buffer_start, kbd_buffer_end) \in 0 .. BUFFER_SIZE - 1
         /\ RingSeq(kbd_buffer, kbd_buffer_start, kbd_buffer_end) \in Seq(Cells)
         /\ Len(RingSeq(kbd_buffer, kbd_buffer_start, kbd_buffer_end))
              = RingLen(kbd_buffer_start, kbd_buffer_end)
<1>1. Buffer(kbd_buffer, Cells) /\ kbd_buffer_start \in Slots /\ kbd_buffer_end \in Slots
  BY DEF TypeOK, Buffer
<1> QED BY <1>1, RingSeqType

(* A push that stores a character appends it to what waits. *)
LEMMA PushAppends ==
  ASSUME TypeOK, ~Resetting, NEW code \in Codes, UNCHANGED thread,
         Translate(code) # NUL, ~RingFull(kbd_buffer_start, kbd_buffer_end),
         kbd_buffer_push(Translate(code))
  PROVE  /\ Translate(code) \in Chars
         /\ Len(Pending) < BUFFER_SIZE - 1
         /\ Pending' = Append(Pending, Translate(code))
<1> DEFINE x == Translate(code)
<1>1. x \in Chars /\ x \in Cells
  BY TranslateType DEF Cells
<1>2. /\ RingLen(kbd_buffer_start, kbd_buffer_end) < BUFFER_SIZE - 1
      /\ RingSeq(kbd_buffer', kbd_buffer_start, NextSlot(kbd_buffer_end))
           = Append(RingSeq(kbd_buffer, kbd_buffer_start, kbd_buffer_end), x)
  <2>1. /\ Buffer(kbd_buffer, Cells)
        /\ kbd_buffer_start \in Slots /\ kbd_buffer_end \in Slots
    BY DEF TypeOK, Buffer
  <2>2. Stores(kbd_buffer, kbd_buffer', kbd_buffer_end, x)
    BY DEF kbd_buffer_push, Stores
  <2>3. Buffer(kbd_buffer', Cells)
    BY <1>1, <2>1, <2>2 DEF Buffer, Stores
  <2> HIDE DEF x
  <2> QED BY <1>1, <2>1, <2>2, <2>3, RingPush
<1>3. /\ RingLen(kbd_buffer_start, kbd_buffer_end) \in 0 .. BUFFER_SIZE - 1
      /\ Len(RingSeq(kbd_buffer, kbd_buffer_start, kbd_buffer_end))
           = RingLen(kbd_buffer_start, kbd_buffer_end)
  BY RingType
<1>4. ~Resetting' /\ Pending = RingSeq(kbd_buffer, kbd_buffer_start, kbd_buffer_end)
  BY DEF Resetting, thread, Pending
<1>5. Pending' = RingSeq(kbd_buffer', kbd_buffer_start, NextSlot(kbd_buffer_end))
  <2>1. kbd_buffer_end' = NextSlot(kbd_buffer_end) /\ kbd_buffer_start' = kbd_buffer_start
    BY DEF kbd_buffer_push
  <2>2. Pending' = RingSeq(kbd_buffer', kbd_buffer_start', kbd_buffer_end')
    BY <1>4 DEF Pending, RingSeq, RingLen, RingSlot
  <2> QED BY <2>1, <2>2
<1> QED BY <1>1, <1>2, <1>3, <1>4, <1>5

(* A key whose character finds room is queued, whatever the reader is
   doing: for every ring size, the only reason to drop is a full ring. *)
THEOREM KeysAreKept == Spec => RingKeepsKey
<1> DEFINE Kept == \A sc \in Scancodes \ {CAPSLOCK} :
             /\ sc < 128 /\ HeldModifier(sc) = {} /\ kbd_handler(sc)
             /\ Translate(sc) # NUL
             /\ ~Resetting /\ Len(Pending) < BUFFER_SIZE - 1
             => Pending' = Append(Pending, Translate(sc))
<1>1. TypeOK => Kept
  <2> SUFFICES ASSUME TypeOK, NEW sc \in Scancodes \ {CAPSLOCK},
                      sc < 128, HeldModifier(sc) = {}, kbd_handler(sc),
                      Translate(sc) # NUL, ~Resetting, Len(Pending) < BUFFER_SIZE - 1
               PROVE  Pending' = Append(Pending, Translate(sc))
    OBVIOUS
  <2>1. sc \in Codes /\ sc # PREFIX
    BY KbdAssumption DEF Codes, PREFIX
  <2>2. kbd_buffer_push(Translate(sc)) /\ UNCHANGED thread
    <3>1. UNCHANGED thread /\ Press(sc)
      BY <2>1, KbdAssumption DEF kbd_handler, Codes
    <3> QED BY <3>1 DEF Press
  <2>3. ~RingFull(kbd_buffer_start, kbd_buffer_end)
    <3>2. RingLen(kbd_buffer_start, kbd_buffer_end) < BUFFER_SIZE - 1
      BY RingType DEF Pending
    <3>3. kbd_buffer_start \in 0 .. BUFFER_SIZE - 1 /\ kbd_buffer_end \in 0 .. BUFFER_SIZE - 1
      BY DEF TypeOK, Slots
    <3>4. NextSlot(kbd_buffer_end)
            = IF kbd_buffer_end = BUFFER_SIZE - 1 THEN 0 ELSE kbd_buffer_end + 1
      BY NextSlotWraps DEF TypeOK
    <3> QED BY <3>2, <3>3, <3>4, RingAssumption DEF RingFull, RingLen
  <2> QED BY <2>1, <2>2, <2>3, PushAppends
<1>2. TypeOK /\ [Next]_vars => [Kept]_vars
  BY <1>1
<1> QED BY <1>2, TypeCorrect, PTL DEF Spec, RingKeepsKey

-----------------------------------------------------------------------------
(* The ring refines the bounded queue, step by step. *)
LEMMA HandlerRefines ==
  ASSUME Inv, NEW sc \in Scancodes, kbd_handler(sc)
  PROVE  [Queue!Next]_(Queue!vars)
<1>0. got' = got /\ (Resetting' <=> Resetting)
  BY DEF kbd_handler, thread, Resetting
<1>1. CASE UNCHANGED ring
  <2>1. Pending' = Pending
    BY <1>0, <1>1 DEF Pending, ring, RingSeq, RingLen, RingSlot
  <2> QED BY <1>0, <2>1 DEF Queue!vars
<1>2. CASE Resetting
  BY <1>0, <1>2 DEF Pending, Queue!vars
<1>3. CASE ~UNCHANGED ring /\ ~Resetting
  <2>1. Press(sc) /\ sc < 128 /\ UNCHANGED thread
    BY <1>3 DEF kbd_handler, Extend, Release
  <2>2. sc \in Codes
    BY <2>1, KbdAssumption DEF Codes
  <2>3. kbd_buffer_push(Translate(sc))
    BY <1>3, <2>1 DEF Press
  <2>4. Translate(sc) # NUL /\ ~RingFull(kbd_buffer_start, kbd_buffer_end)
    BY <1>3, <2>3 DEF kbd_buffer_push
  <2>5. Queue!Put(Translate(sc)) /\ Translate(sc) \in Chars
    BY <1>0, <1>3, <2>1, <2>2, <2>3, <2>4, PushAppends DEF Inv, Queue!Put
  <2> QED BY <2>5 DEF Queue!Next
<1> QED BY <1>1, <1>2, <1>3

LEMMA GetcharRefines ==
  ASSUME Inv, kbd_getchar
  PROVE  [Queue!Next]_(Queue!vars)
<1>1. ~Resetting /\ ~Resetting'
  BY DEF Resetting, kbd_getchar, GetcharEmpty, GetcharTest, GetcharLoad, GetcharAdvance
<1>2. /\ Pending = RingSeq(kbd_buffer, kbd_buffer_start, kbd_buffer_end)
      /\ Pending' = RingSeq(kbd_buffer', kbd_buffer_start', kbd_buffer_end')
  BY <1>1 DEF Pending, RingSeq, RingLen, RingSlot
<1>3. Buffer(kbd_buffer, Cells) /\ kbd_buffer_start \in Slots /\ kbd_buffer_end \in Slots
  BY DEF Inv, TypeOK, Buffer
<1>4. CASE GetcharEmpty
  <2>1. Pending = <<>> /\ Pending' = Pending /\ got' = NUL
    BY <1>2, <1>3, <1>4, RingEmpty DEF GetcharEmpty, kbd_has_input, ring
  <2> QED BY <2>1 DEF Queue!Next, Queue!GetNothing
<1>5. CASE GetcharTest \/ GetcharLoad
  BY <1>2, <1>5 DEF GetcharTest, GetcharLoad, ring, Queue!vars
<1>6. CASE GetcharAdvance
  <2>1. kbd_buffer_start # kbd_buffer_end /\ got' = kbd_buffer[kbd_buffer_start]
    BY <1>6 DEF GetcharAdvance, Inv, ReaderInv, kbd_has_input
  <2>2. Pending' = RingSeq(kbd_buffer, NextSlot(kbd_buffer_start), kbd_buffer_end)
    BY <1>2, <1>6 DEF GetcharAdvance
  <2>3. /\ RingSeq(kbd_buffer, kbd_buffer_start, kbd_buffer_end) # <<>>
        /\ Head(RingSeq(kbd_buffer, kbd_buffer_start, kbd_buffer_end))
             = kbd_buffer[kbd_buffer_start]
        /\ RingSeq(kbd_buffer, NextSlot(kbd_buffer_start), kbd_buffer_end)
             = Tail(RingSeq(kbd_buffer, kbd_buffer_start, kbd_buffer_end))
    BY <1>3, <2>1, RingPop
  <2>4. Pending # <<>> /\ got' = Head(Pending) /\ Pending' = Tail(Pending)
    BY <1>2, <2>1, <2>2, <2>3
  <2> QED BY <2>4 DEF Queue!Next, Queue!Get
<1> QED BY <1>4, <1>5, <1>6 DEF kbd_getchar

LEMMA InitRefines ==
  ASSUME Inv, kbd_init
  PROVE  [Queue!Next]_(Queue!vars)
<1>0. got' = got
  BY DEF kbd_init, InitBegin, InitBuffer, InitStart, InitEnd, InitModifiers, InitExtended,
         InitPressed
<1>1. CASE InitBegin
  BY <1>0, <1>1 DEF InitBegin, Pending, Resetting, Queue!Next, Queue!Reset
<1>2. CASE InitBuffer \/ InitStart
  BY <1>0, <1>2 DEF InitBuffer, InitStart, Pending, Resetting, Queue!vars
<1>3. CASE InitEnd
  <2>1. kbd_buffer_start' = 0 /\ kbd_buffer_end' = 0 /\ 0 \in Slots
        /\ Buffer(kbd_buffer', Cells)
    BY <1>3, RingAssumption DEF InitEnd, Inv, ReaderInv, TypeOK, Slots, Buffer
  <2>2. Pending = <<>> /\ ~Resetting'
    BY <1>3 DEF InitEnd, Pending, Resetting
  <2>3. Pending' = RingSeq(kbd_buffer', 0, 0)
    BY <2>1, <2>2 DEF Pending, RingSeq, RingLen, RingSlot
  <2>4. RingSeq(kbd_buffer', 0, 0) = <<>>
    BY <2>1, RingEmpty
  <2> QED BY <1>0, <2>2, <2>3, <2>4 DEF Queue!vars
<1>4. CASE InitModifiers \/ InitExtended \/ InitPressed
  BY <1>0, <1>4 DEF InitModifiers, InitExtended, InitPressed, ring, Pending, Resetting, RingSeq,
                    RingLen, RingSlot, Queue!vars
<1> QED BY <1>1, <1>2, <1>3, <1>4 DEF kbd_init

(* The driver's ring, read by a thread the handler may interrupt between any
   two statements, implements the bounded queue for every buffer size: no
   character is lost once queued, duplicated, reordered or overwritten. *)
THEOREM RingIsAQueue == Spec => RefinesKeyQueue
<1>1. Init => Queue!Init
  <2> SUFFICES ASSUME Init PROVE Queue!Init
    OBVIOUS
  <2>1. TypeOK /\ kbd_buffer_start = kbd_buffer_end /\ got = NUL /\ ~Resetting
    BY TypeInit DEF Init, Resetting
  <2>2. Pending = <<>>
    BY <2>1, RingEmpty DEF Pending, TypeOK, Buffer
  <2> QED BY <2>1, <2>2 DEF Queue!Init
<1>2. Inv /\ [Next]_vars => [Queue!Next]_(Queue!vars)
  <2> SUFFICES ASSUME Inv, [Next]_vars PROVE [Queue!Next]_(Queue!vars)
    OBVIOUS
  <2>1. CASE UNCHANGED vars
    BY <2>1 DEF vars, ring, thread, Pending, Resetting, RingSeq, RingLen, RingSlot, Queue!vars
  <2> QED BY <2>1, HandlerRefines, GetcharRefines, InitRefines DEF Next
<1> QED BY <1>1, <1>2, Invariance, PTL DEF Spec, RefinesKeyQueue, Queue!Spec
=============================================================================
