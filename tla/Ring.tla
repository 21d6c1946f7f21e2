-------------------------------- MODULE Ring --------------------------------
(***************************************************************************)
(* The ring-buffer arithmetic shared by kernel/kbd/kbd.c and               *)
(* kernel/drv/drv_kbd.c: an array, a start index owned by the reader and   *)
(* an end index owned by the interrupt handler.  One slot always stays     *)
(* empty, so start = end means that the ring is empty.                     *)
(***************************************************************************)
EXTENDS Integers, Sequences

CONSTANT BUFFER_SIZE         \* KBD_BUFFER_SIZE in kbd.c

ASSUME RingAssumption == BUFFER_SIZE \in Nat \ {0}

Slots == 0 .. BUFFER_SIZE - 1

NextSlotNoWrap(i) == i + 1
NextSlot(i) == (i + 1) % BUFFER_SIZE

RingFullNever(start, end) == FALSE
RingFullEarly(start, end) == start \in {NextSlot(end), NextSlot(NextSlot(end))}
RingFull(start, end) == NextSlot(end) = start

-----------------------------------------------------------------------------
(* The sequence a ring stands for, oldest element first. *)
RingLen(start, end) == IF end >= start THEN end - start ELSE end + BUFFER_SIZE - start

RingSlot(start, i) == IF start + i < BUFFER_SIZE THEN start + i ELSE start + i - BUFFER_SIZE

RingSeq(buffer, start, end) ==
  [i \in 1 .. RingLen(start, end) |-> buffer[RingSlot(start, i - 1)]]
=============================================================================
