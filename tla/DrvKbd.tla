------------------------------- MODULE DrvKbd -------------------------------
(***************************************************************************)
(* The keyboard driver of kernel/drv/drv_kbd.c: kbd_handler_isr, one step  *)
(* because an interrupt gate runs it, and the two calls of the framework   *)
(* that it may interrupt between any two statements, kbd_driver_read and   *)
(* kbd_driver_init.  kbd_driver_ioctl reports flags, kbd_state and whether *)
(* the ring is empty, and changes nothing.                                 *)
(***************************************************************************)
EXTENDS Keys

CONSTANTS KeyCodes, Letters,   \* the codes with a cell in both tables, and the letters among them
          Scancodes,           \* the bytes the controller may deliver
          MaxLen               \* bounds the length of a read

Chars == KeyCodes \X BOOLEAN
Cells == Chars \cup {NUL}    \* the values of a char variable

VARIABLES
  kbd_buffer, buf_start, buf_end,
  flags,        \* which of the ints shift, ctrl, alt, caps and ext are 1
  kbd_state,    \* the codes whose kbd_state entry is 1
  pc,           \* the statement the thread executes next
  len, count,   \* of kbd_driver_read
  dst,          \* the last character kbd_driver_read stored
  init_i,       \* the progress of kbd_driver_init
  down          \* history: the keys that are down

ring   == <<kbd_buffer, buf_start, buf_end>>
keys   == <<flags, kbd_state, down>>
thread == <<pc, len, count, dst, init_i>>
vars   == <<ring, keys, thread>>

Init ==
  /\ kbd_buffer = [i \in Slots |-> NUL] /\ buf_start = 0 /\ buf_end = 0
  /\ flags = {} /\ kbd_state = {} /\ down = {}
  /\ pc = "idle" /\ len = 0 /\ count = 0 /\ dst = NUL /\ init_i = 0

-----------------------------------------------------------------------------
(* kbd_handler_isr.  Caps Lock swaps the case of a letter of either table. *)
scancode_to_ascii(code) ==
  LET shift == "SHIFT" \in flags
      swap  == "CAPS" \in flags /\ code \in Letters
  IN  IF code \in KeyCodes THEN <<code, shift # swap>> ELSE NUL

buf_push(ch) ==
  \/ /\ ch = NUL \/ RingFull(buf_start, buf_end)
     /\ UNCHANGED ring
  \/ /\ ch # NUL /\ ~RingFull(buf_start, buf_end)
     /\ kbd_buffer' = [kbd_buffer EXCEPT ![buf_end] = ch]
     /\ buf_end' = NextSlot(buf_end)
     /\ UNCHANGED buf_start

ReleasedFlagLeftOnly(code) == IF code = RSHIFT THEN {} ELSE HeldModifier(code)
ReleasedFlag(code) == HeldModifier(code)

Released(code) ==
  /\ kbd_state' = kbd_state \ {code}
  /\ down' = down \ {code}
  /\ flags' = flags \ (ReleasedFlag(code) \cup {"EXT"})
  /\ UNCHANGED ring

Pressed(code) ==
  /\ kbd_state' = kbd_state \cup {code}
  /\ down' = down \cup {code}
  /\ LET set == flags \ {"EXT"} IN
     \/ /\ HeldModifier(code) # {}
        /\ flags' = set \cup HeldModifier(code)
        /\ UNCHANGED ring
     \/ /\ code = CAPSLOCK
        /\ flags' = ToggleCaps(set)
        /\ UNCHANGED ring
     \/ /\ HeldModifier(code) = {} /\ code # CAPSLOCK
        /\ flags' = set
        /\ buf_push(scancode_to_ascii(code))

kbd_handler_isr(sc) ==
  /\ \/ sc = PREFIX /\ flags' = flags \cup {"EXT"} /\ UNCHANGED <<ring, kbd_state, down>>
     \/ sc # PREFIX /\ sc >= 128 /\ Released(sc % 128)
     \/ sc < 128 /\ Pressed(sc)
  /\ UNCHANGED thread

-----------------------------------------------------------------------------
(* kbd_driver_read: a loop of test, load and advance.  A call with no
   buffer or with length 0 returns -1 and is no step. *)
ReadBegin(n) ==
  /\ pc = "idle"
  /\ len' = n /\ count' = 0
  /\ pc' = "test"
  /\ UNCHANGED <<ring, keys, dst, init_i>>

MoreToReadUnchecked == count < len
MoreToReadOneMore   == count <= len /\ buf_start # buf_end
MoreToRead == count < len /\ buf_start # buf_end

ReadTest ==
  /\ pc = "test"
  /\ \/ MoreToRead /\ pc' = "load" /\ UNCHANGED <<len, count>>
     \/ ~MoreToRead /\ pc' = "idle" /\ len' = 0 /\ count' = 0
  /\ UNCHANGED <<ring, keys, dst, init_i>>

ReadLoadUncounted ==
  /\ pc = "load"
  /\ dst' = kbd_buffer[buf_start]
  /\ pc' = "advance"
  /\ UNCHANGED <<ring, keys, len, count, init_i>>

ReadLoad ==
  /\ pc = "load"
  /\ dst' = kbd_buffer[buf_start] /\ count' = count + 1
  /\ pc' = "advance"
  /\ UNCHANGED <<ring, keys, len, init_i>>

ReadAdvance ==
  /\ pc = "advance"
  /\ buf_start' = NextSlot(buf_start)
  /\ pc' = "test"
  /\ UNCHANGED <<kbd_buffer, buf_end, keys, len, count, dst, init_i>>

kbd_driver_read == ReadTest \/ ReadLoad \/ ReadAdvance

(* kbd_driver_init: both indices, the five ints from the last to the first,
   and kbd_state entry by entry (a step for each code the keyboard has). *)
InitStart ==
  /\ pc = "idle"
  /\ buf_start' = 0
  /\ pc' = "init_end"
  /\ UNCHANGED <<kbd_buffer, buf_end, keys, len, count, dst, init_i>>

InitEnd ==
  /\ pc = "init_end"
  /\ buf_end' = 0
  /\ pc' = "init_flags" /\ init_i' = 1
  /\ UNCHANGED <<kbd_buffer, buf_start, keys, len, count, dst>>

Cleared == <<"EXT", "CAPS", "ALT", "CTRL", "SHIFT">>

InitFlag ==
  /\ pc = "init_flags"
  /\ flags' = flags \ {Cleared[init_i]}
  /\ \/ init_i < 5 /\ init_i' = init_i + 1 /\ UNCHANGED pc
     \/ init_i = 5 /\ init_i' = 0 /\ pc' = "init_state"
  /\ UNCHANGED <<ring, kbd_state, down, len, count, dst>>

InitState ==
  /\ pc = "init_state"
  /\ LET left == {code \in {sc % 128 : sc \in Scancodes \ {PREFIX}} : code >= init_i} IN
     \/ /\ \E code \in left :
              /\ \A other \in left : code <= other
              /\ kbd_state' = kbd_state \ {code} /\ init_i' = code + 1
        /\ UNCHANGED pc
     \/ /\ left = {}
        /\ pc' = "idle" /\ init_i' = 0
        /\ UNCHANGED kbd_state
  /\ UNCHANGED <<ring, flags, down, len, count, dst>>

kbd_driver_init == InitStart \/ InitEnd \/ InitFlag \/ InitState

Next ==
  \/ \E sc \in Scancodes : kbd_handler_isr(sc)
  \/ \E n \in 1 .. MaxLen : ReadBegin(n)
  \/ kbd_driver_read
  \/ kbd_driver_init

(* The thread goes on between interrupts. *)
Fairness == WF_vars(kbd_driver_read)

-----------------------------------------------------------------------------
(* The state of every variable stays in its C type and in its array. *)
TypeOK ==
  /\ kbd_buffer \in [Slots -> Cells] /\ buf_start \in Slots /\ buf_end \in Slots
  /\ flags \subseteq {"SHIFT", "CTRL", "ALT", "CAPS", "EXT"}
  /\ kbd_state \subseteq Codes /\ down \subseteq Codes
  /\ pc \in {"idle", "test", "load", "advance", "init_end", "init_flags", "init_state"}
  /\ len \in 0 .. MaxLen /\ count \in 0 .. len
  /\ dst \in Cells /\ init_i \in 0 .. 128

(* What the reader has not taken: a character is taken when it is loaded, and
   from the moment kbd_driver_init touches the ring nothing waits. *)
Resetting == pc = "init_end"
Waiting == IF Resetting THEN <<>> ELSE RingSeq(kbd_buffer, buf_start, buf_end)
Unread  == IF pc = "advance" THEN SubSeq(Waiting, 2, Len(Waiting)) ELSE Waiting

(* The ring implements the bounded queue for a reader that takes several
   characters in one call: whatever the handler does between the statements of
   kbd_driver_read or kbd_driver_init, no waiting character is lost, repeated,
   reordered or overwritten. *)
Queue == INSTANCE KeyQueue WITH Capacity <- BUFFER_SIZE - 1, Nothing <- NUL,
                                queue <- Unread, got <- dst
RefinesKeyQueue == Queue!Spec

(* Neither a modifier nor a kbd_state entry outlives its key: it is set only
   while the key is down, with the handler running between any two of the
   statements by which kbd_driver_init clears them. *)
KeysDown ==
  /\ kbd_state \subseteq down
  /\ \A m \in flags \ {"CAPS", "EXT"} : \E code \in down : HeldModifier(code) = {m}

(* kbd_driver_read returns, however fast the handler refills the ring. *)
ReadReturns == (pc = "test") ~> (pc = "idle")
=============================================================================
