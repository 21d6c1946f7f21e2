-------------------------------- MODULE Kbd ---------------------------------
(***************************************************************************)
(* The PS/2 keyboard driver of kernel/kbd/kbd.c: the interrupt handler     *)
(* that decodes scancodes into a ring buffer, and the kernel thread that   *)
(* reads the ring.  The handler runs with interrupts off (interrupt gate)  *)
(* and is one step; the thread may be interrupted between any two of its   *)
(* statements, so kbd_getchar and kbd_init take one step per statement.    *)
(*                                                                         *)
(* LowerKeys and UpperKeys are the codes with a nonzero cell in            *)
(* kbd_scancode_lower and _upper, Letters those whose cell is a letter.     *)
(***************************************************************************)
EXTENDS Keys

CONSTANTS LowerKeys, UpperKeys, Letters,
          Scancodes          \* the bytes the controller may deliver

ASSUME KbdAssumption ==
  /\ LowerKeys \subseteq Codes \ {0}
  /\ UpperKeys \subseteq Codes \ {0}
  /\ Scancodes \subseteq 0 .. 255

Chars == (LowerKeys \cup UpperKeys) \X BOOLEAN
Cells == Chars \cup {NUL}    \* the values of a char variable

VARIABLES
  kbd_buffer, kbd_buffer_start, kbd_buffer_end,
  kbd_modifiers,             \* the bits set, a subset of SHIFT CTRL ALT CAPS
  kbd_pressed,               \* the codes whose kbd_pressed entry is 1
  kbd_extended,
  pc,                        \* the statement the thread executes next
  c,                         \* the local of kbd_getchar
  init_i,                    \* the loop index of kbd_init
  got                        \* the value the latest kbd_getchar returned

ring   == <<kbd_buffer, kbd_buffer_start, kbd_buffer_end>>
keys   == <<kbd_modifiers, kbd_pressed, kbd_extended>>
thread == <<pc, c, init_i, got>>
vars   == <<ring, keys, thread>>

Init ==
  /\ kbd_buffer = [i \in Slots |-> NUL]
  /\ kbd_buffer_start = 0 /\ kbd_buffer_end = 0
  /\ kbd_modifiers = {} /\ kbd_pressed = {} /\ kbd_extended = FALSE
  /\ pc = "idle" /\ c = NUL /\ init_i = 0 /\ got = NUL

-----------------------------------------------------------------------------
kbd_has_input == kbd_buffer_start # kbd_buffer_end

kbd_buffer_push(ch) ==
  \/ /\ ch = NUL \/ RingFull(kbd_buffer_start, kbd_buffer_end)
     /\ UNCHANGED ring
  \/ /\ ch # NUL /\ ~RingFull(kbd_buffer_start, kbd_buffer_end)
     /\ kbd_buffer' = [kbd_buffer EXCEPT ![kbd_buffer_end] = ch]
     /\ kbd_buffer_end' = NextSlot(kbd_buffer_end)
     /\ UNCHANGED kbd_buffer_start

-----------------------------------------------------------------------------
(* kbd_handler, run by IRQ 1 on one scancode.                              *)

ClearedModifierLeftOnly(code) == IF code = RSHIFT THEN {} ELSE HeldModifier(code)
ClearedModifier(code) == HeldModifier(code)

(* The character of a key: Shift selects the table, and Caps Lock turns a
   letter of the lower table into upper case. *)
Translate(code) ==
  LET shift == "SHIFT" \in kbd_modifiers
      caps  == "CAPS" \in kbd_modifiers
  IN  IF code \in (IF shift THEN UpperKeys ELSE LowerKeys)
      THEN <<code, shift \/ (caps /\ code \in Letters)>>
      ELSE NUL

Extend ==
  /\ kbd_extended' = TRUE
  /\ UNCHANGED <<ring, kbd_modifiers, kbd_pressed>>

Release(code) ==
  /\ kbd_extended' = FALSE
  /\ kbd_pressed' = kbd_pressed \ {code}
  /\ kbd_modifiers' = kbd_modifiers \ ClearedModifier(code)
  /\ UNCHANGED ring

Press(code) ==
  /\ kbd_extended' = FALSE
  /\ kbd_pressed' = kbd_pressed \cup {code}
  /\ \/ /\ HeldModifier(code) # {}
        /\ kbd_modifiers' = kbd_modifiers \cup HeldModifier(code)
        /\ UNCHANGED ring
     \/ /\ code = CAPSLOCK
        /\ kbd_modifiers' = ToggleCaps(kbd_modifiers)
        /\ UNCHANGED ring
     \/ /\ HeldModifier(code) = {} /\ code # CAPSLOCK
        /\ kbd_buffer_push(Translate(code))
        /\ UNCHANGED kbd_modifiers

kbd_handler(scancode) ==
  /\ \/ scancode = PREFIX /\ Extend
     \/ scancode # PREFIX /\ scancode >= 128 /\ Release(scancode % 128)
     \/ scancode < 128 /\ Press(scancode)
  /\ UNCHANGED thread

-----------------------------------------------------------------------------
(* kbd_getchar: test, load, advance.                                       *)

GetcharEmpty ==
  /\ pc = "idle" /\ ~kbd_has_input
  /\ got' = NUL
  /\ UNCHANGED <<ring, keys, pc, c, init_i>>

GetcharTest ==
  /\ pc = "idle" /\ kbd_has_input
  /\ pc' = "load"
  /\ UNCHANGED <<ring, keys, c, init_i, got>>

GetcharLoad ==
  /\ pc = "load"
  /\ c' = kbd_buffer[kbd_buffer_start]
  /\ pc' = "advance"
  /\ UNCHANGED <<ring, keys, init_i, got>>

GetcharAdvance ==
  /\ pc = "advance"
  /\ kbd_buffer_start' = NextSlot(kbd_buffer_start)
  /\ got' = c
  /\ pc' = "idle"
  /\ UNCHANGED <<kbd_buffer, kbd_buffer_end, keys, c, init_i>>

(* kbd_init clears the ring, one slot at a time and then its two indices,
   while the handler may still be pushing. *)
InitBegin ==
  /\ pc = "idle"
  /\ init_i' = 0
  /\ pc' = "init_buffer"
  /\ UNCHANGED <<ring, keys, c, got>>

InitBuffer ==
  /\ pc = "init_buffer" /\ init_i < BUFFER_SIZE
  /\ kbd_buffer' = [kbd_buffer EXCEPT ![init_i] = NUL]
  /\ init_i' = init_i + 1
  /\ UNCHANGED <<kbd_buffer_start, kbd_buffer_end, keys, pc, c, got>>

InitStart ==
  /\ pc = "init_buffer" /\ init_i = BUFFER_SIZE
  /\ kbd_buffer_start' = 0
  /\ pc' = "init_end"
  /\ UNCHANGED <<kbd_buffer, kbd_buffer_end, keys, c, init_i, got>>

InitEnd ==
  /\ pc = "init_end"
  /\ kbd_buffer_end' = 0
  /\ pc' = "init_modifiers"
  /\ UNCHANGED <<kbd_buffer, kbd_buffer_start, keys, c, init_i, got>>

InitModifiers ==
  /\ pc = "init_modifiers"
  /\ kbd_modifiers' = {}
  /\ pc' = "init_extended"
  /\ UNCHANGED <<ring, kbd_pressed, kbd_extended, c, init_i, got>>

InitExtended ==
  /\ pc = "init_extended"
  /\ kbd_extended' = FALSE
  /\ pc' = "init_pressed"
  /\ UNCHANGED <<ring, kbd_modifiers, kbd_pressed, c, init_i, got>>

InitPressed ==
  /\ pc = "init_pressed"
  /\ kbd_pressed' = kbd_pressed \ {CAPSLOCK}
  /\ pc' = "idle"
  /\ UNCHANGED <<ring, kbd_modifiers, kbd_extended, c, init_i, got>>

kbd_getchar == GetcharEmpty \/ GetcharTest \/ GetcharLoad \/ GetcharAdvance
kbd_init ==
  \/ InitBegin \/ InitBuffer \/ InitStart \/ InitEnd
  \/ InitModifiers \/ InitExtended \/ InitPressed

Next == (\E sc \in Scancodes : kbd_handler(sc)) \/ kbd_getchar \/ kbd_init

Spec == Init /\ [][Next]_vars

-----------------------------------------------------------------------------
(* The state of every variable stays in its C type and in its array. *)
TypeOK ==
  /\ kbd_buffer \in [Slots -> Cells]
  /\ kbd_buffer_start \in Slots /\ kbd_buffer_end \in Slots
  /\ kbd_modifiers \subseteq {"SHIFT", "CTRL", "ALT", "CAPS"}
  /\ kbd_pressed \subseteq Codes
  /\ kbd_extended \in BOOLEAN
  /\ pc \in {"idle", "load", "advance", "init_buffer", "init_end", "init_modifiers",
             "init_extended", "init_pressed"}
  /\ init_i \in 0 .. BUFFER_SIZE
  /\ c \in Cells /\ got \in Cells

(* A held modifier (Shift, Ctrl, Alt) is set only while one of its keys is
   down, whatever the interleaving of key events and kbd_init: kbd_handler
   keeps kbd_modifiers and kbd_pressed as two independent records. *)
ModifiersHeld ==
  \A m \in kbd_modifiers \ {"CAPS"} : \E code \in kbd_pressed : HeldModifier(code) = {m}

(* The characters waiting, oldest first.  From the moment kbd_init
   starts clearing the ring until both indices are 0, nothing waits. *)
Resetting == pc \in {"init_buffer", "init_end"}
Pending == IF Resetting THEN <<>> ELSE RingSeq(kbd_buffer, kbd_buffer_start, kbd_buffer_end)

(* The ring implements the bounded queue: no interleaving of the handler with
   a half-done kbd_getchar or kbd_init loses, repeats, reorders or overwrites
   a waiting character, or hands out a '\0' in place of one. *)
Queue == INSTANCE KeyQueue WITH Capacity <- BUFFER_SIZE - 1, Nothing <- NUL,
                                queue <- Pending
RefinesKeyQueue == Queue!Spec

(* A key that has a character is queued whenever fewer than
   BUFFER_SIZE - 1 characters wait: kbd_buffer_push drops only on a full
   ring, even while a reader is between its load and its advance. *)
RingKeepsKey ==
  [][\A sc \in Scancodes \ {CAPSLOCK} :
       /\ sc < 128 /\ HeldModifier(sc) = {} /\ kbd_handler(sc)
       /\ Translate(sc) # NUL
       /\ ~Resetting /\ Len(Pending) < BUFFER_SIZE - 1
       => Pending' = Append(Pending, Translate(sc))]_vars
=============================================================================
