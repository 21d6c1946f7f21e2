----------------------------- MODULE Keyboards ------------------------------
(***************************************************************************)
(* The two keyboard drivers of the kernel, kernel/kbd/kbd.c and            *)
(* kernel/drv/drv_kbd.c.  Each wants the interrupts of the one keyboard    *)
(* controller: `handler` is the function that IRQ 1 calls (kbd_handler as  *)
(* irq_handler stands), and the other driver sees no key.                  *)
(***************************************************************************)
EXTENDS Kbd

CONSTANTS DrvKeys, DrvMaxLen

ASSUME KeyboardsAssumption == DrvMaxLen \in Nat

VARIABLES handler,
          drv_buffer, buf_start, buf_end, flags, kbd_state,
          drv_pc, len, count, dst, drv_init_i, down

Drv == INSTANCE DrvKbd WITH kbd_buffer <- drv_buffer, pc <- drv_pc, init_i <- drv_init_i,
                            KeyCodes <- DrvKeys, MaxLen <- DrvMaxLen

drvVars  == <<drv_buffer, buf_start, buf_end, flags, kbd_state,
              drv_pc, len, count, dst, drv_init_i, down>>
BothVars == <<vars, drvVars, handler>>

BothInit == Init /\ Drv!Init /\ handler \in {"kbd_handler", "kbd_handler_isr"}

BothNext ==
  /\ \/ handler = "kbd_handler" /\ Next /\ UNCHANGED drvVars
     \/ handler = "kbd_handler_isr" /\ Drv!Next /\ UNCHANGED vars
  /\ UNCHANGED handler

BothSpec == BothInit /\ [][BothNext]_BothVars /\ Drv!Fairness

-----------------------------------------------------------------------------
(* drv_kbd.c stays in the types of its variables. *)
DrvTypeOK == Drv!TypeOK

(* drv_kbd.c's ring is the same bounded queue: see DrvKbd. *)
DrvRefinesKeyQueue == Drv!RefinesKeyQueue

(* drv_kbd.c's modifiers and key states do not outlive their keys. *)
DrvKeysDown == Drv!KeysDown

(* drv_kbd.c's read returns, however fast its ring is refilled. *)
DrvReadReturns == Drv!ReadReturns
=============================================================================
