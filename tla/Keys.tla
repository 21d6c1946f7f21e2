-------------------------------- MODULE Keys --------------------------------
(***************************************************************************)
(* What the two keyboard drivers have in common: the scancodes of set 1    *)
(* that they treat apart from the rest, and the characters they queue.     *)
(*                                                                         *)
(* A character is <<code, upper>>: the cell of the upper or of the lower   *)
(* table the key selects.  Cell 0 is empty in both tables.                 *)
(***************************************************************************)
EXTENDS Ring

Codes == 0 .. 127

NUL   == <<0, FALSE>>        \* the character '\0'

PREFIX   == 224              \* 0xE0
LSHIFT   == 42
RSHIFT   == 54
LCTRL    == 29
LALT     == 56
CAPSLOCK == 58

(* The modifier a key holds down while it is pressed. *)
HeldModifier(code) == CASE code \in {LSHIFT, RSHIFT} -> {"SHIFT"}
                        [] code = LCTRL              -> {"CTRL"}
                        [] code = LALT               -> {"ALT"}
                        [] OTHER                     -> {}

ToggleCaps(modifiers) ==
  IF "CAPS" \in modifiers THEN modifiers \ {"CAPS"} ELSE modifiers \cup {"CAPS"}
=============================================================================
