---------------------------- MODULE MCKeyboards -----------------------------
(* An instance of Keyboards for TLC: 30 is the key a, 86 has a cell in
   kbd.c's lower table only. *)
EXTENDS Keyboards

MCLower   == {30, 86}
MCUpper   == {30}
MCLetters == {30}
MCScancodes == {PREFIX, LSHIFT, LSHIFT + 128, RSHIFT + 128, RSHIFT, CAPSLOCK, 30}
=============================================================================
