------------------------------ MODULE Kprintf -------------------------------
(***************************************************************************)
(* kprintf of lib/libk/src/libk_shim.c and kprintf_va of                   *)
(* lib/libk/src/stdio.rs.  kprintf hands kprintf_va its va_list as a       *)
(* pointer to 64-bit words; kprintf_va takes one word for each conversion. *)
(*                                                                         *)
(* On x86-64 a va_list is a record: the two offsets, the pointer to the    *)
(* arguments on the stack and the pointer to the save area, which the      *)
(* compiler puts right after it with the argument registers from rdi on.   *)
(* kprintf's format was in rdi and is not saved there.                     *)
(*                                                                         *)
(* A character of a format is "text", "%" or the letter after a "%"; what  *)
(* is printed is the text, or the word converted, as one item.             *)
(***************************************************************************)
EXTENDS Naturals, Sequences

CONSTANTS Calls       \* the calls of kprintf: a format and its arguments

Conversions == {"s", "c", "d", "x", "X", "p"}

VARIABLES fmt, arguments, i, in_format, args, out

vars == <<fmt, arguments, i, in_format, args, out>>

(* The words from the va_list on.  kprintf: va_start and the cast. *)
va_list == <<"offsets", "overflow_arg_area", "reg_save_area", "unsaved rdi">>
Words   == va_list \o arguments

Init ==
  /\ \E call \in Calls : fmt = call.fmt /\ arguments = call.arguments
  /\ i = 1 /\ in_format = FALSE /\ args = 1 /\ out = <<>>

(* One character of the format. *)
Char == fmt[i]

Text ==
  /\ ~in_format /\ Char # "%"
  /\ out' = Append(out, "text")
  /\ UNCHANGED <<in_format, args>>

Percent ==
  /\ ~in_format /\ Char = "%"
  /\ in_format' = TRUE
  /\ UNCHANGED <<args, out>>

Convert ==
  /\ in_format /\ Char \in Conversions
  /\ out' = Append(out, Words[args]) /\ args' = args + 1
  /\ in_format' = FALSE

(* "%%", and the letters kprintf_va does not know, which take no word. *)
NoConversion ==
  /\ in_format /\ Char \notin Conversions
  /\ out' = out \o (IF Char = "%" THEN <<"text">> ELSE <<"text", "text">>)
  /\ in_format' = FALSE /\ UNCHANGED args

kprintf_va ==
  /\ i <= Len(fmt) /\ i' = i + 1
  /\ Text \/ Percent \/ Convert \/ NoConversion
  /\ UNCHANGED <<fmt, arguments>>

Spec == Init /\ [][kprintf_va]_vars

-----------------------------------------------------------------------------
(* A conversion prints the argument of the call that it stands for, as "Probed
   %d devices" and "krnl_main loaded at 0x%p" mean it. *)
PrintsItsArguments ==
  [][Convert => out'[Len(out')] = arguments[args]]_vars
=============================================================================
