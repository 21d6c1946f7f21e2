----------------------------- MODULE MCKprintf ------------------------------
(* Formats of the kernel: "0x%p", "[subsystem] Probed %d devices",
   "Total pages: %d (%d KB)" and one with a percent sign, for TLC. *)
EXTENDS Kprintf

MCCalls ==
  {[fmt |-> <<"text", "%", "p">>, arguments |-> <<"krnl_main">>],
   [fmt |-> <<"text", "%", "d", "text">>, arguments |-> <<"probed">>],
   [fmt |-> <<"%", "d", "text", "%", "d", "%", "%">>, arguments |-> <<"pages", "size">>]}
=============================================================================
