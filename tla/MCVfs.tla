------------------------------- MODULE MCVfs --------------------------------
(* Two drivers, two devices and one node: a display driver, and a serial driver
   whose probe accepts.  An int counts to 3, so that a buffer of 5 bytes comes
   back as -3. *)
EXTENDS Vfs, TLC

CONSTANTS vga, com2

MCTypes   == {"DISPLAY", "SERIAL"}
MCDrivers == {vga, com2}
MCInfo ==
  vga  :> [type |-> "DISPLAY", ops |-> {"init", "probe", "write"}, accepts |-> TRUE] @@
  com2 :> [type |-> "SERIAL", ops |-> {"probe", "write"}, accepts |-> TRUE]

MCIds     == {0, 2}
MCLengths == {3, 5}
=============================================================================
