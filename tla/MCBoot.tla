------------------------------- MODULE MCBoot -------------------------------
(* The four drivers of the repository, with the operations each defines. *)
EXTENDS Boot, TLC

MCDrivers == {Vga, Serial, Rtc, Kbd}
MCInfo ==
  Vga :> [type |-> "DISPLAY", ops |-> {"init", "probe", "read", "write", "ioctl"},
          accepts |-> TRUE] @@
  Serial :> [type |-> "SERIAL", ops |-> {"init", "read", "write"}, accepts |-> FALSE] @@
  Rtc :> [type |-> "RTC", ops |-> {"init", "probe", "read", "ioctl"}, accepts |-> TRUE] @@
  Kbd :> [type |-> "KEYBOARD", ops |-> {"init", "probe", "read", "ioctl"}, accepts |-> TRUE]

MCIds     == 1 .. 4
MCLengths == {7}
=============================================================================
