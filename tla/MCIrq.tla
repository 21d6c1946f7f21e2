------------------------------- MODULE MCIrq --------------------------------
(* The timer, the keyboard, two lines of the slave and one of the master
   below the cascade; a fault without an error code and two with one, of which
   the second's error code is a selector beyond the exception table. *)
EXTENDS Irq

MCFaults == {[vector |-> 6, error |-> NULL], [vector |-> 14, error |-> 2],
             [vector |-> 13, error |-> 40]}
=============================================================================
