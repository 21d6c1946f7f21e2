------------------------------ MODULE KeyQueue ------------------------------
(***************************************************************************)
(* What a keyboard buffer promises its reader: typed characters come out   *)
(* in the order they went in, each at most once, and at most Capacity of   *)
(* them wait at a time.  A character that finds the queue full is dropped, *)
(* which leaves the abstract state as it was.                              *)
(***************************************************************************)
EXTENDS Naturals, Sequences

CONSTANTS Capacity,   \* how many characters may wait
          Chars,      \* the characters a key can produce
          Nothing     \* what a read returns when no character waits, no member of Chars

VARIABLES queue,      \* the characters waiting, oldest first
          got         \* what the latest read returned

vars == <<queue, got>>

Init == queue = <<>> /\ got = Nothing

Put(k) ==
  /\ Len(queue) < Capacity
  /\ queue' = Append(queue, k)
  /\ UNCHANGED got

Get ==
  /\ queue # <<>>
  /\ got' = Head(queue)
  /\ queue' = Tail(queue)

GetNothing ==
  /\ queue = <<>>
  /\ got' = Nothing
  /\ UNCHANGED queue

Reset == queue' = <<>> /\ UNCHANGED got

Next == (\E k \in Chars : Put(k)) \/ Get \/ GetNothing \/ Reset

Spec == Init /\ [][Next]_vars
=============================================================================
