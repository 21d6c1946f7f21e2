------------------------------- MODULE MCRtc --------------------------------
(* Moments for TLC: before the end of a minute, an hour, a morning, a day, a
   short and a long February, a year and a century, and one in the middle. *)
EXTENDS Rtc

At(century, year, month, day, hour, minute, second) ==
  [century |-> century, year |-> year, month |-> month, day |-> day,
   hour |-> hour, minute |-> minute, second |-> second]

MCMoments ==
  {At(20, 25, 10, 9, 8, 17, 36), At(20, 25, 7, 30, 10, 29, 58), At(20, 25, 7, 30, 9, 59, 59),
   At(20, 25, 7, 30, 11, 59, 59), At(20, 25, 7, 30, 12, 59, 58), At(20, 25, 7, 30, 19, 59, 58),
   At(20, 25, 7, 30, 23, 59, 59), At(20, 23, 2, 28, 23, 59, 58), At(20, 24, 2, 28, 23, 59, 59),
   At(20, 25, 12, 31, 23, 59, 59), At(20, 99, 12, 31, 23, 59, 59)}
=============================================================================
