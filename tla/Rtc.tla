-------------------------------- MODULE Rtc ---------------------------------
(***************************************************************************)
(* The readers of the CMOS clock: rtc_get_raw of kernel/drv/drv_rtc.c,     *)
(* called by rtc_driver_read, and rtc_get_time of kernel/rtc/rtc.c, which  *)
(* differs in that it leaves status register C alone.  They read the       *)
(* registers one at a time, from the second up to the century, while the   *)
(* clock runs, and look at no other register to see whether it moves.      *)
(*                                                                         *)
(* The registers hold numbers in the form that status register B selects:  *)
(* binary or BCD, 24 or 12 hours.  Assumed of the clock: they change       *)
(* together, in one step.  On a clock that is for a while between two      *)
(* times, a register read then may show anything, and the readers, which   *)
(* look at no update flag, return it.                                      *)
(***************************************************************************)
EXTENDS Integers, Sequences

CONSTANTS Moments,        \* the times at which a read may begin
          MAX_TICKS       \* bound: the seconds that may end during a read, at most a minute

(* The fields of a time, from the least significant one up, and the order in
   which their registers are read. *)
Order  == <<"second", "minute", "hour", "day", "month", "year", "century">>
Fields == {Order[i] : i \in 1 .. 7}
RegistersDown == [i \in 1 .. 7 |-> Order[8 - i]]
Registers == Order

(* The calendar: the first and the last number a register shows. *)
DaysIn(month, year) == CASE month = 2 -> IF year % 4 = 0 THEN 29 ELSE 28
                         [] month \in {4, 6, 9, 11} -> 30
                         [] OTHER -> 31
First(r) == IF r \in {"day", "month"} THEN 1 ELSE 0
Last(r, time) == CASE r \in {"second", "minute"} -> 59
                   [] r = "hour"  -> 23
                   [] r = "day"   -> DaysIn(time.month, time.year)
                   [] r = "month" -> 12
                   [] OTHER       -> 99

Time == {time \in [Fields -> 0 .. 99] : \A r \in Fields : time[r] \in First(r) .. Last(r, time)}

ASSUME RtcAssumption == Moments \subseteq Time /\ MAX_TICKS \in 0 .. 60

VARIABLES
  now,            \* the time the clock shows
  status_b,       \* the bits of register B: 0x04 binary, 0x02 24 hours, 0x40 periodic interrupt
  status_c,       \* whether an interrupt flag of register C is set
  reader,         \* the function that reads
  next,           \* the register it reads next: 1 .. 7, 8 for C, 9 for B; 0 when none reads
  t,              \* what it has stored
  began, ticks    \* history: the time when the read began, the seconds that ended since

reading == <<reader, next, t, began, ticks>>
vars    == <<now, status_b, status_c, reading>>

Blank == [r \in Fields |-> 0]

Init ==
  /\ now \in Moments
  /\ status_b \in SUBSET {"binary", "24h"} /\ status_c = FALSE
  /\ reader = "none" /\ next = 0 /\ t = Blank /\ began = now /\ ticks = 0

-----------------------------------------------------------------------------
(* The clock.  A register turns over with those before it; bound: up to the end of
   the last century that two digits can name. *)
AllLast(n, time) == \A i \in 1 .. n : time[Order[i]] = Last(Order[i], time)

Successor(time) ==
  LET position(r) == CHOOSE i \in 1 .. 7 : Order[i] = r
  IN  [r \in Fields |-> IF ~AllLast(position(r) - 1, time) THEN time[r]
                        ELSE IF AllLast(position(r), time) THEN First(r)
                        ELSE time[r] + 1]

Tick ==
  /\ next # 0 /\ ticks < MAX_TICKS /\ ~AllLast(7, now)
  /\ now' = Successor(now) /\ ticks' = ticks + 1
  /\ status_c' = (status_c \/ "periodic" \in status_b)
  /\ UNCHANGED <<status_b, reader, next, t, began>>

rtc_bin_to_bcd(v) == (v \div 10) * 16 + (v % 10)

(* What cmos_read returns; the top bit of the hour is PM. *)
Hour12(h) == IF h % 12 = 0 THEN 12 ELSE h % 12
Register(r) ==
  LET twelve == r = "hour" /\ "24h" \notin status_b
      value  == IF twelve THEN Hour12(now.hour) ELSE now[r]
      byte   == IF "binary" \in status_b THEN value ELSE rtc_bin_to_bcd(value)
  IN  IF twelve /\ now.hour >= 12 THEN byte + 128 ELSE byte

-----------------------------------------------------------------------------
(* rtc_get_raw and rtc_get_time. *)
Begin(f) ==
  /\ next = 0
  /\ now' \in Moments /\ began' = now' /\ ticks' = 0
  /\ reader' = f /\ next' = 1 /\ t' = Blank
  /\ UNCHANGED <<status_b, status_c>>

ReadRegister ==
  /\ next \in 1 .. 7
  /\ t' = [t EXCEPT ![Registers[next]] = Register(Registers[next])]
  /\ next' = IF next = 7 /\ reader = "rtc_get_time" THEN 9 ELSE next + 1
  /\ UNCHANGED <<now, status_b, status_c, reader, began, ticks>>

(* Reading register C clears its flags. *)
ReadC ==
  /\ next = 8
  /\ status_c' = FALSE /\ next' = 9
  /\ UNCHANGED <<now, status_b, reader, t, began, ticks>>

bcd_to_binOctal(v) == (v \div 16) * 8 + (v % 16)
bcd_to_bin(v) == ((v \div 16) * 10 + (v % 16)) % 256

FromBcd(s) == [r \in Fields |-> bcd_to_bin(IF r = "hour" THEN s[r] % 128 ELSE s[r])]
From12HoursUnreduced(s) ==
  IF s.hour >= 128 THEN [s EXCEPT !.hour = (@ % 128) + 12] ELSE s
From12Hours(s) == IF s.hour >= 128 THEN [s EXCEPT !.hour = ((@ % 128) + 12) % 24] ELSE s

Converted ==
  LET bin == IF "binary" \in status_b THEN t ELSE FromBcd(t)
  IN  IF "24h" \in status_b THEN bin ELSE From12Hours(bin)

ReadB ==
  /\ next = 9
  /\ t' = Converted /\ next' = 0 /\ reader' = "none"
  /\ UNCHANGED <<now, status_b, status_c, began, ticks>>

rtc_driver_init ==
  /\ next = 0
  /\ status_b' = status_b \cup {"periodic"} /\ status_c' = FALSE
  /\ UNCHANGED <<now, reading>>

Next ==
  \/ Tick
  \/ \E f \in {"rtc_get_raw", "rtc_get_time"} : Begin(f)
  \/ ReadRegister \/ ReadC \/ ReadB
  \/ rtc_driver_init

Spec == Init /\ [][Next]_vars

-----------------------------------------------------------------------------
(* Every field of t is a byte, and a time that has been returned is in the range
   of its fields, also one torn between two moments: its readers print it as it
   is and add nothing. *)
InRange(time) ==
  /\ time.second < 60 /\ time.minute < 60 /\ time.hour < 24
  /\ time.day <= 31 /\ time.month <= 12 /\ time.year < 100 /\ time.century < 100

TypeOK ==
  /\ now \in Time /\ began \in Time /\ ticks \in 0 .. MAX_TICKS
  /\ t \in [Fields -> 0 .. 255] /\ (next = 0 => InRange(t))
  /\ status_b \subseteq {"binary", "24h", "periodic"} /\ status_c \in BOOLEAN
  /\ reader \in {"none", "rtc_get_raw", "rtc_get_time"} /\ next \in 0 .. 9

(* The hour that From12Hours makes of hour h: in 12-hour mode 12 AM and
   12 PM change places with binary numbers; with BCD 12 AM is 12, and 1 PM to
   11 PM are hours of the morning. *)
HourShown(h) == IF "24h" \in status_b THEN h
                ELSE IF "binary" \notin status_b THEN Hour12(h)
                ELSE IF h % 12 = 0 THEN 12 - h ELSE h

AtLeast(a, b) ==
  \/ a = b
  \/ \E i \in 1 .. 7 : /\ a[Order[i]] > b[Order[i]]
                       /\ \A j \in i + 1 .. 7 : a[Order[j]] = b[Order[j]]

(* A read torn by the end of a minute, an hour, a day, a month, a year or a
   century returns the hour of one of its two ends, in the form From12Hours gives
   it, and but for that form never a time before the read began: the registers
   are read from the least significant one up. *)
NeverBehind ==
  [][ReadB => \E h \in {began.hour, now.hour} :
                /\ t'.hour = HourShown(h)
                /\ AtLeast([t' EXCEPT !.hour = h], began)]_vars

(* A read during which no minute ends returns the hour at which it began, in the
   form From12Hours gives it, and but for that form a time between the one at
   which it began and the one at which it ended. *)
ReadExact ==
  [][ReadB /\ now.minute = began.minute =>
       /\ t'.hour = HourShown(began.hour)
       /\ LET seen == [t' EXCEPT !.hour = began.hour]
          IN  AtLeast(seen, began) /\ AtLeast(now, seen)]_vars
=============================================================================
