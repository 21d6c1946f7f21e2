----------------------------- MODULE RtcProofs ------------------------------
(***************************************************************************)
(* Theorems about the readers of the clock, drv_rtc.c and rtc.c, for every *)
(* moment of the calendar at which a read may begin, every form of the     *)
(* registers, and seconds that end between any two of their reads.         *)
(***************************************************************************)
EXTENDS Rtc, TLAPS

(* The fields by position. *)
LEMMA OrderFacts ==
  /\ Order[1] = "second" /\ Order[2] = "minute" /\ Order[3] = "hour" /\ Order[4] = "day"
  /\ Order[5] = "month" /\ Order[6] = "year" /\ Order[7] = "century"
  /\ Fields = {"second", "minute", "hour", "day", "month", "year", "century"}
<1>1. /\ Order[1] = "second" /\ Order[2] = "minute" /\ Order[3] = "hour" /\ Order[4] = "day"
      /\ Order[5] = "month" /\ Order[6] = "year" /\ Order[7] = "century"
  BY DEF Order
<1>2. \A i \in 1 .. 7 : i = 1 \/ i = 2 \/ i = 3 \/ i = 4 \/ i = 5 \/ i = 6 \/ i = 7
  OBVIOUS
<1>3. 1 \in 1 .. 7 /\ 2 \in 1 .. 7 /\ 3 \in 1 .. 7 /\ 4 \in 1 .. 7 /\ 5 \in 1 .. 7
      /\ 6 \in 1 .. 7 /\ 7 \in 1 .. 7
  OBVIOUS
<1>4. ASSUME NEW r \in Fields
      PROVE  r \in {"second", "minute", "hour", "day", "month", "year", "century"}
  <2>1. PICK i \in 1 .. 7 : r = Order[i]
    BY DEF Fields
  <2> QED BY <1>1, <1>2, <2>1
<1>5. ASSUME NEW r \in {"second", "minute", "hour", "day", "month", "year", "century"}
      PROVE  r \in Fields
  BY <1>1, <1>3 DEF Fields
<1> QED BY <1>1, <1>4, <1>5

(* Every field has one position. *)
LEMMA PositionFacts ==
  /\ \A r \in Fields : \E i \in 1 .. 7 : r = Order[i]
  /\ \A i, j \in 1 .. 7 : Order[i] = Order[j] => i = j
  /\ \A i \in 1 .. 7 : Order[i] \in Fields
<1>1. \A i \in 1 .. 7 : i = 1 \/ i = 2 \/ i = 3 \/ i = 4 \/ i = 5 \/ i = 6 \/ i = 7
  OBVIOUS
<1>2. \A i, j \in 1 .. 7 : Order[i] = Order[j] => i = j
  <2> SUFFICES ASSUME NEW i \in 1 .. 7, NEW j \in 1 .. 7, Order[i] = Order[j] PROVE i = j
    OBVIOUS
  <2> QED BY <1>1, OrderFacts
<1> QED BY <1>2 DEF Fields

-----------------------------------------------------------------------------
(* The calendar. *)

(* b is a second after a, where the carry ends at position k. *)
Turns(a, b, k) ==
  /\ \A i \in 1 .. 7 : i < k => a[Order[i]] = Last(Order[i], a) /\ b[Order[i]] = First(Order[i])
  /\ a[Order[k]] # Last(Order[k], a) /\ b[Order[k]] = a[Order[k]] + 1
  /\ \A i \in 1 .. 7 : i > k => b[Order[i]] = a[Order[i]]

(* The carry ends at the first register that does not stand at its last number. *)
LEMMA SuccessorTurns ==
  ASSUME NEW a \in Time, ~AllLast(7, a)
  PROVE  /\ Successor(a) = [r \in Fields |-> Successor(a)[r]]
         /\ \E k \in 1 .. 7 : Turns(a, Successor(a), k)
<1> DEFINE L(i) == a[Order[i]] = Last(Order[i], a)
           pos(r) == CHOOSE i \in 1 .. 7 : Order[i] = r
           s == Successor(a)
<1>1. PICK k \in 1 .. 7 : ~L(k) /\ \A i \in 1 .. 7 : i < k => L(i)
  <2>1. ~(L(1) /\ L(2) /\ L(3) /\ L(4) /\ L(5) /\ L(6) /\ L(7))
    <3>1. \A i \in 1 .. 7 : i = 1 \/ i = 2 \/ i = 3 \/ i = 4 \/ i = 5 \/ i = 6 \/ i = 7
      OBVIOUS
    <3> QED BY <3>1 DEF AllLast
  <2> HIDE DEF L
  <2> QED BY <2>1
<1>2. \A i \in 1 .. 7 : pos(Order[i]) = i
  BY PositionFacts
<1>3. \A i \in 1 .. 7 : s[Order[i]] = IF ~AllLast(i - 1, a) THEN a[Order[i]]
                                      ELSE IF AllLast(i, a) THEN First(Order[i])
                                      ELSE a[Order[i]] + 1
  <2> SUFFICES ASSUME NEW i \in 1 .. 7
               PROVE  s[Order[i]] = IF ~AllLast(i - 1, a) THEN a[Order[i]]
                                    ELSE IF AllLast(i, a) THEN First(Order[i])
                                    ELSE a[Order[i]] + 1
    OBVIOUS
  <2>1. s[Order[i]] = IF ~AllLast(pos(Order[i]) - 1, a) THEN a[Order[i]]
                      ELSE IF AllLast(pos(Order[i]), a) THEN First(Order[i])
                      ELSE a[Order[i]] + 1
    BY PositionFacts DEF Successor
  <2> HIDE DEF pos, s
  <2> QED BY <1>2, <2>1
<1>4. s = [r \in Fields |-> s[r]]
  BY DEF Successor
<1> HIDE DEF s
<1>5. \A i \in 1 .. 7 : AllLast(i, a) <=> i < k
  BY <1>1 DEF AllLast
<1>6. \A i \in 1 .. 7 : AllLast(i - 1, a) <=> i <= k
  BY <1>1 DEF AllLast
<1>7. Turns(a, s, k)
  <2>1. \A i \in 1 .. 7 : i < k => s[Order[i]] = First(Order[i])
    BY <1>3, <1>5, <1>6
  <2>2. s[Order[k]] = a[Order[k]] + 1
    BY <1>3, <1>5, <1>6
  <2>3. \A i \in 1 .. 7 : i > k => s[Order[i]] = a[Order[i]]
    BY <1>3, <1>5, <1>6
  <2> QED BY <1>1, <2>1, <2>2, <2>3 DEF Turns
<1> QED BY <1>4, <1>7 DEF s

(* What a time is, register by register. *)
Calendar(a) ==
  /\ a["second"] \in 0 .. 59 /\ a["minute"] \in 0 .. 59 /\ a["hour"] \in 0 .. 23
  /\ a["day"] \in 1 .. DaysIn(a["month"], a["year"]) /\ a["month"] \in 1 .. 12
  /\ a["year"] \in 0 .. 99 /\ a["century"] \in 0 .. 99

(* First and Last, register by register. *)
LEMMA LastFacts ==
  ASSUME NEW a
  PROVE  /\ Last("second", a) = 59 /\ Last("minute", a) = 59 /\ Last("hour", a) = 23
         /\ Last("day", a) = DaysIn(a["month"], a["year"]) /\ Last("month", a) = 12
         /\ Last("year", a) = 99 /\ Last("century", a) = 99
         /\ First("second") = 0 /\ First("minute") = 0 /\ First("hour") = 0
         /\ First("day") = 1 /\ First("month") = 1
         /\ First("year") = 0 /\ First("century") = 0
  BY DEF Last, First

(* No month is shorter than 28 days or longer than 31. *)
LEMMA DaysFacts == \A m, y : DaysIn(m, y) \in 28 .. 31
  BY DEF DaysIn

(* Time and Calendar agree. *)
LEMMA TimeFacts ==
  ASSUME NEW a, a = [r \in Fields |-> a[r]]
  PROVE  a \in Time <=> Calendar(a)
<1>1. ASSUME a \in Time PROVE Calendar(a)
  <2>1. \A r \in Fields : a[r] \in First(r) .. Last(r, a)
    BY <1>1 DEF Time
  <2> QED BY <2>1, OrderFacts, LastFacts DEF Calendar
<1>2. ASSUME Calendar(a) PROVE a \in Time
  <2>1. \A r \in Fields : a[r] \in First(r) .. Last(r, a)
    BY <1>2, OrderFacts, LastFacts DEF Calendar
  <2>2. \A r \in Fields : a[r] \in 0 .. 99
    BY <1>2, OrderFacts, DaysFacts DEF Calendar
  <2>3. a \in [Fields -> 0 .. 99]
    BY <2>2
  <2> QED BY <2>1, <2>3 DEF Time
<1> QED BY <1>1, <1>2

(* The second after a moment of the calendar is one, whatever turns over. *)
LEMMA SuccessorInTime ==
  ASSUME NEW a \in Time, ~AllLast(7, a)
  PROVE  Successor(a) \in Time
<1> DEFINE b == Successor(a)
<1>1. b = [r \in Fields |-> b[r]] /\ \E k \in 1 .. 7 : Turns(a, b, k)
  BY SuccessorTurns
<1> HIDE DEF b
<1>2. Calendar(a)
  <2>1. a = [r \in Fields |-> a[r]]
    BY DEF Time
  <2> QED BY <2>1, TimeFacts
<1>3. PICK k \in 1 .. 7 : Turns(a, b, k)
  BY <1>1
<1>4. k = 1 \/ k = 2 \/ k = 3 \/ k = 4 \/ k = 5 \/ k = 6 \/ k = 7
  OBVIOUS
<1>5. /\ \A i \in 1 .. 7 : i < k => b[Order[i]] = First(Order[i])
      /\ a[Order[k]] # Last(Order[k], a) /\ b[Order[k]] = a[Order[k]] + 1
      /\ \A i \in 1 .. 7 : i > k => b[Order[i]] = a[Order[i]]
  BY <1>3 DEF Turns
<1>6. CASE k <= 3
  <2>1. b["day"] = a["day"] /\ b["month"] = a["month"] /\ b["year"] = a["year"]
        /\ b["century"] = a["century"]
    BY <1>5, <1>6, OrderFacts
  <2>2. /\ b["second"] = IF k = 1 THEN a["second"] + 1 ELSE 0
        /\ b["minute"] = IF k = 1 THEN a["minute"] ELSE IF k = 2 THEN a["minute"] + 1 ELSE 0
        /\ b["hour"] = IF k = 3 THEN a["hour"] + 1 ELSE a["hour"]
    BY <1>4, <1>5, <1>6, OrderFacts, LastFacts
  <2>3. /\ k = 1 => a["second"] # 59
        /\ k = 2 => a["minute"] # 59
        /\ k = 3 => a["hour"] # 23
    BY <1>5, OrderFacts, LastFacts
  <2>4. b["second"] \in 0 .. 59
    BY <1>2, <2>2, <2>3 DEF Calendar
  <2>5. b["minute"] \in 0 .. 59
    BY <1>2, <2>2, <2>3 DEF Calendar
  <2>6. b["hour"] \in 0 .. 23
    BY <1>2, <2>2, <2>3 DEF Calendar
  <2>7. Calendar(b)
    BY <1>2, <2>1, <2>4, <2>5, <2>6 DEF Calendar
  <2>8. b \in Time
    BY <1>1, <2>7, TimeFacts
  <2> QED BY <2>8 DEF b
<1>7. CASE k > 3
  <2>1. b["second"] = 0 /\ b["minute"] = 0 /\ b["hour"] = 0
    BY <1>5, <1>7, OrderFacts, LastFacts
  <2>2. /\ k = 4 => b["day"] = a["day"] + 1 /\ a["day"] # DaysIn(a["month"], a["year"])
        /\ k > 4 => b["day"] = 1
        /\ k < 5 => b["month"] = a["month"]
        /\ k = 5 => b["month"] = a["month"] + 1 /\ a["month"] # 12
        /\ k > 5 => b["month"] = 1
    BY <1>4, <1>5, <1>7, OrderFacts, LastFacts
  <2>3. /\ k < 6 => b["year"] = a["year"]
        /\ k = 6 => b["year"] = a["year"] + 1 /\ a["year"] # 99
        /\ k > 6 => b["year"] = 0
        /\ k < 7 => b["century"] = a["century"]
        /\ k = 7 => b["century"] = a["century"] + 1 /\ a["century"] # 99
    BY <1>4, <1>5, <1>7, OrderFacts, LastFacts
  <2>4. b["month"] \in 1 .. 12
    BY <1>2, <1>4, <1>7, <2>2 DEF Calendar
  <2>5. b["year"] \in 0 .. 99 /\ b["century"] \in 0 .. 99
    BY <1>2, <1>4, <1>7, <2>3 DEF Calendar
  <2>6. b["day"] \in 1 .. DaysIn(b["month"], b["year"])
    <3>1. CASE k = 4
      <4>1. DaysIn(b["month"], b["year"]) = DaysIn(a["month"], a["year"])
        BY <2>2, <2>3, <3>1
      <4>2. DaysIn(a["month"], a["year"]) \in 28 .. 31
        BY DaysFacts
      <4> QED BY <1>2, <2>2, <3>1, <4>1, <4>2 DEF Calendar
    <3>2. CASE k > 4
      <4>1. DaysIn(b["month"], b["year"]) \in 28 .. 31
        BY DaysFacts
      <4> QED BY <2>2, <3>2, <4>1
    <3> QED BY <1>4, <1>7, <3>1, <3>2
  <2>7. b["second"] \in 0 .. 59 /\ b["minute"] \in 0 .. 59 /\ b["hour"] \in 0 .. 23
    BY <2>1
  <2>8. Calendar(b)
    BY <2>4, <2>5, <2>6, <2>7 DEF Calendar
  <2>9. b \in Time
    BY <1>1, <2>8, TimeFacts
  <2> QED BY <2>9 DEF b
<1>8. k <= 3 \/ k > 3
  OBVIOUS
<1> QED BY <1>6, <1>7, <1>8 DEF b

-----------------------------------------------------------------------------
(* The forms a register may have. *)

(* What register r shows for the number x; Register(r) shows now[r]. *)
ShownAs(r, x) ==
  LET twelve == r = "hour" /\ "24h" \notin status_b
      value  == IF twelve THEN Hour12(x) ELSE x
      byte   == IF "binary" \in status_b THEN value ELSE rtc_bin_to_bcd(value)
  IN  IF twelve /\ x >= 12 THEN byte + 128 ELSE byte

(* A register shows the number of its field. *)
LEMMA RegisterShows == \A r : Register(r) = ShownAs(r, now[r])
<1> SUFFICES ASSUME NEW r PROVE Register(r) = ShownAs(r, now[r])
  OBVIOUS
<1>1. CASE r = "hour"
  BY <1>1 DEF Register, ShownAs
<1>2. CASE r # "hour"
  BY <1>2 DEF Register, ShownAs
<1> QED BY <1>1, <1>2

(* From binary to BCD and back, for every number of two digits. *)
LEMMA BcdInverse ==
  ASSUME NEW x \in 0 .. 99
  PROVE  rtc_bin_to_bcd(x) \in 0 .. 153 /\ bcd_to_bin(rtc_bin_to_bcd(x)) = x
<1> DEFINE q == x \div 10
           r == x % 10
<1>1. q \in 0 .. 9 /\ r \in 0 .. 9 /\ x = 10 * q + r
  OBVIOUS
<1>2. rtc_bin_to_bcd(x) = q * 16 + r
  BY DEF rtc_bin_to_bcd
<1> HIDE DEF q, r
<1>3. (q * 16 + r) \div 16 = q /\ (q * 16 + r) % 16 = r
  BY <1>1
<1>4. (q * 10 + r) % 256 = x
  BY <1>1
<1> QED BY <1>1, <1>2, <1>3, <1>4 DEF bcd_to_bin

(* BCD fits a byte with the bit of the afternoon, as hours do not. *)
LEMMA BcdBelow ==
  ASSUME NEW x \in 0 .. 12
  PROVE  rtc_bin_to_bcd(x) \in 0 .. 18
<1>1. x \div 10 \in 0 .. 1 /\ x % 10 \in 0 .. 9 /\ (x \div 10 = 1 => x % 10 \in 0 .. 2)
  OBVIOUS
<1> QED BY <1>1 DEF rtc_bin_to_bcd

(* Every field of a byte, and what ReadB makes of it: the number it showed, and of
   an hour the one HourShown says, which is an hour too. *)
LEMMA ConvertedFacts ==
  ASSUME t \in [Fields -> 0 .. 255], NEW v \in [Fields -> 0 .. 99], v["hour"] <= 23,
         \A r \in Fields : t[r] = ShownAs(r, v[r])
  PROVE  /\ Converted \in [Fields -> 0 .. 255] /\ Converted["hour"] <= 23
         /\ \A r \in Fields : r # "hour" => Converted[r] = v[r]
         /\ Converted["hour"] = HourShown(v["hour"])
<1> DEFINE b == IF "binary" \in status_b THEN t ELSE FromBcd(t)
           h == v["hour"]
           g == IF h % 12 = 0 THEN 12 ELSE h % 12
<1>0. "hour" \in Fields /\ h \in 0 .. 23 /\ h \in Nat
  BY OrderFacts
<1>1. \A r \in Fields : v[r] \in 0 .. 99 /\ t[r] \in 0 .. 255
  OBVIOUS
<1>2. ASSUME NEW r \in Fields, r # "hour"
      PROVE  b[r] = v[r]
  <2>1. t[r] = IF "binary" \in status_b THEN v[r] ELSE rtc_bin_to_bcd(v[r])
    BY <1>2 DEF ShownAs
  <2>2. CASE "binary" \in status_b
    BY <2>1, <2>2
  <2>3. CASE "binary" \notin status_b
    <3>1. b[r] = bcd_to_bin(t[r])
      BY <1>2, <2>3 DEF FromBcd
    <3>2. v[r] \in 0 .. 99 /\ t[r] = rtc_bin_to_bcd(v[r])
      BY <1>1, <2>1, <2>3
    <3> HIDE DEF b
    <3> QED BY <3>1, <3>2, BcdInverse
  <2> QED BY <2>2, <2>3
<1>3. g \in 1 .. 12 /\ g = Hour12(h) /\ (h >= 12 => g % 12 = h - 12) /\ (h < 12 /\ h # 0 => g = h)
      /\ (h >= 12 /\ h % 12 # 0 => g = h - 12)
  BY <1>0 DEF Hour12
<1>4. CASE "24h" \in status_b
  <2>1. t["hour"] = IF "binary" \in status_b THEN h ELSE rtc_bin_to_bcd(h)
    BY <1>0, <1>4 DEF ShownAs
  <2>2. b["hour"] = h
    <3>1. CASE "binary" \in status_b
      BY <2>1, <3>1
    <3>2. CASE "binary" \notin status_b
      <4>1. b["hour"] = bcd_to_bin(t["hour"] % 128)
        BY <1>0, <3>2 DEF FromBcd
      <4>2. rtc_bin_to_bcd(h) \in 0 .. 35
        BY <1>0 DEF rtc_bin_to_bcd
      <4>3. rtc_bin_to_bcd(h) % 128 = rtc_bin_to_bcd(h)
        BY <4>2
      <4> QED BY <1>0, <2>1, <3>2, <4>1, <4>3, BcdInverse
    <3> QED BY <3>1, <3>2
  <2>3. Converted = b
    BY <1>4 DEF Converted
  <2>4. \A r \in Fields : b[r] = v[r]
    BY <1>2, <2>2
  <2>5. b = [r \in Fields |-> b[r]]
    BY DEF FromBcd
  <2>6. \A r \in Fields : v[r] \in 0 .. 255
    BY <1>1
  <2>7. HourShown(h) = h
    BY <1>4 DEF HourShown
  <2> HIDE DEF b
  <2> QED BY <1>0, <2>2, <2>3, <2>4, <2>5, <2>6, <2>7
<1>5. CASE "24h" \notin status_b
  <2>1. Converted = From12Hours(b)
    BY <1>5 DEF Converted
  <2>2. t["hour"] = LET byte == IF "binary" \in status_b THEN g ELSE rtc_bin_to_bcd(g)
                    IN  IF h >= 12 THEN byte + 128 ELSE byte
    BY <1>0, <1>3, <1>5 DEF ShownAs
  <2>3. /\ "binary" \in status_b => b["hour"] = IF h >= 12 THEN g + 128 ELSE g
        /\ "binary" \notin status_b => b["hour"] = g
    <3>1. CASE "binary" \in status_b
      BY <2>2, <3>1
    <3>2. CASE "binary" \notin status_b
      <4>1. b["hour"] = bcd_to_bin(t["hour"] % 128)
        BY <1>0, <3>2 DEF FromBcd
      <4>2. rtc_bin_to_bcd(g) \in 0 .. 18
        BY <1>3 DEF rtc_bin_to_bcd
      <4>3. t["hour"] % 128 = rtc_bin_to_bcd(g)
        BY <2>2, <3>2, <4>2
      <4>4. g \in 0 .. 99
        BY <1>3
      <4> QED BY <3>2, <4>1, <4>3, <4>4, BcdInverse
    <3> QED BY <3>1, <3>2
  <2>4. b = [r \in Fields |-> b[r]]
    BY DEF FromBcd
  <2> HIDE DEF b, g
  <2>5. CASE b["hour"] >= 128
    <3> DEFINE x == ((b["hour"] % 128) + 12) % 24
    <3>1. Converted = [b EXCEPT !["hour"] = x]
      BY <2>1, <2>5 DEF From12Hours
    <3>2. "binary" \in status_b /\ h >= 12 /\ b["hour"] = g + 128
      BY <1>3, <2>3, <2>5
    <3>3. b["hour"] % 128 = g
      BY <1>3, <3>2
    <3>4. x \in 0 .. 23 /\ x = IF h % 12 = 0 THEN 12 - h ELSE h
      <4>1. CASE h = 12
        BY <1>3, <3>3, <4>1 DEF Hour12
      <4>2. CASE h # 12
        BY <1>0, <1>3, <3>2, <3>3, <4>2
      <4> QED BY <4>1, <4>2
    <3>5. HourShown(h) = IF h % 12 = 0 THEN 12 - h ELSE h
      BY <1>5, <3>2 DEF HourShown
    <3> HIDE DEF x
    <3>6. /\ Converted["hour"] = x
          /\ \A r \in Fields : r # "hour" => Converted[r] = b[r]
          /\ Converted = [r \in Fields |-> Converted[r]]
      BY <1>0, <2>4, <3>1
    <3>7. \A r \in Fields : Converted[r] \in 0 .. 255
      BY <1>1, <1>2, <3>4, <3>6
    <3> QED BY <1>2, <3>4, <3>5, <3>6, <3>7
  <2>6. CASE ~(b["hour"] >= 128)
    <3>1. Converted = b
      BY <2>1, <2>6 DEF From12Hours
    <3>2. b["hour"] = g
      BY <1>3, <2>3, <2>6
    <3>3. g = HourShown(h)
      <4>1. "binary" \in status_b => h < 12
        BY <1>0, <1>3, <2>3, <2>6
      <4>2. CASE "binary" \notin status_b
        BY <1>3, <1>5, <4>2 DEF HourShown
      <4>3. CASE "binary" \in status_b /\ h = 0
        <5>1. HourShown(0) = 12 /\ g = 12
          BY <1>3, <1>5, <4>3 DEF HourShown, Hour12
        <5> QED BY <4>3, <5>1
      <4>4. CASE "binary" \in status_b /\ h # 0
        <5>1. h \in 1 .. 11 /\ h % 12 # 0
          BY <1>0, <4>1, <4>4
        <5>2. HourShown(h) = h
          BY <1>5, <4>4, <5>1 DEF HourShown
        <5> QED BY <1>3, <5>1, <5>2
      <4> QED BY <4>2, <4>3, <4>4
    <3>4. g <= 23 /\ g \in 0 .. 255
      BY <1>3
    <3>5. \A r \in Fields : b[r] \in 0 .. 255
      BY <1>1, <1>2, <3>2, <3>4
    <3> QED BY <1>2, <2>4, <3>1, <3>2, <3>3, <3>4, <3>5
  <2> QED BY <2>5, <2>6
<1> QED BY <1>4, <1>5

-----------------------------------------------------------------------------
(* The invariant. *)

(* In the minute in which the read began, or in the one after it. *)
SameMinute ==
  /\ now["second"] = began["second"] + ticks
  /\ \A i \in 2 .. 7 : now[Order[i]] = began[Order[i]]
NextMinute ==
  /\ now["second"] + 60 = began["second"] + ticks
  /\ now["minute"] # began["minute"]

(* v is what a read has seen so far: the numbers that stood in the registers it
   has read when it read them, and those that stand in the others. *)
Seen(v) ==
  /\ v \in [Fields -> 0 .. 99]
  /\ v["second"] <= 59 /\ v["minute"] <= 59 /\ v["hour"] <= 23
  /\ v["day"] <= 31 /\ v["month"] <= 12
  /\ \A i \in 1 .. 7 : IF i < next THEN t[Order[i]] = ShownAs(Order[i], v[Order[i]])
                                     ELSE v[Order[i]] = now[Order[i]]
  /\ AtLeast(v, began)
  /\ v["hour"] \in {began["hour"], now["hour"]}
  /\ SameMinute => /\ v["second"] <= now["second"]
                   /\ \A i \in 2 .. 7 : v[Order[i]] = began[Order[i]]

Types ==
  /\ now \in Time /\ began \in Time /\ ticks \in 0 .. MAX_TICKS
  /\ t \in [Fields -> 0 .. 255]
  /\ status_b \subseteq {"binary", "24h", "periodic"} /\ status_c \in BOOLEAN
  /\ reader \in {"none", "rtc_get_raw", "rtc_get_time"} /\ next \in 0 .. 9

IInv ==
  /\ Types
  /\ next = 0 => InRange(t)
  /\ next # 0 => (SameMinute \/ NextMinute) /\ \E v : Seen(v)

(* A time that turned over at a register is later than before, and later than
   whatever it was later than. *)
LEMMA LaterThan ==
  ASSUME NEW a \in [Fields -> Int], NEW b \in [Fields -> Int], NEW c \in [Fields -> Int],
         AtLeast(a, c), NEW k \in 1 .. 7, b[Order[k]] > a[Order[k]],
         \A i \in 1 .. 7 : i > k => b[Order[i]] = a[Order[i]]
  PROVE  AtLeast(b, c)
<1>0. \A i \in 1 .. 7 : a[Order[i]] \in Int /\ b[Order[i]] \in Int /\ c[Order[i]] \in Int
  BY PositionFacts
<1>1. CASE a = c
  <2>1. \A j \in k + 1 .. 7 : b[Order[j]] = c[Order[j]]
    BY <1>1
  <2> QED BY <1>1, <2>1 DEF AtLeast
<1>2. CASE a # c
  <2>1. PICK i \in 1 .. 7 : /\ a[Order[i]] > c[Order[i]]
                            /\ \A j \in i + 1 .. 7 : a[Order[j]] = c[Order[j]]
    BY <1>2 DEF AtLeast
  <2>2. CASE i > k
    <3>1. b[Order[i]] > c[Order[i]]
      BY <2>1, <2>2
    <3>2. \A j \in i + 1 .. 7 : b[Order[j]] = c[Order[j]]
      BY <2>1, <2>2
    <3> QED BY <3>1, <3>2 DEF AtLeast
  <2>3. CASE i <= k
    <3>1. a[Order[k]] >= c[Order[k]]
      <4>1. CASE i = k
        BY <1>0, <2>1, <4>1
      <4>2. CASE i < k
        BY <1>0, <2>1, <4>2
      <4> QED BY <2>3, <4>1, <4>2
    <3>2. b[Order[k]] > c[Order[k]]
      BY <1>0, <3>1
    <3>3. \A j \in k + 1 .. 7 : b[Order[j]] = c[Order[j]]
      BY <2>1, <2>3
    <3> QED BY <3>2, <3>3 DEF AtLeast
  <2> QED BY <2>2, <2>3
<1> QED BY <1>1, <1>2

(* No read is under way at first. *)
LEMMA InitIInv == Init => IInv
<1> SUFFICES ASSUME Init PROVE IInv
  OBVIOUS
<1>1. now \in Time /\ began \in Time /\ 0 \in 0 .. MAX_TICKS
  BY RtcAssumption DEF Init
<1>2. t \in [Fields -> 0 .. 255] /\ \A r \in Fields : t[r] = 0
  BY DEF Init, Blank
<1>3. InRange(t)
  BY <1>2, OrderFacts DEF InRange
<1>4. Types
  <2>1. status_b \subseteq {"binary", "24h", "periodic"} /\ status_c \in BOOLEAN
    BY DEF Init
  <2>2. reader = "none" /\ next = 0 /\ ticks = 0
    BY DEF Init
  <2> QED BY <1>1, <1>2, <2>1, <2>2 DEF Types
<1> QED BY <1>3, <1>4 DEF Init, IInv

(* A read begins in the minute in which it is, with nothing read. *)
LEMMA BeginStep ==
  ASSUME IInv, NEW f \in {"rtc_get_raw", "rtc_get_time"}, Begin(f)
  PROVE  IInv'
<1>1. /\ now' \in Time /\ began' = now' /\ ticks' = 0 /\ next' = 1
      /\ t' = Blank /\ reader' = f /\ UNCHANGED <<status_b, status_c>>
  BY RtcAssumption DEF Begin
<1>2. now' \in [Fields -> 0 .. 99] /\ Calendar(now')
  <2>1. now' \in [Fields -> 0 .. 99] /\ now' = [r \in Fields |-> now'[r]]
    BY <1>1 DEF Time
  <2> QED BY <1>1, <2>1, TimeFacts
<1>3. t' \in [Fields -> 0 .. 255] /\ 0 \in 0 .. MAX_TICKS
  BY <1>1, RtcAssumption DEF Blank
<1>4. Types'
  BY <1>1, <1>3 DEF Types, IInv
<1>5. SameMinute'
  <2>1. now'["second"] \in 0 .. 99
    BY <1>2, OrderFacts
  <2>2. now'["second"] = now'["second"] + 0
    BY <2>1
  <2> QED BY <1>1, <2>2 DEF SameMinute
<1>6. PICK w : w = now'
  OBVIOUS
<1>7. Seen(w)'
  <2>1. AtLeast(w, began)'
    BY <1>1, <1>6 DEF AtLeast
  <2>2. /\ w["second"] <= 59 /\ w["minute"] <= 59 /\ w["hour"] <= 23
        /\ w["day"] <= 31 /\ w["month"] <= 12 /\ w["second"] <= now'["second"]
    BY <1>2, <1>6, DaysFacts DEF Calendar
  <2>3. \A i \in 1 .. 7 : ~(i < next') /\ w[Order[i]] = now'[Order[i]]
    BY <1>1, <1>6
  <2>4. w \in [Fields -> 0 .. 99] /\ w["hour"] \in {began'["hour"], now'["hour"]}
    BY <1>2, <1>6
  <2>5. \A i \in 2 .. 7 : w[Order[i]] = began'[Order[i]]
    BY <1>1, <1>6
  <2> QED BY <2>1, <2>2, <2>3, <2>4, <2>5 DEF Seen
<1> QED BY <1>1, <1>4, <1>5, <1>7 DEF IInv

(* A register that is read shows what the others are assumed to show. *)
LEMMA ReadStep ==
  ASSUME IInv, ReadRegister
  PROVE  IInv'
<1> DEFINE r == Order[next]
<1>1. /\ next \in 1 .. 7 /\ next' \in 1 .. 9 /\ next' > next
      /\ next' > next + 1 => next = 7
      /\ t' = [t EXCEPT ![r] = Register(r)]
      /\ UNCHANGED <<now, status_b, status_c, reader, began, ticks>>
  BY DEF ReadRegister, Registers
<1>2. PICK v : Seen(v)
  BY <1>1 DEF IInv
<1>3. r \in Fields /\ v[r] = now[r] /\ v[r] \in 0 .. 99
  BY <1>1, <1>2, PositionFacts DEF Seen
<1>4. Register(r) = ShownAs(r, v[r])
  BY <1>3, RegisterShows
<1>5. ShownAs(r, v[r]) \in 0 .. 255
  <2>1. rtc_bin_to_bcd(v[r]) \in 0 .. 153
    BY <1>3, BcdInverse
  <2>2. r = "hour" => v[r] \in 0 .. 23
    BY <1>2, <1>3 DEF Seen
  <2>3. r = "hour" => Hour12(v[r]) \in 1 .. 12
    BY <2>2 DEF Hour12
  <2>4. r = "hour" => rtc_bin_to_bcd(Hour12(v[r])) \in 0 .. 18
    BY <2>3, BcdBelow
  <2>5. r = "hour" => rtc_bin_to_bcd(v[r]) \in 0 .. 35
    BY <2>2 DEF rtc_bin_to_bcd
  <2> HIDE DEF r
  <2> QED BY <1>3, <2>1, <2>2, <2>3, <2>4, <2>5 DEF ShownAs
<1> DEFINE s == ShownAs(r, v[r])
<1>6. t' = [t EXCEPT ![r] = s]
  BY <1>1, <1>4
<1>7. t' \in [Fields -> 0 .. 255]
  <2> HIDE DEF r, s
  <2> QED BY <1>3, <1>5, <1>6 DEF IInv, Types, s
<1>8. Types'
  BY <1>1, <1>7 DEF IInv, Types
<1>9. \A q, x : ShownAs(q, x)' = ShownAs(q, x)
  BY <1>1 DEF ShownAs
<1>10. \A i \in 1 .. 7 : IF i < next' THEN t'[Order[i]] = ShownAs(Order[i], v[Order[i]])
                                      ELSE v[Order[i]] = now[Order[i]]
  <2> SUFFICES ASSUME NEW i \in 1 .. 7
               PROVE  IF i < next' THEN t'[Order[i]] = ShownAs(Order[i], v[Order[i]])
                                   ELSE v[Order[i]] = now[Order[i]]
    OBVIOUS
  <2>1. CASE i = next
    BY <1>1, <1>3, <1>6, <2>1 DEF IInv, Types
  <2>2. CASE i # next
    <3>1. Order[i] # r /\ Order[i] \in Fields
      BY <1>1, <2>2, PositionFacts
    <3>2. t'[Order[i]] = t[Order[i]]
      BY <1>6, <3>1 DEF IInv, Types
    <3>3. i < next' <=> i < next
      BY <1>1, <2>2
    <3> QED BY <1>2, <3>2, <3>3 DEF Seen
  <2> QED BY <2>1, <2>2
<1>11. Seen(v)'
  <2>1. /\ SameMinute' <=> SameMinute
        /\ AtLeast(v, began)' <=> AtLeast(v, began)
    BY <1>1 DEF SameMinute, AtLeast
  <2> QED BY <1>1, <1>2, <1>9, <1>10, <2>1 DEF Seen
<1>12. (SameMinute \/ NextMinute)'
  BY <1>1 DEF IInv, SameMinute, NextMinute
<1> QED BY <1>1, <1>8, <1>11, <1>12 DEF IInv
(* What a second that ends makes of the minute. *)
LEMMA TickMinute ==
  ASSUME IInv, Tick, NEW k \in 1 .. 7, Turns(now, now', k)
  PROVE  /\ (SameMinute \/ NextMinute)'
         /\ SameMinute' => SameMinute /\ k = 1
         /\ k # 1 => SameMinute
<1>1. /\ next # 0 /\ ticks < MAX_TICKS /\ ticks' = ticks + 1 /\ began' = began
      /\ ticks \in 0 .. 60 /\ ticks < 60
  BY RtcAssumption DEF Tick, IInv, Types
<1>2. Calendar(now) /\ Calendar(began)
  <2>1. now \in Time /\ began \in Time
    BY DEF IInv, Types
  <2>2. now = [r \in Fields |-> now[r]] /\ began = [r \in Fields |-> began[r]]
    BY <2>1 DEF Time
  <2> QED BY <2>1, <2>2, TimeFacts
<1>3. now["second"] \in 0 .. 59 /\ now["minute"] \in 0 .. 59 /\ began["second"] \in 0 .. 59
  BY <1>2 DEF Calendar
<1>4. /\ \A i \in 1 .. 7 : i < k => now[Order[i]] = Last(Order[i], now) /\ now'[Order[i]] = First(Order[i])
      /\ now[Order[k]] # Last(Order[k], now) /\ now'[Order[k]] = now[Order[k]] + 1
      /\ \A i \in 1 .. 7 : i > k => now'[Order[i]] = now[Order[i]]
  BY DEF Turns
<1>5. SameMinute \/ NextMinute
  BY <1>1 DEF IInv
<1>6. CASE k = 1
  <2>1. /\ now'["second"] = now["second"] + 1
        /\ \A i \in 2 .. 7 : now'[Order[i]] = now[Order[i]]
        /\ now'["minute"] = now["minute"]
    BY <1>4, <1>6, OrderFacts
  <2>2. SameMinute => SameMinute'
    BY <1>1, <1>3, <2>1 DEF SameMinute
  <2>3. ASSUME NextMinute PROVE NextMinute'
    <3>1. now["second"] + 60 = began["second"] + ticks /\ now["minute"] # began["minute"]
      BY <2>3 DEF NextMinute
    <3>2. ASSUME NEW m \in Int, NEW n \in Int, NEW o \in Int, m + 60 = n + o
          PROVE  (m + 1) + 60 = n + (o + 1)
      BY <3>2
    <3>3. now'["second"] + 60 = began["second"] + ticks'
      <4>1. now["second"] \in Int /\ began["second"] \in Int /\ ticks \in Int
        BY <1>1, <1>3
      <4>2. (now["second"] + 1) + 60 = began["second"] + (ticks + 1)
        BY <3>1, <3>2, <4>1
      <4> QED BY <1>1, <2>1, <4>2
    <3>4. now'["minute"] # began["minute"]
      BY <2>1, <3>1
    <3> QED BY <1>1, <3>3, <3>4 DEF NextMinute
  <2>4. SameMinute' => SameMinute
    <3>1. SameMinute' => now'["minute"] = began'["minute"]
      BY OrderFacts DEF SameMinute
    <3> QED BY <1>1, <1>5, <2>1, <3>1 DEF NextMinute
  <2> QED BY <1>5, <1>6, <2>2, <2>3, <2>4
<1>7. CASE k # 1
  <2>1. now["second"] = 59 /\ now'["second"] = 0
    BY <1>4, <1>7, OrderFacts, LastFacts
  <2>2. SameMinute
    BY <1>1, <1>3, <1>5, <2>1 DEF NextMinute
  <2>3. now["minute"] = began["minute"]
    BY <2>2, OrderFacts DEF SameMinute
  <2>4. now'["minute"] # now["minute"]
    <3>1. CASE k = 2
      BY <1>3, <1>4, <3>1, OrderFacts
    <3>2. CASE k > 2
      BY <1>4, <3>2, OrderFacts, LastFacts
    <3> QED BY <1>7, <3>1, <3>2
  <2>5. NextMinute'
    BY <1>1, <1>3, <2>1, <2>2, <2>3, <2>4 DEF SameMinute, NextMinute
  <2>6. ~SameMinute'
    <3>1. SameMinute' => now'["minute"] = began'["minute"]
      BY OrderFacts DEF SameMinute
    <3> QED BY <1>1, <2>3, <2>4, <3>1
  <2> QED BY <2>2, <2>5, <2>6
<1> QED BY <1>6, <1>7

(* A second that ends moves the registers that are still to be read. *)
LEMMA TickStep ==
  ASSUME IInv, Tick
  PROVE  IInv'
<1>1. /\ next \in 1 .. 9 /\ ticks' = ticks + 1 /\ ticks < MAX_TICKS /\ ~AllLast(7, now)
      /\ now' = Successor(now) /\ now \in Time /\ status_c' \in BOOLEAN
      /\ UNCHANGED <<status_b, reader, next, t, began>>
  BY DEF Tick, IInv, Types
<1>2. PICK v : Seen(v)
  BY <1>1 DEF IInv
<1>3. now' \in Time
  BY <1>1, SuccessorInTime
<1>4. PICK k \in 1 .. 7 : Turns(now, now', k)
  BY <1>1, SuccessorTurns
<1>5. /\ (SameMinute \/ NextMinute)'
      /\ SameMinute' => SameMinute /\ k = 1
      /\ k # 1 => SameMinute
  BY <1>4, TickMinute
<1>6. Types'
  <2>1. ticks' \in 0 .. MAX_TICKS
    BY <1>1, RtcAssumption DEF IInv, Types
  <2> QED BY <1>1, <1>3, <2>1 DEF IInv, Types
<1>7. Calendar(now') /\ now' \in [Fields -> 0 .. 99] /\ now \in [Fields -> 0 .. 99]
      /\ Calendar(now) /\ began \in [Fields -> 0 .. 99]
  <2>1. /\ now' \in [Fields -> 0 .. 99] /\ now \in [Fields -> 0 .. 99]
        /\ began \in [Fields -> 0 .. 99]
    BY <1>1, <1>3 DEF Time, IInv, Types
  <2>2. now' = [r \in Fields |-> now'[r]] /\ now = [r \in Fields |-> now[r]]
    BY <2>1
  <2>3. Calendar(now')
    BY <1>3, <2>2, TimeFacts
  <2>4. Calendar(now)
    BY <1>1, <2>2, TimeFacts
  <2> QED BY <2>1, <2>3, <2>4
<1>8. /\ \A i \in 1 .. 7 : i < k => now'[Order[i]] = First(Order[i])
      /\ now'[Order[k]] = now[Order[k]] + 1
      /\ \A i \in 1 .. 7 : i > k => now'[Order[i]] = now[Order[i]]
  BY <1>4 DEF Turns
<1> DEFINE read == {Order[i] : i \in {j \in 1 .. 7 : j < next}}
<1>9. PICK w : w = [r \in Fields |-> IF r \in read THEN v[r] ELSE now'[r]]
  OBVIOUS
<1>10. \A i \in 1 .. 7 : w[Order[i]] = IF i < next THEN v[Order[i]] ELSE now'[Order[i]]
  <2> SUFFICES ASSUME NEW i \in 1 .. 7
               PROVE  w[Order[i]] = IF i < next THEN v[Order[i]] ELSE now'[Order[i]]
    OBVIOUS
  <2>1. Order[i] \in read <=> i < next
    BY PositionFacts
  <2>2. Order[i] \in Fields
    BY PositionFacts
  <2> HIDE DEF read
  <2> QED BY <1>9, <2>1, <2>2
<1>11. v \in [Fields -> 0 .. 99] /\ w \in [Fields -> 0 .. 99]
  BY <1>2, <1>7, <1>9 DEF Seen
<1> HIDE DEF read
<1>12. \A i \in 1 .. 7 : ~(i < next) => v[Order[i]] = now[Order[i]]
  BY <1>2 DEF Seen
<1>13. AtLeast(w, began)
  <2>1. AtLeast(v, began)
    BY <1>2 DEF Seen
  <2>2. CASE k < next
    <3>1. ASSUME NEW i \in 1 .. 7 PROVE w[Order[i]] = v[Order[i]]
      <4>1. CASE i < next
        BY <1>10, <4>1
      <4>2. CASE ~(i < next)
        <5>1. i > k
          BY <1>1, <2>2, <4>2
        <5>2. now'[Order[i]] = now[Order[i]] /\ v[Order[i]] = now[Order[i]]
          BY <1>8, <1>12, <4>2, <5>1
        <5> QED BY <1>10, <4>2, <5>2
      <4> QED BY <4>1, <4>2
    <3>2. \A r \in Fields : w[r] = v[r]
      BY <3>1, PositionFacts
    <3>3. w = v
      BY <1>11, <3>2
    <3> QED BY <2>1, <3>3
  <2>3. CASE ~(k < next)
    <3>1. \A i \in 1 .. 7 : i > k => w[Order[i]] = v[Order[i]]
      BY <1>8, <1>10, <1>12, <2>3
    <3>2. w[Order[k]] = v[Order[k]] + 1 /\ v[Order[k]] \in 0 .. 99
      BY <1>8, <1>10, <1>11, <1>12, <2>3, PositionFacts
    <3>3. w[Order[k]] > v[Order[k]]
      BY <3>2
    <3>4. v \in [Fields -> Int] /\ w \in [Fields -> Int] /\ began \in [Fields -> Int]
      BY <1>7, <1>11
    <3> QED BY <2>1, <3>1, <3>3, <3>4, LaterThan
  <2> QED BY <2>2, <2>3
<1>14. w["hour"] \in {began["hour"], now'["hour"]}
  <2>1. w["hour"] = IF 3 < next THEN v["hour"] ELSE now'["hour"]
    BY <1>10, OrderFacts
  <2>2. v["hour"] \in {began["hour"], now["hour"]}
    BY <1>2 DEF Seen
  <2>3. CASE k < 3
    BY <1>8, <2>1, <2>2, <2>3, OrderFacts
  <2>4. CASE ~(k < 3)
    <3>1. SameMinute
      BY <1>5, <2>4
    <3>2. v["hour"] = began["hour"]
      BY <1>2, <3>1, OrderFacts DEF Seen
    <3> QED BY <2>1, <3>2
  <2> QED BY <2>3, <2>4
<1>15. /\ w["second"] <= 59 /\ w["minute"] <= 59 /\ w["hour"] <= 23
       /\ w["day"] <= 31 /\ w["month"] <= 12
  <2>1. /\ v["second"] <= 59 /\ v["minute"] <= 59 /\ v["hour"] <= 23
        /\ v["day"] <= 31 /\ v["month"] <= 12
    BY <1>2 DEF Seen
  <2>2. /\ now'["second"] <= 59 /\ now'["minute"] <= 59 /\ now'["hour"] <= 23
        /\ now'["day"] <= 31 /\ now'["month"] <= 12
    BY <1>7, DaysFacts DEF Calendar
  <2>3. \A r \in Fields : w[r] = v[r] \/ w[r] = now'[r]
    BY <1>9
  <2> QED BY <2>1, <2>2, <2>3, OrderFacts
<1>16. SameMinute' => /\ w["second"] <= now'["second"]
                      /\ \A i \in 2 .. 7 : w[Order[i]] = began[Order[i]]
  <2> SUFFICES ASSUME SameMinute'
               PROVE  /\ w["second"] <= now'["second"]
                      /\ \A i \in 2 .. 7 : w[Order[i]] = began[Order[i]]
    OBVIOUS
  <2>1. SameMinute /\ k = 1
    BY <1>5
  <2>2. v["second"] <= now["second"] /\ \A i \in 2 .. 7 : v[Order[i]] = began[Order[i]]
    BY <1>2, <2>1 DEF Seen
  <2>3. w["second"] = IF 1 < next THEN v["second"] ELSE now'["second"]
    BY <1>10, OrderFacts
  <2>4. now'["second"] = now["second"] + 1 /\ now["second"] \in 0 .. 59 /\ v["second"] \in 0 .. 99
    BY <1>7, <1>8, <1>11, <2>1, OrderFacts DEF Calendar
  <2>5. w["second"] <= now'["second"]
    BY <2>2, <2>3, <2>4
  <2>6. \A i \in 2 .. 7 : now[Order[i]] = began[Order[i]]
    BY <2>1 DEF SameMinute
  <2>7. \A i \in 2 .. 7 : w[Order[i]] = began[Order[i]]
    BY <1>8, <1>10, <2>1, <2>2, <2>6
  <2> QED BY <2>5, <2>7
<1>17. \A q, x : ShownAs(q, x)' = ShownAs(q, x)
  BY <1>1 DEF ShownAs
<1>18. \A i \in 1 .. 7 : IF i < next' THEN t'[Order[i]] = ShownAs(Order[i], w[Order[i]])'
                                      ELSE w[Order[i]] = now'[Order[i]]
  <2> SUFFICES ASSUME NEW i \in 1 .. 7
               PROVE  IF i < next' THEN t'[Order[i]] = ShownAs(Order[i], w[Order[i]])'
                                   ELSE w[Order[i]] = now'[Order[i]]
    OBVIOUS
  <2>1. CASE i < next
    <3>1. t[Order[i]] = ShownAs(Order[i], v[Order[i]])
      BY <1>2, <2>1 DEF Seen
    <3> QED BY <1>1, <1>10, <1>17, <2>1, <3>1
  <2>2. CASE ~(i < next)
    BY <1>1, <1>10, <2>2
  <2> QED BY <2>1, <2>2
<1>19. Seen(w)'
  <2>1. AtLeast(w, began)' <=> AtLeast(w, began)
    BY <1>1 DEF AtLeast
  <2> QED BY <1>1, <1>11, <1>13, <1>14, <1>15, <1>16, <1>18, <2>1 DEF Seen
<1> QED BY <1>1, <1>5, <1>6, <1>19 DEF IInv
(* What a read has seen stays so when the rest of its steps change none of it. *)
LEMMA SeenKept ==
  ASSUME NEW v, Seen(v), UNCHANGED <<now, status_b, t, began, ticks>>, next' >= next,
         next \in 8 .. 9 \/ next' = next, next' \in 0 .. 9, next \in 0 .. 9
  PROVE  Seen(v)'
<1>1. \A q, x : ShownAs(q, x)' = ShownAs(q, x)
  BY DEF ShownAs
<1>2. \A i \in 1 .. 7 : i < next' <=> i < next
  OBVIOUS
<1>3. \A i \in 1 .. 7 : IF i < next' THEN t'[Order[i]] = ShownAs(Order[i], v[Order[i]])'
                                     ELSE v[Order[i]] = now'[Order[i]]
  BY <1>1, <1>2 DEF Seen
<1>4. /\ SameMinute' <=> SameMinute
      /\ AtLeast(v, began)' <=> AtLeast(v, began)
  BY DEF SameMinute, AtLeast
<1> QED BY <1>3, <1>4 DEF Seen

(* Register C is not a field of the time. *)
LEMMA ReadCStep ==
  ASSUME IInv, ReadC
  PROVE  IInv'
<1>1. /\ next = 8 /\ next' = 9 /\ status_c' = FALSE
      /\ UNCHANGED <<now, status_b, reader, t, began, ticks>>
  BY DEF ReadC
<1>2. PICK v : Seen(v)
  BY <1>1 DEF IInv
<1>3. Seen(v)'
  BY <1>1, <1>2, SeenKept
<1>4. Types'
  <2>1. next' \in 0 .. 9
    BY <1>1
  <2>2. status_c' \in BOOLEAN
    BY <1>1
  <2> QED BY <1>1, <2>1, <2>2 DEF IInv, Types
<1>5. (SameMinute \/ NextMinute)'
  BY <1>1 DEF IInv, SameMinute, NextMinute
<1> QED BY <1>1, <1>3, <1>4, <1>5 DEF IInv

(* What ReadB returns is what the read has seen, and of the hour what HourShown
   says; with the hour it saw put back it is what it saw. *)
LEMMA ReturnsWhatItSaw ==
  ASSUME IInv, ReadB
  PROVE  \E v : /\ Seen(v) /\ t' \in [Fields -> 0 .. 255] /\ t'["hour"] <= 23
                /\ \A r \in Fields : r # "hour" => t'[r] = v[r]
                /\ t'["hour"] = HourShown(v["hour"])
                /\ [t' EXCEPT !["hour"] = v["hour"]] = v
<1>1. next = 9 /\ t' = Converted
  BY DEF ReadB
<1>2. PICK v : Seen(v)
  BY <1>1 DEF IInv
<1>3. v \in [Fields -> 0 .. 99] /\ v["hour"] <= 23 /\ t \in [Fields -> 0 .. 255]
  BY <1>2 DEF Seen, IInv, Types
<1>4. \A i \in 1 .. 7 : t[Order[i]] = ShownAs(Order[i], v[Order[i]])
  BY <1>1, <1>2 DEF Seen
<1>5. \A r \in Fields : t[r] = ShownAs(r, v[r])
  BY <1>4, PositionFacts
<1>6. /\ Converted \in [Fields -> 0 .. 255] /\ Converted["hour"] <= 23
      /\ \A r \in Fields : r # "hour" => Converted[r] = v[r]
      /\ Converted["hour"] = HourShown(v["hour"])
  BY <1>3, <1>5, ConvertedFacts
<1>7. [Converted EXCEPT !["hour"] = v["hour"]] = v
  <2> DEFINE w == [Converted EXCEPT !["hour"] = v["hour"]]
  <2>1. \A r \in Fields : w[r] = v[r]
    BY <1>6
  <2>2. w = [r \in Fields |-> w[r]] /\ v = [r \in Fields |-> v[r]]
    BY <1>3, <1>6
  <2> HIDE DEF w
  <2>3. w = v
    BY <2>1, <2>2
  <2> QED BY <2>3 DEF w
<1> QED BY <1>1, <1>2, <1>6, <1>7

(* What is returned is in the range of its fields. *)
LEMMA ReadBStep ==
  ASSUME IInv, ReadB
  PROVE  IInv'
<1>1. /\ next' = 0 /\ reader' = "none"
      /\ UNCHANGED <<now, status_b, status_c, began, ticks>>
  BY DEF ReadB
<1>2. PICK v : /\ Seen(v) /\ t' \in [Fields -> 0 .. 255] /\ t'["hour"] <= 23
               /\ \A r \in Fields : r # "hour" => t'[r] = v[r]
  BY ReturnsWhatItSaw
<1>3. Types'
  BY <1>1, <1>2 DEF IInv, Types
<1>4. InRange(t')
  <2>1. /\ v \in [Fields -> 0 .. 99] /\ v["second"] <= 59 /\ v["minute"] <= 59
        /\ v["day"] <= 31 /\ v["month"] <= 12
    BY <1>2 DEF Seen
  <2>2. /\ t'["second"] = v["second"] /\ t'["minute"] = v["minute"] /\ t'["day"] = v["day"]
        /\ t'["month"] = v["month"] /\ t'["year"] = v["year"] /\ t'["century"] = v["century"]
    BY <1>2, OrderFacts
  <2>3. /\ v["second"] \in 0 .. 99 /\ v["minute"] \in 0 .. 99 /\ v["year"] \in 0 .. 99
        /\ v["century"] \in 0 .. 99 /\ t'["hour"] \in 0 .. 255
    BY <1>2, <2>1, OrderFacts
  <2> QED BY <1>2, <2>1, <2>2, <2>3 DEF InRange
<1> QED BY <1>1, <1>3, <1>4 DEF IInv

(* Every step keeps the invariant, so every state has it. *)
LEMMA NextIInv == IInv /\ [Next]_vars => IInv'
<1> SUFFICES ASSUME IInv, [Next]_vars PROVE IInv'
  OBVIOUS
<1>1. CASE Tick
  BY <1>1, TickStep
<1>2. CASE \E f \in {"rtc_get_raw", "rtc_get_time"} : Begin(f)
  BY <1>2, BeginStep
<1>3. CASE ReadRegister
  BY <1>3, ReadStep
<1>4. CASE ReadC
  BY <1>4, ReadCStep
<1>5. CASE ReadB
  BY <1>5, ReadBStep
<1>6. CASE rtc_driver_init
  <2>1. /\ next = 0 /\ status_b' = status_b \cup {"periodic"} /\ status_c' = FALSE
        /\ UNCHANGED <<now, reader, next, t, began, ticks>>
    BY <1>6 DEF rtc_driver_init, reading
  <2>2. Types'
    BY <2>1 DEF IInv, Types
  <2> QED BY <2>1, <2>2 DEF IInv
<1>7. CASE UNCHANGED vars
  <2>1. UNCHANGED <<now, status_b, status_c, reader, next, t, began, ticks>>
    BY <1>7 DEF vars, reading
  <2>2. Types'
    BY <2>1 DEF IInv, Types
  <2>3. ASSUME next # 0 PROVE \E v : Seen(v)'
    <3>1. PICK v : Seen(v)
      BY <2>3 DEF IInv
    <3>2. next \in 0 .. 9
      BY DEF IInv, Types
    <3> QED BY <2>1, <3>1, <3>2, SeenKept
  <2>4. next # 0 => (SameMinute \/ NextMinute)'
    BY <2>1 DEF IInv, SameMinute, NextMinute
  <2> QED BY <2>1, <2>2, <2>3, <2>4 DEF IInv
<1> QED BY <1>1, <1>2, <1>3, <1>4, <1>5, <1>6, <1>7 DEF Next

(* The invariant of the readers. *)
LEMMA Invariance == Spec => []IInv
<1> QED BY InitIInv, NextIInv, PTL DEF Spec

-----------------------------------------------------------------------------
(* The time that is kept and the time that is returned have the types of their
   fields: whatever turns over between two registers, rtc_get_raw and rtc_get_time
   return no second or minute past 59, no hour past 23, no day past 31 and no month
   past 12. *)
THEOREM RtcTypeCorrect == Spec => []TypeOK
<1>1. IInv => TypeOK
  BY DEF IInv, Types, TypeOK
<1> QED BY <1>1, Invariance, PTL

(* A torn read returns the hour of one of its two ends as From12Hours shows it,
   and with that hour never a time before it began: for every moment of the
   calendar, every form register B selects and up to a minute of reading. *)
THEOREM RtcNeverBehind == Spec => NeverBehind
<1>1. IInv => (ReadB => \E h \in {began.hour, now.hour} :
                          /\ t'.hour = HourShown(h)
                          /\ AtLeast([t' EXCEPT !.hour = h], began))
  <2> SUFFICES ASSUME IInv, ReadB
               PROVE  \E h \in {began.hour, now.hour} :
                        /\ t'.hour = HourShown(h)
                        /\ AtLeast([t' EXCEPT !.hour = h], began)
    OBVIOUS
  <2>1. PICK v : /\ Seen(v) /\ t'["hour"] = HourShown(v["hour"])
                 /\ [t' EXCEPT !["hour"] = v["hour"]] = v
    BY ReturnsWhatItSaw
  <2>2. v["hour"] \in {began["hour"], now["hour"]} /\ AtLeast(v, began)
    BY <2>1 DEF Seen
  <2>3. AtLeast([t' EXCEPT !["hour"] = v["hour"]], began)
    BY <2>1, <2>2
  <2> QED BY <2>1, <2>2, <2>3
<1> QED BY <1>1, Invariance, PTL DEF NeverBehind

(* A read during which no minute ends is exact but for the form From12Hours gives
   its hour: not before it began, and not after it ended. *)
THEOREM RtcReadExact == Spec => ReadExact
<1> DEFINE seen == [t' EXCEPT !.hour = began.hour]
<1>1. IInv => (ReadB /\ now.minute = began.minute =>
                 /\ t'.hour = HourShown(began.hour)
                 /\ AtLeast(seen, began) /\ AtLeast(now, seen))
  <2> SUFFICES ASSUME IInv, ReadB, now.minute = began.minute
               PROVE  /\ t'.hour = HourShown(began.hour)
                      /\ AtLeast(seen, began) /\ AtLeast(now, seen)
    OBVIOUS
  <2>1. PICK v : /\ Seen(v) /\ t'["hour"] = HourShown(v["hour"])
                 /\ [t' EXCEPT !["hour"] = v["hour"]] = v
    BY ReturnsWhatItSaw
  <2>2. SameMinute
    BY DEF IInv, NextMinute, ReadB
  <2>3. /\ v["second"] <= now["second"]
        /\ \A i \in 2 .. 7 : v[Order[i]] = began[Order[i]]
        /\ AtLeast(v, began) /\ v \in [Fields -> 0 .. 99]
    BY <2>1, <2>2 DEF Seen
  <2>4. v["hour"] = began["hour"]
    BY <2>3, OrderFacts
  <2>5. t'.hour = HourShown(began.hour) /\ seen = v
    BY <2>1, <2>4
  <2> HIDE DEF seen
  <2>6. \A i \in 2 .. 7 : now[Order[i]] = v[Order[i]]
    BY <2>2, <2>3 DEF SameMinute
  <2>7. now \in [Fields -> 0 .. 99]
    BY DEF IInv, Types, Time
  <2>8. CASE v["second"] = now["second"]
    <3>1. \A i \in 1 .. 7 : now[Order[i]] = v[Order[i]]
      BY <2>6, <2>8, OrderFacts
    <3>2. \A r \in Fields : now[r] = v[r]
      BY <3>1, PositionFacts
    <3>3. now = v
      BY <2>3, <2>7, <3>2
    <3> QED BY <2>3, <2>5, <3>3 DEF AtLeast
  <2>9. CASE v["second"] # now["second"]
    <3>1. now[Order[1]] > v[Order[1]]
      <4>1. now["second"] \in 0 .. 99 /\ v["second"] \in 0 .. 99
        BY <2>3, <2>7, OrderFacts
      <4>2. v["second"] <= now["second"]
        BY <2>3
      <4>3. \A m, n \in Int : m <= n /\ m # n => n > m
        OBVIOUS
      <4>4. now["second"] > v["second"]
        BY <2>9, <4>1, <4>2, <4>3
      <4> QED BY <4>4, OrderFacts
    <3>2. \A j \in 1 + 1 .. 7 : now[Order[j]] = v[Order[j]]
      BY <2>6
    <3>3. AtLeast(now, v)
      BY <3>1, <3>2 DEF AtLeast
    <3> QED BY <2>3, <2>5, <3>3
  <2> QED BY <2>8, <2>9
<1> QED BY <1>1, Invariance, PTL DEF ReadExact
=============================================================================
