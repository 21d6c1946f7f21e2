--------------------------- MODULE ConsoleProofs ----------------------------
(***************************************************************************)
(* Theorems about the display driver of kernel/drv/drv_vga.c and the       *)
(* console of lib/libk/src/stdio.rs on the screen they share, for every    *)
(* screen of two lines or more whose width is a multiple of a tab.         *)
(*                                                                         *)
(* Both are operators on a display: a buffer, a cursor and a colour.  What *)
(* is proved of a step is proved of those operators first.                 *)
(***************************************************************************)
EXTENDS Console, TLAPS

Cells    == Glyphs \X Colors
Displays == [buffer : [Rows -> [Columns -> Cells]], x : 0 .. VGA_WIDTH, y : Rows, color : Colors]

(* e is d after n characters on the same line: the cursor has moved by n, and
   only the cells between the two cursors have changed. *)
Typed(d, e, n) ==
  /\ e \in Displays /\ e.x = d.x + n /\ e.y = d.y /\ e.color = d.color
  /\ \A r \in Rows, c \in Columns :
       r # d.y \/ c < d.x \/ c >= e.x => e.buffer[r][c] = d.buffer[r][c]

(* e is d moved up by up lines, and everything before the cursor of d with it. *)
KeptBy(d, e, up) ==
  /\ up = 1 => d.y = VGA_HEIGHT - 1 /\ e.x <= d.x
  /\ \A p \in Before(d) : p[1] >= up => e.buffer[p[1] - up][p[2]] = d.buffer[p[1]][p[2]]

(* And everything but the cells that the cursor has passed. *)
Moves(d, e, up) == KeptBy(d, e, up) /\ Leaves(d, e, up, Passed(d, e, up))

-----------------------------------------------------------------------------
(* The operators. *)

(* The numbers of the screen: four columns or more, two lines or more. *)
LEMMA ScreenFacts ==
  /\ VGA_WIDTH \in Nat /\ VGA_WIDTH >= 4 /\ VGA_WIDTH % 4 = 0
  /\ VGA_HEIGHT \in Nat /\ VGA_HEIGHT >= 2
  /\ \A c \in Columns : c \in Nat /\ c < VGA_WIDTH /\ c \in 0 .. VGA_WIDTH
  /\ \A r \in Rows : r \in Nat /\ r < VGA_HEIGHT
  /\ SPACE \in Glyphs /\ DEFAULT_COLOR \in Colors
<1>1. VGA_WIDTH \in Nat \ {0} /\ VGA_WIDTH % 4 = 0 /\ VGA_HEIGHT \in Nat \ {0, 1}
  BY VgaAssumption
<1>2. VGA_WIDTH >= 4
  BY <1>1
<1>3. VGA_HEIGHT \in Nat /\ VGA_HEIGHT >= 2
  BY <1>1
<1> QED BY <1>1, <1>2, <1>3, VgaAssumption DEF Columns, Rows

(* What the update of two fields of a display is, written out. *)
LEMMA NextRow ==
  ASSUME NEW d \in Displays
  PROVE  [d EXCEPT !.x = 0, !.y = @ + 1] =
           [buffer |-> d.buffer, x |-> 0, y |-> d.y + 1, color |-> d.color]
<1> DEFINE e == [d EXCEPT !.x = 0]
<1>1. [d EXCEPT !.x = 0, !.y = @ + 1] = [e EXCEPT !.y = d.y + 1]
  BY DEF Displays
<1>2. e = [buffer |-> d.buffer, x |-> 0, y |-> d.y, color |-> d.color]
  BY DEF Displays
<1> HIDE DEF e
<1>3. \A z : [e EXCEPT !.y = z] = [buffer |-> d.buffer, x |-> 0, y |-> z, color |-> d.color]
  BY <1>2
<1>4. [e EXCEPT !.y = d.y + 1] =
        [buffer |-> d.buffer, x |-> 0, y |-> d.y + 1, color |-> d.color]
  BY <1>3
<1> QED BY <1>1, <1>4

(* Writing a cell changes that cell only. *)
LEMMA PutAt ==
  ASSUME NEW d \in Displays, d.x \in Columns, NEW g \in Glyphs
  PROVE  /\ vga_putc_at(d, g) \in Displays
         /\ vga_putc_at(d, g).x = d.x /\ vga_putc_at(d, g).y = d.y
         /\ vga_putc_at(d, g).color = d.color
         /\ \A r \in Rows, c \in Columns :
              vga_putc_at(d, g).buffer[r][c] =
                IF r = d.y /\ c = d.x THEN <<g, d.color>> ELSE d.buffer[r][c]
<1>1. /\ d.buffer \in [Rows -> [Columns -> Cells]] /\ d.y \in Rows /\ d.color \in Colors
      /\ d.x \in 0 .. VGA_WIDTH /\ <<g, d.color>> \in Cells
      /\ d = [buffer |-> d.buffer, x |-> d.x, y |-> d.y, color |-> d.color]
  BY DEF Displays, Cells
<1> DEFINE b == [d.buffer EXCEPT ![d.y] = [@ EXCEPT ![d.x] = <<g, d.color>>]]
<1>2. b \in [Rows -> [Columns -> Cells]]
  BY <1>1
<1>3. \A r \in Rows, c \in Columns :
        b[r][c] = IF r = d.y /\ c = d.x THEN <<g, d.color>> ELSE d.buffer[r][c]
  BY <1>1
<1>4. vga_putc_at(d, g) = [buffer |-> b, x |-> d.x, y |-> d.y, color |-> d.color]
  <2>1. vga_putc_at(d, g) = [d EXCEPT !.buffer = b]
    BY DEF vga_putc_at
  <2> HIDE DEF b
  <2> QED BY <1>1, <2>1
<1> HIDE DEF b
<1> QED BY <1>1, <1>2, <1>3, <1>4 DEF Displays

(* A line feed goes to the start of the next line, or moves every line up and
   clears the last one. *)
LEMMA NewLineFacts ==
  ASSUME NEW d \in Displays
  PROVE  /\ NewLine(d) \in Displays /\ NewLine(d).x = 0 /\ NewLine(d).color = d.color
         /\ d.y < VGA_HEIGHT - 1 =>
              NewLine(d).y = d.y + 1 /\ NewLine(d).buffer = d.buffer
         /\ d.y = VGA_HEIGHT - 1 =>
              /\ NewLine(d).y = VGA_HEIGHT - 1
              /\ \A r \in Rows, c \in Columns :
                   NewLine(d).buffer[r][c] =
                     IF r < VGA_HEIGHT - 1 THEN d.buffer[r + 1][c] ELSE <<SPACE, d.color>>
<1>0. /\ VGA_HEIGHT \in Nat /\ VGA_HEIGHT >= 2 /\ VGA_WIDTH \in Nat /\ SPACE \in Glyphs
      /\ Rows = 0 .. VGA_HEIGHT - 1
  BY ScreenFacts DEF Rows
<1>1. /\ d.buffer \in [Rows -> [Columns -> Cells]] /\ d.y \in Rows /\ d.color \in Colors
      /\ d = [buffer |-> d.buffer, x |-> d.x, y |-> d.y, color |-> d.color]
  BY DEF Displays
<1> DEFINE n == [buffer |-> d.buffer, x |-> 0, y |-> d.y + 1, color |-> d.color]
           b == [y \in Rows |-> IF y < VGA_HEIGHT - 1 THEN d.buffer[y + 1]
                                ELSE [x \in Columns |-> <<SPACE, d.color>>]]
<1>2. NewLine(d) = vga_scroll(n)
  <2>1. [d EXCEPT !.x = 0, !.y = @ + 1] = n
    BY NextRow
  <2> HIDE DEF n
  <2> QED BY <2>1 DEF NewLine
<1>3. CASE d.y < VGA_HEIGHT - 1
  <2>1. NewLine(d) = n /\ d.y # VGA_HEIGHT - 1
    BY <1>0, <1>1, <1>2, <1>3 DEF vga_scroll
  <2>2. n \in Displays
    BY <1>0, <1>1, <1>3 DEF Displays
  <2> QED BY <2>1, <2>2
<1>4. CASE d.y = VGA_HEIGHT - 1
  <2>1. vga_scroll(n) = [n EXCEPT !.buffer = Scrolled(n), !.y = VGA_HEIGHT - 1]
    BY <1>0, <1>4 DEF vga_scroll
  <2>2. Scrolled(n) = b
    BY DEF Scrolled
  <2>3. NewLine(d) = [buffer |-> b, x |-> 0, y |-> VGA_HEIGHT - 1, color |-> d.color]
    BY <1>2, <2>1, <2>2
  <2>4. b \in [Rows -> [Columns -> Cells]]
    <3>1. \A r \in Rows : r < VGA_HEIGHT - 1 => r + 1 \in Rows
      BY <1>0
    <3>2. <<SPACE, d.color>> \in Cells
      BY <1>0, <1>1 DEF Cells
    <3> QED BY <1>1, <3>1, <3>2
  <2>5. \A r \in Rows, c \in Columns :
          b[r][c] = IF r < VGA_HEIGHT - 1 THEN d.buffer[r + 1][c] ELSE <<SPACE, d.color>>
    OBVIOUS
  <2> HIDE DEF b, n
  <2>6. /\ 0 \in 0 .. VGA_WIDTH /\ VGA_HEIGHT - 1 \in Rows
        /\ ~(VGA_HEIGHT - 1 < VGA_HEIGHT - 1)
    BY <1>0
  <2> QED BY <1>1, <1>4, <2>3, <2>4, <2>5, <2>6 DEF Displays
<1>5. d.y < VGA_HEIGHT - 1 \/ d.y = VGA_HEIGHT - 1
  BY <1>0, <1>1
<1> QED BY <1>3, <1>4, <1>5

(* A line feed is the same wherever on its line the cursor is. *)
LEMMA NewLineAnywhere ==
  ASSUME NEW d \in Displays, NEW x \in 0 .. VGA_WIDTH
  PROVE  NewLine([d EXCEPT !.x = x]) = NewLine(d)
<1> DEFINE e == [d EXCEPT !.x = x]
<1>1. e \in Displays /\ e.buffer = d.buffer /\ e.y = d.y /\ e.color = d.color
  BY DEF Displays
<1>2. /\ [d EXCEPT !.x = 0, !.y = @ + 1] =
           [buffer |-> d.buffer, x |-> 0, y |-> d.y + 1, color |-> d.color]
  BY NextRow
<1> HIDE DEF e
<1>3. /\ [e EXCEPT !.x = 0, !.y = @ + 1] =
           [buffer |-> d.buffer, x |-> 0, y |-> d.y + 1, color |-> d.color]
  BY <1>1, NextRow
<1>4. NewLine(e) = NewLine(d)
  BY <1>2, <1>3 DEF NewLine
<1> QED BY <1>4 DEF e

(* By how many lines a line feed moves the screen up. *)
Lines(d) == IF d.y = VGA_HEIGHT - 1 THEN 1 ELSE 0

(* A line feed after characters on the line of d keeps what is before d. *)
LEMMA TypedThenNewLine ==
  ASSUME NEW d \in Displays, NEW e \in Displays, NEW n \in Nat, Typed(d, e, n)
  PROVE  KeptBy(d, NewLine(e), Lines(d))
<1>0. /\ VGA_HEIGHT \in Nat /\ VGA_HEIGHT >= 2 /\ VGA_WIDTH \in Nat
      /\ Rows = 0 .. VGA_HEIGHT - 1 /\ Columns = 0 .. VGA_WIDTH - 1
      /\ d.x \in 0 .. VGA_WIDTH /\ d.y \in Rows /\ e.y = d.y
  BY ScreenFacts DEF Rows, Columns, Displays, Typed
<1>1. \A p \in Before(d) :
        /\ p[1] \in Rows /\ p[2] \in Columns /\ (p[1] < d.y \/ (p[1] = d.y /\ p[2] < d.x))
        /\ e.buffer[p[1]][p[2]] = d.buffer[p[1]][p[2]]
  <2> SUFFICES ASSUME NEW p \in Before(d)
               PROVE  /\ p[1] \in Rows /\ p[2] \in Columns
                      /\ (p[1] < d.y \/ (p[1] = d.y /\ p[2] < d.x))
                      /\ e.buffer[p[1]][p[2]] = d.buffer[p[1]][p[2]]
    OBVIOUS
  <2>1. /\ p[1] \in Rows /\ p[2] \in Columns
        /\ (p[1] < d.y \/ (p[1] = d.y /\ p[2] < d.x))
    BY DEF Before
  <2>2. p[1] # d.y \/ p[2] < d.x
    BY <1>0, <2>1
  <2> QED BY <2>1, <2>2 DEF Typed
<1>2. CASE d.y < VGA_HEIGHT - 1
  <2>1. Lines(d) = 0 /\ NewLine(e).buffer = e.buffer
    <3>1. d.y # VGA_HEIGHT - 1 /\ e.y < VGA_HEIGHT - 1
      BY <1>0, <1>2
    <3> QED BY <3>1, NewLineFacts DEF Lines
  <2>2. \A p \in Before(d) : p[1] - 0 = p[1]
    BY <1>0, <1>1
  <2> QED BY <1>1, <2>1, <2>2 DEF KeptBy
<1>3. CASE d.y = VGA_HEIGHT - 1
  <2>1. Lines(d) = 1 /\ NewLine(e).x = 0
    BY <1>3, NewLineFacts DEF Lines
  <2>2. ASSUME NEW p \in Before(d), p[1] >= 1
        PROVE  NewLine(e).buffer[p[1] - 1][p[2]] = d.buffer[p[1]][p[2]]
    <3>1. p[1] - 1 \in Rows /\ p[1] - 1 < VGA_HEIGHT - 1 /\ (p[1] - 1) + 1 = p[1]
      BY <1>0, <1>1, <2>2
    <3>2. NewLine(e).buffer[p[1] - 1][p[2]] = e.buffer[(p[1] - 1) + 1][p[2]]
      BY <1>0, <1>1, <1>3, <3>1, NewLineFacts
    <3> QED BY <1>1, <3>1, <3>2
  <2>3. NewLine(e).x <= d.x
    BY <1>0, <2>1
  <2> QED BY <1>3, <2>1, <2>2, <2>3 DEF KeptBy
<1> QED BY <1>0, <1>2, <1>3

(* A line feed changes no cell, apart from moving them. *)
LEMMA NewLineLeaves ==
  ASSUME NEW d \in Displays
  PROVE  Leaves(d, NewLine(d), Lines(d), {}) /\ Lines(d) \in {0, 1}
<1>0. /\ VGA_HEIGHT \in Nat /\ VGA_HEIGHT >= 2 /\ Rows = 0 .. VGA_HEIGHT - 1 /\ d.y \in Rows
  BY ScreenFacts DEF Rows, Displays
<1>1. ASSUME NEW r \in Rows, NEW c \in Columns
      PROVE  NewLine(d).buffer[r][c] = MovedUp(d, Lines(d))[r][c]
  <2>1. CASE d.y = VGA_HEIGHT - 1
    <3>1. Lines(d) = 1
      BY <2>1 DEF Lines
    <3>2. r + 1 \in Rows <=> r < VGA_HEIGHT - 1
      BY <1>0
    <3>3. MovedUp(d, 1)[r][c] = IF r + 1 \in Rows THEN d.buffer[r + 1][c] ELSE <<SPACE, d.color>>
      BY DEF MovedUp
    <3> QED BY <2>1, <3>1, <3>2, <3>3, NewLineFacts
  <2>2. CASE d.y # VGA_HEIGHT - 1
    <3>1. Lines(d) = 0 /\ d.y < VGA_HEIGHT - 1
      BY <1>0, <2>2 DEF Lines
    <3>2. r + 0 = r
      BY <1>0
    <3>3. MovedUp(d, 0)[r][c] = d.buffer[r][c]
      BY <3>2 DEF MovedUp
    <3> QED BY <3>1, <3>3, NewLineFacts
  <2> QED BY <2>1, <2>2
<1>2. Lines(d) \in {0, 1} /\ (Lines(d) = 1 => d.y = VGA_HEIGHT - 1)
  BY DEF Lines
<1>3. Leaves(d, NewLine(d), Lines(d), {})
  <2>1. \A p \in (Rows \X Columns) \ {} :
          NewLine(d).buffer[p[1]][p[2]] = MovedUp(d, Lines(d))[p[1]][p[2]]
    BY <1>1
  <2> QED BY <1>2, <2>1 DEF Leaves
<1> QED BY <1>2, <1>3

(* A cell that is not passed is before the old cursor, or from the new one on. *)
LEMMA NotPassed ==
  ASSUME NEW d \in Displays, NEW e \in Displays, NEW up \in {0, 1},
         NEW p \in (Rows \X Columns) \ Passed(d, e, up)
  PROVE  /\ p[1] \in Rows /\ p[2] \in Columns
         /\ \/ p[1] < d.y - up \/ (p[1] = d.y - up /\ p[2] < d.x)
            \/ p[1] > e.y \/ (p[1] = e.y /\ p[2] >= e.x)
<1>1. p[1] \in Rows /\ p[2] \in Columns
  OBVIOUS
<1>2. /\ d.y \in Rows /\ e.y \in Rows /\ d.x \in 0 .. VGA_WIDTH /\ e.x \in 0 .. VGA_WIDTH
      /\ VGA_WIDTH \in Nat /\ VGA_HEIGHT \in Nat
  BY ScreenFacts DEF Displays
<1>3. ~ /\ p[1] > d.y - up \/ (p[1] = d.y - up /\ p[2] >= d.x)
        /\ p[1] < e.y \/ (p[1] = e.y /\ p[2] < e.x)
  BY DEF Passed
<1> QED BY <1>1, <1>2, <1>3 DEF Rows, Columns

(* Characters change only the cells they pass. *)
LEMMA TypedLeaves ==
  ASSUME NEW d \in Displays, NEW e, NEW n \in Nat, Typed(d, e, n)
  PROVE  Leaves(d, e, 0, Passed(d, e, 0))
<1>0. e \in Displays /\ e.y = d.y /\ d.y \in Rows /\ VGA_HEIGHT \in Nat
  BY ScreenFacts DEF Typed, Displays
<1>1. ASSUME NEW p \in (Rows \X Columns) \ Passed(d, e, 0)
      PROVE  e.buffer[p[1]][p[2]] = MovedUp(d, 0)[p[1]][p[2]]
  <2>1. /\ p[1] \in Rows /\ p[2] \in Columns
        /\ \/ p[1] < d.y - 0 \/ (p[1] = d.y - 0 /\ p[2] < d.x)
           \/ p[1] > e.y \/ (p[1] = e.y /\ p[2] >= e.x)
    BY <1>0, NotPassed
  <2>2. p[1] # d.y \/ p[2] < d.x \/ p[2] >= e.x
    BY <1>0, <2>1 DEF Rows
  <2>3. e.buffer[p[1]][p[2]] = d.buffer[p[1]][p[2]]
    BY <2>1, <2>2 DEF Typed
  <2>4. MovedUp(d, 0)[p[1]][p[2]] = d.buffer[p[1]][p[2]]
    <3>1. p[1] + 0 = p[1]
      BY <1>0, <2>1 DEF Rows
    <3> QED BY <2>1, <3>1 DEF MovedUp
  <2> QED BY <2>3, <2>4
<1> QED BY <1>1 DEF Leaves

(* So do characters and then a line feed: those they pass move up with the rest. *)
LEMMA TypedThenNewLineLeaves ==
  ASSUME NEW d \in Displays, NEW e \in Displays, NEW n \in Nat, Typed(d, e, n)
  PROVE  Leaves(d, NewLine(e), Lines(d), Passed(d, NewLine(e), Lines(d)))
<1> DEFINE f  == NewLine(e)
           up == Lines(d)
<1>0. /\ VGA_HEIGHT \in Nat /\ VGA_HEIGHT >= 2 /\ Rows = 0 .. VGA_HEIGHT - 1
      /\ d.y \in Rows /\ e.y = d.y /\ e.color = d.color
  BY ScreenFacts DEF Rows, Displays, Typed
<1>1. /\ Leaves(e, f, up, {}) /\ up \in {0, 1} /\ up = Lines(e)
      /\ (up = 1 <=> d.y = VGA_HEIGHT - 1)
  <2>1. Lines(e) = Lines(d)
    BY <1>0 DEF Lines
  <2>2. up = 1 <=> d.y = VGA_HEIGHT - 1
    BY DEF Lines
  <2> QED BY <2>1, <2>2, NewLineLeaves
<1>2. f \in Displays /\ f.x = 0 /\ f.y = (d.y - up) + 1
  <2>1. CASE d.y = VGA_HEIGHT - 1
    <3>1. f \in Displays /\ f.x = 0 /\ f.y = VGA_HEIGHT - 1
      BY <1>0, <2>1, NewLineFacts
    <3> HIDE DEF f, up
    <3>2. up = 1
      BY <1>1, <2>1
    <3> QED BY <1>0, <2>1, <3>1, <3>2
  <2>2. CASE d.y # VGA_HEIGHT - 1
    <3>1. e.y < VGA_HEIGHT - 1
      BY <1>0, <2>2
    <3>2. f \in Displays /\ f.x = 0 /\ f.y = e.y + 1
      BY <3>1, NewLineFacts
    <3> HIDE DEF f, up
    <3>3. up = 0
      BY <1>1, <2>2
    <3> QED BY <1>0, <3>2, <3>3
  <2> QED BY <2>1, <2>2
<1> HIDE DEF f, up
<1>3. ASSUME NEW p \in (Rows \X Columns) \ Passed(d, f, up)
      PROVE  f.buffer[p[1]][p[2]] = MovedUp(d, up)[p[1]][p[2]]
  <2>1. /\ p[1] \in Rows /\ p[2] \in Columns
        /\ \/ p[1] < d.y - up \/ (p[1] = d.y - up /\ p[2] < d.x)
           \/ p[1] > f.y \/ (p[1] = f.y /\ p[2] >= f.x)
    BY <1>1, <1>2, NotPassed
  <2>2. p[1] + up # d.y \/ p[2] < d.x
    BY <1>0, <1>1, <1>2, <2>1
  <2>3. f.buffer[p[1]][p[2]] = MovedUp(e, up)[p[1]][p[2]]
    BY <1>1 DEF Leaves
  <2>4. /\ MovedUp(e, up)[p[1]][p[2]] = IF p[1] + up \in Rows THEN e.buffer[p[1] + up][p[2]]
                                                              ELSE <<SPACE, d.color>>
        /\ MovedUp(d, up)[p[1]][p[2]] = IF p[1] + up \in Rows THEN d.buffer[p[1] + up][p[2]]
                                                              ELSE <<SPACE, d.color>>
    BY <1>0, <2>1 DEF MovedUp
  <2>5. p[1] + up \in Rows => e.buffer[p[1] + up][p[2]] = d.buffer[p[1] + up][p[2]]
    BY <2>1, <2>2 DEF Typed
  <2> QED BY <2>3, <2>4, <2>5
<1>4. Leaves(d, f, up, Passed(d, f, up))
  BY <1>1, <1>3 DEF Leaves
<1> QED BY <1>4 DEF f, up

(* Characters on the line of d keep what is before d. *)
LEMMA TypedKeeps ==
  ASSUME NEW d \in Displays, NEW e, NEW n \in Nat, Typed(d, e, n)
  PROVE  KeptBy(d, e, 0)
<1>1. ASSUME NEW p \in Before(d)
      PROVE  e.buffer[p[1] - 0][p[2]] = d.buffer[p[1]][p[2]]
  <2>1. /\ p[1] \in Rows /\ p[2] \in Columns
        /\ (p[1] < d.y \/ (p[1] = d.y /\ p[2] < d.x)) /\ d.y \in Rows
    BY DEF Before, Displays
  <2>2. (p[1] # d.y \/ p[2] < d.x) /\ p[1] - 0 = p[1]
    BY <2>1 DEF Rows
  <2> QED BY <2>1, <2>2 DEF Typed
<1> QED BY <1>1 DEF KeptBy

(* A line feed and then characters change only the cells passed. *)
LEMMA NewLineThenTypedLeaves ==
  ASSUME NEW d \in Displays, NEW e, NEW n \in Nat, Typed(NewLine(d), e, n)
  PROVE  Leaves(d, e, Lines(d), Passed(d, e, Lines(d)))
<1> DEFINE f  == NewLine(d)
           up == Lines(d)
<1>0. /\ VGA_HEIGHT \in Nat /\ VGA_HEIGHT >= 2 /\ Rows = 0 .. VGA_HEIGHT - 1 /\ d.y \in Rows
      /\ e \in Displays /\ e.y = f.y /\ f \in Displays /\ f.x = 0
  BY ScreenFacts, NewLineFacts DEF Rows, Displays, Typed
<1>1. Leaves(d, f, up, {}) /\ up \in {0, 1}
  BY NewLineLeaves
<1>2. f.y = (d.y - up) + 1
  <2>1. CASE d.y = VGA_HEIGHT - 1
    <3>1. f.y = VGA_HEIGHT - 1 /\ up = 1
      BY <2>1, NewLineFacts DEF Lines
    <3> HIDE DEF f, up
    <3> QED BY <1>0, <2>1, <3>1
  <2>2. CASE d.y # VGA_HEIGHT - 1
    <3>1. d.y < VGA_HEIGHT - 1
      BY <1>0, <2>2
    <3>2. f.y = d.y + 1 /\ up = 0
      BY <2>2, <3>1, NewLineFacts DEF Lines
    <3> HIDE DEF f, up
    <3> QED BY <1>0, <3>2
  <2> QED BY <2>1, <2>2
<1> HIDE DEF f, up
<1>3. ASSUME NEW p \in (Rows \X Columns) \ Passed(d, e, up)
      PROVE  e.buffer[p[1]][p[2]] = MovedUp(d, up)[p[1]][p[2]]
  <2>1. /\ p[1] \in Rows /\ p[2] \in Columns
        /\ \/ p[1] < d.y - up \/ (p[1] = d.y - up /\ p[2] < d.x)
           \/ p[1] > e.y \/ (p[1] = e.y /\ p[2] >= e.x)
    BY <1>0, <1>1, NotPassed
  <2>2. p[1] # f.y \/ p[2] >= e.x
    BY <1>0, <1>1, <1>2, <2>1
  <2>3. e.buffer[p[1]][p[2]] = f.buffer[p[1]][p[2]]
    BY <2>1, <2>2 DEF Typed, f
  <2>4. f.buffer[p[1]][p[2]] = MovedUp(d, up)[p[1]][p[2]]
    BY <1>1 DEF Leaves
  <2> QED BY <2>3, <2>4
<1>4. Leaves(d, e, up, Passed(d, e, up))
  BY <1>1, <1>3 DEF Leaves
<1> QED BY <1>4 DEF up

(* So do a line feed and then at most as many characters as d had on its line. *)
LEMMA NewLineThenTyped ==
  ASSUME NEW d \in Displays, NEW e, NEW n \in Nat, n <= d.x, Typed(NewLine(d), e, n)
  PROVE  KeptBy(d, e, Lines(d))
<1>0. /\ VGA_HEIGHT \in Nat /\ VGA_HEIGHT >= 2 /\ VGA_WIDTH \in Nat
      /\ Rows = 0 .. VGA_HEIGHT - 1 /\ d.x \in 0 .. VGA_WIDTH /\ d.y \in Rows
      /\ NewLine(d).x = 0
  BY ScreenFacts, NewLineFacts DEF Rows, Displays
<1>1. Typed(d, d, 0)
  BY <1>0 DEF Typed
<1>2. KeptBy(d, NewLine(d), Lines(d))
  BY <1>1, TypedThenNewLine
<1>3. ASSUME NEW p \in Before(d), p[1] >= Lines(d)
      PROVE  e.buffer[p[1] - Lines(d)][p[2]] = d.buffer[p[1]][p[2]]
  <2>1. p[1] \in Rows /\ p[2] \in Columns /\ p[1] <= d.y
    BY <1>0 DEF Before
  <2>2. p[1] - Lines(d) \in Rows /\ p[1] - Lines(d) # NewLine(d).y
    <3>1. CASE d.y = VGA_HEIGHT - 1
      <4>1. Lines(d) = 1 /\ NewLine(d).y = VGA_HEIGHT - 1
        BY <3>1, NewLineFacts DEF Lines
      <4>2. p[1] - 1 \in Rows /\ p[1] - 1 # VGA_HEIGHT - 1
        BY <1>0, <1>3, <2>1, <4>1
      <4> QED BY <4>1, <4>2
    <3>2. CASE d.y # VGA_HEIGHT - 1
      <4>1. d.y < VGA_HEIGHT - 1
        BY <1>0, <3>2
      <4>2. Lines(d) = 0 /\ NewLine(d).y = d.y + 1
        BY <3>2, <4>1, NewLineFacts DEF Lines
      <4>3. p[1] - 0 \in Rows /\ p[1] - 0 # d.y + 1
        BY <1>0, <2>1
      <4> QED BY <4>2, <4>3
    <3> QED BY <3>1, <3>2
  <2>3. e.buffer[p[1] - Lines(d)][p[2]] = NewLine(d).buffer[p[1] - Lines(d)][p[2]]
    BY <2>1, <2>2 DEF Typed
  <2> QED BY <1>2, <1>3, <2>3 DEF KeptBy
<1>4. e.x = n
  BY <1>0 DEF Typed
<1> QED BY <1>0, <1>3, <1>4 DEF KeptBy, Lines

-----------------------------------------------------------------------------
(* One character on its line. *)
LEMMA PutTyped ==
  ASSUME NEW d \in Displays, d.x \in Columns, NEW g \in Glyphs
  PROVE  /\ Typed(d, [vga_putc_at(d, g) EXCEPT !.x = d.x + 1], 1)
         /\ [vga_putc_at(d, g) EXCEPT !.x = d.x + 1].buffer[d.y][d.x] = <<g, d.color>>
<1> DEFINE p == vga_putc_at(d, g)
<1>1. /\ p \in Displays /\ p.x = d.x /\ p.y = d.y /\ p.color = d.color
      /\ \A r \in Rows, c \in Columns :
           p.buffer[r][c] = IF r = d.y /\ c = d.x THEN <<g, d.color>> ELSE d.buffer[r][c]
  BY PutAt
<1>2. /\ VGA_WIDTH \in Nat /\ d.x \in Nat /\ d.x < VGA_WIDTH /\ d.y \in Rows
      /\ d.x + 1 \in 0 .. VGA_WIDTH
  BY ScreenFacts DEF Displays, Columns
<1> HIDE DEF p
<1>3. /\ [p EXCEPT !.x = d.x + 1] \in Displays
      /\ [p EXCEPT !.x = d.x + 1].x = d.x + 1
      /\ [p EXCEPT !.x = d.x + 1].y = d.y
      /\ [p EXCEPT !.x = d.x + 1].color = d.color
      /\ [p EXCEPT !.x = d.x + 1].buffer = p.buffer
  BY <1>1, <1>2 DEF Displays
<1>4. \A r \in Rows, c \in Columns :
        (r # d.y \/ c < d.x \/ c >= d.x + 1) => p.buffer[r][c] = d.buffer[r][c]
  BY <1>1, <1>2, ScreenFacts
<1>5. p.buffer[d.y][d.x] = <<g, d.color>>
  BY <1>1, <1>2
<1>6. Typed(d, [p EXCEPT !.x = d.x + 1], 1)
  BY <1>3, <1>4 DEF Typed
<1> QED BY <1>3, <1>5, <1>6 DEF p

(* Characters after characters on the same line. *)
LEMMA ThenTyped ==
  ASSUME NEW d \in Displays, NEW e, NEW f, NEW m \in Nat, NEW n \in Nat,
         Typed(d, e, m), Typed(e, f, n)
  PROVE  Typed(d, f, m + n)
<1>1. /\ d.x \in 0 .. VGA_WIDTH /\ VGA_WIDTH \in Nat /\ e.x = d.x + m /\ f.x = e.x + n
      /\ e.y = d.y /\ f.y = d.y /\ f.color = d.color /\ f \in Displays
  BY ScreenFacts DEF Typed, Displays
<1>2. f.x = d.x + (m + n)
  BY <1>1
<1>3. ASSUME NEW r \in Rows, NEW c \in Columns, r # d.y \/ c < d.x \/ c >= f.x
      PROVE  f.buffer[r][c] = d.buffer[r][c]
  <2>1. (r # e.y \/ c < e.x \/ c >= f.x) /\ (r # d.y \/ c < d.x \/ c >= e.x)
    BY <1>1, <1>3, ScreenFacts
  <2> QED BY <2>1 DEF Typed
<1> QED BY <1>1, <1>2, <1>3 DEF Typed

(* One glyph of the driver: on the line, or the last one of it and a line feed. *)
LEMMA GlyphSteps ==
  ASSUME NEW d \in Displays, d.x \in Columns, NEW g \in Glyphs
  PROVE  /\ d.x + 1 < VGA_WIDTH =>
              PutGlyph(d, g) = [vga_putc_at(d, g) EXCEPT !.x = d.x + 1]
         /\ d.x + 1 >= VGA_WIDTH =>
              PutGlyph(d, g) = NewLine([vga_putc_at(d, g) EXCEPT !.x = d.x + 1])
<1>1. /\ vga_putc_at(d, g) \in Displays /\ vga_putc_at(d, g).x = d.x
      /\ NewLine([vga_putc_at(d, g) EXCEPT !.x = d.x + 1]) = NewLine(vga_putc_at(d, g))
  <2>1. d.x + 1 \in 0 .. VGA_WIDTH
    BY ScreenFacts
  <2> QED BY <2>1, PutAt, NewLineAnywhere
<1>2. [vga_putc_at(d, g) EXCEPT !.x = @ + 1] = [vga_putc_at(d, g) EXCEPT !.x = d.x + 1]
  BY <1>1
<1>3. d.x \in Nat /\ VGA_WIDTH \in Nat
  BY ScreenFacts
<1> QED BY <1>1, <1>2, <1>3 DEF PutGlyph

(* e shows the glyph g, in the colour of d, before its cursor. *)
Shown(d, e, g) == CellBefore(e) = <<g, d.color>>

(* A glyph of the driver: it is kept on the screen, as is what was before it. *)
LEMMA GlyphFacts ==
  ASSUME NEW d \in Displays, d.x \in Columns, NEW g \in Glyphs
  PROVE  /\ PutGlyph(d, g) \in Displays /\ PutGlyph(d, g).x \in Columns
         /\ PutGlyph(d, g).color = d.color
         /\ \E up \in {0, 1} : Moves(d, PutGlyph(d, g), up)
         /\ Shown(d, PutGlyph(d, g), g)
<1> DEFINE p == [vga_putc_at(d, g) EXCEPT !.x = d.x + 1]
           e == PutGlyph(d, g)
<1>0. /\ VGA_WIDTH \in Nat /\ VGA_WIDTH >= 4 /\ VGA_HEIGHT \in Nat /\ VGA_HEIGHT >= 2
      /\ d.x \in Nat /\ d.x < VGA_WIDTH /\ d.y \in Rows
      /\ Rows = 0 .. VGA_HEIGHT - 1 /\ Columns = 0 .. VGA_WIDTH - 1
  BY ScreenFacts DEF Displays, Rows, Columns
<1>1. /\ Typed(d, p, 1) /\ p.buffer[d.y][d.x] = <<g, d.color>>
      /\ p \in Displays /\ p.y = d.y /\ p.color = d.color
  <2>1. Typed(d, p, 1) /\ p.buffer[d.y][d.x] = <<g, d.color>>
    BY PutTyped
  <2> HIDE DEF p
  <2> QED BY <2>1 DEF Typed
<1>2. CASE d.x + 1 < VGA_WIDTH
  <2>1. Typed(d, e, 1) /\ e.buffer[d.y][d.x] = <<g, d.color>>
    BY <1>2, PutTyped, GlyphSteps
  <2> HIDE DEF e
  <2>2. e.x = d.x + 1 /\ e.y = d.y /\ e \in Displays /\ e.color = d.color
    BY <2>1 DEF Typed
  <2>3. e.x > 0 /\ e.x - 1 = d.x /\ e.x \in Columns
    BY <1>0, <1>2, <2>2
  <2>4. Shown(d, e, g)
    BY <2>1, <2>2, <2>3 DEF Shown, CellBefore
  <2>5. Moves(d, e, 0)
    BY <2>1, TypedKeeps, TypedLeaves DEF Moves
  <2> QED BY <2>2, <2>3, <2>4, <2>5 DEF e
<1>3. CASE d.x + 1 >= VGA_WIDTH
  <2>1. e = NewLine(p)
    BY <1>3, GlyphSteps
  <2> HIDE DEF p, e
  <2>2. /\ e \in Displays /\ e.x = 0 /\ e.color = d.color
        /\ d.y < VGA_HEIGHT - 1 => e.y = d.y + 1 /\ e.buffer = p.buffer
        /\ d.y = VGA_HEIGHT - 1 =>
             /\ e.y = VGA_HEIGHT - 1
             /\ \A r \in Rows, c \in Columns :
                  r < VGA_HEIGHT - 1 => e.buffer[r][c] = p.buffer[r + 1][c]
    BY <1>1, <2>1, NewLineFacts
  <2>3. d.x = VGA_WIDTH - 1 /\ ~(e.x > 0) /\ 0 \in Columns
    BY <1>0, <1>3, <2>2
  <2>4. e.buffer[e.y - 1][VGA_WIDTH - 1] = <<g, d.color>>
    <3>1. CASE d.y < VGA_HEIGHT - 1
      <4>1. (d.y + 1) - 1 = d.y
        BY <1>0
      <4> QED BY <1>1, <2>2, <2>3, <3>1, <4>1
    <3>2. CASE d.y = VGA_HEIGHT - 1
      <4>1. /\ (VGA_HEIGHT - 1) - 1 \in Rows /\ (VGA_HEIGHT - 1) - 1 < VGA_HEIGHT - 1
            /\ ((VGA_HEIGHT - 1) - 1) + 1 = VGA_HEIGHT - 1 /\ VGA_WIDTH - 1 \in Columns
        BY <1>0
      <4>2. e.buffer[(VGA_HEIGHT - 1) - 1][VGA_WIDTH - 1] =
              p.buffer[VGA_HEIGHT - 1][VGA_WIDTH - 1]
        BY <2>2, <3>2, <4>1
      <4> QED BY <1>1, <2>2, <2>3, <3>2, <4>2
    <3> QED BY <1>0, <3>1, <3>2
  <2>5. Shown(d, e, g)
    BY <2>3, <2>4 DEF Shown, CellBefore
  <2>6. Moves(d, e, Lines(d)) /\ Lines(d) \in {0, 1}
    BY <1>1, <2>1, TypedThenNewLine, TypedThenNewLineLeaves DEF Lines, Moves
  <2> QED BY <2>2, <2>3, <2>5, <2>6 DEF e
<1> QED BY <1>0, <1>2, <1>3

(* A glyph of the console: it wraps first. *)
LEMMA PutFacts ==
  ASSUME NEW d \in Displays, NEW g \in Glyphs
  PROVE  /\ Typed(Wrap(d), Put(d, g), 1) /\ Wrap(d) \in Displays
         /\ Wrap(d).color = d.color /\ Shown(d, Put(d, g), g)
<1> DEFINE w == Wrap(d)
           e == Put(d, g)
<1>1. w \in Displays /\ w.x \in Columns /\ w.color = d.color
  <2>1. VGA_WIDTH \in Nat /\ VGA_WIDTH >= 4 /\ d.x \in 0 .. VGA_WIDTH
    BY ScreenFacts DEF Displays
  <2>2. CASE d.x >= VGA_WIDTH
    <3>1. w = NewLine(d) /\ 0 \in Columns
      BY <2>1, <2>2 DEF Wrap, Columns
    <3> HIDE DEF w
    <3> QED BY <3>1, NewLineFacts
  <2>3. CASE ~(d.x >= VGA_WIDTH)
    BY <2>1, <2>3 DEF Wrap, Columns
  <2> QED BY <2>2, <2>3
<1>2. e = [vga_putc_at(w, g) EXCEPT !.x = w.x + 1]
  BY DEF Put
<1> HIDE DEF w, e
<1>3. Typed(w, e, 1) /\ e.buffer[w.y][w.x] = <<g, w.color>>
  BY <1>1, <1>2, PutTyped
<1>4. e.x = w.x + 1 /\ e.y = w.y /\ w.x \in Nat
  BY <1>1, <1>3, ScreenFacts DEF Typed
<1>5. e.x > 0 /\ e.x - 1 = w.x
  BY <1>4
<1>6. Shown(d, e, g)
  BY <1>1, <1>3, <1>4, <1>5 DEF Shown, CellBefore
<1> QED BY <1>1, <1>3, <1>6 DEF w, e

(* Characters of the console keep what is before its cursor, wrap included. *)
LEMMA WrapThenTyped ==
  ASSUME NEW d \in Displays, NEW e, NEW n \in Nat, n <= VGA_WIDTH, Typed(Wrap(d), e, n)
  PROVE  \E up \in {0, 1} : Moves(d, e, up)
<1>1. VGA_WIDTH \in Nat /\ d.x \in 0 .. VGA_WIDTH
  BY ScreenFacts DEF Displays
<1>2. CASE d.x >= VGA_WIDTH
  <2>1. Wrap(d) = NewLine(d) /\ n <= d.x
    BY <1>1, <1>2 DEF Wrap
  <2>2. Moves(d, e, Lines(d))
    BY <2>1, NewLineThenTyped, NewLineThenTypedLeaves DEF Moves
  <2> QED BY <2>2 DEF Lines
<1>3. CASE ~(d.x >= VGA_WIDTH)
  <2>1. Wrap(d) = d
    BY <1>3 DEF Wrap
  <2>2. Moves(d, e, 0)
    BY <2>1, TypedKeeps, TypedLeaves DEF Moves
  <2> QED BY <2>2
<1> QED BY <1>2, <1>3

-----------------------------------------------------------------------------
(* Tabs: at most four spaces, and never more than the line has left. *)

(* A tab reaches the next multiple of 4, which is on the line or its end. *)
LEMMA TabWidthFacts ==
  ASSUME NEW x \in 0 .. VGA_WIDTH
  PROVE  /\ TabWidth(x) \in 1 .. 4 /\ (x + TabWidth(x)) % 4 = 0
         /\ x < VGA_WIDTH => x + TabWidth(x) <= VGA_WIDTH
         /\ x >= VGA_WIDTH => TabWidth(x) = 4
<1>1. VGA_WIDTH \in Nat /\ VGA_WIDTH % 4 = 0 /\ x \in Nat /\ x <= VGA_WIDTH
  BY ScreenFacts
<1>2. PICK q \in Nat : x = 4 * q + (x % 4)
  BY <1>1
<1> DEFINE v == VGA_WIDTH \div 4
<1>3. v \in Nat /\ VGA_WIDTH = 4 * v
  BY <1>1
<1> HIDE DEF v
<1>4. x % 4 \in 0 .. 3
  BY <1>1
<1>5. x + TabWidth(x) = 4 * (q + 1)
  BY <1>1, <1>2, <1>4 DEF TabWidth
<1>6. x < VGA_WIDTH => x + TabWidth(x) <= VGA_WIDTH
  BY <1>1, <1>2, <1>3, <1>4, <1>5
<1>7. x >= VGA_WIDTH => TabWidth(x) = 4
  BY <1>1 DEF TabWidth
<1>8. (4 * (q + 1)) % 4 = 0
  OBVIOUS
<1>9. TabWidth(x) \in 1 .. 4
  BY <1>4 DEF TabWidth
<1> QED BY <1>5, <1>6, <1>7, <1>8, <1>9

(* The recursion of a tab, unrolled: each display is one space after the last. *)
LEMMA TabSteps ==
  ASSUME NEW d
  PROVE  \E h : /\ PutTab(d) = h[TabWidth(d.x)] /\ h[0] = d
               /\ h[1] = PutGlyph(h[0], SPACE) /\ h[2] = PutGlyph(h[1], SPACE)
               /\ h[3] = PutGlyph(h[2], SPACE) /\ h[4] = PutGlyph(h[3], SPACE)
<1> DEFINE F(e) == PutGlyph(e, SPACE)
           G(f) == [n \in 0 .. 4 |-> IF n = 0 THEN d ELSE F(f[n - 1])]
           h == CHOOSE f : f = G(f)
           w == [n \in 0 .. 4 |->
                  CASE n = 0 -> d [] n = 1 -> F(d) [] n = 2 -> F(F(d))
                    [] n = 3 -> F(F(F(d))) [] n = 4 -> F(F(F(F(d))))]
<1>1. PutTab(d) = h[TabWidth(d.x)]
  BY DEF PutTab
<1>2. w = G(w)
  <2> HIDE DEF F
  <2>1. \A n \in 0 .. 4 : n = 0 \/ n = 1 \/ n = 2 \/ n = 3 \/ n = 4
    OBVIOUS
  <2> QED BY <2>1
<1>3. h = G(h)
  <2> HIDE DEF w
  <2> QED BY <1>2
<1>4. /\ h[0] = d /\ h[1] = F(h[0]) /\ h[2] = F(h[1])
      /\ h[3] = F(h[2]) /\ h[4] = F(h[3])
  <2> HIDE DEF h, F
  <2> QED BY <1>3
<1> HIDE DEF h
<1> QED BY <1>1, <1>4

(* The same for the tab of the console. *)
LEMMA SpacesSteps ==
  ASSUME NEW d
  PROVE  \E h : /\ PutSpaces(d) = h[TabWidth(d.x)] /\ h[0] = d
               /\ h[1] = Put(h[0], SPACE) /\ h[2] = Put(h[1], SPACE)
               /\ h[3] = Put(h[2], SPACE) /\ h[4] = Put(h[3], SPACE)
<1> DEFINE F(e) == Put(e, SPACE)
           G(f) == [n \in 0 .. 4 |-> IF n = 0 THEN d ELSE F(f[n - 1])]
           h == CHOOSE f : f = G(f)
           w == [n \in 0 .. 4 |->
                  CASE n = 0 -> d [] n = 1 -> F(d) [] n = 2 -> F(F(d))
                    [] n = 3 -> F(F(F(d))) [] n = 4 -> F(F(F(F(d))))]
<1>1. PutSpaces(d) = h[TabWidth(d.x)]
  BY DEF PutSpaces
<1>2. w = G(w)
  <2> HIDE DEF F
  <2>1. \A n \in 0 .. 4 : n = 0 \/ n = 1 \/ n = 2 \/ n = 3 \/ n = 4
    OBVIOUS
  <2> QED BY <2>1
<1>3. h = G(h)
  <2> HIDE DEF w
  <2> QED BY <1>2
<1>4. /\ h[0] = d /\ h[1] = F(h[0]) /\ h[2] = F(h[1])
      /\ h[3] = F(h[2]) /\ h[4] = F(h[3])
  <2> HIDE DEF h, F
  <2> QED BY <1>3
<1> HIDE DEF h
<1> QED BY <1>1, <1>4

(* A tab of the driver is what one glyph is: kept on the screen, at a multiple of 4. *)
LEMMA TabFacts ==
  ASSUME NEW d \in Displays, d.x \in Columns
  PROVE  /\ PutTab(d) \in Displays /\ PutTab(d).x \in Columns /\ PutTab(d).x % 4 = 0
         /\ PutTab(d).color = d.color
         /\ \E up \in {0, 1} : Moves(d, PutTab(d), up)
<1>0. /\ VGA_WIDTH \in Nat /\ VGA_WIDTH >= 4 /\ VGA_WIDTH % 4 = 0 /\ SPACE \in Glyphs
      /\ d.x \in Nat /\ d.x < VGA_WIDTH /\ Columns = 0 .. VGA_WIDTH - 1 /\ d.x \in 0 .. VGA_WIDTH
  BY ScreenFacts DEF Displays, Columns
<1> DEFINE k == TabWidth(d.x)
<1>1. k \in 1 .. 4 /\ (d.x + k) % 4 = 0 /\ d.x + k <= VGA_WIDTH
  BY <1>0, TabWidthFacts
<1>2. PICK h : /\ PutTab(d) = h[k] /\ h[0] = d
               /\ h[1] = PutGlyph(h[0], SPACE) /\ h[2] = PutGlyph(h[1], SPACE)
               /\ h[3] = PutGlyph(h[2], SPACE) /\ h[4] = PutGlyph(h[3], SPACE)
  BY TabSteps
<1> HIDE DEF k
<1>3. ASSUME NEW n \in Nat, NEW e, Typed(d, e, n), d.x + n + 1 < VGA_WIDTH
      PROVE  Typed(d, PutGlyph(e, SPACE), n + 1)
  <2>1. e \in Displays /\ e.x = d.x + n
    BY <1>3 DEF Typed
  <2>2. e.x \in Columns /\ e.x + 1 < VGA_WIDTH
    BY <1>0, <1>3, <2>1
  <2>3. Typed(e, PutGlyph(e, SPACE), 1)
    BY <1>0, <2>1, <2>2, GlyphSteps, PutTyped
  <2> QED BY <1>3, <2>3, ThenTyped
<1>4. Typed(d, h[0], 0)
  BY <1>0, <1>2 DEF Typed
<1>5. k >= 2 => Typed(d, h[1], 1)
  <2>1. k >= 2 => d.x + 0 + 1 < VGA_WIDTH
    BY <1>0, <1>1
  <2>2. k >= 2 => Typed(d, h[1], 0 + 1)
    BY <1>2, <1>3, <1>4, <2>1
  <2> QED BY <2>2
<1>6. k >= 3 => Typed(d, h[2], 2)
  <2>1. k >= 3 => d.x + 1 + 1 < VGA_WIDTH /\ k >= 2
    BY <1>0, <1>1
  <2>2. k >= 3 => Typed(d, h[2], 1 + 1)
    BY <1>2, <1>3, <1>5, <2>1
  <2> QED BY <2>2
<1>7. k >= 4 => Typed(d, h[3], 3)
  <2>1. k >= 4 => d.x + 2 + 1 < VGA_WIDTH /\ k >= 3
    BY <1>0, <1>1
  <2>2. k >= 4 => Typed(d, h[3], 2 + 1)
    BY <1>2, <1>3, <1>6, <2>1
  <2> QED BY <2>2
<1>8. PICK n \in 0 .. 3 : k = n + 1 /\ Typed(d, h[n], n) /\ PutTab(d) = PutGlyph(h[n], SPACE)
  <2>1. k = 1 \/ k = 2 \/ k = 3 \/ k = 4
    BY <1>1
  <2>2. CASE k = 1
    BY <1>2, <1>4, <2>2
  <2>3. CASE k = 2
    BY <1>2, <1>5, <2>3
  <2>4. CASE k = 3
    BY <1>2, <1>6, <2>4
  <2>5. CASE k = 4
    BY <1>2, <1>7, <2>5
  <2> QED BY <2>1, <2>2, <2>3, <2>4, <2>5
<1> DEFINE e == h[n]
           f == PutTab(d)
<1>9. /\ e \in Displays /\ e.x = d.x + n /\ e.color = d.color /\ f = PutGlyph(e, SPACE)
      /\ Typed(d, e, n)
  BY <1>8 DEF Typed
<1> HIDE DEF e, f
<1>10. n \in Nat /\ e.x \in Columns /\ e.x + 1 = d.x + k
  BY <1>0, <1>1, <1>8, <1>9
<1>11. f \in Displays /\ f.x \in Columns /\ f.color = d.color
  BY <1>0, <1>9, <1>10, GlyphFacts
<1>12. CASE e.x + 1 < VGA_WIDTH
  <2>1. Typed(e, f, 1)
    BY <1>0, <1>9, <1>10, <1>12, GlyphSteps, PutTyped
  <2>2. Typed(d, f, n + 1)
    BY <1>9, <1>10, <2>1, ThenTyped
  <2>3. Moves(d, f, 0)
    <3>1. n + 1 \in Nat
      BY <1>10
    <3> QED BY <2>2, <3>1, TypedKeeps, TypedLeaves DEF Moves
  <2>4. f.x = d.x + k
    BY <1>8, <2>2 DEF Typed
  <2> QED BY <1>1, <1>11, <2>3, <2>4 DEF f
<1>13. CASE e.x + 1 >= VGA_WIDTH
  <2> DEFINE p == [vga_putc_at(e, SPACE) EXCEPT !.x = e.x + 1]
  <2>1. f = NewLine(p)
    BY <1>0, <1>9, <1>10, <1>13, GlyphSteps
  <2>2. Typed(e, p, 1)
    BY <1>0, <1>9, <1>10, PutTyped
  <2> HIDE DEF p
  <2>3. Typed(d, p, n + 1) /\ p \in Displays
    BY <1>9, <1>10, <2>2, ThenTyped DEF Typed
  <2>4. n + 1 \in Nat
    BY <1>10
  <2>5. Moves(d, f, Lines(d)) /\ Lines(d) \in {0, 1}
    BY <2>1, <2>3, <2>4, TypedThenNewLine, TypedThenNewLineLeaves DEF Lines, Moves
  <2>6. f.x = 0
    BY <2>1, <2>3, NewLineFacts
  <2>7. 0 % 4 = 0
    OBVIOUS
  <2> QED BY <1>11, <2>5, <2>6, <2>7 DEF f
<1> QED BY <1>0, <1>10, <1>12, <1>13

(* A tab of the console. *)
LEMMA SpacesFacts ==
  ASSUME NEW d \in Displays
  PROVE  /\ PutSpaces(d) \in Displays /\ PutSpaces(d).color = d.color
         /\ PutSpaces(d).x % 4 = 0
         /\ \E up \in {0, 1} : Moves(d, PutSpaces(d), up)
<1>0. /\ VGA_WIDTH \in Nat /\ VGA_WIDTH >= 4 /\ VGA_WIDTH % 4 = 0 /\ SPACE \in Glyphs
      /\ d.x \in 0 .. VGA_WIDTH
  BY ScreenFacts DEF Displays
<1> DEFINE k == TabWidth(d.x)
           w == Wrap(d)
<1>1. /\ k \in 1 .. 4 /\ (d.x + k) % 4 = 0
      /\ d.x < VGA_WIDTH => d.x + k <= VGA_WIDTH
      /\ d.x >= VGA_WIDTH => k = 4
  BY <1>0, TabWidthFacts
<1>2. PICK h : /\ PutSpaces(d) = h[k] /\ h[0] = d
               /\ h[1] = Put(h[0], SPACE) /\ h[2] = Put(h[1], SPACE)
               /\ h[3] = Put(h[2], SPACE) /\ h[4] = Put(h[3], SPACE)
  BY SpacesSteps
<1>3. Typed(w, h[1], 1) /\ w \in Displays /\ w.color = d.color
  BY <1>0, <1>2, PutFacts
<1> HIDE DEF k
<1>4. w.x \in Nat /\ w.x + k <= VGA_WIDTH /\ (w.x + k) % 4 = 0
  <2>1. CASE d.x >= VGA_WIDTH
    <3>1. w = NewLine(d)
      BY <2>1 DEF Wrap
    <3> HIDE DEF w
    <3>2. w.x = 0 /\ k = 4
      BY <1>1, <2>1, <3>1, NewLineFacts
    <3>3. (0 + 4) % 4 = 0
      OBVIOUS
    <3> QED BY <1>0, <3>2, <3>3
  <2>2. CASE ~(d.x >= VGA_WIDTH)
    <3>1. w = d
      BY <2>2 DEF Wrap
    <3> HIDE DEF w
    <3> QED BY <1>0, <1>1, <2>2, <3>1
  <2> QED BY <2>1, <2>2
<1> HIDE DEF w
<1>5. ASSUME NEW n \in Nat, NEW e, Typed(w, e, n), w.x + n + 1 <= VGA_WIDTH
      PROVE  Typed(w, Put(e, SPACE), n + 1)
  <2>1. e \in Displays /\ e.x = w.x + n
    BY <1>5 DEF Typed
  <2>2. Wrap(e) = e
    BY <1>0, <1>4, <1>5, <2>1 DEF Wrap
  <2>3. Typed(e, Put(e, SPACE), 1)
    <3>1. Typed(Wrap(e), Put(e, SPACE), 1)
      BY <1>0, <2>1, PutFacts
    <3> QED BY <2>2, <3>1
  <2> QED BY <1>3, <1>5, <2>3, ThenTyped
<1>6. k >= 2 => Typed(w, h[2], 2)
  <2>1. k >= 2 => w.x + 1 + 1 <= VGA_WIDTH
    BY <1>0, <1>1, <1>4
  <2>2. k >= 2 => Typed(w, h[2], 1 + 1)
    BY <1>2, <1>3, <1>5, <2>1
  <2> QED BY <2>2
<1>7. k >= 3 => Typed(w, h[3], 3)
  <2>1. k >= 3 => w.x + 2 + 1 <= VGA_WIDTH /\ k >= 2
    BY <1>0, <1>1, <1>4
  <2>2. k >= 3 => Typed(w, h[3], 2 + 1)
    BY <1>2, <1>5, <1>6, <2>1
  <2> QED BY <2>2
<1>8. k >= 4 => Typed(w, h[4], 4)
  <2>1. k >= 4 => w.x + 3 + 1 <= VGA_WIDTH /\ k >= 3
    BY <1>0, <1>1, <1>4
  <2>2. k >= 4 => Typed(w, h[4], 3 + 1)
    BY <1>2, <1>5, <1>7, <2>1
  <2> QED BY <2>2
<1>9. Typed(w, PutSpaces(d), k)
  <2>1. k = 1 \/ k = 2 \/ k = 3 \/ k = 4
    BY <1>1
  <2> QED BY <1>2, <1>3, <1>6, <1>7, <1>8, <2>1
<1>10. k \in Nat /\ k <= VGA_WIDTH
  BY <1>0, <1>1
<1>11. \E up \in {0, 1} : Moves(d, PutSpaces(d), up)
  BY <1>9, <1>10, WrapThenTyped DEF w
<1> QED BY <1>3, <1>4, <1>9, <1>11 DEF Typed

(* A backspace moves the cursor one column back at most, on its own line. *)
LEMMA BackspaceFacts ==
  ASSUME NEW d \in Displays
  PROVE  /\ Backspace(d) \in Displays /\ Backspace(d).color = d.color
         /\ d.x \in Columns => Backspace(d).x \in Columns
         /\ ChangesBack(d, Backspace(d))
<1>0. /\ VGA_WIDTH \in Nat /\ VGA_HEIGHT \in Nat /\ d.x \in 0 .. VGA_WIDTH /\ d.y \in Rows
      /\ \A r \in Rows, c \in Columns : MovedUp(d, 0)[r][c] = d.buffer[r][c]
  <2>1. \A r \in Rows : r + 0 = r
    BY ScreenFacts
  <2> QED BY <2>1, ScreenFacts DEF Displays, MovedUp
<1>1. CASE d.x > 0
  <2> DEFINE e == [d EXCEPT !.x = @ - 1]
  <2>1. VGA_WIDTH \in Nat /\ d.x \in 0 .. VGA_WIDTH /\ d.x - 1 \in Columns
        /\ d.x - 1 \in 0 .. VGA_WIDTH /\ SPACE \in Glyphs
    BY <1>1, ScreenFacts DEF Displays, Columns
  <2>2. /\ e \in Displays /\ e.x = d.x - 1 /\ e.color = d.color
        /\ e.y = d.y /\ e.buffer = d.buffer
    BY <2>1 DEF Displays
  <2>3. Backspace(d) = vga_putc_at(e, SPACE)
    BY <1>1 DEF Backspace
  <2> HIDE DEF e
  <2>4. e.x \in Columns
    BY <2>1, <2>2
  <2> DEFINE b == vga_putc_at(e, SPACE)
  <2>5. /\ b \in Displays /\ b.x = e.x /\ b.y = e.y /\ b.color = e.color
        /\ \A r \in Rows, c \in Columns :
             b.buffer[r][c] = IF r = e.y /\ c = e.x THEN <<SPACE, e.color>> ELSE e.buffer[r][c]
    BY <2>1, <2>2, <2>4, PutAt
  <2> HIDE DEF b
  <2>6. ASSUME NEW p \in (Rows \X Columns) \ Passed(b, d, 0)
        PROVE  b.buffer[p[1]][p[2]] = MovedUp(d, 0)[p[1]][p[2]]
    <3>1. /\ p[1] \in Rows /\ p[2] \in Columns
          /\ \/ p[1] < b.y - 0 \/ (p[1] = b.y - 0 /\ p[2] < b.x)
             \/ p[1] > d.y \/ (p[1] = d.y /\ p[2] >= d.x)
      BY <2>5, NotPassed
    <3>2. ~(p[1] = e.y /\ p[2] = e.x)
      BY <1>0, <2>2, <2>5, <3>1, ScreenFacts
    <3> QED BY <1>0, <2>2, <2>5, <3>1, <3>2
  <2>7. ChangesBack(d, b)
    BY <2>6 DEF ChangesBack, Leaves
  <2> QED BY <2>2, <2>3, <2>4, <2>5, <2>7 DEF b
<1>2. CASE ~(d.x > 0)
  <2>1. Backspace(d) = d
    BY <1>2 DEF Backspace
  <2>2. ChangesBack(d, d)
    BY <1>0 DEF ChangesBack, Leaves
  <2> QED BY <2>1, <2>2
<1> QED BY <1>1, <1>2

(* A return moves the cursor only. *)
LEMMA ReturnFacts ==
  ASSUME NEW d \in Displays
  PROVE  /\ [d EXCEPT !.x = 0] \in Displays /\ [d EXCEPT !.x = 0].color = d.color
         /\ [d EXCEPT !.x = 0].x = 0 /\ KeptBy(d, [d EXCEPT !.x = 0], 0)
         /\ ChangesNone(d, [d EXCEPT !.x = 0])
<1>1. VGA_WIDTH \in Nat /\ 0 \in 0 .. VGA_WIDTH
  BY ScreenFacts
<1> DEFINE e == [d EXCEPT !.x = 0]
<1>2. e \in Displays /\ e.color = d.color /\ e.x = 0 /\ e.buffer = d.buffer
  BY <1>1 DEF Displays
<1> HIDE DEF e
<1>3. \A p \in Before(d) : p[1] - 0 = p[1]
  BY ScreenFacts DEF Before
<1>4. KeptBy(d, e, 0)
  BY <1>2, <1>3 DEF KeptBy
<1>5. \A r \in Rows, c \in Columns : MovedUp(d, 0)[r][c] = d.buffer[r][c]
  <2>1. \A r \in Rows : r + 0 = r
    BY ScreenFacts
  <2> QED BY <2>1 DEF MovedUp
<1>6. Leaves(d, e, 0, {})
  BY <1>2, <1>5 DEF Leaves
<1> QED BY <1>2, <1>4, <1>6 DEF e, ChangesNone

-----------------------------------------------------------------------------
(* The displays of the two writers, and what a step of either does to them. *)

(* The type invariant in terms of the two displays. *)
LEMMA OnScreen ==
  TypeOK <=> /\ Display \in Displays /\ Terminal \in Displays
             /\ vga_cursor_x \in Columns
<1>1. \A x \in Columns : x \in 0 .. VGA_WIDTH
  BY ScreenFacts
<1> QED BY <1>1 DEF TypeOK, Display, Terminal, Displays, Cells

(* What the driver becomes is its display after the step. *)
LEMMA DriverShows ==
  ASSUME NEW d \in Displays, d.color = vga_color, Become(d)
  PROVE  Display' = d /\ vga_buffer' = d.buffer /\ vga_cursor_x' = d.x
<1>1. d = [buffer |-> d.buffer, x |-> d.x, y |-> d.y, color |-> d.color]
  BY DEF Displays
<1>2. /\ vga_buffer' = d.buffer /\ vga_cursor_x' = d.x /\ vga_cursor_y' = d.y
      /\ vga_color' = d.color
  BY DEF Become
<1>3. Display' = [buffer |-> d.buffer, x |-> d.x, y |-> d.y, color |-> d.color]
  BY <1>2 DEF Display
<1> QED BY <1>1, <1>2, <1>3

(* The console shows a display and leaves the cursor of the driver alone. *)
LEMMA ConsoleShows ==
  ASSUME NEW d \in Displays, d.color = CURRENT_COLOR, Show(d)
  PROVE  /\ Terminal' = d /\ vga_buffer' = d.buffer
         /\ vga_cursor_x' = vga_cursor_x /\ vga_cursor_y' = vga_cursor_y
         /\ vga_color' = vga_color /\ CURSOR_X' = d.x
<1>1. d = [buffer |-> d.buffer, x |-> d.x, y |-> d.y, color |-> d.color]
  BY DEF Displays
<1>2. /\ vga_buffer' = d.buffer /\ CURSOR_X' = d.x /\ CURSOR_Y' = d.y
      /\ CURRENT_COLOR' = d.color
      /\ vga_cursor_x' = vga_cursor_x /\ vga_cursor_y' = vga_cursor_y
      /\ vga_color' = vga_color
  BY DEF Show, driver
<1>3. Terminal' = [buffer |-> d.buffer, x |-> d.x, y |-> d.y, color |-> d.color]
  BY <1>2 DEF Terminal
<1> QED BY <1>1, <1>2, <1>3

(* A character of the driver leaves both displays on the screen. *)
LEMMA DriverStaysOn ==
  ASSUME TypeOK, NEW d \in Displays, d.color = vga_color, d.x \in Columns, Become(d),
         UNCHANGED console
  PROVE  TypeOK'
<1>1. Display' = d /\ vga_buffer' = d.buffer /\ vga_cursor_x' = d.x
  BY DriverShows
<1>2. /\ d.buffer \in [Rows -> [Columns -> Glyphs \X Colors]] /\ d.y \in Rows
      /\ vga_color' = vga_color /\ vga_cursor_y' = d.y
  BY DEF Displays, Cells, Become
<1> QED BY <1>1, <1>2 DEF TypeOK, console

(* The same for the console. *)
LEMMA ConsoleStaysOn ==
  ASSUME TypeOK, NEW d \in Displays, d.color = CURRENT_COLOR, Show(d)
  PROVE  TypeOK'
<1>1. /\ d.buffer \in [Rows -> [Columns -> Glyphs \X Colors]] /\ d.y \in Rows
      /\ d.x \in 0 .. VGA_WIDTH
  BY DEF Displays, Cells
<1>2. /\ vga_buffer' = d.buffer /\ CURSOR_X' = d.x /\ CURSOR_Y' = d.y
      /\ CURRENT_COLOR' = CURRENT_COLOR /\ vga_color' = vga_color
      /\ vga_cursor_x' = vga_cursor_x /\ vga_cursor_y' = vga_cursor_y
  BY DEF Show, driver
<1> QED BY <1>1, <1>2 DEF TypeOK

(* One step for each kind of character of vga_putc. *)
LEMMA DriverChar ==
  ASSUME TypeOK, vga_putc, UNCHANGED console
  PROVE  TypeOK'
<1>1. /\ Display \in Displays /\ Display.x \in Columns /\ Display.color = vga_color
  BY OnScreen DEF Display
<1>2. 0 \in Columns
  BY ScreenFacts DEF Columns
<1>3. ASSUME NEW g \in Glyphs, Glyph(g) PROVE TypeOK'
  BY <1>1, <1>3, GlyphFacts, DriverStaysOn DEF Glyph
<1>4. CASE LineFeed
  BY <1>1, <1>2, <1>4, NewLineFacts, DriverStaysOn DEF LineFeed
<1>5. CASE CarriageReturn
  BY <1>1, <1>2, <1>5, ReturnFacts, DriverStaysOn DEF CarriageReturn
<1>6. CASE Tab
  BY <1>1, <1>6, TabFacts, DriverStaysOn DEF Tab
<1>7. CASE Erase
  BY <1>1, <1>7, BackspaceFacts, DriverStaysOn DEF Erase
<1> QED BY <1>3, <1>4, <1>5, <1>6, <1>7 DEF vga_putc

(* One step for each kind of character of kputc. *)
LEMMA ConsoleChar ==
  ASSUME TypeOK, kputc
  PROVE  TypeOK'
<1>1. Terminal \in Displays /\ Terminal.color = CURRENT_COLOR
  BY OnScreen DEF Terminal
<1>2. ASSUME NEW g \in Glyphs, KGlyph(g) PROVE TypeOK'
  <2>1. /\ Typed(Wrap(Terminal), Put(Terminal, g), 1)
        /\ Wrap(Terminal).color = Terminal.color
    BY <1>1, PutFacts
  <2>2. /\ Put(Terminal, g) \in Displays
        /\ Put(Terminal, g).color = CURRENT_COLOR
    BY <1>1, <2>1 DEF Typed
  <2> QED BY <1>2, <2>2, ConsoleStaysOn DEF KGlyph
<1>3. CASE KLineFeed
  BY <1>1, <1>3, NewLineFacts, ConsoleStaysOn DEF KLineFeed
<1>4. CASE KReturn
  BY <1>1, <1>4, ReturnFacts, ConsoleStaysOn DEF KReturn
<1>5. CASE KTab
  BY <1>1, <1>5, SpacesFacts, ConsoleStaysOn DEF KTab
<1>6. CASE KErase
  BY <1>1, <1>6, BackspaceFacts, ConsoleStaysOn DEF KErase
<1> QED BY <1>2, <1>3, <1>4, <1>5, <1>6 DEF kputc

-----------------------------------------------------------------------------
(* TypeOK is inductive: every character, every request of the driver and every
   call of the console leave both cursors where the next character is written
   on the screen. *)
THEOREM ConsoleTypeCorrect == ConsoleSpec => []TypeOK
<1>1. ConsoleInit => TypeOK
  <2>1. /\ 0 \in Columns /\ 0 \in Rows /\ 0 \in 0 .. VGA_WIDTH
        /\ SPACE \in Glyphs /\ DEFAULT_COLOR \in Colors
    BY ScreenFacts DEF Columns, Rows
  <2>2. Cleared \in [Rows -> [Columns -> Glyphs \X Colors]]
    BY <2>1 DEF Cleared
  <2> QED BY <2>1, <2>2 DEF ConsoleInit, Init, TypeOK
<1>2. TypeOK /\ [ConsoleNext]_consoleVars => TypeOK'
  <2> SUFFICES ASSUME TypeOK, [ConsoleNext]_consoleVars
               PROVE  TypeOK'
    OBVIOUS
  <2>0. /\ 0 \in Columns /\ 0 \in Rows /\ 0 \in 0 .. VGA_WIDTH
        /\ SPACE \in Glyphs /\ DEFAULT_COLOR \in Colors
    BY ScreenFacts DEF Columns, Rows
  <2>1. CASE kputc
    BY <2>1, ConsoleChar
  <2>2. ASSUME NEW c \in Colors, kset_color(c) PROVE TypeOK'
    BY <2>2 DEF kset_color, TypeOK, vars
  <2>3. CASE kclear_screen
    <3>1. vga_buffer' \in [Rows -> [Columns -> Glyphs \X Colors]]
      BY <2>0, <2>3 DEF kclear_screen, TypeOK
    <3> QED BY <2>0, <2>3, <3>1 DEF kclear_screen, TypeOK, driver
  <2>4. CASE vga_putc /\ UNCHANGED console
    BY <2>4, DriverChar
  <2>5. CASE vga_driver_ioctl /\ UNCHANGED console
    BY <2>0, <2>5 DEF vga_driver_ioctl, SetColor, SetX, SetY, Home, TypeOK, console
  <2>6. CASE vga_driver_init /\ UNCHANGED console
    <3>1. Cleared \in [Rows -> [Columns -> Glyphs \X Colors]]
      BY <2>0 DEF Cleared
    <3> QED BY <2>0, <2>6, <3>1 DEF vga_driver_init, TypeOK, console
  <2>7. CASE UNCHANGED consoleVars
    BY <2>7 DEF consoleVars, vars, console, TypeOK
  <2> QED BY <2>1, <2>2, <2>3, <2>4, <2>5, <2>6, <2>7 DEF ConsoleNext, Next
<1> QED BY <1>1, <1>2, PTL DEF ConsoleSpec

(* KeptBy some number of lines is what the property says. *)
LEMMA Keeps ==
  ASSUME NEW d, NEW e
  PROVE  /\ (\E up \in {0, 1} : KeptBy(d, e, up)) => Kept(d, e)
         /\ (\E up \in {0, 1} : Moves(d, e, up)) => Kept(d, e) /\ ChangesPassed(d, e)
BY DEF Kept, KeptBy, Moves, ChangesPassed

(* No character but a backspace changes what its writer had put before its own
   cursor, except that the screen moves up by a line when the cursor leaves the
   last one: whatever wraps, in vga_putc and in kputc. *)
THEOREM TextIsKept == ConsoleSpec => TextKept
<1> DEFINE A == /\ vga_putc /\ ~Erase => Kept(Display, Display')
                /\ kputc /\ ~KErase => Kept(Terminal, Terminal')
<1>1. TypeOK /\ [ConsoleNext]_consoleVars => A
  <2> SUFFICES ASSUME TypeOK PROVE A
    OBVIOUS
  <2>1. /\ Display \in Displays /\ Display.x \in Columns /\ Display.color = vga_color
        /\ Terminal \in Displays /\ Terminal.color = CURRENT_COLOR
    BY OnScreen DEF Display, Terminal
  <2>2. ASSUME NEW d \in Displays
        PROVE  \E up \in {0, 1} : KeptBy(d, NewLine(d), up)
    <3>1. Typed(d, d, 0)
      BY ScreenFacts DEF Typed, Displays
    <3>2. KeptBy(d, NewLine(d), Lines(d)) /\ Lines(d) \in {0, 1}
      BY <3>1, TypedThenNewLine DEF Lines
    <3> QED BY <3>2
  <2>3. ASSUME vga_putc, ~Erase PROVE Kept(Display, Display')
    <3>1. ASSUME NEW d \in Displays, d.color = vga_color, Become(d),
                 (\E up \in {0, 1} : KeptBy(Display, d, up))
                   \/ (\E up \in {0, 1} : Moves(Display, d, up))
          PROVE  Kept(Display, Display')
      <4>1. Display' = d
        BY <3>1, DriverShows
      <4>2. Kept(Display, d)
        BY <3>1, Keeps
      <4> QED BY <4>1, <4>2
    <3>2. ASSUME NEW g \in Glyphs, Glyph(g) PROVE Kept(Display, Display')
      BY <2>1, <3>1, <3>2, GlyphFacts DEF Glyph
    <3>3. CASE LineFeed
      BY <2>1, <2>2, <3>1, <3>3, NewLineFacts DEF LineFeed
    <3>4. CASE CarriageReturn
      BY <2>1, <3>1, <3>4, ReturnFacts DEF CarriageReturn
    <3>5. CASE Tab
      BY <2>1, <3>1, <3>5, TabFacts DEF Tab
    <3> QED BY <2>3, <3>2, <3>3, <3>4, <3>5 DEF vga_putc
  <2>4. ASSUME kputc, ~KErase PROVE Kept(Terminal, Terminal')
    <3>1. ASSUME NEW d \in Displays, d.color = CURRENT_COLOR, Show(d),
                 (\E up \in {0, 1} : KeptBy(Terminal, d, up))
                   \/ (\E up \in {0, 1} : Moves(Terminal, d, up))
          PROVE  Kept(Terminal, Terminal')
      <4>1. Terminal' = d
        BY <3>1, ConsoleShows
      <4>2. Kept(Terminal, d)
        BY <3>1, Keeps
      <4> QED BY <4>1, <4>2
    <3>2. ASSUME NEW g \in Glyphs, KGlyph(g) PROVE Kept(Terminal, Terminal')
      <4>1. /\ Typed(Wrap(Terminal), Put(Terminal, g), 1)
            /\ Wrap(Terminal).color = Terminal.color
        BY <2>1, PutFacts
      <4>2. /\ Put(Terminal, g) \in Displays
            /\ Put(Terminal, g).color = CURRENT_COLOR
        BY <2>1, <4>1 DEF Typed
      <4>3. \E up \in {0, 1} : Moves(Terminal, Put(Terminal, g), up)
        BY <2>1, <4>1, ScreenFacts, WrapThenTyped
      <4> QED BY <3>1, <3>2, <4>2, <4>3 DEF KGlyph
    <3>3. CASE KLineFeed
      BY <2>1, <2>2, <3>1, <3>3, NewLineFacts DEF KLineFeed
    <3>4. CASE KReturn
      BY <2>1, <3>1, <3>4, ReturnFacts DEF KReturn
    <3>5. CASE KTab
      BY <2>1, <3>1, <3>5, SpacesFacts DEF KTab
    <3> QED BY <2>4, <3>2, <3>3, <3>4, <3>5 DEF kputc
  <2> QED BY <2>3, <2>4
<1> QED BY <1>1, ConsoleTypeCorrect, PTL DEF ConsoleSpec, TextKept

(* Whatever it wraps or scrolls, a character just written is on the screen, in
   the cell before the cursor of its writer. *)
THEOREM GlyphsAreVisible == ConsoleSpec => GlyphVisible
<1> DEFINE A == \A g \in Glyphs :
                  /\ Glyph(g) => CellBefore(Display') = <<g, vga_color>>
                  /\ KGlyph(g) => CellBefore(Terminal') = <<g, CURRENT_COLOR>>
<1>1. TypeOK /\ [ConsoleNext]_consoleVars => A
  <2> SUFFICES ASSUME TypeOK, NEW g \in Glyphs
               PROVE  /\ Glyph(g) => CellBefore(Display') = <<g, vga_color>>
                      /\ KGlyph(g) => CellBefore(Terminal') = <<g, CURRENT_COLOR>>
    OBVIOUS
  <2>1. /\ Display \in Displays /\ Display.x \in Columns /\ Display.color = vga_color
        /\ Terminal \in Displays /\ Terminal.color = CURRENT_COLOR
    BY OnScreen DEF Display, Terminal
  <2>2. ASSUME Glyph(g) PROVE CellBefore(Display') = <<g, vga_color>>
    <3>1. /\ PutGlyph(Display, g) \in Displays /\ PutGlyph(Display, g).color = vga_color
          /\ CellBefore(PutGlyph(Display, g)) = <<g, vga_color>>
      BY <2>1, GlyphFacts DEF Shown
    <3>2. Display' = PutGlyph(Display, g)
      BY <2>2, <3>1, DriverShows DEF Glyph
    <3> QED BY <3>1, <3>2
  <2>3. ASSUME KGlyph(g) PROVE CellBefore(Terminal') = <<g, CURRENT_COLOR>>
    <3>1. /\ Put(Terminal, g) \in Displays /\ Put(Terminal, g).color = CURRENT_COLOR
          /\ CellBefore(Put(Terminal, g)) = <<g, CURRENT_COLOR>>
      BY <2>1, PutFacts DEF Shown, Typed
    <3>2. Terminal' = Put(Terminal, g)
      BY <2>3, <3>1, ConsoleShows DEF KGlyph
    <3> QED BY <3>1, <3>2
  <2> QED BY <2>2, <2>3
<1> QED BY <1>1, ConsoleTypeCorrect, PTL DEF ConsoleSpec, GlyphVisible

(* On the screen that the two writers share, a character changes the cells that
   its own cursor passes and no others, apart from moving the screen up by a line
   above a blank one: the text of the other writer is lost nowhere else. *)
THEOREM ChangesOnlyItsCells == ConsoleSpec => OnlyItsCells
<1> DEFINE A ==
      /\ (\E g \in Glyphs : Glyph(g)) \/ Tab => ChangesPassed(Display, Display')
      /\ LineFeed \/ CarriageReturn => ChangesNone(Display, Display')
      /\ Erase => ChangesBack(Display, Display')
      /\ (\E g \in Glyphs : KGlyph(g)) \/ KTab => ChangesPassed(Terminal, Terminal')
      /\ KLineFeed \/ KReturn => ChangesNone(Terminal, Terminal')
      /\ KErase => ChangesBack(Terminal, Terminal')
<1>1. TypeOK /\ [ConsoleNext]_consoleVars => A
  <2> SUFFICES ASSUME TypeOK PROVE A
    OBVIOUS
  <2>1. /\ Display \in Displays /\ Display.x \in Columns /\ Display.color = vga_color
        /\ Terminal \in Displays /\ Terminal.color = CURRENT_COLOR
    BY OnScreen DEF Display, Terminal
  <2>2. ASSUME NEW d \in Displays PROVE ChangesNone(d, NewLine(d))
    BY NewLineLeaves DEF ChangesNone
  <2>3. ASSUME NEW g \in Glyphs, Glyph(g) PROVE ChangesPassed(Display, Display')
    <3>1. /\ PutGlyph(Display, g) \in Displays /\ PutGlyph(Display, g).color = vga_color
          /\ \E up \in {0, 1} : Moves(Display, PutGlyph(Display, g), up)
      BY <2>1, GlyphFacts
    <3>2. Display' = PutGlyph(Display, g)
      BY <2>3, <3>1, DriverShows DEF Glyph
    <3>3. ChangesPassed(Display, PutGlyph(Display, g))
      BY <3>1, Keeps
    <3> QED BY <3>2, <3>3
  <2>4. ASSUME Tab PROVE ChangesPassed(Display, Display')
    <3>1. /\ PutTab(Display) \in Displays /\ PutTab(Display).color = vga_color
          /\ \E up \in {0, 1} : Moves(Display, PutTab(Display), up)
      BY <2>1, TabFacts
    <3>2. Display' = PutTab(Display)
      BY <2>4, <3>1, DriverShows DEF Tab
    <3>3. ChangesPassed(Display, PutTab(Display))
      BY <3>1, Keeps
    <3> QED BY <3>2, <3>3
  <2>5. ASSUME LineFeed PROVE ChangesNone(Display, Display')
    <3>1. Display' = NewLine(Display)
      BY <2>1, <2>5, NewLineFacts, DriverShows DEF LineFeed
    <3> QED BY <2>1, <2>2, <3>1
  <2>6. ASSUME CarriageReturn PROVE ChangesNone(Display, Display')
    <3>1. Display' = [Display EXCEPT !.x = 0]
      BY <2>1, <2>6, ReturnFacts, DriverShows DEF CarriageReturn
    <3> QED BY <2>1, <3>1, ReturnFacts
  <2>7. ASSUME Erase PROVE ChangesBack(Display, Display')
    <3>1. Display' = Backspace(Display)
      BY <2>1, <2>7, BackspaceFacts, DriverShows DEF Erase
    <3> QED BY <2>1, <3>1, BackspaceFacts
  <2>8. ASSUME NEW g \in Glyphs, KGlyph(g) PROVE ChangesPassed(Terminal, Terminal')
    <3>1. /\ Typed(Wrap(Terminal), Put(Terminal, g), 1)
          /\ Wrap(Terminal).color = Terminal.color
      BY <2>1, PutFacts
    <3>2. Put(Terminal, g) \in Displays /\ Put(Terminal, g).color = CURRENT_COLOR
      BY <2>1, <3>1 DEF Typed
    <3>3. \E up \in {0, 1} : Moves(Terminal, Put(Terminal, g), up)
      BY <2>1, <3>1, ScreenFacts, WrapThenTyped
    <3>4. Terminal' = Put(Terminal, g)
      BY <2>8, <3>2, ConsoleShows DEF KGlyph
    <3>5. ChangesPassed(Terminal, Put(Terminal, g))
      BY <3>3, Keeps
    <3> QED BY <3>4, <3>5
  <2>9. ASSUME KTab PROVE ChangesPassed(Terminal, Terminal')
    <3>1. /\ PutSpaces(Terminal) \in Displays /\ PutSpaces(Terminal).color = CURRENT_COLOR
          /\ \E up \in {0, 1} : Moves(Terminal, PutSpaces(Terminal), up)
      BY <2>1, SpacesFacts
    <3>2. Terminal' = PutSpaces(Terminal)
      BY <2>9, <3>1, ConsoleShows DEF KTab
    <3>3. ChangesPassed(Terminal, PutSpaces(Terminal))
      BY <3>1, Keeps
    <3> QED BY <3>2, <3>3
  <2>10. ASSUME KLineFeed PROVE ChangesNone(Terminal, Terminal')
    <3>1. Terminal' = NewLine(Terminal)
      BY <2>1, <2>10, NewLineFacts, ConsoleShows DEF KLineFeed
    <3> QED BY <2>1, <2>2, <3>1
  <2>11. ASSUME KReturn PROVE ChangesNone(Terminal, Terminal')
    <3>1. Terminal' = [Terminal EXCEPT !.x = 0]
      BY <2>1, <2>11, ReturnFacts, ConsoleShows DEF KReturn
    <3> QED BY <2>1, <3>1, ReturnFacts
  <2>12. ASSUME KErase PROVE ChangesBack(Terminal, Terminal')
    <3>1. Terminal' = Backspace(Terminal)
      BY <2>1, <2>12, BackspaceFacts, ConsoleShows DEF KErase
    <3> QED BY <2>1, <3>1, BackspaceFacts
  <2> QED BY <2>3, <2>4, <2>5, <2>6, <2>7, <2>8, <2>9, <2>10, <2>11, <2>12
<1> QED BY <1>1, ConsoleTypeCorrect, PTL DEF ConsoleSpec, OnlyItsCells

(* A tab ends at a multiple of 4, whether its writer wraps before or after the
   last column. *)
THEOREM TabsAlign == ConsoleSpec => TabAligns
<1> DEFINE A == /\ Tab => vga_cursor_x' % 4 = 0
                /\ KTab => CURSOR_X' % 4 = 0
<1>1. TypeOK /\ [ConsoleNext]_consoleVars => A
  <2> SUFFICES ASSUME TypeOK PROVE A
    OBVIOUS
  <2>1. Display \in Displays /\ Display.x \in Columns /\ Terminal \in Displays
    BY OnScreen DEF Display
  <2>2. Tab => vga_cursor_x' = PutTab(Display).x
    BY DEF Tab, Become
  <2>3. KTab => CURSOR_X' = PutSpaces(Terminal).x
    BY DEF KTab, Show
  <2> QED BY <2>1, <2>2, <2>3, TabFacts, SpacesFacts
<1> QED BY <1>1, ConsoleTypeCorrect, PTL DEF ConsoleSpec, TabAligns
=============================================================================
