-------------------------------- MODULE Vga ---------------------------------
(***************************************************************************)
(* The text display of kernel/drv/drv_vga.c: a screen of cells, a cursor   *)
(* and a colour.  A write is one vga_putc after another and nothing else   *)
(* looks at the driver in between, so a step is one character.             *)
(*                                                                         *)
(* The cursor is set through vga_driver_ioctl, which does not check it:    *)
(* the callers here stay on the screen.                                    *)
(***************************************************************************)
EXTENDS Integers

CONSTANTS
  VGA_WIDTH, VGA_HEIGHT,
  Glyphs,            \* the characters that are not control characters
  Colors, DEFAULT_COLOR

SPACE == " "

ASSUME VgaAssumption ==
  /\ VGA_WIDTH \in Nat \ {0} /\ VGA_WIDTH % 4 = 0
  /\ VGA_HEIGHT \in Nat \ {0, 1}
  /\ SPACE \in Glyphs /\ DEFAULT_COLOR \in Colors

Rows    == 0 .. VGA_HEIGHT - 1
Columns == 0 .. VGA_WIDTH - 1

VARIABLES vga_buffer, vga_cursor_x, vga_cursor_y, vga_color

vars == <<vga_buffer, vga_cursor_x, vga_cursor_y, vga_color>>

Cleared == [y \in Rows |-> [x \in Columns |-> <<SPACE, DEFAULT_COLOR>>]]

Init ==
  /\ vga_buffer = Cleared
  /\ vga_cursor_x = 0 /\ vga_cursor_y = 0
  /\ vga_color = DEFAULT_COLOR

-----------------------------------------------------------------------------
(* What one character does to a display d: a buffer, a cursor and a colour. *)

Display == [buffer |-> vga_buffer, x |-> vga_cursor_x, y |-> vga_cursor_y, color |-> vga_color]

ScrolledNotMoved(d) ==
  [d.buffer EXCEPT ![VGA_HEIGHT - 1] = [x \in Columns |-> <<SPACE, d.color>>]]
ScrolledInPlace(d) ==
  [y \in Rows |-> IF y < VGA_HEIGHT - 1 THEN d.buffer[y + 1] ELSE d.buffer[y]]
Scrolled(d) ==
  [y \in Rows |-> IF y < VGA_HEIGHT - 1 THEN d.buffer[y + 1]
                                        ELSE [x \in Columns |-> <<SPACE, d.color>>]]

vga_scrollLate(d) ==
  IF d.y <= VGA_HEIGHT THEN d ELSE [d EXCEPT !.buffer = Scrolled(d), !.y = VGA_HEIGHT - 1]
vga_scroll(d) ==
  IF d.y < VGA_HEIGHT THEN d ELSE [d EXCEPT !.buffer = Scrolled(d), !.y = VGA_HEIGHT - 1]

NewLine(d) == vga_scroll([d EXCEPT !.x = 0, !.y = @ + 1])

vga_putc_at(d, g) == [d EXCEPT !.buffer[d.y][d.x] = <<g, d.color>>]

(* The driver wraps after the last column. *)
PutGlyph(d, g) ==
  LET put == vga_putc_at(d, g)
  IN  IF d.x + 1 >= VGA_WIDTH THEN NewLine(put) ELSE [put EXCEPT !.x = @ + 1]

TabWidthFull(x) == 4
TabWidth(x) == 4 - (x % 4)

PutTab(d) ==
  LET spaces[n \in 0 .. 4] == IF n = 0 THEN d ELSE PutGlyph(spaces[n - 1], SPACE)
  IN  spaces[TabWidth(d.x)]

Backspace(d) == IF d.x > 0 THEN vga_putc_at([d EXCEPT !.x = @ - 1], SPACE) ELSE d

-----------------------------------------------------------------------------
Become(d) ==
  /\ vga_buffer' = d.buffer /\ vga_cursor_x' = d.x /\ vga_cursor_y' = d.y
  /\ UNCHANGED vga_color

Glyph(g)       == Become(PutGlyph(Display, g))
LineFeed       == Become(NewLine(Display))
CarriageReturn == Become([Display EXCEPT !.x = 0])
Tab            == Become(PutTab(Display))
Erase          == Become(Backspace(Display))

vga_putc == (\E g \in Glyphs : Glyph(g)) \/ LineFeed \/ CarriageReturn \/ Tab \/ Erase

SetColor(c) == vga_color' = c /\ UNCHANGED <<vga_buffer, vga_cursor_x, vga_cursor_y>>
SetX(x)     == vga_cursor_x' = x /\ UNCHANGED <<vga_buffer, vga_cursor_y, vga_color>>
SetY(y)     == vga_cursor_y' = y /\ UNCHANGED <<vga_buffer, vga_cursor_x, vga_color>>
Home        == vga_cursor_x' = 0 /\ vga_cursor_y' = 0 /\ UNCHANGED <<vga_buffer, vga_color>>

vga_driver_ioctl ==
  \/ \E c \in Colors : SetColor(c)
  \/ \E x \in Columns : SetX(x)
  \/ \E y \in Rows : SetY(y)
  \/ Home

vga_driver_init ==
  /\ vga_buffer' = Cleared
  /\ vga_cursor_x' = 0 /\ vga_cursor_y' = 0 /\ vga_color' = DEFAULT_COLOR

Next == vga_putc \/ vga_driver_ioctl \/ vga_driver_init

Spec == Init /\ [][Next]_vars

=============================================================================
