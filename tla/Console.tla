------------------------------ MODULE Console -------------------------------
(***************************************************************************)
(* The kernel console of lib/libk/src/stdio.rs on the screen it shares     *)
(* with the display driver: a second cursor and a second colour, which     *)
(* kputs, kprintf and the panic screen use.  A step is one kputc, or one   *)
(* character of the driver.  The byte 0 that stdio.rs fills a line with    *)
(* shows as a blank and is SPACE here; the copy of each character on the   *)
(* serial line is left out.                                                *)
(***************************************************************************)
EXTENDS Vga

VARIABLES CURSOR_X, CURSOR_Y, CURRENT_COLOR

console     == <<CURSOR_X, CURSOR_Y, CURRENT_COLOR>>
driver      == <<vga_cursor_x, vga_cursor_y, vga_color>>
consoleVars == <<vars, console>>

ConsoleInit == Init /\ CURSOR_X = 0 /\ CURSOR_Y = 0 /\ CURRENT_COLOR = DEFAULT_COLOR

-----------------------------------------------------------------------------
Terminal == [buffer |-> vga_buffer, x |-> CURSOR_X, y |-> CURSOR_Y, color |-> CURRENT_COLOR]

(* The console wraps before it writes, so its cursor may rest one column
   beyond the last. *)
Wrap(d) == IF d.x >= VGA_WIDTH THEN NewLine(d) ELSE d

PutOrWrap(d, g) ==
  IF d.x >= VGA_WIDTH THEN NewLine(d) ELSE [vga_putc_at(d, g) EXCEPT !.x = d.x + 1]
Put(d, g) == LET e == Wrap(d) IN [vga_putc_at(e, g) EXCEPT !.x = e.x + 1]

PutSpaces(d) ==
  LET spaces[n \in 0 .. 4] == IF n = 0 THEN d ELSE Put(spaces[n - 1], SPACE)
  IN  spaces[TabWidth(d.x)]

Show(d) ==
  /\ vga_buffer' = d.buffer /\ CURSOR_X' = d.x /\ CURSOR_Y' = d.y
  /\ UNCHANGED <<CURRENT_COLOR, driver>>

KGlyph(g)  == Show(Put(Terminal, g))
KLineFeed  == Show(NewLine(Terminal))
KReturn    == Show([Terminal EXCEPT !.x = 0])
KTab       == Show(PutSpaces(Terminal))
KErase     == Show(Backspace(Terminal))

kputc == (\E g \in Glyphs : KGlyph(g)) \/ KLineFeed \/ KReturn \/ KTab \/ KErase

kset_color(c) ==
  /\ CURRENT_COLOR' = c
  /\ UNCHANGED <<vars, CURSOR_X, CURSOR_Y>>

kclear_screen ==
  /\ vga_buffer' = [y \in Rows |-> [x \in Columns |-> <<SPACE, CURRENT_COLOR>>]]
  /\ CURSOR_X' = 0 /\ CURSOR_Y' = 0
  /\ UNCHANGED <<CURRENT_COLOR, driver>>

ConsoleNext ==
  \/ kputc
  \/ \E c \in Colors : kset_color(c)
  \/ kclear_screen
  \/ Next /\ UNCHANGED console

ConsoleSpec == ConsoleInit /\ [][ConsoleNext]_consoleVars

-----------------------------------------------------------------------------
(* No character, wrapping tabs included, leaves either cursor where the next one
   would be written outside the screen. *)
TypeOK ==
  /\ vga_buffer \in [Rows -> [Columns -> Glyphs \X Colors]]
  /\ vga_cursor_x \in Columns /\ vga_cursor_y \in Rows /\ vga_color \in Colors
  /\ CURSOR_X \in 0 .. VGA_WIDTH /\ CURSOR_Y \in Rows /\ CURRENT_COLOR \in Colors

(* What either of the two writes changes nothing before its own cursor, above
   it and left of it, except that the whole screen moves up by one line when the
   cursor leaves the last one: no line is lost but the first, whatever wraps. *)
Before(d) == {p \in Rows \X Columns : p[1] < d.y \/ (p[1] = d.y /\ p[2] < d.x)}

Kept(d, e) ==
  \E up \in {0, 1} :
    /\ up = 1 => d.y = VGA_HEIGHT - 1 /\ e.x <= d.x
    /\ \A p \in Before(d) : p[1] >= up => e.buffer[p[1] - up][p[2]] = d.buffer[p[1]][p[2]]

TextKept ==
  [][/\ vga_putc /\ ~Erase => Kept(Display, Display')
     /\ kputc /\ ~KErase => Kept(Terminal, Terminal')]_consoleVars

(* A character that has just been written is on the screen, in the cell before
   the cursor of its writer, also when writing it wrapped and scrolled. *)
CellBefore(d) == IF d.x > 0 THEN d.buffer[d.y][d.x - 1] ELSE d.buffer[d.y - 1][VGA_WIDTH - 1]

GlyphVisible ==
  [][\A g \in Glyphs :
       /\ Glyph(g) => CellBefore(Display') = <<g, vga_color>>
       /\ KGlyph(g) => CellBefore(Terminal') = <<g, CURRENT_COLOR>>]_consoleVars

(* A character changes nothing after its cursor either: of the screen that the
   two share, a glyph or a tab changes only the cells between the old cursor and the
   new one, a backspace the cell it goes back over, a line feed and a return
   none.  The rest, whoever wrote it, stays or moves up by one line, above a line
   that is blank in the colour of the writer that scrolled. *)
MovedUp(d, up) ==
  [y \in Rows |-> [x \in Columns |-> IF y + up \in Rows THEN d.buffer[y + up][x]
                                                     ELSE <<SPACE, d.color>>]]

Passed(d, e, up) ==
  {p \in Rows \X Columns : /\ p[1] > d.y - up \/ (p[1] = d.y - up /\ p[2] >= d.x)
                           /\ p[1] < e.y \/ (p[1] = e.y /\ p[2] < e.x)}

Leaves(d, e, up, changed) ==
  /\ up = 1 => d.y = VGA_HEIGHT - 1
  /\ \A p \in (Rows \X Columns) \ changed : e.buffer[p[1]][p[2]] = MovedUp(d, up)[p[1]][p[2]]

ChangesPassed(d, e) == \E up \in {0, 1} : Leaves(d, e, up, Passed(d, e, up))
ChangesNone(d, e)   == \E up \in {0, 1} : Leaves(d, e, up, {})
ChangesBack(d, e)   == Leaves(d, e, 0, Passed(e, d, 0))

OnlyItsCells ==
  [][/\ (\E g \in Glyphs : Glyph(g)) \/ Tab => ChangesPassed(Display, Display')
     /\ LineFeed \/ CarriageReturn => ChangesNone(Display, Display')
     /\ Erase => ChangesBack(Display, Display')
     /\ (\E g \in Glyphs : KGlyph(g)) \/ KTab => ChangesPassed(Terminal, Terminal')
     /\ KLineFeed \/ KReturn => ChangesNone(Terminal, Terminal')
     /\ KErase => ChangesBack(Terminal, Terminal')]_consoleVars

(* A tab ends at a multiple of 4, also one that wraps: columns line up, whether
   the writer wraps before or after the last column. *)
TabAligns ==
  [][/\ Tab => vga_cursor_x' % 4 = 0
     /\ KTab => CURSOR_X' % 4 = 0]_consoleVars
=============================================================================
