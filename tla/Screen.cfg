CONSTANTS
  VGA_WIDTH = 4
  VGA_HEIGHT = 2
  Glyphs <- MCGlyphs
  Colors = {7, 15}
  DEFAULT_COLOR = 15
SPECIFICATION ConsoleSpec
INVARIANT TypeOK
PROPERTIES TextKept GlyphVisible OnlyItsCells TabAligns
