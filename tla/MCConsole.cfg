SPECIFICATION ConsoleSpec
CONSTANTS
  FB_WIDTH = 7
  FB_HEIGHT = 5
  GLYPH_W = 2
  GLYPH_H = 2
  TAB_STOP = 2
  Glyphs = {"x", "y"}
  Chars <- AllChars
INVARIANTS
  OneCursor
  GlyphsWhole
PROPERTIES
  RefinesTerminal
