SPECIFICATION IrqSpec
CONSTANTS
  FB_WIDTH = 2
  FB_HEIGHT = 5
  GLYPH_W = 1
  GLYPH_H = 2
  TAB_STOP = 2
  Glyphs = {"x"}
  Chars <- SmallChars
  Message <- SmallMessage
  Keys <- SmallKeys
  MaxKeys = 3
  MaxBeats = 1
INVARIANTS
  OnGridAtRest
  SerialLossless
PROPERTIES
  KprintEnds
