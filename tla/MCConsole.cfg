\* Three lines of two characters, a line and a column to spare, and a
\* scaled font, without padding.
SPECIFICATION Spec
CONSTANTS
  Width = 5
  Height = 16
  Ppsl = 5
  Scale = 2
  FontHeight = 2
  GlyphRows = 2
  GlyphCols = 1
  Chars <- MCChars
  Glyph <- MCGlyph
  Behind = "black"
  MaxChars = 8
INVARIANTS
  TypeOK
  CursorInside
  DrawInside
PROPERTIES
  ShowsText
\* start returns: a real stop.
CHECK_DEADLOCK FALSE
