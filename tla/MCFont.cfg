SPECIFICATION Spec
CONSTANTS
  Fonts <- MCFonts
  HeaderSize = 4
  Count = 8
  GlyphRows = 4
  Chars <- MCChars
INVARIANTS
  TypeOK
  ReadsInside
  ShowsFont
\* A halt is a real stop.
CHECK_DEADLOCK FALSE
