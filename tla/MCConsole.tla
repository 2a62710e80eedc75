----------------------------- MODULE MCConsole ------------------------------
(***************************************************************************)
(* A small font for Console: a blank, a full and a half glyph of two rows. *)
(***************************************************************************)
EXTENDS Console

MCChars == {"blank", "full", "half"}

MCGlyph ==
  [char \in MCChars |->
     CASE char = "blank" -> {}
       [] char = "full" -> (0..(GlyphRows - 1)) \X (0..(GlyphCols - 1))
       [] char = "half" -> {<<GlyphRows - 1, GlyphCols - 1>>}]
=============================================================================
