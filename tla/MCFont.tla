------------------------------- MODULE MCFont -------------------------------
(***************************************************************************)
(* Fonts of eight glyphs (or sixteen), of no row up to more rows than      *)
(* print_char draws, that end in the header, in a glyph or behind all.     *)
(***************************************************************************)
EXTENDS Font

MCFonts ==
  [length: {0, 1, 2, 3, 4, 5, 11, 12, 20, 36, 44, 68}, magic: BOOLEAN, mode: 0..3,
   height: {0, 1, 3, 4, 5}]

MCChars == -4..3
=============================================================================
