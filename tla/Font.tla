-------------------------------- MODULE Font --------------------------------
(***************************************************************************)
(* The font's way from its file to the screen: EfiLoadFont of              *)
(* src/efi_main.c byte by byte, and what print_char of src/kernel.c reads  *)
(* through the pointer it is given.  The two agree on nothing but that     *)
(* pointer and the header (PSF1_Font of src/bootloader.h).                 *)
(*                                                                         *)
(* The file is not checked beyond its magic number: it may end anywhere,   *)
(* and its mode and height are any bytes.  A released halt is Boot's       *)
(* subject, the pixels are Console's.                                      *)
(***************************************************************************)
EXTENDS Integers

CONSTANTS
  Fonts,       \* the files: [length, magic, mode, height]
  HeaderSize,  \* 4, sizeof(PSF1_Header)
  Count,       \* 256, the glyphs of a font whose mode is not 1
  GlyphRows,   \* the 16 of print_char
  Chars        \* the values of a char, which is signed

ASSUME FontAssumption ==
  /\ HeaderSize \in Nat /\ HeaderSize >= 3
  /\ Count \in Nat /\ GlyphRows \in Nat
  /\ Fonts \subseteq [length: Nat, magic: BOOLEAN, mode: Nat, height: Nat]
  /\ Chars \subseteq Int
  /\ \A char \in Chars : char + GlyphRows <= Count

VARIABLES
  pc,         \* the next step, in the loader and then in the kernel
  file,       \* the file default-font.psf
  position,   \* where its next Read starts
  header,     \* font.header, all zeros at first
  size,       \* the local of EfiLoadFont
  glyphs,     \* what font.glyphs points to
  character,  \* the argument of print_char, its pointer and its loop variable
  glyph,
  row

locals == <<character, glyph, row>>
vars == <<pc, file, position, header, size, glyphs, locals>>

(***************************************************************************)
(* A cell of the glyphs holds a byte of the file, or what the pool had.    *)
(***************************************************************************)
Byte(n) == <<"file", n>>
Junk == <<"junk", 0>>
Outside == <<"outside", 0>>

TypeOK ==
  /\ pc \in {"header", "seek", "allocate", "read", "kernel", "draw", "halted"}
  /\ file \in Fonts
  /\ position \in Nat
  /\ header \in [mode: Nat, height: Nat]
  /\ size \in Nat
  /\ glyphs \in [0..(size - 1) -> {Junk} \cup {Byte(n) : n \in 0..(file.length - 1)}]
               \cup {<< >>}
  /\ character \in Int /\ glyph \in Int
  /\ row \in 0..GlyphRows

Init ==
  /\ pc = "header"
  /\ file \in Fonts
  /\ position = 0
  /\ header = [mode |-> 0, height |-> 0]
  /\ size = 0
  /\ glyphs = << >>
  /\ character = 0 /\ glyph = 0 /\ row = 0
-----------------------------------------------------------------------------
(***************************************************************************)
(* EFI_ASSERT of a call that failed, or a wrong magic number.              *)
(***************************************************************************)
Halt ==
  /\ pc \in {"header", "seek", "allocate", "read"}
  /\ pc' = "halted"
  /\ UNCHANGED <<file, position, header, size, glyphs, locals>>

(***************************************************************************)
(* A Read delivers what there is: a short header keeps its zeros.          *)
(***************************************************************************)
Delivered(wanted) ==
  IF position + wanted <= file.length THEN wanted ELSE file.length - position

ReadHeader ==
  /\ pc = "header"
  /\ file.length >= 2 /\ file.magic
  /\ header' = [mode   |-> IF file.length > 2 THEN file.mode ELSE 0,
                height |-> IF file.length > 3 THEN file.height ELSE 0]
  /\ position' = Delivered(HeaderSize)
  /\ pc' = "seek"
  /\ UNCHANGED <<file, size, glyphs, locals>>

(***************************************************************************)
(* The mode is a set of flags, of which this looks at one combination.     *)
(* Mutant: as if half of the glyphs were enough.                           *)
(***************************************************************************)
GlyphBytesHalf == header.height * (Count \div 2)
GlyphBytes == header.height * (IF header.mode = 1 THEN 2 * Count ELSE Count)

(***************************************************************************)
(* Mutant: the glyphs are read from the beginning of the file.             *)
(***************************************************************************)
GlyphsAtStart == 0
GlyphsAt == HeaderSize

SetPosition ==
  /\ pc = "seek"
  /\ size' = GlyphBytes
  /\ position' = GlyphsAt
  /\ pc' = "allocate"
  /\ UNCHANGED <<file, header, glyphs, locals>>

AllocateGlyphs ==
  /\ pc = "allocate"
  /\ glyphs' = [k \in 0..(size - 1) |-> Junk]
  /\ pc' = "read"
  /\ UNCHANGED <<file, position, header, size, locals>>

(***************************************************************************)
(* A Read from behind the end of the file fails; one that reaches the end  *)
(* is short, and what it leaves of the buffer is junk.                     *)
(***************************************************************************)
ReadGlyphs ==
  /\ pc = "read"
  /\ position <= file.length
  /\ glyphs' = [k \in 0..(size - 1) |->
                  IF k < Delivered(size) THEN Byte(position + k) ELSE glyphs[k]]
  /\ position' = position + Delivered(size)
  /\ pc' = "kernel"
  /\ UNCHANGED <<file, header, size, locals>>
-----------------------------------------------------------------------------
(***************************************************************************)
(* print_char: the pointer to the glyph of a character, and its loop over  *)
(* as many rows as it likes.                                               *)
(***************************************************************************)
PrintChar(char) ==
  /\ pc = "kernel"
  /\ character' = char
  /\ glyph' = char * header.height
  /\ row' = 0
  /\ pc' = "draw"
  /\ UNCHANGED <<file, position, header, size, glyphs>>

(***************************************************************************)
(* Mutant: one row too many.                                               *)
(***************************************************************************)
MoreRowsLate == row <= GlyphRows
MoreRows == row < GlyphRows

DrawRow ==
  /\ pc = "draw"
  /\ MoreRows
  /\ row' = row + 1
  /\ glyph' = glyph + 1
  /\ UNCHANGED <<pc, file, position, header, size, glyphs, character>>

EndOfGlyph ==
  /\ pc = "draw"
  /\ ~MoreRows
  /\ pc' = "kernel"
  /\ UNCHANGED <<file, position, header, size, glyphs, locals>>

Next ==
  \/ Halt
  \/ ReadHeader
  \/ SetPosition
  \/ AllocateGlyphs
  \/ ReadGlyphs
  \/ \E char \in Chars : PrintChar(char)
  \/ DrawRow
  \/ EndOfGlyph

Spec == Init /\ [][Next]_vars
-----------------------------------------------------------------------------
(***************************************************************************)
(* What the next turn of the loop reads through the pointer.               *)
(***************************************************************************)
Reading == pc = "draw" /\ row < GlyphRows
Seen == IF glyph \in 0..(size - 1) THEN glyphs[glyph] ELSE Outside

(***************************************************************************)
(* print_char leaves the glyphs only for a character above 127, which is   *)
(* negative, or with a font of height 0, for which nothing was allocated.  *)
(* Any other height will do, however many rows print_char draws of it: the *)
(* glyphs of the upper half make up for what it reads too far.             *)
(***************************************************************************)
ReadsInside == Reading /\ Seen = Outside => character < 0 \/ header.height = 0

(***************************************************************************)
(* Row r of character c is the byte at its place in the file, whatever the *)
(* mode of the font is, and junk only where the file has ended.            *)
(***************************************************************************)
PlaceInFile == HeaderSize + character * file.height + row

ShowsFont ==
  Reading /\ character >= 0 /\ header.height > 0 =>
    Seen = IF PlaceInFile < file.length THEN Byte(PlaceInFile) ELSE Junk
=============================================================================
