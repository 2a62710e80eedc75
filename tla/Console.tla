------------------------------ MODULE Console -------------------------------
(***************************************************************************)
(* The kernel, src/kernel.c: start blackens the frame buffer, prints a     *)
(* text with a bitmap font, halts, and paints the screen.  The program     *)
(* keeps a cursor in pixels and writes through Graphics.base without a     *)
(* bound, so the memory modelled here goes on behind the frame buffer.     *)
(*                                                                         *)
(* Abstracted: the bytes of the glyphs (a glyph is the set of its inked    *)
(* dots) and the wording of the text (any characters, one at a time).      *)
(***************************************************************************)
EXTENDS Integers

CONSTANTS
  Width, Height,  \* of the visible screen, in pixels
  Ppsl,           \* pixels_per_scanline of the frame buffer
  Scale,          \* PSF1_Font.scale, 3 in start
  FontHeight,     \* PSF1_Header.font_height
  GlyphRows,      \* the 16 and the 8 of print_char
  GlyphCols,
  Chars,          \* the characters the font has
  Glyph,          \* the inked dots <<row, col>> of a character
  Behind,         \* what the memory behind the frame buffer holds at first
  MaxChars        \* bound: length of the text

(***************************************************************************)
(* row_step of newline and col_step of print.                              *)
(***************************************************************************)
RowStep == Scale * FontHeight
ColStep == Scale * (FontHeight \div 2)

Pixels == {"black", "white", "yellow", "junk"}

ASSUME ConsoleAssumption ==
  /\ Width \in Nat /\ Height \in Nat /\ Ppsl \in Nat
  /\ Scale \in Nat /\ FontHeight \in Nat
  /\ GlyphRows \in Nat /\ GlyphCols \in Nat
  /\ Width <= Ppsl
  /\ Scale >= 1
  /\ FontHeight >= 2
  /\ RowStep < Height
  /\ ColStep < Width
  /\ Behind \in Pixels
  /\ MaxChars \in Nat

ASSUME GlyphAssumption ==
  \A char \in Chars :
    Glyph[char] \subseteq (0..(GlyphRows - 1)) \X (0..(GlyphCols - 1))

VARIABLES
  phase,   \* where start is: "fill", "print", "halt", "painted"
  row,     \* the cursor, in pixels
  col,
  base,    \* memory from Graphics.base on, one entry per pixel
  count    \* characters printed

vars == <<phase, row, col, base, count>>

Size == Ppsl * Height          \* Graphics.size / sizeof(Pixel)

(***************************************************************************)
(* The first row the scroll loop leaves alone: the least multiple of       *)
(* row_step that is not below height - 1.                                  *)
(***************************************************************************)
ScrollEnd == ((Height + RowStep - 2) \div RowStep) * RowStep

(***************************************************************************)
(* The memory the program can reach.                                       *)
(***************************************************************************)
Reach == IF Size > (ScrollEnd + RowStep + 1) * Width
         THEN Size ELSE (ScrollEnd + RowStep + 1) * Width
Memory == 0..(Reach - 1)

TypeOK ==
  /\ phase \in {"fill", "print", "halt", "painted"}
  /\ row \in Nat
  /\ col \in Nat
  /\ base \in [Memory -> Pixels]
  /\ count \in 0..MaxChars

Init ==
  /\ phase = "fill"
  /\ row = 0
  /\ col = 0
  /\ base = [k \in Memory |-> IF k < Size THEN "junk" ELSE Behind]
  /\ count = 0
-----------------------------------------------------------------------------
(***************************************************************************)
(* fill, and the loop at the end of start: every pixel of the buffer.      *)
(***************************************************************************)
Filled(pixel) == [k \in Memory |-> IF k < Size THEN pixel ELSE base[k]]

(***************************************************************************)
(* print_char: draw addresses pixel (r, c) at pixels_per_scanline * r + c. *)
(***************************************************************************)
Dots(char) ==
  {Ppsl * (row + dot[1] * Scale + i) + (col + dot[2] * Scale + j) :
     dot \in Glyph[char], i \in 0..(Scale - 1), j \in 0..(Scale - 1)}

print_char(char) ==
  [k \in Memory |-> IF k \in Dots(char) THEN "white" ELSE base[k]]

(***************************************************************************)
(* The two loops of newline on a memory.  They address pixel (r, c) at     *)
(* width * r + c.  The first moves everything up by row_step, in ascending *)
(* order, so that what is read has not been written yet; the second        *)
(* blackens height - ScrollEnd rows (one or none).                         *)
(***************************************************************************)
Scroll(memory) ==
  [k \in Memory |->
     IF k < ScrollEnd * Width THEN memory[k + RowStep * Width]
     ELSE IF (ScrollEnd + RowStep) * Width <= k /\ k < (Height + RowStep) * Width
          THEN "black"
          ELSE memory[k]]

(***************************************************************************)
(* There is no room for another line.  Mutant: the cursor itself is tested *)
(* against the screen, before it moves and with > for >=.                  *)
(***************************************************************************)
LastLineLate == row + RowStep > Height
LastLine == row + RowStep + RowStep >= Height

newline(memory) ==
  /\ col' = 0
  /\ IF LastLine
     THEN base' = Scroll(memory) /\ row' = row
     ELSE base' = memory /\ row' = row + RowStep
-----------------------------------------------------------------------------
(***************************************************************************)
(* start up to print.                                                      *)
(***************************************************************************)
Fill ==
  /\ phase = "fill"
  /\ phase' = "print"
  /\ base' = Filled("black")
  /\ UNCHANGED <<row, col, count>>

(***************************************************************************)
(* One turn of the loop of print.                                          *)
(***************************************************************************)
Another ==
  /\ phase = "print"
  /\ count < MaxChars
  /\ count' = count + 1
  /\ UNCHANGED phase

PrintNewline == Another /\ newline(base)

(***************************************************************************)
(* The column of the next character.  Mutant: the cursor goes back.        *)
(***************************************************************************)
NextColumnBack == col - ColStep
NextColumn == col + ColStep

PrintChar(char) ==
  /\ Another
  /\ IF col + ColStep + ColStep >= Width
     THEN newline(print_char(char))
     ELSE /\ base' = print_char(char)
          /\ col' = NextColumn
          /\ row' = row

EndOfText ==
  /\ phase = "print"
  /\ phase' = "halt"
  /\ UNCHANGED <<row, col, base, count>>

(***************************************************************************)
(* A debugger releases debug_halt; start paints the screen and returns.    *)
(***************************************************************************)
Paint ==
  /\ phase = "halt"
  /\ phase' = "painted"
  /\ base' = Filled("yellow")
  /\ UNCHANGED <<row, col, count>>

Next ==
  \/ Fill
  \/ PrintNewline
  \/ \E char \in Chars : PrintChar(char)
  \/ EndOfText
  \/ Paint

Spec == Init /\ [][Next]_vars
-----------------------------------------------------------------------------
(***************************************************************************)
(* A whole character fits at the cursor, at any time: newline and the      *)
(* column check of print (lines 226 and 270) leave room for one more step. *)
(***************************************************************************)
CursorInside == row + RowStep < Height /\ col + ColStep < Width

(***************************************************************************)
(* draw never leaves the visible screen (line 171 has no bound of its own) *)
(* as long as the glyph print_char hard-codes is no larger than the steps  *)
(* print and newline take from the font.                                   *)
(***************************************************************************)
GlyphsFit == GlyphRows <= FontHeight /\ GlyphCols <= FontHeight \div 2

Visible == {Ppsl * r + c : r \in 0..(Height - 1), c \in 0..(Width - 1)}

DrawInside == GlyphsFit => \A char \in Chars : Dots(char) \subseteq Visible

(***************************************************************************)
(* What is on the screen is what a terminal of Lines by Columns shows: the *)
(* module Terminal, each character read back from its cell of pixels.  It  *)
(* needs scan lines without padding (the scroll loop counts in width, draw *)
(* in pixels_per_scanline) and black memory behind the frame buffer (the   *)
(* scroll brings it in, and the second loop of newline does not blacken a  *)
(* visible row).                                                           *)
(***************************************************************************)
Lines == (Height - 1) \div RowStep
Columns == (Width - 1) \div ColStep

Image(char) ==
  {<<dot[1] * Scale + i, dot[2] * Scale + j>> :
     dot \in Glyph[char], i \in 0..(Scale - 1), j \in 0..(Scale - 1)}

Drawn(char) ==
  [dot \in (0..(RowStep - 1)) \X (0..(ColStep - 1)) |->
     IF dot \in Image(char) THEN "white" ELSE "black"]

Cell(memory, i, j) ==
  [dot \in (0..(RowStep - 1)) \X (0..(ColStep - 1)) |->
     memory[Ppsl * (i * RowStep + dot[1]) + (j * ColStep + dot[2])]]

AnyOf(set) == CHOOSE element \in set : TRUE

(***************************************************************************)
(* The character a cell shows; those that look the same read the same.     *)
(***************************************************************************)
ReadBack(memory, i, j) ==
  LET seen == {char \in Chars : Cell(memory, i, j) = Drawn(char)}
  IN  IF seen # {} THEN AnyOf(seen) ELSE "unreadable"

Empty == AnyOf({char \in Chars : Glyph[char] = {}})

Text ==
  [i \in 0..(Lines - 1) |->
     [j \in 0..(Columns - 1) |->
        IF phase \in {"print", "halt"} THEN ReadBack(base, i, j) ELSE Empty]]

Screen == INSTANCE Terminal
  WITH Blank <- Empty,
       on <- phase \in {"print", "halt"},
       screen <- Text,
       line <- IF phase = "painted" THEN 0 ELSE row \div RowStep,
       column <- IF phase = "painted" THEN 0 ELSE col \div ColStep

ShowsText == Screen!TerminalSpec
=============================================================================
