--------------------------- MODULE ConsoleProofs ----------------------------
(***************************************************************************)
(* Theorems about Console, for every screen, font, scale and text.         *)
(***************************************************************************)
EXTENDS Console, TLAPS

(***************************************************************************)
(* The two steps of the cursor are whole numbers of pixels, at least one.  *)
(***************************************************************************)
LEMMA Steps ==
  /\ RowStep \in Nat /\ RowStep >= 1
  /\ ColStep \in Nat /\ ColStep >= 1
<1>1. FontHeight \div 2 \in Nat /\ FontHeight \div 2 >= 1
  BY ConsoleAssumption
<1>2. ASSUME NEW s \in Nat, s >= 1, NEW f \in Nat, f >= 1
      PROVE  s * f \in Nat /\ s * f >= 1
  BY <1>2
<1> QED
  BY <1>1, <1>2, ConsoleAssumption DEF RowStep, ColStep

(***************************************************************************)
(* The least multiple of s that is not below h - 1, as newline finds it,   *)
(* is less than a step above it.                                           *)
(***************************************************************************)
LEMMA Multiple ==
  ASSUME NEW h \in Nat, NEW s \in Nat, s >= 1, s < h
  PROVE  LET m == ((h + s - 2) \div s) * s
         IN  m \in Nat /\ h - 1 <= m /\ m <= h + s - 2
<1> DEFINE n == h + s - 2
           q == n \div s
<1>1. n \in Nat
  OBVIOUS
<1>2. q \in Nat /\ s * q <= n /\ n < s * q + s
  BY <1>1
<1>3. q * s = s * q /\ q * s \in Nat
  BY <1>2
<1> QED
  BY <1>1, <1>2, <1>3

LEMMA ScrollEndRange ==
  ScrollEnd \in Nat /\ Height - 1 <= ScrollEnd /\ ScrollEnd <= Height + RowStep - 2
BY Steps, Multiple, ConsoleAssumption DEF ScrollEnd

(***************************************************************************)
(* What the scroll loop reads and writes (kernel.c:229-249) is memory the  *)
(* model has: at most two text lines past the visible rows.                *)
(***************************************************************************)
LEMMA ReachRange ==
  /\ Reach \in Nat
  /\ (ScrollEnd + RowStep) * Width <= Reach
  /\ Size <= Reach
<1>1. (ScrollEnd + RowStep + 1) * Width \in Nat /\ Size \in Nat
  BY Steps, ScrollEndRange, ConsoleAssumption DEF Size
<1>2. (ScrollEnd + RowStep) * Width <= (ScrollEnd + RowStep + 1) * Width
  BY Steps, ScrollEndRange, ConsoleAssumption
<1>3. (ScrollEnd + RowStep) * Width \in Nat
  BY Steps, ScrollEndRange, ConsoleAssumption
<1> QED
  BY <1>1, <1>2, <1>3 DEF Reach

(***************************************************************************)
(* How far newline reaches past the frame buffer: the index of every pixel *)
(* it reads or writes is below that of the row 2 * row_step rows under the *)
(* visible screen.                                                         *)
(***************************************************************************)
THEOREM OverrunBounded == Reach <= (Height + 2 * RowStep) * Ppsl
<1>1. ScrollEnd + RowStep + 1 <= Height + 2 * RowStep
  BY Steps, ScrollEndRange, ConsoleAssumption
<1>2. ASSUME NEW a \in Nat, NEW b \in Nat, a <= b, NEW c \in Nat, NEW d \in Nat, c <= d
      PROVE  a * c <= b * d
  <2>1. a * c <= b * c
    BY <1>2
  <2>2. b * c <= b * d
    BY <1>2
  <2> QED
    BY <2>1, <2>2
<1>3. (ScrollEnd + RowStep + 1) * Width <= (Height + 2 * RowStep) * Ppsl
  BY <1>1, <1>2, Steps, ScrollEndRange, ConsoleAssumption
<1>4. Size <= (Height + 2 * RowStep) * Ppsl
  <2>1. Ppsl * Height = Height * Ppsl
    BY ConsoleAssumption
  <2>2. Height <= Height + 2 * RowStep
    BY Steps, ConsoleAssumption
  <2> QED
    BY <1>2, <2>1, <2>2, Steps, ConsoleAssumption DEF Size
<1> QED
  BY <1>3, <1>4 DEF Reach

(***************************************************************************)
(* Filling and drawing and scrolling give a memory of pixels.              *)
(***************************************************************************)
LEMMA FilledType ==
  ASSUME TypeOK, NEW pixel \in Pixels
  PROVE  Filled(pixel) \in [Memory -> Pixels]
BY DEF TypeOK, Filled

LEMMA PrintedType ==
  ASSUME TypeOK, NEW char
  PROVE  print_char(char) \in [Memory -> Pixels]
BY DEF TypeOK, print_char, Pixels

LEMMA ScrollType ==
  ASSUME NEW memory \in [Memory -> Pixels]
  PROVE  Scroll(memory) \in [Memory -> Pixels]
<1>1. ASSUME NEW k \in Memory, k < ScrollEnd * Width
      PROVE  k + RowStep * Width \in Memory
  <2>1. RowStep * Width \in Nat /\ ScrollEnd * Width \in Nat
    BY Steps, ScrollEndRange, ConsoleAssumption
  <2>2. (ScrollEnd + RowStep) * Width = ScrollEnd * Width + RowStep * Width
    BY Steps, ScrollEndRange, ConsoleAssumption
  <2> QED
    BY <1>1, <2>1, <2>2, ReachRange DEF Memory
<1>2. ASSUME NEW k \in Memory
      PROVE  (IF k < ScrollEnd * Width THEN memory[k + RowStep * Width]
              ELSE IF (ScrollEnd + RowStep) * Width <= k /\ k < (Height + RowStep) * Width
                   THEN "black" ELSE memory[k]) \in Pixels
  BY <1>1 DEF Pixels
<1> QED
  BY <1>2 DEF Scroll
-----------------------------------------------------------------------------
(***************************************************************************)
(* The inductive invariant: the cursor bound needs no help.                *)
(***************************************************************************)
ConsoleInv == TypeOK /\ CursorInside

(***************************************************************************)
(* newline keeps the cursor on the screen.                                 *)
(***************************************************************************)
LEMMA NewlineStep ==
  ASSUME ConsoleInv, NEW memory \in [Memory -> Pixels], newline(memory)
  PROVE  /\ row' \in Nat /\ col' \in Nat
         /\ base' \in [Memory -> Pixels]
         /\ CursorInside'
<1>1. col' = 0 /\ col' + ColStep < Width
  BY Steps, ConsoleAssumption DEF newline, LastLine
<1>2. base' \in [Memory -> Pixels]
  BY ScrollType DEF newline, LastLine
<1>3. row' \in Nat /\ row' + RowStep < Height
  <2>1. row' = row \/ (row' = row + RowStep /\ ~(row + RowStep + RowStep >= Height))
    BY DEF newline, LastLine
  <2> QED
    BY <2>1, Steps, ConsoleAssumption DEF ConsoleInv, TypeOK, CursorInside
<1> QED
  BY <1>1, <1>2, <1>3 DEF CursorInside

LEMMA ConsoleInit == Init => ConsoleInv
<1> SUFFICES ASSUME Init, Behind \in Pixels PROVE ConsoleInv
  BY ConsoleAssumption
<1>1. base \in [Memory -> Pixels]
  BY DEF Init, Pixels
<1>2. phase \in {"fill", "print", "halt", "painted"} /\ row \in Nat /\ col \in Nat
  BY DEF Init
<1>3. count \in 0..MaxChars
  BY ConsoleAssumption DEF Init
<1>4. CursorInside
  BY Steps, ConsoleAssumption DEF Init, CursorInside
<1> QED
  BY <1>1, <1>2, <1>3, <1>4 DEF ConsoleInv, TypeOK

LEMMA ConsoleStep == ConsoleInv /\ [Next]_vars => ConsoleInv'
<1> SUFFICES ASSUME ConsoleInv, [Next]_vars PROVE ConsoleInv'
  OBVIOUS
<1>1. CASE Fill
  <2>1. base' \in [Memory -> Pixels]
    BY <1>1, FilledType DEF Fill, ConsoleInv, Pixels
  <2> QED
    BY <1>1, <2>1 DEF Fill, ConsoleInv, TypeOK, CursorInside
<1>2. CASE PrintNewline
  <2>1. newline(base) /\ base \in [Memory -> Pixels]
    BY <1>2 DEF PrintNewline, ConsoleInv, TypeOK
  <2>2. phase' = phase /\ count' \in 0..MaxChars
    BY <1>2, ConsoleAssumption DEF PrintNewline, Another, ConsoleInv, TypeOK
  <2> QED
    BY <2>1, <2>2, NewlineStep DEF ConsoleInv, TypeOK
<1>3. CASE \E char \in Chars : PrintChar(char)
  <2>1. PICK char \in Chars : PrintChar(char)
    BY <1>3
  <2>2. phase' = phase /\ count' \in 0..MaxChars
    BY <2>1, ConsoleAssumption DEF PrintChar, NextColumn, Another, ConsoleInv, TypeOK
  <2>3. print_char(char) \in [Memory -> Pixels]
    BY PrintedType DEF ConsoleInv
  <2>4. CASE col + ColStep + ColStep >= Width
    <3>1. newline(print_char(char))
      BY <2>1, <2>4 DEF PrintChar, NextColumn
    <3> QED
      BY <2>2, <2>3, <3>1, NewlineStep DEF ConsoleInv, TypeOK
  <2>5. CASE ~(col + ColStep + ColStep >= Width)
    <3>1. base' = print_char(char) /\ col' = col + ColStep /\ row' = row
      BY <2>1, <2>5 DEF PrintChar, NextColumn
    <3>2. col' \in Nat /\ col' + ColStep < Width
      BY <2>5, <3>1, Steps, ConsoleAssumption DEF ConsoleInv, TypeOK
    <3> QED
      BY <2>2, <2>3, <3>1, <3>2 DEF ConsoleInv, TypeOK, CursorInside
  <2> QED
    BY <2>4, <2>5
<1>4. CASE EndOfText
  BY <1>4 DEF EndOfText, ConsoleInv, TypeOK, CursorInside
<1>5. CASE Paint
  <2>1. base' \in [Memory -> Pixels]
    BY <1>5, FilledType DEF Paint, ConsoleInv, Pixels
  <2> QED
    BY <1>5, <2>1 DEF Paint, ConsoleInv, TypeOK, CursorInside
<1>6. CASE UNCHANGED vars
  BY <1>6 DEF vars, ConsoleInv, TypeOK, CursorInside
<1> QED
  BY <1>1, <1>2, <1>3, <1>4, <1>5, <1>6 DEF Next

(***************************************************************************)
(* The cursor always leaves room for a whole character (kernel.c:217-278), *)
(* whatever the text, and memory stays a memory of pixels.                 *)
(***************************************************************************)
THEOREM CursorStaysInside == Spec => [](TypeOK /\ CursorInside)
<1>1. ConsoleInv => TypeOK /\ CursorInside
  BY DEF ConsoleInv
<1> QED
  BY <1>1, ConsoleInit, ConsoleStep, PTL DEF Spec

(***************************************************************************)
(* Every variable of the kernel keeps its type: what scrolling reads, in   *)
(* memory behind the visible screen (kernel.c:229-249), is memory that     *)
(* the model has, and the text ends.                                       *)
(***************************************************************************)
THEOREM ConsoleTypes == Spec => []TypeOK
<1>1. ConsoleInv => TypeOK
  BY DEF ConsoleInv
<1> QED
  BY <1>1, ConsoleInit, ConsoleStep, PTL DEF Spec
-----------------------------------------------------------------------------
(***************************************************************************)
(* The dots of a scaled glyph of g rows fill less than a step of f rows.   *)
(***************************************************************************)
LEMMA ScaledDot ==
  ASSUME NEW s \in Nat, NEW g \in Nat, NEW f \in Nat, g <= f,
         NEW d \in 0..(g - 1), NEW i \in 0..(s - 1)
  PROVE  d * s + i \in 0..(s * f - 1)
<1>1. d \in Nat /\ i \in Nat /\ d + 1 <= f
  OBVIOUS
<1>2. (d + 1) * s <= f * s
  BY <1>1
<1>3. (d + 1) * s = d * s + s /\ f * s = s * f /\ d * s \in Nat
  BY <1>1
<1> QED
  BY <1>1, <1>2, <1>3

(***************************************************************************)
(* Every pixel print_char inks is on the visible screen (kernel.c:169-190),*)
(* as long as the hard-coded 16 by 8 is within the font's steps.           *)
(***************************************************************************)
THEOREM DrawStaysInside == Spec => []DrawInside
<1>1. ConsoleInv => DrawInside
  <2> SUFFICES ASSUME ConsoleInv, GlyphsFit, NEW char \in Chars, NEW k \in Dots(char)
               PROVE  k \in Visible
    BY DEF DrawInside
  <2>1. PICK dot \in Glyph[char], i \in 0..(Scale - 1), j \in 0..(Scale - 1) :
          k = Ppsl * (row + dot[1] * Scale + i) + (col + dot[2] * Scale + j)
    BY DEF Dots
  <2>2. dot[1] \in 0..(GlyphRows - 1) /\ dot[2] \in 0..(GlyphCols - 1)
    BY GlyphAssumption
  <2>3. dot[1] * Scale + i \in 0..(RowStep - 1)
    BY <2>2, ScaledDot, ConsoleAssumption DEF GlyphsFit, RowStep
  <2>4. dot[2] * Scale + j \in 0..(ColStep - 1)
    <3>1. FontHeight \div 2 \in Nat
      BY ConsoleAssumption
    <3> QED
      BY <2>2, <3>1, ScaledDot, ConsoleAssumption DEF GlyphsFit, ColStep
  <2> DEFINE r == row + dot[1] * Scale + i
             c == col + dot[2] * Scale + j
  <2>5. r \in 0..(Height - 1)
    BY <2>2, <2>3, Steps, ConsoleAssumption DEF ConsoleInv, TypeOK, CursorInside
  <2>6. c \in 0..(Width - 1)
    BY <2>2, <2>4, Steps, ConsoleAssumption DEF ConsoleInv, TypeOK, CursorInside
  <2> QED
    BY <2>1, <2>5, <2>6 DEF Visible
<1> QED
  BY <1>1, ConsoleInit, ConsoleStep, PTL DEF Spec
-----------------------------------------------------------------------------
(***************************************************************************)
(* When the screen shows a text: scan lines without padding, black memory  *)
(* behind them, glyphs no larger than the steps, and a blank one.          *)
(***************************************************************************)
Legible ==
  /\ Ppsl = Width
  /\ Behind = "black"
  /\ GlyphsFit
  /\ \E char \in Chars : Glyph[char] = {}

Pixel(r, c) == Ppsl * r + c
CellDots == (0..(RowStep - 1)) \X (0..(ColStep - 1))
TextOf(memory) ==
  [i \in 0..(Lines - 1) |-> [j \in 0..(Columns - 1) |-> ReadBack(memory, i, j)]]

(***************************************************************************)
(* Two places of a screen are two pixels.                                  *)
(***************************************************************************)
LEMMA OnePlace ==
  ASSUME NEW w \in Nat, NEW r \in Nat, NEW s \in Nat,
         NEW c \in 0..(w - 1), NEW d \in 0..(w - 1), w * r + c = w * s + d
  PROVE  r = s /\ c = d
<1>1. ASSUME NEW a \in Nat, NEW b \in Nat, a < b
      PROVE  w * a + w <= w * b
  <2>1. PICK e \in Nat : b = a + 1 + e
    <3>1. b - a - 1 \in Nat /\ b = a + 1 + (b - a - 1)
      BY <1>1
    <3> QED BY <3>1
  <2>2. w * b = w * a + w + w * e /\ w * e \in Nat /\ w * a \in Nat
    BY <2>1
  <2> QED BY <2>2
<1>2. w * r \in Nat /\ w * s \in Nat
  OBVIOUS
<1>3. ~ (r < s)
  <2> SUFFICES ASSUME r < s PROVE FALSE
    OBVIOUS
  <2>1. w * r + w <= w * s
    BY <1>1
  <2> QED BY <1>2, <2>1
<1>4. ~ (s < r)
  <2> SUFFICES ASSUME s < r PROVE FALSE
    OBVIOUS
  <2>1. w * s + w <= w * r
    BY <1>1
  <2> QED BY <1>2, <2>1
<1>5. r = s
  BY <1>3, <1>4
<1> QED BY <1>2, <1>5

(***************************************************************************)
(* The order of the places of a screen by their rows.                      *)
(***************************************************************************)
LEMMA RowsInOrder ==
  ASSUME NEW w \in Nat, NEW r \in Nat, NEW s \in Nat, NEW c \in 0..(w - 1)
  PROVE  /\ w * r + c \in Nat
         /\ r < s <=> w * r + c < w * s
<1>1. ASSUME NEW a \in Nat, NEW b \in Nat, a <= b
      PROVE  w * a <= w * b
  <2>1. PICK e \in Nat : b = a + e
    <3>1. b - a \in Nat /\ b = a + (b - a)
      BY <1>1
    <3> QED BY <3>1
  <2>2. w * b = w * a + w * e /\ w * e \in Nat /\ w * a \in Nat
    BY <2>1
  <2> QED BY <2>2
<1>2. w * r \in Nat /\ w * s \in Nat /\ w * (r + 1) = w * r + w
  OBVIOUS
<1>3. r < s => w * (r + 1) <= w * s
  <2>1. r < s => r + 1 <= s
    OBVIOUS
  <2> QED BY <1>1, <2>1
<1>4. ~ (r < s) => w * s <= w * r
  BY <1>1
<1> QED BY <1>2, <1>3, <1>4

(***************************************************************************)
(* The grid has at least one line and one column, fits on the screen, and  *)
(* has as many lines and columns as do.                                    *)
(***************************************************************************)
LEMMA GridOf ==
  ASSUME NEW s \in Nat, s >= 1, NEW size \in Nat, s < size, NEW n \in Nat
  PROVE  /\ (size - 1) \div s \in Nat
         /\ (size - 1) \div s >= 1
         /\ n <= (size - 1) \div s <=> n * s < size
<1> DEFINE q == (size - 1) \div s
<1>1. size - 1 \in Nat /\ q \in Nat /\ s * q <= size - 1 /\ size - 1 < s * q + s
  OBVIOUS
<1> HIDE DEF q
<1>2. q >= 1
  <2> SUFFICES ASSUME q = 0 PROVE FALSE
    BY <1>1
  <2>1. s * q = 0
    OBVIOUS
  <2> QED BY <1>1, <2>1
<1>3. n <= q => n * s < size
  <2>1. SUFFICES ASSUME n <= q PROVE n * s < size
    OBVIOUS
  <2>2. PICK e \in Nat : q = n + e
    <3>1. q - n \in Nat /\ q = n + (q - n)
      BY <1>1, <2>1
    <3> QED BY <3>1
  <2>3. s * q = n * s + s * e /\ s * e \in Nat /\ n * s \in Nat
    BY <2>2
  <2> QED BY <1>1, <2>3
<1>4. ~ (n <= q) => ~ (n * s < size)
  <2>1. SUFFICES ASSUME ~ (n <= q) PROVE ~ (n * s < size)
    OBVIOUS
  <2>2. PICK e \in Nat : n = q + 1 + e
    <3>1. n - q - 1 \in Nat /\ n = q + 1 + (n - q - 1)
      BY <1>1, <2>1
    <3> QED BY <1>1, <3>1
  <2>3. n * s = s * q + s + s * e /\ s * e \in Nat /\ s * q \in Nat
    BY <1>1, <2>2
  <2> QED BY <1>1, <2>3
<1> QED BY <1>1, <1>2, <1>3, <1>4 DEF q

LEMMA Grid ==
  /\ Lines \in Nat /\ Lines >= 1
  /\ Columns \in Nat /\ Columns >= 1
  /\ \A n \in Nat : n <= Lines <=> n * RowStep < Height
  /\ \A n \in Nat : n <= Columns <=> n * ColStep < Width
BY GridOf, Steps, ConsoleAssumption DEF Lines, Columns

(***************************************************************************)
(* A dot of a cell of the grid is a visible pixel, and no other cell has   *)
(* it.                                                                     *)
(***************************************************************************)
LEMMA CellPlace ==
  ASSUME NEW i \in 0..(Lines - 1), NEW j \in 0..(Columns - 1),
         NEW a \in 0..(RowStep - 1), NEW b \in 0..(ColStep - 1)
  PROVE  /\ i * RowStep \in Nat /\ i * RowStep + RowStep < Height
         /\ j * ColStep \in Nat /\ j * ColStep + ColStep < Width
         /\ i * RowStep + a \in 0..(Height - 2)
         /\ j * ColStep + b \in 0..(Width - 2)
         /\ Pixel(i * RowStep + a, j * ColStep + b) \in Memory
<1>1. i + 1 \in Nat /\ i + 1 <= Lines /\ j + 1 \in Nat /\ j + 1 <= Columns
  BY Grid
<1>2. (i + 1) * RowStep < Height /\ (j + 1) * ColStep < Width
  BY <1>1, Grid
<1>3. /\ (i + 1) * RowStep = i * RowStep + RowStep /\ i * RowStep \in Nat
      /\ (j + 1) * ColStep = j * ColStep + ColStep /\ j * ColStep \in Nat
  BY Steps
<1> DEFINE r == i * RowStep + a
           c == j * ColStep + b
<1>4. r \in 0..(Height - 2) /\ c \in 0..(Width - 2)
  BY <1>2, <1>3, Steps, ConsoleAssumption
<1> HIDE DEF r, c
<1>5. c \in 0..(Ppsl - 1) /\ r \in Nat /\ r < Height
  BY <1>4, ConsoleAssumption
<1>6. Ppsl * r + c \in Nat /\ Ppsl * r + c < Ppsl * Height
  BY <1>5, RowsInOrder, ConsoleAssumption
<1>7. Pixel(r, c) \in Memory
  BY <1>6, ReachRange, ConsoleAssumption DEF Pixel, Memory, Size
<1> QED
  BY <1>2, <1>3, <1>4, <1>7 DEF r, c

LEMMA OneCell ==
  ASSUME NEW s \in Nat, NEW i \in Nat, NEW k \in Nat,
         NEW a \in 0..(s - 1), NEW b \in 0..(s - 1), i * s + a = k * s + b
  PROVE  i = k /\ a = b
<1>1. s * i + a = s * k + b
  OBVIOUS
<1> QED
  BY <1>1, OnePlace

(***************************************************************************)
(* print_char inks the image of a character in the cell at the cursor.     *)
(***************************************************************************)
LEMMA ImageInside ==
  ASSUME GlyphsFit, NEW char \in Chars
  PROVE  /\ Image(char) \subseteq CellDots
         /\ Glyph[char] # {} => Image(char) # {}
<1>1. ASSUME NEW dot \in Glyph[char], NEW i \in 0..(Scale - 1), NEW j \in 0..(Scale - 1)
      PROVE  <<dot[1] * Scale + i, dot[2] * Scale + j>> \in CellDots
  <2>1. dot[1] \in 0..(GlyphRows - 1) /\ dot[2] \in 0..(GlyphCols - 1)
    BY GlyphAssumption
  <2>2. dot[1] * Scale + i \in 0..(RowStep - 1)
    BY <2>1, ScaledDot, ConsoleAssumption DEF GlyphsFit, RowStep
  <2>3. dot[2] * Scale + j \in 0..(ColStep - 1)
    <3>1. FontHeight \div 2 \in Nat
      BY ConsoleAssumption
    <3> QED
      BY <2>1, <3>1, ScaledDot, ConsoleAssumption DEF GlyphsFit, ColStep
  <2> QED
    BY <2>2, <2>3 DEF CellDots
<1>2. Image(char) \subseteq CellDots
  BY <1>1 DEF Image
<1>3. ASSUME Glyph[char] # {} PROVE Image(char) # {}
  <2>1. PICK dot \in Glyph[char] : TRUE
    BY <1>3
  <2>2. 0 \in 0..(Scale - 1)
    BY ConsoleAssumption
  <2>3. <<dot[1] * Scale + 0, dot[2] * Scale + 0>> \in Image(char)
    BY <2>1, <2>2 DEF Image
  <2> QED
    BY <2>3
<1> QED
  BY <1>2, <1>3

LEMMA DotsOfImage ==
  ASSUME NEW char \in Chars, row \in Nat, col \in Nat
  PROVE  Dots(char) = {Ppsl * (row + d[1]) + (col + d[2]) : d \in Image(char)}
<1> DEFINE P(d) == Ppsl * (row + d[1]) + (col + d[2])
<1>1. ASSUME NEW dot \in Glyph[char], NEW i \in 0..(Scale - 1), NEW j \in 0..(Scale - 1)
      PROVE  Ppsl * (row + dot[1] * Scale + i) + (col + dot[2] * Scale + j)
               = P(<<dot[1] * Scale + i, dot[2] * Scale + j>>)
  <2>1. dot[1] \in Nat /\ dot[2] \in Nat
    BY GlyphAssumption
  <2>2. dot[1] * Scale \in Nat /\ dot[2] * Scale \in Nat
    BY <2>1, ConsoleAssumption
  <2> DEFINE x == dot[1] * Scale
             y == dot[2] * Scale
  <2> HIDE DEF x, y
  <2>3. row + x + i = row + (x + i) /\ col + y + j = col + (y + j)
    BY <2>2 DEF x, y
  <2>4. Ppsl * (row + x + i) + (col + y + j) = Ppsl * (row + (x + i)) + (col + (y + j))
    BY <2>3
  <2> QED
    BY <2>4 DEF x, y
<1> HIDE DEF P
<1>2. ASSUME NEW k \in Dots(char) PROVE k \in {P(d) : d \in Image(char)}
  <2>1. PICK dot \in Glyph[char], i \in 0..(Scale - 1), j \in 0..(Scale - 1) :
          k = Ppsl * (row + dot[1] * Scale + i) + (col + dot[2] * Scale + j)
    BY <1>2 DEF Dots
  <2>2. <<dot[1] * Scale + i, dot[2] * Scale + j>> \in Image(char)
    BY DEF Image
  <2> QED
    BY <1>1, <2>1, <2>2
<1>3. ASSUME NEW d \in Image(char) PROVE P(d) \in Dots(char)
  <2>1. PICK dot \in Glyph[char], i \in 0..(Scale - 1), j \in 0..(Scale - 1) :
          d = <<dot[1] * Scale + i, dot[2] * Scale + j>>
    BY <1>3 DEF Image
  <2>2. Ppsl * (row + dot[1] * Scale + i) + (col + dot[2] * Scale + j) \in Dots(char)
    BY DEF Dots
  <2> QED
    BY <1>1, <2>1, <2>2
<1>4. Dots(char) = {P(d) : d \in Image(char)}
  BY <1>2, <1>3
<1> QED
  BY <1>4 DEF P

(***************************************************************************)
(* A pixel is inked when it is a dot of the image, in the cell at the      *)
(* cursor.                                                                 *)
(***************************************************************************)
LEMMA Ink ==
  ASSUME Legible, ConsoleInv, NEW char \in Chars,
         NEW r \in Nat, NEW c \in 0..(Width - 1)
  PROVE  Pixel(r, c) \in Dots(char) <=>
           \E d \in Image(char) : r = row + d[1] /\ c = col + d[2]
<1>1. row \in Nat /\ col \in Nat /\ col + ColStep < Width
  BY DEF ConsoleInv, TypeOK, CursorInside
<1>2. ASSUME NEW d \in Image(char)
      PROVE  /\ row + d[1] \in Nat /\ col + d[2] \in 0..(Width - 1)
             /\ Ppsl * r + c = Ppsl * (row + d[1]) + (col + d[2])
                  <=> r = row + d[1] /\ c = col + d[2]
  <2>1. d[1] \in 0..(RowStep - 1) /\ d[2] \in 0..(ColStep - 1)
    BY ImageInside DEF Legible, CellDots
  <2> DEFINE x == row + d[1]
             y == col + d[2]
  <2>2. x \in Nat /\ y \in 0..(Width - 1)
    BY <1>1, <2>1, Steps, ConsoleAssumption
  <2> HIDE DEF x, y
  <2>3. Ppsl * r + c = Ppsl * x + y <=> r = x /\ c = y
    BY <2>2, OnePlace, ConsoleAssumption DEF Legible
  <2> QED
    BY <2>2, <2>3 DEF x, y
<1>3. Pixel(r, c) \in Dots(char) <=>
        \E d \in Image(char) : Ppsl * r + c = Ppsl * (row + d[1]) + (col + d[2])
  BY <1>1, DotsOfImage, Zenon DEF Pixel
<1> QED
  BY <1>2, <1>3

(***************************************************************************)
(* What a cell reads as: the blank one as the character without ink, the   *)
(* one with a character drawn in it as one that looks like it.             *)
(***************************************************************************)
Seen(char) == AnyOf({other \in Chars : Drawn(char) = Drawn(other)})

LEMMA Chosen ==
  ASSUME NEW S, S # {} PROVE AnyOf(S) \in S
BY DEF AnyOf

LEMMA ReadDrawn ==
  ASSUME NEW memory, NEW i, NEW j, NEW char \in Chars, Cell(memory, i, j) = Drawn(char)
  PROVE  ReadBack(memory, i, j) = Seen(char) /\ Seen(char) \in Chars
<1> DEFINE seen == {other \in Chars : Cell(memory, i, j) = Drawn(other)}
<1>1. seen = {other \in Chars : Drawn(char) = Drawn(other)} /\ char \in seen
  OBVIOUS
<1>2. AnyOf(seen) \in seen
  BY <1>1, Chosen
<1>3. ReadBack(memory, i, j) = AnyOf(seen)
  BY <1>1, Zenon DEF ReadBack
<1>4. AnyOf(seen) = Seen(char)
  BY <1>1, Zenon DEF Seen
<1> QED
  BY <1>2, <1>3, <1>4

LEMMA ReadBlank ==
  ASSUME Legible, NEW memory, NEW i, NEW j,
         \A a \in 0..(RowStep - 1), b \in 0..(ColStep - 1) :
           memory[Pixel(i * RowStep + a, j * ColStep + b)] = "black"
  PROVE  ReadBack(memory, i, j) = Empty
<1> DEFINE blank == [dot \in CellDots |-> "black"]
           seen == {char \in Chars : Cell(memory, i, j) = Drawn(char)}
           empty == {char \in Chars : Glyph[char] = {}}
<1>1. Cell(memory, i, j) = blank
  BY DEF Cell, Pixel, CellDots
<1>2. ASSUME NEW char \in Chars PROVE blank = Drawn(char) <=> Glyph[char] = {}
  <2>1. CASE Glyph[char] = {}
    <3>1. Image(char) = {}
      BY <2>1 DEF Image
    <3> QED
      BY <2>1, <3>1 DEF Drawn, CellDots
  <2>2. CASE Glyph[char] # {}
    <3>1. PICK d \in CellDots : d \in Image(char)
      BY <2>2, ImageInside DEF Legible
    <3>2. Drawn(char)[d] = "white" /\ blank[d] = "black"
      BY <3>1 DEF Drawn, CellDots
    <3> QED
      BY <2>2, <3>2
  <2> QED
    BY <2>1, <2>2
<1>3. seen = empty
  BY <1>1, <1>2
<1>4. seen # {}
  BY <1>3 DEF Legible
<1>5. ReadBack(memory, i, j) = AnyOf(seen)
  BY <1>4, Zenon DEF ReadBack
<1>6. Empty = AnyOf(empty)
  BY Zenon DEF Empty
<1> QED
  BY <1>3, <1>5, <1>6

(***************************************************************************)
(* Memory is clear from a place on: below its line, and right of it in it. *)
(***************************************************************************)
Clear(memory, r0, c0) ==
  \A r \in Nat, c \in 0..(Width - 1) :
    /\ Pixel(r, c) \in Memory
    /\ r >= r0 /\ (r >= r0 + RowStep \/ c >= c0)
    => memory[Pixel(r, c)] = "black"

(***************************************************************************)
(* The cursor is at a cell of the grid.                                    *)
(***************************************************************************)
At(i, j) == row = i * RowStep /\ col = j * ColStep
Aligned == \E i \in 0..(Lines - 1), j \in 0..(Columns - 1) : At(i, j)

(***************************************************************************)
(* The invariant of the refinement: what comes behind the cursor is clear. *)
(***************************************************************************)
TextInv ==
  /\ ConsoleInv
  /\ Aligned
  /\ phase = "fill" => row = 0 /\ col = 0 /\ \A k \in Memory : k >= Size => base[k] = "black"
  /\ phase \in {"print", "halt"} => Clear(base, row, col)

LEMMA LineOf ==
  ASSUME NEW i \in 0..(Lines - 1), NEW j \in 0..(Columns - 1)
  PROVE  (i * RowStep) \div RowStep = i /\ (j * ColStep) \div ColStep = j
<1>1. ASSUME NEW n \in Nat, NEW s \in Nat, s >= 1
      PROVE  (n * s) \div s = n
  <2>1. n * s \in Nat
    BY <1>1
  <2> DEFINE x == n * s
             q == x \div s
  <2>2. q \in Nat /\ (x % s) \in 0..(s - 1) /\ x = s * q + (x % s)
    BY <1>1, <2>1
  <2>3. s * n + 0 = s * q + (x % s)
    BY <1>1, <2>1, <2>2
  <2> QED
    BY <1>1, <2>2, <2>3, OnePlace
<1> QED
  BY <1>1, Steps, Grid

(***************************************************************************)
(* The tests of newline and print are those of a terminal: the cursor is   *)
(* in the last line, and in the last column.                               *)
(***************************************************************************)
LEMMA LastOnes ==
  ASSUME NEW i \in 0..(Lines - 1), NEW j \in 0..(Columns - 1), At(i, j)
  PROVE  /\ LastLine <=> i + 1 = Lines
         /\ col + ColStep + ColStep >= Width <=> j + 1 = Columns
         /\ row \div RowStep = i /\ col \div ColStep = j
         /\ row + RowStep = (i + 1) * RowStep
         /\ col + ColStep = (j + 1) * ColStep
<1>1. /\ row + RowStep = (i + 1) * RowStep /\ col + ColStep = (j + 1) * ColStep
      /\ row + RowStep + RowStep = (i + 2) * RowStep
      /\ col + ColStep + ColStep = (j + 2) * ColStep
      /\ (i + 2) * RowStep \in Nat /\ (j + 2) * ColStep \in Nat
  BY Steps, Grid DEF At
<1>2. i + 2 \in Nat /\ j + 2 \in Nat
  BY Grid
<1>3. /\ i + 2 <= Lines <=> (i + 2) * RowStep < Height
      /\ j + 2 <= Columns <=> (j + 2) * ColStep < Width
  BY <1>2, Grid
<1>4. LastLine <=> ~ ((i + 2) * RowStep < Height)
  BY <1>1, ConsoleAssumption DEF LastLine
<1>5. col + ColStep + ColStep >= Width <=> ~ ((j + 2) * ColStep < Width)
  BY <1>1, ConsoleAssumption
<1>6. /\ ~ (i + 2 <= Lines) <=> i + 1 = Lines
      /\ ~ (j + 2 <= Columns) <=> j + 1 = Columns
  BY Grid
<1> QED
  BY <1>1, <1>3, <1>4, <1>5, <1>6, LineOf DEF At

(***************************************************************************)
(* Drawing a character changes its own cell only, and nothing behind it.   *)
(***************************************************************************)
LEMMA DrawCells ==
  ASSUME Legible, TextInv, phase \in {"print", "halt"}, NEW char \in Chars,
         NEW i \in 0..(Lines - 1), NEW j \in 0..(Columns - 1), At(i, j),
         NEW k \in 0..(Lines - 1), NEW l \in 0..(Columns - 1)
  PROVE  Cell(print_char(char), k, l) =
           IF k = i /\ l = j THEN Drawn(char) ELSE Cell(base, k, l)
<1>1. ASSUME NEW a \in 0..(RowStep - 1), NEW b \in 0..(ColStep - 1)
      PROVE  print_char(char)[Pixel(k * RowStep + a, l * ColStep + b)] =
               IF k = i /\ l = j
               THEN IF <<a, b>> \in Image(char) THEN "white" ELSE "black"
               ELSE base[Pixel(k * RowStep + a, l * ColStep + b)]
  <2> DEFINE r == k * RowStep + a
             c == l * ColStep + b
  <2>1. r \in Nat /\ c \in 0..(Width - 1) /\ Pixel(r, c) \in Memory
    BY CellPlace, ConsoleAssumption
  <2>2. print_char(char)[Pixel(r, c)] =
          IF Pixel(r, c) \in Dots(char) THEN "white" ELSE base[Pixel(r, c)]
    BY <2>1, Zenon DEF print_char
  <2>3. Pixel(r, c) \in Dots(char) <=>
          \E d \in Image(char) : r = row + d[1] /\ c = col + d[2]
    BY <2>1, Ink DEF TextInv
  <2>4. ASSUME NEW d \in Image(char)
        PROVE  r = row + d[1] /\ c = col + d[2] <=> k = i /\ l = j /\ d = <<a, b>>
    <3>1. d \in CellDots
      BY ImageInside DEF Legible
    <3>2. d = <<d[1], d[2]>> /\ d[1] \in 0..(RowStep - 1) /\ d[2] \in 0..(ColStep - 1)
      BY <3>1 DEF CellDots
    <3>3. r = row + d[1] => k = i /\ a = d[1]
      BY <3>2, OneCell, Steps, Grid DEF At
    <3>4. c = col + d[2] => l = j /\ b = d[2]
      BY <3>2, OneCell, Steps, Grid DEF At
    <3>5. k = i /\ l = j /\ d = <<a, b>> => r = row + d[1] /\ c = col + d[2]
      BY <3>2 DEF At
    <3> QED
      BY <3>2, <3>3, <3>4, <3>5
  <2>5. Pixel(r, c) \in Dots(char) <=> k = i /\ l = j /\ <<a, b>> \in Image(char)
    BY <2>3, <2>4
  <2>6. k = i /\ l = j => base[Pixel(r, c)] = "black"
    <3>1. k = i /\ l = j => r >= row /\ c >= col
      BY CellPlace, ConsoleAssumption DEF At
    <3> QED
      BY <2>1, <3>1 DEF TextInv, Clear
  <2> HIDE DEF r, c
  <2>7. print_char(char)[Pixel(r, c)] =
          IF k = i /\ l = j
          THEN IF <<a, b>> \in Image(char) THEN "white" ELSE "black"
          ELSE base[Pixel(r, c)]
    BY <2>2, <2>5, <2>6
  <2> QED
    BY <2>7 DEF r, c
<1>2. CASE k = i /\ l = j
  BY <1>1, <1>2 DEF Cell, Drawn, Pixel
<1>3. CASE ~ (k = i /\ l = j)
  BY <1>1, <1>3 DEF Cell, Pixel
<1> QED
  BY <1>2, <1>3

LEMMA DrawClear ==
  ASSUME Legible, TextInv, phase \in {"print", "halt"}, NEW char \in Chars
  PROVE  Clear(print_char(char), row, col + ColStep)
<1> SUFFICES ASSUME NEW r \in Nat, NEW c \in 0..(Width - 1), Pixel(r, c) \in Memory,
                    r >= row, r >= row + RowStep \/ c >= col + ColStep
             PROVE  print_char(char)[Pixel(r, c)] = "black"
  BY DEF Clear
<1>1. row \in Nat /\ col \in Nat
  BY DEF TextInv, ConsoleInv, TypeOK
<1>2. base[Pixel(r, c)] = "black"
  <2>1. r >= row + RowStep \/ c >= col
    BY <1>1, Steps
  <2> QED
    BY <2>1 DEF TextInv, Clear
<1>3. Pixel(r, c) \notin Dots(char)
  <2> SUFFICES ASSUME NEW d \in Image(char), r = row + d[1] /\ c = col + d[2]
               PROVE  FALSE
    BY Ink DEF TextInv
  <2>1. d[1] \in 0..(RowStep - 1) /\ d[2] \in 0..(ColStep - 1)
    BY ImageInside DEF Legible, CellDots
  <2> QED
    BY <1>1, <2>1, Steps
<1> QED
  BY <1>2, <1>3, Zenon DEF print_char

(***************************************************************************)
(* A new line is clear when what is behind the cursor was.                 *)
(***************************************************************************)
LEMMA ClearBelow ==
  ASSUME row \in Nat, NEW memory, NEW c0, NEW c1, Clear(memory, row, c0)
  PROVE  Clear(memory, row + RowStep, c1)
BY Steps DEF Clear

(***************************************************************************)
(* Scrolling moves each cell up by a line, and leaves the last line clear. *)
(***************************************************************************)
LEMMA Scrolled ==
  ASSUME Legible, NEW memory, NEW r \in Nat, NEW c \in 0..(Width - 1), Pixel(r, c) \in Memory
  PROVE  /\ r < ScrollEnd => /\ Pixel(r + RowStep, c) \in Memory
                             /\ Scroll(memory)[Pixel(r, c)] = memory[Pixel(r + RowStep, c)]
         /\ ~ (r < ScrollEnd) => Scroll(memory)[Pixel(r, c)] \in {"black", memory[Pixel(r, c)]}
<1> DEFINE k == Pixel(r, c)
<1>1. Pixel(r + RowStep, c) = k + RowStep * Width
  BY Steps, ConsoleAssumption DEF Legible, Pixel
<1>2. r < ScrollEnd <=> k < ScrollEnd * Width
  <2>1. ScrollEnd * Width = Width * ScrollEnd
    BY ScrollEndRange, ConsoleAssumption
  <2> QED
    BY <2>1, RowsInOrder, ScrollEndRange, ConsoleAssumption DEF Legible, Pixel
<1>3. Scroll(memory)[k] =
        IF k < ScrollEnd * Width THEN memory[k + RowStep * Width]
        ELSE IF (ScrollEnd + RowStep) * Width <= k /\ k < (Height + RowStep) * Width
             THEN "black" ELSE memory[k]
  BY Zenon DEF Scroll
<1>4. r < ScrollEnd => Pixel(r + RowStep, c) \in Memory
  <2> SUFFICES ASSUME r < ScrollEnd PROVE Pixel(r + RowStep, c) \in Memory
    OBVIOUS
  <2>1. r + RowStep \in Nat /\ ScrollEnd + RowStep \in Nat /\ r + RowStep < ScrollEnd + RowStep
    BY Steps, ScrollEndRange
  <2>2. /\ Width * (r + RowStep) + c \in Nat
        /\ Width * (r + RowStep) + c < Width * (ScrollEnd + RowStep)
    BY <2>1, RowsInOrder, ConsoleAssumption
  <2>3. Width * (ScrollEnd + RowStep) = (ScrollEnd + RowStep) * Width
    BY <2>1, ConsoleAssumption
  <2>4. /\ Pixel(r + RowStep, c) \in Nat
        /\ Pixel(r + RowStep, c) < (ScrollEnd + RowStep) * Width
    BY <2>2, <2>3 DEF Pixel, Legible
  <2>5. (ScrollEnd + RowStep) * Width \in Nat
    BY <2>1, ConsoleAssumption
  <2> QED
    BY <2>4, <2>5, ReachRange DEF Memory
<1> HIDE DEF k
<1>5. r < ScrollEnd => Scroll(memory)[k] = memory[Pixel(r + RowStep, c)]
  BY <1>1, <1>2, <1>3
<1>6. ~ (r < ScrollEnd) => Scroll(memory)[k] \in {"black", memory[k]}
  BY <1>2, <1>3
<1> QED
  BY <1>4, <1>5, <1>6 DEF k

LEMMA ScrollCells ==
  ASSUME Legible, NEW memory, NEW i \in 0..(Lines - 1), i + 1 < Lines,
         NEW j \in 0..(Columns - 1)
  PROVE  Cell(Scroll(memory), i, j) = Cell(memory, i + 1, j)
<1>1. ASSUME NEW a \in 0..(RowStep - 1), NEW b \in 0..(ColStep - 1)
      PROVE  Scroll(memory)[Pixel(i * RowStep + a, j * ColStep + b)] =
               memory[Pixel((i + 1) * RowStep + a, j * ColStep + b)]
  <2> DEFINE r == i * RowStep + a
             c == j * ColStep + b
  <2>1. r \in Nat /\ c \in 0..(Width - 1) /\ Pixel(r, c) \in Memory
    BY CellPlace, ConsoleAssumption
  <2>2. (i + 1) * RowStep + a = r + RowStep
    BY Steps, Grid
  <2>3. r < ScrollEnd
    <3>1. r \in 0..(Height - 2)
      BY CellPlace
    <3> QED
      BY <3>1, ScrollEndRange, ConsoleAssumption
  <2> HIDE DEF r, c
  <2>4. Scroll(memory)[Pixel(r, c)] = memory[Pixel(r + RowStep, c)]
    BY <2>1, <2>3, Scrolled
  <2> QED
    BY <2>2, <2>4 DEF r, c
<1> QED
  BY <1>1 DEF Cell, Pixel

LEMMA ScrollClear ==
  ASSUME Legible, TextInv, NEW memory, NEW c0, Clear(memory, row, c0)
  PROVE  Clear(Scroll(memory), row, 0)
<1> SUFFICES ASSUME NEW r \in Nat, NEW c \in 0..(Width - 1), Pixel(r, c) \in Memory, r >= row
             PROVE  Scroll(memory)[Pixel(r, c)] = "black"
  BY DEF Clear
<1>1. row \in Nat /\ row + RowStep < Height
  BY DEF TextInv, ConsoleInv, TypeOK, CursorInside
<1>2. CASE r < ScrollEnd
  <2>1. Pixel(r + RowStep, c) \in Memory /\ r + RowStep \in Nat
    BY <1>2, Scrolled, Steps
  <2>2. memory[Pixel(r + RowStep, c)] = "black"
    BY <1>1, <2>1, Steps DEF Clear
  <2> QED
    BY <1>2, <2>2, Scrolled
<1>3. CASE ~ (r < ScrollEnd)
  <2>1. r >= row + RowStep
    BY <1>1, <1>3, ScrollEndRange, Steps, ConsoleAssumption
  <2>2. memory[Pixel(r, c)] = "black"
    BY <2>1 DEF Clear
  <2> QED
    BY <1>3, <2>2, Scrolled
<1> QED
  BY <1>2, <1>3

(***************************************************************************)
(* newline on a memory that shows a text, clear behind the cursor, does to *)
(* it what a terminal does.                                                *)
(***************************************************************************)
LEMMA NewlineKeeps ==
  ASSUME Legible, TextInv, NEW memory, NEW c0, Clear(memory, row, c0), newline(memory)
  PROVE  Aligned' /\ Clear(base', row', col')
<1>1. PICK i \in 0..(Lines - 1), j \in 0..(Columns - 1) : At(i, j)
  BY DEF TextInv, Aligned
<1>2. 0 \in 0..(Columns - 1) /\ 0 * ColStep = 0
  BY Grid, Steps
<1>3. row \in Nat
  BY DEF TextInv, ConsoleInv, TypeOK
<1>4. CASE LastLine
  <2>1. col' = 0 /\ base' = Scroll(memory) /\ row' = row
    BY <1>4 DEF newline
  <2>2. At(i, 0)'
    BY <1>1, <1>2, <2>1 DEF At
  <2> QED
    BY <1>2, <2>1, <2>2, ScrollClear DEF Aligned
<1>5. CASE ~ LastLine
  <2>1. col' = 0 /\ base' = memory /\ row' = row + RowStep
    BY <1>5 DEF newline
  <2>2. i + 1 \in 0..(Lines - 1) /\ row' = (i + 1) * RowStep
    BY <1>1, <1>5, <2>1, LastOnes, Grid
  <2>3. At(i + 1, 0)'
    BY <1>2, <2>1, <2>2 DEF At
  <2> QED
    BY <1>2, <1>3, <2>1, <2>2, <2>3, ClearBelow DEF Aligned
<1> QED
  BY <1>4, <1>5

LEMMA TextInit == Legible /\ Init => TextInv
<1> SUFFICES ASSUME Legible, Init PROVE TextInv
  OBVIOUS
<1>1. ConsoleInv
  BY ConsoleInit
<1>2. 0 \in 0..(Lines - 1) /\ 0 \in 0..(Columns - 1) /\ 0 * RowStep = 0 /\ 0 * ColStep = 0
  BY Grid, Steps
<1>3. Aligned
  BY <1>2 DEF Init, Aligned, At
<1>4. ASSUME NEW k \in Memory, k >= Size PROVE base[k] = "black"
  <2>1. k \in Nat /\ Size \in Nat
    BY ReachRange, ConsoleAssumption DEF Memory, Size
  <2>2. ~ (k < Size)
    BY <1>4, <2>1
  <2> QED
    BY <2>2 DEF Init, Legible
<1> QED
  BY <1>1, <1>3, <1>4 DEF Init, TextInv

LEMMA TextStep == Legible /\ TextInv /\ [Next]_vars => TextInv'
<1> SUFFICES ASSUME Legible, TextInv, [Next]_vars PROVE TextInv'
  OBVIOUS
<1>0. ConsoleInv' /\ ConsoleInv
  BY ConsoleStep DEF TextInv
<1>1. CASE Fill
  <2>1. ASSUME NEW k \in Memory PROVE base'[k] = "black"
    <3>1. base'[k] = IF k < Size THEN "black" ELSE base[k]
      BY <1>1, Zenon DEF Fill, Filled
    <3>2. k \in Nat /\ Size \in Nat
      BY ReachRange, ConsoleAssumption DEF Memory, Size
    <3>3. ~ (k < Size) => base[k] = "black"
      BY <1>1, <3>2 DEF Fill, TextInv
    <3> QED
      BY <3>1, <3>3
  <2>2. Clear(base', row', col')
    BY <2>1 DEF Clear
  <2>3. Aligned'
    BY <1>1 DEF Fill, TextInv, Aligned, At
  <2> QED
    BY <1>0, <1>1, <2>2, <2>3 DEF Fill, TextInv, Clear
<1>2. CASE PrintNewline
  <2>1. phase = "print" /\ phase' = phase /\ newline(base)
    BY <1>2 DEF PrintNewline, Another
  <2>2. Clear(base, row, col)
    BY <2>1 DEF TextInv
  <2> QED
    BY <1>0, <2>1, <2>2, NewlineKeeps DEF TextInv, Clear
<1>3. CASE \E char \in Chars : PrintChar(char)
  <2>1. PICK char \in Chars : PrintChar(char)
    BY <1>3
  <2>2. phase = "print" /\ phase' = phase
    BY <2>1 DEF PrintChar, Another
  <2>3. Clear(print_char(char), row, col + ColStep)
    BY <2>2, DrawClear
  <2>4. CASE col + ColStep + ColStep >= Width
    <3>1. newline(print_char(char))
      BY <2>1, <2>4 DEF PrintChar
    <3>2. Aligned' /\ Clear(base', row', col')
      BY <2>3, <3>1, NewlineKeeps
    <3> QED
      BY <1>0, <2>2, <3>2 DEF TextInv, Clear
  <2>5. CASE ~ (col + ColStep + ColStep >= Width)
    <3>1. base' = print_char(char) /\ col' = col + ColStep /\ row' = row
      BY <2>1, <2>5 DEF PrintChar, NextColumn
    <3>2. PICK i \in 0..(Lines - 1), j \in 0..(Columns - 1) : At(i, j)
      BY DEF TextInv, Aligned
    <3>3. j + 1 \in 0..(Columns - 1) /\ col' = (j + 1) * ColStep
      BY <2>5, <3>1, <3>2, LastOnes, Grid
    <3>4. At(i, j + 1)'
      BY <3>1, <3>2, <3>3 DEF At
    <3>5. Aligned'
      BY <3>3, <3>4 DEF Aligned
    <3>6. Clear(base', row', col')
      BY <2>3, <3>1
    <3> QED
      BY <1>0, <2>2, <3>5, <3>6 DEF TextInv, Clear
  <2> QED
    BY <2>4, <2>5
<1>4. CASE EndOfText
  BY <1>0, <1>4 DEF EndOfText, TextInv, Aligned, At, Clear
<1>5. CASE Paint
  BY <1>0, <1>5 DEF Paint, TextInv, Aligned, At
<1>6. CASE UNCHANGED vars
  BY <1>0, <1>6 DEF vars, TextInv, Aligned, At, Clear
<1> QED
  BY <1>1, <1>2, <1>3, <1>4, <1>5, <1>6 DEF Next

-----------------------------------------------------------------------------
(***************************************************************************)
(* The texts that the pixels show.                                         *)
(***************************************************************************)
LEMMA TextShown ==
  /\ phase \in {"print", "halt"} => Text = TextOf(base)
  /\ phase \notin {"print", "halt"} => Text = Screen!BlankScreen
BY DEF Text, TextOf, Screen!BlankScreen, Screen!BlankLine

LEMMA TextTyped ==
  ASSUME Legible, TextInv, phase \in {"print", "halt"}, NEW char \in Chars,
         NEW i \in 0..(Lines - 1), NEW j \in 0..(Columns - 1), At(i, j)
  PROVE  TextOf(print_char(char)) = [TextOf(base) EXCEPT ![i][j] = Seen(char)]
<1>1. ASSUME NEW k \in 0..(Lines - 1), NEW l \in 0..(Columns - 1)
      PROVE  ReadBack(print_char(char), k, l) =
               IF k = i /\ l = j THEN Seen(char) ELSE ReadBack(base, k, l)
  <2>1. CASE k = i /\ l = j
    <3>1. Cell(print_char(char), k, l) = Drawn(char)
      BY <2>1, DrawCells
    <3> QED
      BY <2>1, <3>1, ReadDrawn
  <2>2. CASE ~ (k = i /\ l = j)
    <3>1. Cell(print_char(char), k, l) = Cell(base, k, l)
      BY <2>2, DrawCells
    <3>2. ReadBack(print_char(char), k, l) = ReadBack(base, k, l)
      BY <3>1, Zenon DEF ReadBack
    <3> QED
      BY <2>2, <3>2
  <2> QED
    BY <2>1, <2>2
<1> QED
  BY <1>1 DEF TextOf

LEMMA TextScrolled ==
  ASSUME Legible, TextInv, LastLine, NEW memory, NEW c0, Clear(memory, row, c0)
  PROVE  TextOf(Scroll(memory)) =
           [i \in 0..(Lines - 1) |->
              IF i + 1 < Lines THEN TextOf(memory)[i + 1] ELSE Screen!BlankLine]
<1>1. ASSUME NEW i \in 0..(Lines - 1), i + 1 < Lines, NEW j \in 0..(Columns - 1)
      PROVE  /\ i + 1 \in 0..(Lines - 1)
             /\ ReadBack(Scroll(memory), i, j) = ReadBack(memory, i + 1, j)
  <2>1. Cell(Scroll(memory), i, j) = Cell(memory, i + 1, j)
    BY <1>1, ScrollCells
  <2>2. ReadBack(Scroll(memory), i, j) = ReadBack(memory, i + 1, j)
    BY <2>1, Zenon DEF ReadBack
  <2> QED
    BY <1>1, <2>2, Grid
<1>2. ASSUME NEW i \in 0..(Lines - 1), ~ (i + 1 < Lines), NEW j \in 0..(Columns - 1)
      PROVE  ReadBack(Scroll(memory), i, j) = Empty
  <2>1. i + 1 = Lines
    BY <1>2, Grid
  <2>2. PICK k \in 0..(Lines - 1), l \in 0..(Columns - 1) : At(k, l)
    BY DEF TextInv, Aligned
  <2>3. row = i * RowStep
    <3>1. k = i
      BY <2>1, <2>2, LastOnes, Grid
    <3> QED
      BY <2>2, <3>1 DEF At
  <2>4. ASSUME NEW a \in 0..(RowStep - 1), NEW b \in 0..(ColStep - 1)
        PROVE  Scroll(memory)[Pixel(i * RowStep + a, j * ColStep + b)] = "black"
    <3> DEFINE r == i * RowStep + a
               c == j * ColStep + b
    <3>1. r \in Nat /\ c \in 0..(Width - 1) /\ Pixel(r, c) \in Memory /\ r >= row /\ c >= 0
      BY <2>3, CellPlace, ConsoleAssumption
    <3> HIDE DEF r, c
    <3>2. Scroll(memory)[Pixel(r, c)] = "black"
      BY <3>1, ScrollClear DEF Clear
    <3> QED
      BY <3>2 DEF r, c
  <2> QED
    BY <2>4, ReadBlank
<1>3. ASSUME NEW i \in 0..(Lines - 1)
      PROVE  TextOf(Scroll(memory))[i] =
               IF i + 1 < Lines THEN TextOf(memory)[i + 1] ELSE Screen!BlankLine
  <2>1. TextOf(Scroll(memory))[i] = [j \in 0..(Columns - 1) |-> ReadBack(Scroll(memory), i, j)]
    BY DEF TextOf
  <2>2. CASE i + 1 < Lines
    <3>1. i + 1 \in 0..(Lines - 1)
      BY <2>2, Grid
    <3>2. TextOf(memory)[i + 1] = [j \in 0..(Columns - 1) |-> ReadBack(memory, i + 1, j)]
      BY <3>1, Zenon DEF TextOf
    <3> QED
      BY <1>1, <2>1, <2>2, <3>2
  <2>3. CASE ~ (i + 1 < Lines)
    BY <1>2, <2>1, <2>3 DEF Screen!BlankLine
  <2> QED
    BY <2>2, <2>3
<1> DEFINE up == [i \in 0..(Lines - 1) |->
                    IF i + 1 < Lines THEN TextOf(memory)[i + 1] ELSE Screen!BlankLine]
<1>4. TextOf(Scroll(memory)) = [i \in 0..(Lines - 1) |-> TextOf(Scroll(memory))[i]]
  BY DEF TextOf
<1> QED
  BY <1>3, <1>4

(***************************************************************************)
(* newline is a line feed of the terminal.                                 *)
(***************************************************************************)
LEMMA LineFeeds ==
  ASSUME Legible, TextInv, phase = "print", phase' = "print",
         NEW memory, NEW c0, Clear(memory, row, c0), newline(memory)
  PROVE  Screen!LineFeed(TextOf(memory))
<1>1. PICK i \in 0..(Lines - 1), j \in 0..(Columns - 1) : At(i, j)
  BY DEF TextInv, Aligned
<1> DEFINE line == IF phase = "painted" THEN 0 ELSE row \div RowStep
           column == IF phase = "painted" THEN 0 ELSE col \div ColStep
<1>2. line = i
  BY <1>1, LastOnes
<1>3. column' = 0
  <2>1. col' = 0 /\ 0 \in 0..(Columns - 1) /\ 0 * ColStep = 0
    BY Grid, Steps DEF newline
  <2>2. 0 \div ColStep = 0
    BY <1>1, <2>1, LineOf
  <2> QED
    BY <2>1, <2>2
<1>4. Text' = TextOf(base')
  BY DEF Text, TextOf
<1>5. CASE LastLine
  <2>1. base' = Scroll(memory) /\ row' = row
    BY <1>5 DEF newline
  <2>2. line + 1 = Lines /\ line' = line
    BY <1>1, <1>2, <1>5, <2>1, LastOnes
  <2>3. Text' = [k \in 0..(Lines - 1) |->
                   IF k + 1 < Lines THEN TextOf(memory)[k + 1] ELSE Screen!BlankLine]
    BY <1>4, <1>5, <2>1, TextScrolled
  <2> QED
    BY <1>3, <2>2, <2>3 DEF Screen!LineFeed
<1>6. CASE ~ LastLine
  <2>1. base' = memory /\ row' = row + RowStep
    BY <1>6 DEF newline
  <2>2. i + 1 \in 0..(Lines - 1) /\ i + 1 < Lines /\ row' = (i + 1) * RowStep
    BY <1>1, <1>6, <2>1, LastOnes, Grid
  <2>3. row' \div RowStep = i + 1
    BY <1>1, <2>2, LineOf
  <2>4. line' = line + 1 /\ line + 1 < Lines
    BY <1>2, <2>2, <2>3
  <2>5. Text' = TextOf(memory)
    BY <1>4, <2>1
  <2> QED
    BY <1>3, <2>4, <2>5 DEF Screen!LineFeed
<1> QED
  BY <1>5, <1>6

(***************************************************************************)
(* The kernel's console is a terminal: the pixels that fill, print,        *)
(* newline and print_char leave (kernel.c:147-281) show, read back cell by *)
(* cell, the text of a grid of lines that scrolls, on every screen that    *)
(* has no padding and black memory behind it, with every font that has a   *)
(* blank and whose glyphs fit.                                             *)
(***************************************************************************)
THEOREM ImplementsTerminal == Legible => (Spec => ShowsText)
<1> SUFFICES ASSUME Legible PROVE Spec => ShowsText
  OBVIOUS
<1>1. Init => Screen!TerminalInit
  <2> SUFFICES ASSUME Init PROVE Screen!TerminalInit
    OBVIOUS
  <2>1. Text = Screen!BlankScreen
    BY TextShown DEF Init
  <2>2. 0 \div RowStep = 0 /\ 0 \div ColStep = 0
    <3>1. 0 \in 0..(Lines - 1) /\ 0 \in 0..(Columns - 1) /\ 0 * RowStep = 0 /\ 0 * ColStep = 0
      BY Grid, Steps
    <3> QED
      BY <3>1, LineOf
  <2> QED
    BY <2>1, <2>2 DEF Init, Screen!TerminalInit
<1>2. TextInv /\ TextInv' /\ [Next]_vars => [Screen!TerminalNext]_(Screen!terminal)
  <2> SUFFICES ASSUME TextInv, TextInv', [Next]_vars
               PROVE  Screen!TerminalNext \/ UNCHANGED Screen!terminal
    OBVIOUS
  <2>1. CASE Fill
    <3>1. phase = "fill" /\ phase' = "print" /\ row' = row /\ col' = col
      BY <2>1 DEF Fill
    <3>2. Text' = TextOf(base')
      BY <3>1 DEF Text, TextOf
    <3>3. ASSUME NEW i \in 0..(Lines - 1), NEW j \in 0..(Columns - 1)
          PROVE  ReadBack(base', i, j) = Empty
      <4>1. ASSUME NEW a \in 0..(RowStep - 1), NEW b \in 0..(ColStep - 1)
            PROVE  base'[Pixel(i * RowStep + a, j * ColStep + b)] = "black"
        <5> DEFINE r == i * RowStep + a
                   c == j * ColStep + b
        <5>1. r \in Nat /\ c \in 0..(Width - 1) /\ Pixel(r, c) \in Memory /\ r >= 0 /\ c >= 0
          BY CellPlace, ConsoleAssumption
        <5> HIDE DEF r, c
        <5>2. row' = 0 /\ col' = 0 /\ Clear(base', 0, 0)
          BY <3>1 DEF TextInv, Clear
        <5>3. base'[Pixel(r, c)] = "black"
          BY <5>1, <5>2 DEF Clear
        <5> QED
          BY <5>3 DEF r, c
      <4> QED
        BY <4>1, ReadBlank
    <3>4. Text' = Screen!BlankScreen
      BY <3>2, <3>3 DEF TextOf, Screen!BlankScreen, Screen!BlankLine
    <3>5. Text = Screen!BlankScreen
      BY <3>1, TextShown
    <3>6. Screen!TurnOn
      BY <3>1, <3>4, <3>5 DEF Screen!TurnOn
    <3> QED
      BY <3>6 DEF Screen!TerminalNext
  <2>2. CASE PrintNewline
    <3>1. phase = "print" /\ phase' = "print" /\ newline(base)
      BY <2>2 DEF PrintNewline, Another
    <3>2. Clear(base, row, col)
      BY <3>1 DEF TextInv
    <3>3. Screen!LineFeed(TextOf(base))
      BY <3>1, <3>2, LineFeeds
    <3>4. TextOf(base) = Text
      BY <3>1, TextShown
    <3>5. Screen!Break
      BY <3>1, <3>3, <3>4 DEF Screen!Break
    <3> QED
      BY <3>5 DEF Screen!TerminalNext
  <2>3. CASE \E char \in Chars : PrintChar(char)
    <3>1. PICK char \in Chars : PrintChar(char)
      BY <2>3
    <3>2. phase = "print" /\ phase' = "print"
      BY <3>1 DEF PrintChar, Another
    <3>3. PICK i \in 0..(Lines - 1), j \in 0..(Columns - 1) : At(i, j)
      BY DEF TextInv, Aligned
    <3> DEFINE line == IF phase = "painted" THEN 0 ELSE row \div RowStep
               column == IF phase = "painted" THEN 0 ELSE col \div ColStep
               text == [Text EXCEPT ![line][column] = Seen(char)]
    <3>4. line = i /\ column = j
      BY <3>2, <3>3, LastOnes
    <3>5. TextOf(print_char(char)) = text
      <4>1. Text = TextOf(base)
        BY <3>2, TextShown
      <4> QED
        BY <3>2, <3>3, <3>4, <4>1, TextTyped
    <3>6. Seen(char) \in Chars
      BY Chosen DEF Seen
    <3>7. \/ /\ column + 1 < Columns
             /\ column' = column + 1
             /\ line' = line
             /\ Text' = text
          \/ /\ column + 1 = Columns
             /\ Screen!LineFeed(text)
      <4>1. CASE col + ColStep + ColStep >= Width
        <5>1. newline(print_char(char))
          BY <3>1, <4>1 DEF PrintChar
        <5>2. Clear(print_char(char), row, col + ColStep)
          BY <3>2, DrawClear
        <5>3. Screen!LineFeed(TextOf(print_char(char)))
          BY <3>2, <5>1, <5>2, LineFeeds
        <5> QED
          BY <3>3, <3>4, <3>5, <4>1, <5>3, LastOnes
      <4>2. CASE ~ (col + ColStep + ColStep >= Width)
        <5>1. base' = print_char(char) /\ col' = col + ColStep /\ row' = row
          BY <3>1, <4>2 DEF PrintChar, NextColumn
        <5>2. j + 1 \in 0..(Columns - 1) /\ j + 1 < Columns /\ col' = (j + 1) * ColStep
          BY <3>3, <4>2, <5>1, LastOnes, Grid
        <5>3. col' \div ColStep = j + 1
          BY <3>3, <5>2, LineOf
        <5>4. Text' = TextOf(base')
          BY <3>2 DEF Text, TextOf
        <5>5. column' = column + 1 /\ line' = line
          BY <3>2, <3>4, <5>1, <5>3
        <5> QED
          BY <3>4, <3>5, <5>1, <5>2, <5>4, <5>5
      <4> QED
        BY <4>1, <4>2
    <3> HIDE DEF text
    <3>8. Screen!Type(Seen(char))
      BY <3>2, <3>7 DEF Screen!Type, text
    <3> QED
      BY <3>6, <3>8 DEF Screen!TerminalNext
  <2>4. CASE EndOfText
    BY <2>4 DEF EndOfText, Text, ReadBack, Cell, Screen!terminal
  <2>5. CASE Paint
    <3>1. phase = "halt" /\ phase' = "painted"
      BY <2>5 DEF Paint
    <3>2. Text' = Screen!BlankScreen
      BY <3>1 DEF Text, Screen!BlankScreen, Screen!BlankLine
    <3>3. Screen!TurnOff
      BY <3>1, <3>2 DEF Screen!TurnOff
    <3> QED
      BY <3>3 DEF Screen!TerminalNext
  <2>6. CASE UNCHANGED vars
    BY <2>6 DEF vars, Text, ReadBack, Cell, Screen!terminal
  <2> QED
    BY <2>1, <2>2, <2>3, <2>4, <2>5, <2>6 DEF Next
<1>3. Init => TextInv
  BY TextInit
<1>4. TextInv /\ [Next]_vars => TextInv'
  BY TextStep
<1> QED
  BY <1>1, <1>2, <1>3, <1>4, PTL DEF Spec, ShowsText, Screen!TerminalSpec
=============================================================================
