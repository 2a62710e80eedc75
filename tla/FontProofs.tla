----------------------------- MODULE FontProofs -----------------------------
(***************************************************************************)
(* Theorems about Font, for every set of font files, every size of the     *)
(* header, every number of glyphs and rows, and every set of characters    *)
(* that leaves print_char as many glyphs as it draws rows.                 *)
(***************************************************************************)
EXTENDS Font, TLAPS

(***************************************************************************)
(* What EfiLoadFont has made of the file: the header it has read, zeros    *)
(* where the file was too short, and the size and the place it computes    *)
(* from it.                                                                *)
(***************************************************************************)
HeaderInv ==
  /\ pc = "header" => position = 0
  /\ pc \notin {"header", "halted"} =>
       header = [mode   |-> IF file.length > 2 THEN file.mode ELSE 0,
                 height |-> IF file.length > 3 THEN file.height ELSE 0]
  /\ pc \in {"allocate", "read"} => position = HeaderSize
  /\ pc \in {"allocate", "read", "kernel", "draw"} => size = GlyphBytes

(***************************************************************************)
(* What the kernel finds behind the pointer: the cells of the file behind  *)
(* its header as far as it goes, and junk.                                 *)
(***************************************************************************)
GlyphsInv ==
  /\ pc \in {"header", "seek", "allocate"} => glyphs = << >>
  /\ pc = "read" => glyphs = [k \in 0..(size - 1) |-> Junk]
  /\ pc \in {"kernel", "draw"} =>
       glyphs = [k \in 0..(size - 1) |->
                   IF HeaderSize + k < file.length THEN Byte(HeaderSize + k) ELSE Junk]

(***************************************************************************)
(* The pointer of print_char is where its loop variable says.              *)
(***************************************************************************)
DrawInv ==
  pc = "draw" =>
    /\ character \in Chars
    /\ glyph = character * header.height + row

(***************************************************************************)
(* The inductive invariant.                                                *)
(***************************************************************************)
IInv == TypeOK /\ HeaderInv /\ GlyphsInv /\ DrawInv
-----------------------------------------------------------------------------
(***************************************************************************)
(* A row below the last glyph that print_char may start at is still a row  *)
(* of the glyphs: every glyph further on has at least one row.             *)
(***************************************************************************)
LEMMA RowsBelow ==
  ASSUME NEW c \in Nat, NEW n \in Nat, NEW r \in Nat, NEW rows \in Nat, NEW h \in Nat,
         c + rows <= n, r < rows, h >= 1
  PROVE  c * h + r \in Nat /\ c * h + r < h * n
<1>1. PICK d \in Nat : n = c + d /\ d >= rows
  <2>1. n - c \in Nat /\ n = c + (n - c) /\ n - c >= rows
    OBVIOUS
  <2> QED
    BY <2>1
<1>2. PICK e \in Nat : h = e + 1
  <2>1. h - 1 \in Nat /\ h = (h - 1) + 1
    OBVIOUS
  <2> QED
    BY <2>1
<1>3. h * n = c * h + h * d
  BY <1>1
<1>4. h * d = d * e + d
  BY <1>1, <1>2
<1>5. d * e \in Nat
  BY <1>1, <1>2
<1>6. c * h \in Nat
  OBVIOUS
<1> QED
  BY <1>1, <1>3, <1>4, <1>5, <1>6

(***************************************************************************)
(* The sizes the loader computes are sizes.                                *)
(***************************************************************************)
LEMMA GlyphBytesNat ==
  ASSUME header \in [mode: Nat, height: Nat]
  PROVE  GlyphBytes \in Nat /\ GlyphBytes >= header.height * Count
<1>1. header.height \in Nat /\ Count \in Nat
  BY FontAssumption
<1>2. header.height * Count \in Nat
  BY <1>1
<1>3. header.height * (2 * Count) = header.height * Count + header.height * Count
  BY <1>1
<1> QED
  BY <1>1, <1>2, <1>3 DEF GlyphBytes

(***************************************************************************)
(* What the files are.                                                     *)
(***************************************************************************)
LEMMA FileType ==
  ASSUME TypeOK
  PROVE  file.length \in Nat /\ file.mode \in Nat /\ file.height \in Nat
BY FontAssumption DEF TypeOK

(***************************************************************************)
(* The initial state.                                                      *)
(***************************************************************************)
LEMMA FontInit == Init => IInv
<1> SUFFICES ASSUME Init PROVE IInv
  OBVIOUS
<1>1. TypeOK
  BY FontAssumption DEF Init, TypeOK
<1>2. HeaderInv /\ GlyphsInv /\ DrawInv
  BY DEF Init, HeaderInv, GlyphsInv, DrawInv
<1> QED
  BY <1>1, <1>2 DEF IInv

(***************************************************************************)
(* The steps of EfiLoadFont.                                               *)
(***************************************************************************)
LEMMA ReadHeaderKeeps == IInv /\ ReadHeader => IInv'
<1> SUFFICES ASSUME IInv, ReadHeader PROVE IInv'
  OBVIOUS
<1> USE DEF IInv, ReadHeader
<1>1. file.length \in Nat /\ file.mode \in Nat /\ file.height \in Nat
  BY FileType
<1>2. position = 0 /\ HeaderSize \in Nat
  BY FontAssumption DEF HeaderInv
<1>3. position' \in Nat
  BY <1>1, <1>2 DEF Delivered
<1>4. header' \in [mode: Nat, height: Nat]
  BY <1>1
<1>5. TypeOK'
  BY <1>3, <1>4 DEF TypeOK, locals
<1>6. HeaderInv' /\ GlyphsInv' /\ DrawInv'
  BY DEF HeaderInv, GlyphsInv, DrawInv
<1> QED
  BY <1>5, <1>6

LEMMA SetPositionKeeps == IInv /\ SetPosition => IInv'
<1> SUFFICES ASSUME IInv, SetPosition PROVE IInv'
  OBVIOUS
<1> USE DEF IInv, SetPosition, GlyphsAt
<1>1. GlyphBytes \in Nat
  BY GlyphBytesNat DEF TypeOK
<1>2. glyphs = << >>
  BY DEF GlyphsInv
<1>3. TypeOK'
  BY <1>1, <1>2, FontAssumption DEF TypeOK, locals
<1>4. HeaderInv' /\ GlyphsInv' /\ DrawInv'
  BY DEF HeaderInv, GlyphsInv, DrawInv, GlyphBytes
<1> QED
  BY <1>3, <1>4

LEMMA AllocateGlyphsKeeps == IInv /\ AllocateGlyphs => IInv'
<1> SUFFICES ASSUME IInv, AllocateGlyphs PROVE IInv'
  OBVIOUS
<1> USE DEF IInv, AllocateGlyphs
<1>1. glyphs' \in [0..(size - 1) -> {Junk} \cup {Byte(n) : n \in 0..(file.length - 1)}]
  OBVIOUS
<1>2. TypeOK'
  BY <1>1 DEF TypeOK, locals
<1>3. HeaderInv' /\ GlyphsInv' /\ DrawInv'
  BY DEF HeaderInv, GlyphsInv, DrawInv, GlyphBytes
<1> QED
  BY <1>2, <1>3

(***************************************************************************)
(* A Read delivers up to the end of the file what was asked for.           *)
(***************************************************************************)
LEMMA ReadGlyphsKeeps == IInv /\ ReadGlyphs => IInv'
<1> SUFFICES ASSUME IInv, ReadGlyphs PROVE IInv'
  OBVIOUS
<1> USE DEF IInv, ReadGlyphs
<1>1. position = HeaderSize /\ HeaderSize \in Nat /\ size \in Nat /\ file.length \in Nat
  BY FontAssumption, FileType DEF HeaderInv, TypeOK
<1>2. position' \in Nat
  BY <1>1 DEF Delivered
<1>3. \A k \in 0..(size - 1) :
        (IF k < Delivered(size) THEN Byte(position + k) ELSE glyphs[k])
          = IF HeaderSize + k < file.length THEN Byte(HeaderSize + k) ELSE Junk
  <2> TAKE k \in 0..(size - 1)
  <2>1. glyphs[k] = Junk
    BY DEF GlyphsInv
  <2>2. k < Delivered(size) <=> HeaderSize + k < file.length
    BY <1>1 DEF Delivered
  <2> QED
    BY <1>1, <2>1, <2>2
<1>4. glyphs' = [k \in 0..(size - 1) |->
                   IF HeaderSize + k < file.length THEN Byte(HeaderSize + k) ELSE Junk]
  BY <1>3
<1>5. glyphs' \in [0..(size - 1) -> {Junk} \cup {Byte(n) : n \in 0..(file.length - 1)}]
  <2>1. \A k \in 0..(size - 1) :
          HeaderSize + k < file.length => HeaderSize + k \in 0..(file.length - 1)
    BY <1>1
  <2> QED
    BY <1>4, <2>1
<1>6. TypeOK'
  BY <1>2, <1>5 DEF TypeOK, locals
<1>7. HeaderInv' /\ DrawInv'
  BY DEF HeaderInv, DrawInv, GlyphBytes
<1>8. GlyphsInv'
  BY <1>4 DEF GlyphsInv
<1> QED
  BY <1>6, <1>7, <1>8

(***************************************************************************)
(* The steps of print_char.                                                *)
(***************************************************************************)
LEMMA PrintCharKeeps ==
  ASSUME IInv, NEW char \in Chars, PrintChar(char)
  PROVE  IInv'
<1> USE DEF IInv, PrintChar
<1>1. char \in Int /\ header.height \in Nat /\ GlyphRows \in Nat
  BY FontAssumption DEF TypeOK
<1>2. glyph' \in Int
  BY <1>1
<1>3. TypeOK'
  BY <1>1, <1>2 DEF TypeOK
<1>4. HeaderInv' /\ GlyphsInv'
  BY DEF HeaderInv, GlyphsInv, GlyphBytes
<1>5. DrawInv'
  BY <1>2 DEF DrawInv
<1> QED
  BY <1>3, <1>4, <1>5

LEMMA DrawRowKeeps == IInv /\ DrawRow => IInv'
<1> SUFFICES ASSUME IInv, DrawRow PROVE IInv'
  OBVIOUS
<1> USE DEF IInv, DrawRow, MoreRows
<1>1. character \in Int /\ header.height \in Nat /\ GlyphRows \in Nat /\ row \in Nat
  BY FontAssumption DEF TypeOK
<1>2. TypeOK'
  BY <1>1 DEF TypeOK
<1>3. HeaderInv' /\ GlyphsInv'
  BY DEF HeaderInv, GlyphsInv, GlyphBytes
<1>4. character * header.height \in Int
  BY <1>1
<1>5. DrawInv'
  BY <1>1, <1>4 DEF DrawInv
<1> QED
  BY <1>2, <1>3, <1>5

LEMMA EndOfGlyphKeeps == IInv /\ EndOfGlyph => IInv'
BY DEF IInv, EndOfGlyph, locals, TypeOK, HeaderInv, GlyphsInv, DrawInv, GlyphBytes

LEMMA HaltKeeps == IInv /\ Halt => IInv'
BY DEF IInv, Halt, locals, TypeOK, HeaderInv, GlyphsInv, DrawInv, GlyphBytes

LEMMA FontStep == IInv /\ [Next]_vars => IInv'
<1> SUFFICES ASSUME IInv, [Next]_vars PROVE IInv'
  OBVIOUS
<1>1. CASE UNCHANGED vars
  BY <1>1 DEF IInv, vars, locals, TypeOK, HeaderInv, GlyphsInv, DrawInv, GlyphBytes
<1> QED
  BY <1>1, HaltKeeps, ReadHeaderKeeps, SetPositionKeeps, AllocateGlyphsKeeps,
     ReadGlyphsKeeps, PrintCharKeeps, DrawRowKeeps, EndOfGlyphKeeps
  DEF Next

(***************************************************************************)
(* Every reachable state satisfies the invariant.                          *)
(***************************************************************************)
LEMMA Inductive == Spec => []IInv
BY FontInit, FontStep, PTL DEF Spec
-----------------------------------------------------------------------------
(***************************************************************************)
(* What the invariant says of the cell that the next turn of the loop      *)
(* reads: for a character from 0 on and a font with rows it is a cell of   *)
(* the glyphs.                                                             *)
(***************************************************************************)
LEMMA SeenInside ==
  ASSUME IInv, Reading, character >= 0, header.height > 0
  PROVE  /\ glyph \in 0..(size - 1)
         /\ glyph = character * header.height + row
         /\ character * header.height \in Nat
<1> USE DEF IInv, Reading
<1>1. character \in Chars /\ glyph = character * header.height + row
  BY DEF DrawInv
<1>2. character \in Nat /\ character + GlyphRows <= Count /\ Count \in Nat /\ GlyphRows \in Nat
  BY <1>1, FontAssumption
<1>3. header.height \in Nat /\ row \in Nat /\ size \in Nat
  BY <1>2 DEF TypeOK
<1>4. glyph \in Nat /\ glyph < header.height * Count
  BY <1>1, <1>2, <1>3, RowsBelow
<1>5. size >= header.height * Count
  BY GlyphBytesNat DEF TypeOK, HeaderInv
<1>6. header.height * Count \in Nat /\ character * header.height \in Nat
  BY <1>2, <1>3
<1> QED
  BY <1>1, <1>3, <1>4, <1>5, <1>6

(***************************************************************************)
(* The types, the bound of the loop and the size of the glyphs hold in     *)
(* every state of EfiLoadFont and print_char.                              *)
(***************************************************************************)
THEOREM FontTypes == Spec => []TypeOK
<1>1. IInv => TypeOK
  BY DEF IInv
<1> QED
  BY <1>1, Inductive, PTL

(***************************************************************************)
(* print_char leaves the glyphs only for a negative character or with a    *)
(* font that has no rows, whatever the file was.                           *)
(***************************************************************************)
THEOREM FontReadsInside == Spec => []ReadsInside
<1>1. IInv => ReadsInside
  <2> SUFFICES ASSUME IInv, Reading, Seen = Outside,
                      ~(character < 0), ~(header.height = 0)
               PROVE  FALSE
    BY DEF ReadsInside
  <2>1. character >= 0 /\ header.height > 0
    BY DEF IInv, TypeOK
  <2>2. glyph \in 0..(size - 1)
    BY <2>1, SeenInside
  <2>3. glyphs[glyph] # Outside
    BY <2>2 DEF IInv, GlyphsInv, Reading, Byte, Junk, Outside
  <2> QED
    BY <2>2, <2>3 DEF Seen
<1> QED
  BY <1>1, Inductive, PTL

(***************************************************************************)
(* Row r of a character is the byte at its place in the file, in every     *)
(* mode of the font, and junk only where the file has ended.               *)
(***************************************************************************)
THEOREM FontShowsFont == Spec => []ShowsFont
<1>1. IInv => ShowsFont
  <2> SUFFICES ASSUME IInv, Reading, character >= 0, header.height > 0
               PROVE  Seen = IF PlaceInFile < file.length THEN Byte(PlaceInFile) ELSE Junk
    BY DEF ShowsFont
  <2>1. glyph \in 0..(size - 1)
    BY SeenInside
  <2>2. header.height = file.height
    BY FileType DEF IInv, HeaderInv, Reading
  <2>3. PlaceInFile = HeaderSize + glyph
    <3>1. row \in Nat /\ HeaderSize \in Nat
      BY FontAssumption DEF IInv, TypeOK
    <3>2. glyph = character * file.height + row /\ character * file.height \in Nat
      BY <2>2, SeenInside
    <3> QED
      BY <3>1, <3>2 DEF PlaceInFile
  <2>4. glyphs[glyph] = IF HeaderSize + glyph < file.length
                        THEN Byte(HeaderSize + glyph) ELSE Junk
    BY <2>1 DEF IInv, GlyphsInv, Reading
  <2> QED
    BY <2>1, <2>3, <2>4 DEF Seen
<1> QED
  BY <1>1, Inductive, PTL
=============================================================================
