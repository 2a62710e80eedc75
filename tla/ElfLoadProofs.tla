--------------------------- MODULE ElfLoadProofs ----------------------------
(***************************************************************************)
(* Theorems about ElfLoad, for every memory, every kernel file, every size *)
(* of the buffers and every number of firmware events.                     *)
(***************************************************************************)
EXTENDS ElfLoad, TLAPS

(***************************************************************************)
(* Where the loop reads the headers, and where the font is in memory.      *)
(***************************************************************************)
HeadersRead == {"font", "glyphs", "copy", "memcpy", "entry"}
FontRead == {"copy", "memcpy", "entry", "map", "get", "exit", "kernel"}

(***************************************************************************)
(* The loop and memcpy stay within their bounds, and the entry point comes *)
(* after the last segment.                                                 *)
(***************************************************************************)
ControlInv ==
  /\ i <= Len(file.programs)
  /\ pc \in {"buffer", "read", "font", "glyphs"} => i = 0
  /\ pc = "memcpy" =>
       /\ i < Len(file.programs) /\ program.load
       /\ copied <= program.filesize
       /\ Range(source, program.filesize) \subseteq Addresses
       /\ Range(program.address, program.filesize) \subseteq Addresses
  /\ pc \in {"entry", "map", "get", "exit", "kernel"} => i = Len(file.programs)
  /\ pc \in {"map", "get", "exit", "kernel"} => entry_point = file.entry

(***************************************************************************)
(* Cells that are the loader's and will stay its own.                      *)
(***************************************************************************)
Lent(address, size) ==
  /\ Range(address, size) \subseteq PoolRegion
  /\ \A a \in Range(address, size) : owner[a] = "loader"

(***************************************************************************)
(* Only what the firmware manages is owned, each buffer the loader uses is *)
(* its own, two of them do not meet, and a map that is not stale tells who *)
(* owns what.                                                              *)
(***************************************************************************)
OwnersInv ==
  /\ \A a \in Addresses : owner[a] # "nobody" => a \in PoolRegion
  /\ pc \in HeadersRead \cup {"read"} => Lent(data, BufferSize)
  /\ pc \in FontRead \cup {"glyphs"} => Lent(glyphs, FontSize)
  /\ pc = "glyphs" => Range(data, BufferSize) \cap Range(glyphs, FontSize) = {}
  /\ pc \in {"get", "exit", "kernel"} =>
       /\ Lent(MemoryMap, MapSize)
       /\ Range(glyphs, FontSize) \cap Range(MemoryMap, MapSize) = {}
  /\ pc \in {"exit", "kernel"} /\ ~stale => described = owner
  /\ pc = "kernel" => ~stale

(***************************************************************************)
(* The buffers hold what was read into them for as long as it is needed,   *)
(* but for the cells that a segment is placed over; the loader has gone    *)
(* astray only for such a cell, or for a file that is not well formed.     *)
(***************************************************************************)
BuffersInv ==
  /\ pc \in HeadersRead =>
       \A k \in 0..(Delivered - 1) : memory[data + k] = Of("file", k) \/ Covered(data + k)
  /\ pc \in FontRead =>
       \A a \in Range(glyphs, FontSize) : memory[a] = Of("font", a - glyphs) \/ Covered(a)
  /\ pc \in {"exit", "kernel"} =>
       \A a \in Range(MemoryMap, MapSize) : memory[a] = Of("map", a - MemoryMap)
  /\ HeadersStay

(***************************************************************************)
(* The last of the segments loaded so far that covers a cell; the cells    *)
(* memcpy has written of the next one; and what is in the cells of both,   *)
(* as far as Read delivered it.                                            *)
(***************************************************************************)
Last(n, a) ==
  /\ n <= i /\ a \in Destination(n)
  /\ \A m \in Segments : m <= i /\ a \in Destination(m) => m <= n

BeingCopied == IF pc = "memcpy" THEN Range(program.address, copied) ELSE {}

Holds(n, a) ==
  Offset(n, a) < Delivered => memory[a] = Of("file", Offset(n, a)) \/ TakenAfterwards(a)

CopiesHold ==
  /\ \A a \in Addresses, n \in Segments : Last(n, a) /\ a \notin BeingCopied => Holds(n, a)
  /\ \A a \in BeingCopied : Holds(i + 1, a)

PlacedInv ==
  pc \in FontRead =>
    /\ \A a \in Addresses, n \in Segments :
         n <= i /\ a \in Destination(n) => \E m \in Segments : Last(m, a)
    /\ BufferClear => CopiesHold

(***************************************************************************)
(* The inductive invariant, for every file.                                *)
(***************************************************************************)
IInv == TypeOK /\ ControlInv /\ OwnersInv /\ BuffersInv /\ PlacedInv
-----------------------------------------------------------------------------
(***************************************************************************)
(* The constants, and the fields of the file.                              *)
(***************************************************************************)
LEMMA Sizes ==
  /\ BufferSize \in Nat /\ BufferSize >= 1
  /\ FontSize \in Nat /\ FontSize >= 1
  /\ MapSize \in Nat /\ MapSize >= 1
  /\ MemorySize \in Nat /\ 0 \in Addresses
  /\ PoolRegion \subseteq Addresses
  /\ Addresses \subseteq Nat
BY ElfLoadAssumption DEF Addresses

LEMMA FileType ==
  ASSUME file \in Files
  PROVE  /\ file.size \in Nat /\ file.entry \in Addresses
         /\ Len(file.programs) \in Nat
         /\ \A n \in 1..Len(file.programs) :
              /\ file.programs[n].load \in BOOLEAN
              /\ file.programs[n].offset \in Nat
              /\ file.programs[n].address \in Nat
              /\ file.programs[n].filesize \in Nat
              /\ file.programs[n].memsize \in Nat
<1> DEFINE Header ==
             [load: BOOLEAN, offset: Nat, address: Nat, filesize: Nat, memsize: Nat]
<1>1. file.size \in Nat /\ file.entry \in Addresses /\ file.programs \in Seq(Header)
  BY ElfLoadAssumption DEF Programs
<1>2. \A header \in Header : /\ header.load \in BOOLEAN /\ header.offset \in Nat
                            /\ header.address \in Nat /\ header.filesize \in Nat
                            /\ header.memsize \in Nat
  OBVIOUS
<1> HIDE DEF Header
<1>3. /\ Len(file.programs) \in Nat
      /\ \A n \in 1..Len(file.programs) : file.programs[n] \in Header
  BY <1>1
<1> QED
  BY <1>1, <1>2, <1>3

LEMMA ThisProgram ==
  ASSUME TypeOK, i < Len(file.programs)
  PROVE  /\ i + 1 \in 1..Len(file.programs) /\ i \in Nat
         /\ program.load \in BOOLEAN
         /\ program.offset \in Nat /\ program.address \in Nat
         /\ program.filesize \in Nat /\ program.memsize \in Nat
         /\ source \in Nat
<1>1. i \in Nat /\ i + 1 \in 1..Len(file.programs)
  BY FileType DEF TypeOK
<1>2. data \in Nat
  BY Sizes DEF TypeOK
<1> QED
  BY <1>1, <1>2, FileType DEF program, source, TypeOK

LEMMA DeliveredFits ==
  ASSUME TypeOK
  PROVE  Delivered \in Nat /\ Delivered <= BufferSize
BY Sizes, FileType DEF Delivered, TypeOK

LEMMA BufferCells ==
  ASSUME TypeOK, NEW k \in 0..(Delivered - 1)
  PROVE  /\ data \in Nat /\ k \in Nat
         /\ data + k \in Range(data, Delivered)
         /\ data + k \in Range(data, BufferSize)
         /\ data + k - data = k
<1>1. data \in Nat
  BY Sizes DEF TypeOK
<1>2. Delivered \in Nat /\ Delivered <= BufferSize /\ BufferSize \in Nat
  BY Sizes, DeliveredFits
<1>3. k \in Nat /\ k < Delivered
  BY <1>2
<1> QED
  BY <1>1, <1>2, <1>3 DEF Range

(***************************************************************************)
(* What AllocatePool gives was nobody's, and changes hands.                *)
(***************************************************************************)
LEMMA Taking ==
  ASSUME TypeOK, NEW size \in Nat, NEW address \in Places(size),
         NEW who \in {"firmware", "loader"}, owner' = Taken(address, size, who)
  PROVE  /\ address \in Addresses /\ Range(address, size) \subseteq PoolRegion
         /\ owner' \in [Addresses -> {"nobody", "firmware", "loader"}]
         /\ \A b \in Range(address, size) : owner[b] = "nobody" /\ owner'[b] = who
         /\ \A b \in Addresses : b \notin Range(address, size) => owner'[b] = owner[b]
<1>1. /\ address \in PoolRegion /\ Range(address, size) \subseteq PoolRegion
      /\ \A b \in Range(address, size) : owner[b] = "nobody"
  BY DEF Places
<1>2. /\ address \in Addresses
      /\ Range(address, size) \subseteq Addresses
  BY <1>1, Sizes
<1>3. owner \in [Addresses -> {"nobody", "firmware", "loader"}]
  BY DEF TypeOK
<1> QED
  BY <1>1, <1>2, <1>3 DEF Taken

(***************************************************************************)
(* Filling a buffer changes the cells of the buffer.                       *)
(***************************************************************************)
LEMMA Storing ==
  ASSUME TypeOK, NEW address \in Addresses, NEW size \in Nat,
         NEW what \in {"file", "font", "map"}, memory' = Stored(address, size, what)
  PROVE  /\ memory' \in [Addresses -> Contents]
         /\ \A a \in Addresses : a \in Range(address, size) =>
              memory'[a] = Of(what, a - address)
         /\ \A a \in Addresses : a \notin Range(address, size) => memory'[a] = memory[a]
<1>1. \A a \in Range(address, size) : a - address \in Nat
  BY Sizes DEF Range
<1>2. \A a \in Range(address, size) : Of(what, a - address) \in Contents
  BY <1>1 DEF Of, Contents
<1>3. memory \in [Addresses -> Contents]
  BY DEF TypeOK
<1> QED
  BY <1>2, <1>3 DEF Stored

(***************************************************************************)
(* What is said of the file alone does not change with the step.           *)
(***************************************************************************)
LEMMA FileStays ==
  ASSUME file' = file
  PROVE  /\ Segments' = Segments
         /\ \A n : Destination(n)' = Destination(n)
         /\ \A n, a : Offset(n, a)' = Offset(n, a)
         /\ \A a : Covered(a)' = Covered(a)
         /\ WellFormed' = WellFormed
         /\ Delivered' = Delivered
<1>1. Segments' = Segments /\ \A n : Destination(n)' = Destination(n)
  BY DEF Segments, Destination, Range
<1>2. \A n, a : Offset(n, a)' = Offset(n, a)
  BY DEF Offset
<1>3. \A a : Covered(a)' = Covered(a)
  BY <1>1 DEF Covered, Covering
<1>4. Delivered' = Delivered
  BY DEF Delivered
<1>5. WellFormed' = WellFormed
  BY <1>1, <1>4 DEF WellFormed, Source, Range
<1> QED
  BY <1>1, <1>2, <1>3, <1>4, <1>5
-----------------------------------------------------------------------------
(***************************************************************************)
(* The types.                                                              *)
(***************************************************************************)
LEMMA TypeInit == Init => TypeOK
<1> SUFFICES ASSUME Init PROVE TypeOK
  OBVIOUS
<1>1. memory \in [Addresses -> Contents]
  BY DEF Init, Of, Contents
<1>2. owner \in [Addresses -> {"nobody", "firmware", "loader"}]
  BY DEF Init
<1>3. 0 \in Addresses /\ events \in 0..MaxEvents
  BY Sizes, ElfLoadAssumption DEF Init
<1> QED
  BY <1>1, <1>2, <1>3 DEF Init, TypeOK

LEMMA TypeStep == TypeOK /\ ControlInv /\ [Next]_vars => TypeOK'
<1> SUFFICES ASSUME TypeOK, ControlInv, [Next]_vars PROVE TypeOK'
  OBVIOUS
<1> USE Sizes DEF pointers, map
<1>1. ASSUME NEW loc, NEW size, NoRoom(loc, size) PROVE TypeOK'
  BY <1>1 DEF NoRoom, TypeOK
<1>2. CASE AllocateBuffer
  <2>1. CASE data' \in Places(BufferSize) /\ owner' = Taken(data', BufferSize, LoaderData)
    <3>1. data' \in Addresses /\ owner' \in [Addresses -> {"nobody", "firmware", "loader"}]
      BY <2>1, Taking DEF LoaderData
    <3> QED
      BY <1>1, <1>2, <3>1 DEF AllocateBuffer, TypeOK
  <2> QED
    BY <1>1, <1>2, <2>1 DEF AllocateBuffer
<1>3. CASE ReadFile
  <2>1. memory' \in [Addresses -> Contents]
    BY <1>3, Storing, DeliveredFits DEF ReadFile, TypeOK
  <2> QED
    BY <1>3, <2>1 DEF ReadFile, TypeOK
<1>4. CASE AllocateGlyphs
  <2>1. CASE glyphs' \in Places(FontSize) /\ owner' = Taken(glyphs', FontSize, LoaderData)
    <3>1. glyphs' \in Addresses /\ owner' \in [Addresses -> {"nobody", "firmware", "loader"}]
      BY <2>1, Taking DEF LoaderData
    <3> QED
      BY <1>1, <1>4, <3>1 DEF AllocateGlyphs, TypeOK
  <2> QED
    BY <1>1, <1>4, <2>1 DEF AllocateGlyphs
<1>16. CASE ReadGlyphs
  <2>1. memory' \in [Addresses -> Contents]
    BY <1>16, Storing DEF ReadGlyphs, GlyphsRead, TypeOK
  <2> QED
    BY <1>16, <2>1 DEF ReadGlyphs, TypeOK
<1>5. CASE CopySegment
  BY <1>5 DEF CopySegment, TypeOK
<1>6. CASE memcpy
  <2>1. CASE More /\ CopyCell /\ copied' = copied + 1 /\ UNCHANGED <<pc, i>>
    <3>1. source + copied \in Addresses
      <4>1. /\ i < Len(file.programs)
            /\ Range(source, program.filesize) \subseteq Addresses
        BY <1>6 DEF memcpy, ControlInv
      <4>2. program.filesize \in Nat /\ source \in Nat
        BY <4>1, ThisProgram
      <4>3. copied \in Nat /\ copied < program.filesize
        BY <2>1 DEF More, TypeOK
      <4>4. source + copied \in Range(source, program.filesize)
        BY <4>2, <4>3 DEF Range
      <4> QED
        BY <4>1, <4>4
    <3>2. memory' \in [Addresses -> Contents]
      BY <2>1, <3>1 DEF CopyCell, TypeOK
    <3> QED
      BY <1>6, <2>1, <3>2 DEF memcpy, TypeOK
  <2>2. CASE ~More /\ pc' = "copy" /\ i' = i + 1 /\ UNCHANGED <<memory, copied>>
    BY <1>6, <2>2 DEF memcpy, TypeOK
  <2> QED
    BY <1>6, <2>1, <2>2 DEF memcpy
<1>7. CASE HeadersGone
  BY <1>7 DEF HeadersGone, TypeOK
<1>8. CASE SegmentsDone
  BY <1>8 DEF SegmentsDone, TypeOK
<1>9. CASE ReadEntryPoint
  BY <1>9, FileType DEF ReadEntryPoint, TypeOK
<1>10. CASE AllocateMemoryMap
  <2>1. CASE MemoryMap' \in Places(MapSize) /\ owner' = Taken(MemoryMap', MapSize, LoaderData)
    <3>1. MemoryMap' \in Addresses
          /\ owner' \in [Addresses -> {"nobody", "firmware", "loader"}]
      BY <2>1, Taking DEF LoaderData
    <3> QED
      BY <1>1, <1>10, <3>1 DEF AllocateMemoryMap, TypeOK
  <2> QED
    BY <1>1, <1>10, <2>1 DEF AllocateMemoryMap
<1>11. CASE GetMemoryMap
  <2>1. memory' \in [Addresses -> Contents]
    BY <1>11, Storing DEF GetMemoryMap, TypeOK
  <2> QED
    BY <1>11, <2>1 DEF GetMemoryMap, TypeOK
<1>12. CASE EnterKernel
  BY <1>12 DEF EnterKernel, TypeOK
<1>13. CASE FirmwareAllocates
  <2>1. PICK a \in Places(1) : /\ owner' = Taken(a, 1, "firmware")
                               /\ memory' = [memory EXCEPT ![a] = Of("firmware", 0)]
    BY <1>13 DEF FirmwareAllocates
  <2>2. owner' \in [Addresses -> {"nobody", "firmware", "loader"}]
    BY <2>1, Taking
  <2>3. memory' \in [Addresses -> Contents]
    BY <2>1 DEF TypeOK, Of, Contents
  <2>4. events' \in 0..MaxEvents
    BY <1>13, ElfLoadAssumption DEF FirmwareAllocates, FirmwareEvent, TypeOK
  <2> QED
    BY <1>13, <2>2, <2>3, <2>4 DEF FirmwareAllocates, FirmwareEvent, TypeOK
<1>14. CASE FirmwareFrees
  <2>1. owner' \in [Addresses -> {"nobody", "firmware", "loader"}]
    BY <1>14 DEF FirmwareFrees, Taken, TypeOK
  <2>2. events' \in 0..MaxEvents
    BY <1>14, ElfLoadAssumption DEF FirmwareFrees, FirmwareEvent, TypeOK
  <2> QED
    BY <1>14, <2>1, <2>2 DEF FirmwareFrees, FirmwareEvent, TypeOK
<1>15. CASE UNCHANGED vars
  BY <1>15 DEF vars, TypeOK
<1> QED
  BY <1>2, <1>3, <1>4, <1>5, <1>6, <1>7, <1>8, <1>9, <1>10, <1>11, <1>12, <1>13, <1>14,
     <1>15, <1>16 DEF Next
-----------------------------------------------------------------------------
(***************************************************************************)
(* Control.                                                                *)
(***************************************************************************)
LEMMA ControlInit == Init => ControlInv
BY FileType DEF Init, ControlInv

LEMMA ControlStep == TypeOK /\ ControlInv /\ [Next]_vars => ControlInv'
<1> SUFFICES ASSUME TypeOK, ControlInv, [Next]_vars PROVE ControlInv'
  OBVIOUS
<1> USE DEF pointers, map
<1>1. ASSUME NEW loc, NEW size, NoRoom(loc, size) PROVE ControlInv'
  BY <1>1 DEF NoRoom, ControlInv
<1>2. CASE AllocateBuffer
  BY <1>1, <1>2 DEF AllocateBuffer, ControlInv
<1>3. CASE ReadFile
  BY <1>3 DEF ReadFile, ControlInv
<1>4. CASE AllocateGlyphs \/ ReadGlyphs
  BY <1>1, <1>4 DEF AllocateGlyphs, ReadGlyphs, ControlInv
<1>5. CASE CopySegment
  <2>1. i < Len(file.programs) /\ UNCHANGED <<file, data>> /\ pc = "copy"
    BY <1>5 DEF CopySegment
  <2>2. CASE ~program.load /\ i' = i + 1 /\ UNCHANGED pc
    BY <2>1, <2>2, ThisProgram DEF ControlInv
  <2>3. CASE program.load /\ UNCHANGED i
    <3>1. program' = program /\ source' = source /\ copied' = 0
      BY <1>5, <2>1, <2>3 DEF CopySegment, program, source
    <3>2. pc' \in {"halted", "wild", "memcpy"}
      BY <1>5, <2>3 DEF CopySegment
    <3>3. pc' = "memcpy" =>
            Range(source, program.filesize) \cup Range(program.address, program.filesize)
              \subseteq Addresses
      BY <1>5, <2>3 DEF CopySegment
    <3> QED
      BY <2>1, <2>3, <3>1, <3>2, <3>3, ThisProgram DEF ControlInv, Range
  <2> QED
    BY <1>5, <2>2, <2>3 DEF CopySegment
<1>6. CASE memcpy
  <2>1. CASE More /\ CopyCell /\ copied' = copied + 1 /\ UNCHANGED <<pc, i>>
    <3>1. UNCHANGED <<program, source>>
      BY <1>6, <2>1 DEF memcpy, program, source
    <3> QED
      BY <1>6, <2>1, <3>1, ThisProgram DEF memcpy, More, ControlInv, Range, TypeOK
  <2>2. CASE ~More /\ pc' = "copy" /\ i' = i + 1 /\ UNCHANGED <<memory, copied>>
    BY <1>6, <2>2, ThisProgram DEF memcpy, ControlInv
  <2> QED
    BY <1>6, <2>1, <2>2 DEF memcpy
<1>7. CASE HeadersGone
  BY <1>7 DEF HeadersGone, ControlInv
<1>8. CASE SegmentsDone
  BY <1>8 DEF SegmentsDone, ControlInv
<1>9. CASE ReadEntryPoint
  BY <1>9 DEF ReadEntryPoint, ControlInv
<1>10. CASE AllocateMemoryMap
  BY <1>1, <1>10 DEF AllocateMemoryMap, ControlInv
<1>11. CASE GetMemoryMap
  BY <1>11 DEF GetMemoryMap, ControlInv
<1>12. CASE EnterKernel
  BY <1>12 DEF EnterKernel, ControlInv
<1>13. CASE FirmwareAllocates \/ FirmwareFrees
  <2>1. UNCHANGED <<pc, file, data, i, copied, entry_point>>
    BY <1>13 DEF FirmwareAllocates, FirmwareFrees, FirmwareEvent
  <2> QED
    BY <2>1 DEF ControlInv, program, source, Range
<1>14. CASE UNCHANGED vars
  BY <1>14 DEF vars, ControlInv, program, source, Range
<1> QED
  BY <1>2, <1>3, <1>4, <1>5, <1>6, <1>7, <1>8, <1>9, <1>10, <1>11, <1>12, <1>13, <1>14
  DEF Next
-----------------------------------------------------------------------------
(***************************************************************************)
(* Owners.  No step takes from the loader what it has.                     *)
(***************************************************************************)
LEMMA LoaderKeeps ==
  ASSUME TypeOK, [Next]_vars, NEW a \in Addresses, owner[a] = "loader"
  PROVE  owner'[a] = "loader"
<1> USE Sizes DEF pointers, map
<1>1. ASSUME NEW size \in Nat, NEW address \in Places(size),
             NEW who \in {"firmware", "loader"}, owner' = Taken(address, size, who)
      PROVE  owner'[a] = "loader"
  BY <1>1, Taking
<1>2. CASE AllocateBuffer \/ AllocateGlyphs \/ AllocateMemoryMap
  BY <1>1, <1>2 DEF AllocateBuffer, AllocateGlyphs, AllocateMemoryMap, NoRoom, LoaderData
<1>3. CASE FirmwareAllocates
  BY <1>1, <1>3 DEF FirmwareAllocates
<1>4. CASE FirmwareFrees
  <2>1. PICK b \in Addresses : owner[b] = "firmware" /\ owner' = Taken(b, 1, "nobody")
    BY <1>4 DEF FirmwareFrees
  <2>2. a \notin Range(b, 1)
    BY <2>1 DEF Range
  <2> QED
    BY <2>1, <2>2 DEF Taken
<1>5. CASE UNCHANGED owner
  BY <1>5
<1> QED
  BY <1>2, <1>3, <1>4, <1>5
  DEF Next, vars, ReadFile, ReadGlyphs, CopySegment, memcpy, HeadersGone, SegmentsDone,
      ReadEntryPoint, GetMemoryMap, EnterKernel

LEMMA LentStays ==
  ASSUME TypeOK, [Next]_vars, NEW address, NEW size, Lent(address, size)
  PROVE  /\ Range(address, size) \subseteq PoolRegion
         /\ \A a \in Range(address, size) : owner'[a] = "loader"
BY Sizes, LoaderKeeps DEF Lent

(***************************************************************************)
(* Only cells of the region that the firmware manages change hands.        *)
(***************************************************************************)
LEMMA OwnedInPool ==
  ASSUME TypeOK, OwnersInv, [Next]_vars, NEW a \in Addresses, owner'[a] # "nobody"
  PROVE  a \in PoolRegion
<1> USE Sizes DEF pointers, map
<1>1. ASSUME NEW size \in Nat, NEW address \in Places(size),
             NEW who \in {"firmware", "loader"}, owner' = Taken(address, size, who)
      PROVE  a \in PoolRegion
  BY <1>1, Taking DEF OwnersInv
<1>2. CASE AllocateBuffer \/ AllocateGlyphs \/ AllocateMemoryMap
  BY <1>1, <1>2 DEF AllocateBuffer, AllocateGlyphs, AllocateMemoryMap, NoRoom, LoaderData,
     OwnersInv
<1>3. CASE FirmwareAllocates
  BY <1>1, <1>3 DEF FirmwareAllocates
<1>4. CASE FirmwareFrees
  BY <1>4 DEF FirmwareFrees, Taken, OwnersInv
<1>5. CASE UNCHANGED owner
  BY <1>5 DEF OwnersInv
<1> QED
  BY <1>2, <1>3, <1>4, <1>5
  DEF Next, vars, ReadFile, ReadGlyphs, CopySegment, memcpy, HeadersGone, SegmentsDone,
      ReadEntryPoint, GetMemoryMap, EnterKernel

LEMMA OwnersInit == Init => OwnersInv
BY DEF Init, OwnersInv, HeadersRead, FontRead

(***************************************************************************)
(* A buffer just allocated is the loader's, and apart from what it had.    *)
(***************************************************************************)
LEMMA Lending ==
  ASSUME TypeOK, NEW size \in Nat, NEW address \in Places(size),
         owner' = Taken(address, size, LoaderData)
  PROVE  /\ Range(address, size) \subseteq PoolRegion
         /\ \A a \in Range(address, size) : owner'[a] = "loader"
         /\ \A other, n : Lent(other, n) => Range(other, n) \cap Range(address, size) = {}
<1>1. /\ Range(address, size) \subseteq PoolRegion
      /\ \A a \in Range(address, size) : owner[a] = "nobody" /\ owner'[a] = "loader"
  BY Taking DEF LoaderData
<1> QED
  BY <1>1 DEF Lent

LEMMA OwnersStep == TypeOK /\ OwnersInv /\ [Next]_vars => OwnersInv'
<1> SUFFICES ASSUME TypeOK, OwnersInv, [Next]_vars PROVE OwnersInv'
  OBVIOUS
<1> USE Sizes DEF pointers, map, HeadersRead, FontRead
<1>a. \A a \in Addresses : owner'[a] # "nobody" => a \in PoolRegion
  BY OwnedInPool
<1>b. \A address, size : Lent(address, size) =>
        /\ Range(address, size) \subseteq PoolRegion
        /\ \A a \in Range(address, size) : owner'[a] = "loader"
  BY LentStays
<1>1. ASSUME NEW loc, NEW size, NoRoom(loc, size) PROVE OwnersInv'
  BY <1>a, <1>1 DEF NoRoom, OwnersInv
<1>2. CASE AllocateBuffer
  BY <1>a, <1>1, <1>2, Lending DEF AllocateBuffer, OwnersInv, Lent
<1>3. CASE ReadFile
  BY <1>3 DEF ReadFile, OwnersInv, Lent
<1>4. CASE AllocateGlyphs
  <2>1. CASE /\ pc = "font" /\ pc' = "glyphs" /\ UNCHANGED <<data, MemoryMap>>
             /\ glyphs' \in Places(FontSize)
             /\ owner' = Taken(glyphs', FontSize, LoaderData)
    <3>1. Lent(data, BufferSize)'
      BY <1>b, <2>1 DEF OwnersInv, Lent, Range
    <3>2. /\ Lent(glyphs, FontSize)'
          /\ Range(data, BufferSize)' \cap Range(glyphs, FontSize)' = {}
      BY <2>1, Lending DEF OwnersInv, Lent, Range
    <3> QED
      BY <1>a, <2>1, <3>1, <3>2 DEF OwnersInv
  <2> QED
    BY <1>1, <1>4, <2>1 DEF AllocateGlyphs
<1>11. CASE ReadGlyphs
  BY <1>11 DEF ReadGlyphs, OwnersInv, Lent, Range
<1>5. CASE CopySegment \/ memcpy \/ HeadersGone \/ SegmentsDone \/ ReadEntryPoint
  <2>1. /\ UNCHANGED <<owner, pointers, map>>
        /\ pc \in {"copy", "memcpy", "entry"}
        /\ \/ pc' \in {"copy", "memcpy", "entry", "halted", "wild"}
           \/ pc = "entry" /\ pc' = "map"
    BY <1>5 DEF CopySegment, memcpy, HeadersGone, SegmentsDone, ReadEntryPoint
  <2> QED
    BY <2>1 DEF OwnersInv, Lent, Range
<1>6. CASE AllocateMemoryMap
  <2>1. CASE /\ pc = "map" /\ pc' = "get" /\ UNCHANGED <<data, glyphs>>
             /\ MemoryMap' \in Places(MapSize)
             /\ owner' = Taken(MemoryMap', MapSize, LoaderData)
    <3>1. Lent(glyphs, FontSize)'
      BY <1>b, <2>1 DEF OwnersInv, Lent, Range
    <3>2. /\ Lent(MemoryMap, MapSize)'
          /\ Range(glyphs, FontSize)' \cap Range(MemoryMap, MapSize)' = {}
      BY <2>1, Lending DEF OwnersInv, Lent, Range
    <3> QED
      BY <1>a, <2>1, <3>1, <3>2 DEF OwnersInv
  <2> QED
    BY <1>1, <1>6, <2>1 DEF AllocateMemoryMap
<1>7. CASE GetMemoryMap
  BY <1>7 DEF GetMemoryMap, OwnersInv, Lent, Range
<1>8. CASE EnterKernel
  BY <1>8 DEF EnterKernel, OwnersInv, Lent, Range, TypeOK
<1>9. CASE FirmwareAllocates \/ FirmwareFrees
  <2>1. UNCHANGED <<pc, pointers>> /\ pc # "kernel" /\ stale' = TRUE
    BY <1>9 DEF FirmwareAllocates, FirmwareFrees, FirmwareEvent
  <2>2. \A address, size : Lent(address, size) => Lent(address, size)'
    BY <1>b DEF Lent, Range
  <2> QED
    BY <1>a, <1>b, <2>1, <2>2 DEF OwnersInv, Lent, Range
<1>10. CASE UNCHANGED vars
  BY <1>10 DEF vars, OwnersInv, Lent, Range
<1> QED
  BY <1>2, <1>3, <1>4, <1>5, <1>6, <1>7, <1>8, <1>9, <1>10, <1>11 DEF Next
-----------------------------------------------------------------------------
(***************************************************************************)
(* What is only written where the firmware manages memory, by the firmware *)
(* or for the map, leaves what is said of the segments.                    *)
(***************************************************************************)
LEMMA PlacedStays ==
  ASSUME TypeOK, PlacedInv, pc \in FontRead,
         UNCHANGED <<file, i, data>>, BeingCopied' = BeingCopied,
         BeingCopied \subseteq Addresses,
         \A a \in Addresses : memory'[a] = memory[a] \/ TakenAfterwards(a)'
  PROVE  PlacedInv'
<1>1. Segments' = Segments /\ (\A n : Destination(n)' = Destination(n))
      /\ (\A n, a : Offset(n, a)' = Offset(n, a))
      /\ (\A a : Covered(a)' = Covered(a)) /\ Delivered' = Delivered
  BY FileStays
<1>2. \A n, a : Last(n, a)' = Last(n, a)
  BY <1>1 DEF Last
<1>3. BufferClear' = BufferClear
  BY <1>1 DEF BufferClear, Range
<1>4. ASSUME NEW n, NEW a \in Addresses, Holds(n, a) PROVE Holds(n, a)'
  BY <1>1, <1>4 DEF Holds, TakenAfterwards, Of
<1>5. ASSUME CopiesHold PROVE CopiesHold'
  <2>1. \A n \in Segments, a \in Addresses : Last(n, a)' /\ a \notin BeingCopied' => Holds(n, a)'
    BY <1>2, <1>4, <1>5 DEF CopiesHold
  <2>2. \A a \in BeingCopied' : Holds(i + 1, a)'
    BY <1>4, <1>5 DEF CopiesHold
  <2> QED
    BY <1>1, <2>1, <2>2 DEF CopiesHold
<1> QED
  BY <1>1, <1>2, <1>3, <1>5 DEF PlacedInv

(***************************************************************************)
(* The loop moves on when the segment it is at is in place, or is not to   *)
(* be loaded: that segment is the last one of the cells it covers.         *)
(***************************************************************************)
LEMMA PlacedMoves ==
  ASSUME TypeOK, PlacedInv, pc \in {"copy", "memcpy"}, pc' = "copy",
         i < Len(file.programs), i' = i + 1, UNCHANGED <<file, memory, data>>,
         \/ i + 1 \notin Segments /\ BeingCopied = {}
         \/ i + 1 \in Segments /\ BeingCopied = Destination(i + 1)
  PROVE  PlacedInv'
<1>1. Segments' = Segments /\ (\A n : Destination(n)' = Destination(n))
      /\ (\A n, a : Offset(n, a)' = Offset(n, a))
      /\ (\A a : Covered(a)' = Covered(a)) /\ Delivered' = Delivered
  BY FileStays
<1>2. BeingCopied' = {} /\ BufferClear' = BufferClear
  BY <1>1 DEF BeingCopied, BufferClear, Range
<1>3. i \in Nat /\ \A n \in Segments : n \in Nat
  BY FileType DEF Segments, TypeOK
<1>4. \A n \in Segments : n <= i + 1 => n <= i \/ n = i + 1
  BY <1>3
<1>5. ASSUME NEW a \in Addresses, NEW n \in Segments, n <= i + 1, a \in Destination(n)
      PROVE  \E m \in Segments : Last(m, a)'
  <2>1. CASE i + 1 \in Segments /\ a \in Destination(i + 1)
    <3>1. PICK m \in Segments : m = i + 1 /\ a \in Destination(m)
      BY <2>1
    <3>2. Last(m, a)'
      BY <1>1, <1>3, <3>1 DEF Last
    <3> QED
      BY <3>2
  <2>2. CASE ~(i + 1 \in Segments /\ a \in Destination(i + 1))
    <3>1. n <= i
      BY <1>4, <1>5, <2>2
    <3>2. PICK m \in Segments : Last(m, a)
      BY <1>5, <3>1 DEF PlacedInv, FontRead
    <3>3. m <= i + 1
      BY <1>3, <3>2 DEF Last
    <3>4. \A k \in Segments : k <= i + 1 /\ a \in Destination(k) => k <= i
      BY <1>4, <2>2
    <3> QED
      BY <1>1, <3>2, <3>3, <3>4 DEF Last
  <2> QED
    BY <2>1, <2>2
<1>6. ASSUME BufferClear, NEW a \in Addresses, NEW n \in Segments, Last(n, a)'
      PROVE  Holds(n, a)
  <2>1. /\ n <= i + 1 /\ a \in Destination(n)
        /\ \A m \in Segments : m <= i + 1 /\ a \in Destination(m) => m <= n
    BY <1>1, <1>6 DEF Last
  <2>2. CopiesHold
    BY <1>6 DEF PlacedInv, FontRead
  <2>3. CASE n = i + 1
    BY <2>1, <2>2, <2>3 DEF CopiesHold
  <2>4. CASE n <= i
    <3>1. Last(n, a)
      BY <1>3, <2>1, <2>4 DEF Last
    <3>2. a \notin BeingCopied
      BY <1>3, <2>1, <2>4
    <3> QED
      BY <2>2, <3>1, <3>2 DEF CopiesHold
  <2> QED
    BY <1>4, <2>1, <2>3, <2>4
<1>7. \A n, a : Holds(n, a)' = Holds(n, a)
  BY <1>1 DEF Holds, TakenAfterwards, Of
<1>8. BufferClear' => CopiesHold'
  BY <1>1, <1>2, <1>6, <1>7 DEF CopiesHold
<1> QED
  BY <1>1, <1>5, <1>8 DEF PlacedInv, FontRead
-----------------------------------------------------------------------------
(***************************************************************************)
(* The cell that memcpy writes next lies in the segment it copies, and     *)
(* comes from the buffer as far as Read filled it.                         *)
(***************************************************************************)
LEMMA NextCell ==
  ASSUME TypeOK, ControlInv, pc = "memcpy", copied < program.filesize
  PROVE  /\ i + 1 \in Segments
         /\ program.address + copied \in Destination(i + 1)
         /\ program.address + copied \in Addresses
         /\ Offset(i + 1, program.address + copied) = program.offset + copied
         /\ program.offset + copied \in Nat
         /\ source + copied = data + (program.offset + copied)
<1>1. i < Len(file.programs) /\ program.load /\ copied \in Nat
      /\ Range(program.address, program.filesize) \subseteq Addresses
  BY DEF ControlInv, TypeOK
<1>2. /\ i + 1 \in Segments
      /\ program.address \in Nat /\ program.offset \in Nat /\ program.filesize \in Nat
  BY <1>1, ThisProgram DEF Segments, program
<1>3. program.address + copied \in Range(program.address, program.filesize)
  BY <1>1, <1>2 DEF Range
<1>4. Destination(i + 1) = Range(program.address, program.filesize)
  BY DEF Destination, program
<1>5. data \in Nat
  BY Sizes DEF TypeOK
<1>6. source + copied = data + (program.offset + copied)
  BY <1>1, <1>2, <1>5 DEF source
<1>7. Offset(i + 1, program.address + copied) = program.offset + copied
  <2>1. ASSUME NEW n, NEW a, n = i + 1, a = program.address + copied
        PROVE  Offset(n, a) = program.offset + copied
    <3>1. Offset(n, a) = a - program.address + program.offset
      BY <2>1 DEF Offset, program
    <3> QED
      BY <1>1, <1>2, <2>1, <3>1
  <2> QED
    BY <2>1
<1> QED
  BY <1>1, <1>2, <1>3, <1>4, <1>6, <1>7

LEMMA CopiedCells ==
  ASSUME TypeOK, ControlInv
  PROVE  BeingCopied \subseteq Addresses
<1>1. CASE pc = "memcpy"
  <2>1. /\ i < Len(file.programs) /\ copied <= program.filesize
        /\ copied \in Nat /\ program.address \in Nat /\ program.filesize \in Nat
        /\ Range(program.address, program.filesize) \subseteq Addresses
    BY <1>1, ThisProgram DEF ControlInv, TypeOK
  <2>2. Range(program.address, copied) \subseteq Range(program.address, program.filesize)
    BY <2>1 DEF Range
  <2> QED
    BY <2>1, <2>2 DEF BeingCopied
<1> QED
  BY <1>1 DEF BeingCopied

(***************************************************************************)
(* Steps that change neither memory nor what the loader points to.         *)
(***************************************************************************)
LEMMA BuffersQuiet ==
  ASSUME BuffersInv, UNCHANGED <<memory, file, pointers>>,
         pc' \in HeadersRead => pc \in HeadersRead,
         pc' \in FontRead => pc \in FontRead,
         pc' \in {"exit", "kernel"} => pc \in {"exit", "kernel"},
         pc' = "wild" => pc = "wild" \/ ~WellFormed
  PROVE  BuffersInv'
<1>1. (\A a : Covered(a)' = Covered(a)) /\ WellFormed' = WellFormed /\ Delivered' = Delivered
  BY FileStays
<1>2. HeadersStay'
  BY <1>1 DEF BuffersInv, HeadersStay, pointers
<1> QED
  BY <1>1, <1>2 DEF BuffersInv, Range, pointers, Of

LEMMA PlacedQuiet ==
  ASSUME TypeOK, ControlInv, PlacedInv, UNCHANGED <<memory, file, i, data>>,
         pc' \in FontRead => pc \in FontRead /\ BeingCopied' = BeingCopied
  PROVE  PlacedInv'
<1>1. CASE pc' \notin FontRead
  BY <1>1 DEF PlacedInv
<1>2. CASE pc' \in FontRead
  BY <1>2, CopiedCells, PlacedStays
<1> QED
  BY <1>1, <1>2
-----------------------------------------------------------------------------
(***************************************************************************)
(* Memory.                                                                 *)
(***************************************************************************)
LEMMA MemoryInit == Init => BuffersInv /\ PlacedInv
BY DEF Init, BuffersInv, HeadersStay, PlacedInv, HeadersRead, FontRead

LEMMA ReadFileMemory ==
  ASSUME IInv, ReadFile
  PROVE  BuffersInv' /\ PlacedInv'
<1> USE DEF IInv, ReadFile, pointers
<1>1. \A a \in Addresses : a \in Range(data, Delivered) => memory'[a] = Of("file", a - data)
  BY Storing, DeliveredFits DEF TypeOK
<1>2. pc' \in {"font", "halted"}
  OBVIOUS
<1>3. ASSUME NEW k \in 0..(Delivered - 1) PROVE memory'[data + k] = Of("file", k)
  <2>1. /\ data + k \in Range(data, Delivered) /\ data + k \in Range(data, BufferSize)
        /\ data + k - data = k
    BY BufferCells
  <2>2. data + k \in Addresses
    BY <2>1, Sizes DEF OwnersInv, Lent
  <2>3. memory'[data + k] = Of("file", data + k - data)
    BY <1>1, <2>1, <2>2, BufferCells
  <2> QED
    BY <2>1, <2>3, BufferCells
<1>4. BuffersInv'
  BY <1>2, <1>3, FileStays DEF BuffersInv, HeadersStay, HeadersRead, FontRead, Of
<1>5. PlacedInv'
  BY <1>2 DEF PlacedInv, FontRead
<1> QED
  BY <1>4, <1>5

LEMMA ReadGlyphsMemory ==
  ASSUME IInv, ReadGlyphs
  PROVE  BuffersInv' /\ PlacedInv'
<1> USE Sizes DEF IInv, ReadGlyphs, GlyphsRead, pointers
<1>1. glyphs \in Addresses /\ Range(glyphs, FontSize) \subseteq PoolRegion
  BY DEF TypeOK, OwnersInv, Lent
<1>2. Range(data, BufferSize) \cap Range(glyphs, FontSize) = {}
  BY DEF OwnersInv
<1>3. /\ \A a \in Addresses : a \in Range(glyphs, FontSize) =>
           memory'[a] = Of("font", a - glyphs)
      /\ \A a \in Addresses : a \notin Range(glyphs, FontSize) => memory'[a] = memory[a]
  BY <1>1, Storing
<1>4. ASSUME NEW k \in 0..(Delivered - 1)
      PROVE  memory'[data + k] = Of("file", k) \/ Covered(data + k)
  <2>1. data + k \in Range(data, BufferSize)
    BY BufferCells
  <2>2. data + k \in Addresses
    BY <2>1 DEF OwnersInv, Lent, HeadersRead
  <2>3. memory'[data + k] = memory[data + k]
    BY <1>2, <1>3, <2>1, <2>2
  <2> QED
    BY <2>3 DEF BuffersInv, HeadersRead
<1>5. BuffersInv'
  <2>1. \A a \in Range(glyphs, FontSize) : memory'[a] = Of("font", a - glyphs)
    BY <1>1, <1>3
  <2>2. Range(glyphs, FontSize)' = Range(glyphs, FontSize)
    BY DEF Range
  <2> QED
    BY <1>4, <2>1, <2>2, FileStays DEF BuffersInv, HeadersStay, HeadersRead, FontRead, Of
<1>6. PlacedInv'
  <2>1. i' = 0 /\ \A n \in Segments' : ~(n <= i')
    BY FileType, FileStays DEF ControlInv, Segments, TypeOK
  <2>2. BeingCopied' = {}
    BY DEF BeingCopied
  <2> QED
    BY <2>1, <2>2 DEF PlacedInv, CopiesHold, Last
<1> QED
  BY <1>5, <1>6

LEMMA CopySegmentMemory ==
  ASSUME IInv, CopySegment
  PROVE  BuffersInv' /\ PlacedInv'
<1> USE DEF IInv
<1>1. /\ pc = "copy" /\ i < Len(file.programs)
      /\ UNCHANGED <<memory, owner, file, pointers>> /\ copied' = 0
      /\ BeingCopied = {} /\ data' = data
  BY DEF CopySegment, BeingCopied, pointers
<1>2. CASE ~program.load /\ i' = i + 1 /\ UNCHANGED pc
  <2>1. BuffersInv'
    BY <1>1, <1>2, BuffersQuiet DEF HeadersRead, FontRead
  <2>2. i + 1 \notin Segments
    BY <1>2 DEF Segments, program
  <2>3. PlacedInv'
    BY <1>1, <1>2, <2>2, PlacedMoves
  <2> QED
    BY <2>1, <2>3
<1>3. CASE program.load /\ UNCHANGED i
  <2>1. i + 1 \in Segments
    BY <1>1, <1>3, ThisProgram DEF Segments, program
  <2>2. ASSUME WellFormed
        PROVE  Range(source, program.filesize) \cup Range(program.address, program.filesize)
                 \subseteq Addresses
    <3>1. /\ program.offset \in Nat /\ program.filesize \in Nat /\ program.address \in Nat
          /\ data \in Nat
      BY <1>1, ThisProgram, Sizes DEF TypeOK
    <3>2. Range(program.address, program.filesize) \subseteq Addresses
      BY <2>1, <2>2 DEF WellFormed, Destination, program
    <3>3. ASSUME NEW a \in Range(source, program.filesize) PROVE a \in Addresses
      <4>1. a - data \in Range(program.offset, program.filesize)
        BY <3>1 DEF Range, source
      <4>2. a - data \in 0..(Delivered - 1)
        BY <2>1, <2>2, <4>1 DEF WellFormed, Source, program
      <4>3. a \in Range(data, BufferSize)
        BY <3>1, <4>1, <4>2, Sizes, DeliveredFits DEF Range, source
      <4> QED
        BY <1>1, <4>3, Sizes DEF OwnersInv, Lent, HeadersRead
    <3> QED
      BY <3>2, <3>3
  <2>3. pc' \in {"halted", "memcpy", "wild"} /\ (pc' = "wild" => ~WellFormed)
    BY <1>3, <2>2 DEF CopySegment
  <2>4. BuffersInv'
    BY <1>1, <2>3, BuffersQuiet DEF HeadersRead, FontRead
  <2>5. BeingCopied' = {}
    BY <1>1, <1>3, <2>3, ThisProgram DEF BeingCopied, Range, program
  <2>6. PlacedInv'
    BY <1>1, <1>3, <2>5, PlacedQuiet DEF FontRead
  <2> QED
    BY <2>4, <2>6
<1> QED
  BY <1>2, <1>3 DEF CopySegment

(***************************************************************************)
(* memcpy writes the next cell of the segment, which is then covered: if   *)
(* that is a cell of a buffer, nothing more is said of it.                 *)
(***************************************************************************)
LEMMA CopyCellMemory ==
  ASSUME IInv, pc = "memcpy", More, CopyCell, copied' = copied + 1,
         UNCHANGED <<pc, i, file, owner, pointers>>
  PROVE  BuffersInv' /\ PlacedInv'
<1> USE DEF IInv
<1> DEFINE place == program.address + copied
           from == program.offset + copied
<1>1. /\ i + 1 \in Segments /\ place \in Destination(i + 1)
      /\ place \in Addresses /\ Offset(i + 1, place) = from /\ from \in Nat
      /\ source + copied = data + from
  BY NextCell DEF More
<1>2. /\ i < Len(file.programs) /\ i \in Nat /\ copied \in Nat
      /\ program.address \in Nat /\ program.filesize \in Nat
  BY ThisProgram DEF ControlInv, TypeOK
<1>3. memory' = [memory EXCEPT ![place] = memory[data + from]]
  BY <1>1 DEF CopyCell
<1>4. BeingCopied = program.address..(place - 1)
  BY <1>2 DEF BeingCopied, Range
<1>5. BeingCopied' = program.address..place
  <2>1. program' = program
    BY DEF program
  <2> QED
    BY <1>2, <2>1 DEF BeingCopied, Range
<1>6. place \in Nat /\ place \notin BeingCopied /\ BeingCopied' = BeingCopied \cup {place}
  BY <1>2, <1>4, <1>5
<1> HIDE DEF place, from
<1>7. memory'[place] = memory[data + from]
      /\ \A a \in Addresses : a # place => memory'[a] = memory[a]
  BY <1>1, <1>3 DEF TypeOK
<1>8. Covered(place)
  BY <1>1 DEF Covered, Covering
<1>9. /\ Segments' = Segments /\ (\A n : Destination(n)' = Destination(n))
      /\ (\A n, a : Offset(n, a)' = Offset(n, a)) /\ (\A n, a : Last(n, a)' = Last(n, a))
      /\ (\A a : Covered(a)' = Covered(a))
      /\ Delivered' = Delivered /\ WellFormed' = WellFormed
  BY FileStays DEF Last
<1>10. BuffersInv'
  <2>1. ASSUME NEW k \in 0..(Delivered - 1)
        PROVE  memory'[data + k] = Of("file", k) \/ Covered(data + k)
    <3>1. data + k \in Addresses
      BY BufferCells, Sizes DEF OwnersInv, Lent, HeadersRead
    <3>2. memory[data + k] = Of("file", k) \/ Covered(data + k)
      BY DEF BuffersInv, HeadersRead
    <3> QED
      BY <1>7, <1>8, <3>1, <3>2
  <2>2. \A a \in Range(glyphs, FontSize) : memory'[a] = Of("font", a - glyphs) \/ Covered(a)
    BY <1>7, <1>8, Sizes DEF BuffersInv, OwnersInv, Lent, FontRead
  <2>3. HeadersStay'
    BY DEF HeadersStay
  <2> QED
    BY <1>9, <2>1, <2>2, <2>3 DEF BuffersInv, pointers, HeadersRead, FontRead, Of, Range
<1>11. ASSUME BufferClear PROVE CopiesHold'
  <2>1. CopiesHold
    BY <1>11 DEF PlacedInv, FontRead
  <2>2. ASSUME NEW n, NEW a \in Addresses, a # place, Holds(n, a) PROVE Holds(n, a)'
    BY <1>7, <1>9, <2>2 DEF Holds, TakenAfterwards, Of
  <2>3. ASSUME from < Delivered PROVE memory'[place] = Of("file", from)
    <3>1. from \in 0..(Delivered - 1)
      BY <1>1, <2>3, DeliveredFits
    <3>2. ~Covered(data + from)
      BY <1>11, <3>1, BufferCells DEF BufferClear
    <3>3. memory[data + from] = Of("file", from)
      BY <3>1, <3>2 DEF BuffersInv, HeadersRead
    <3> QED
      BY <1>7, <3>3
  <2>4. ASSUME NEW n, NEW a, n = i + 1, a = place PROVE Holds(n, a)'
    <3>1. Offset(n, a) = from
      BY <1>1, <2>4
    <3>2. Offset(n, a)' = from
      BY <1>9, <3>1
    <3> QED
      BY <1>9, <2>3, <2>4, <3>2 DEF Holds, Of
  <2>5. \A n \in Segments, a \in Addresses : Last(n, a)' /\ a \notin BeingCopied' => Holds(n, a)'
    BY <1>6, <1>9, <2>1, <2>2 DEF CopiesHold
  <2>6. ASSUME NEW n, n = i + 1, NEW a \in BeingCopied' PROVE Holds(n, a)'
    <3>1. CASE a = place
      BY <2>4, <2>6, <3>1
    <3>2. CASE a # place
      <4>1. a \in BeingCopied /\ a \in Addresses
        BY <1>6, <2>6, <3>2, CopiedCells
      <4>2. Holds(n, a)
        BY <2>1, <2>6, <4>1 DEF CopiesHold
      <4> QED
        BY <2>2, <3>2, <4>1, <4>2
    <3> QED
      BY <3>1, <3>2
  <2>7. \A a \in BeingCopied' : Holds(i + 1, a)'
    <3>1. (i + 1)' = i + 1
      OBVIOUS
    <3>2. \A n : n = (i + 1)' => \A a \in BeingCopied' : Holds(n, a)'
      BY <2>6, <3>1
    <3> QED
      BY <3>2
  <2> QED
    BY <1>9, <2>5, <2>7 DEF CopiesHold
<1>12. BufferClear' = BufferClear
  BY <1>9 DEF BufferClear, Range, pointers
<1>13. PlacedInv'
  BY <1>9, <1>11, <1>12 DEF PlacedInv, FontRead
<1> QED
  BY <1>10, <1>13

LEMMA memcpyMemory ==
  ASSUME IInv, memcpy
  PROVE  BuffersInv' /\ PlacedInv'
<1> USE DEF IInv, memcpy
<1>1. CASE More /\ CopyCell /\ copied' = copied + 1 /\ UNCHANGED <<pc, i>>
  BY <1>1, CopyCellMemory
<1>2. CASE ~More /\ pc' = "copy" /\ i' = i + 1 /\ UNCHANGED <<memory, copied>>
  <2>1. BuffersInv'
    BY <1>2, BuffersQuiet DEF HeadersRead, FontRead
  <2>2. /\ i < Len(file.programs) /\ i + 1 \in Segments
        /\ copied \in Nat /\ program.filesize \in Nat /\ copied <= program.filesize
    BY ThisProgram DEF ControlInv, TypeOK, Segments, program
  <2>3. copied = program.filesize
    BY <1>2, <2>2 DEF More
  <2>4. BeingCopied = Destination(i + 1)
    BY <2>3 DEF BeingCopied, Destination, program
  <2>5. PlacedInv'
    BY <1>2, <2>2, <2>4, PlacedMoves DEF pointers
  <2> QED
    BY <2>1, <2>5
<1> QED
  BY <1>1, <1>2

(***************************************************************************)
(* The memory map goes to its own buffer, which may lie on a segment.      *)
(***************************************************************************)
LEMMA GetMemoryMapMemory ==
  ASSUME IInv, GetMemoryMap
  PROVE  BuffersInv' /\ PlacedInv'
<1> USE DEF IInv
<1>1. /\ pc = "get" /\ pc' = "exit" /\ UNCHANGED <<file, pointers, i>>
      /\ memory' = Stored(MemoryMap, MapSize, "map") /\ UNCHANGED <<data, glyphs, MemoryMap>>
  BY DEF GetMemoryMap, pointers
<1>2. /\ \A a \in Addresses : a \in Range(MemoryMap, MapSize) =>
           memory'[a] = Of("map", a - MemoryMap)
      /\ \A a \in Addresses : a \notin Range(MemoryMap, MapSize) => memory'[a] = memory[a]
  BY <1>1, Storing, Sizes DEF TypeOK
<1>3. /\ Range(MemoryMap, MapSize) \subseteq PoolRegion
      /\ Range(glyphs, FontSize) \subseteq PoolRegion
      /\ Range(glyphs, FontSize) \cap Range(MemoryMap, MapSize) = {}
  BY <1>1 DEF OwnersInv, Lent, FontRead
<1>4. BuffersInv'
  <2>1. \A a \in Range(glyphs, FontSize) : memory'[a] = Of("font", a - glyphs) \/ Covered(a)
    BY <1>1, <1>2, <1>3, Sizes DEF BuffersInv, FontRead
  <2>2. \A a \in Range(MemoryMap, MapSize) : memory'[a] = Of("map", a - MemoryMap)
    BY <1>2, <1>3, Sizes
  <2>3. \A a : Covered(a)' = Covered(a)
    BY <1>1, FileStays
  <2> QED
    BY <1>1, <2>1, <2>2, <2>3 DEF BuffersInv, HeadersStay, HeadersRead, FontRead, Range, Of
<1>5. PlacedInv'
  <2>1. BeingCopied = {} /\ BeingCopied' = {}
    BY <1>1 DEF BeingCopied
  <2>2. ASSUME NEW a \in Addresses PROVE memory'[a] = memory[a] \/ TakenAfterwards(a)'
    BY <1>2, <1>3 DEF TakenAfterwards, Of
  <2> QED
    BY <1>1, <2>1, <2>2, PlacedStays DEF FontRead
<1> QED
  BY <1>4, <1>5

(***************************************************************************)
(* The firmware writes only to a cell that was free.                       *)
(***************************************************************************)
LEMMA FirmwareMemory ==
  ASSUME IInv, FirmwareAllocates \/ FirmwareFrees
  PROVE  BuffersInv' /\ PlacedInv'
<1> USE DEF IInv
<1>1. UNCHANGED <<pc, file, pointers, i, copied, data, glyphs, MemoryMap>>
  BY DEF FirmwareAllocates, FirmwareFrees, FirmwareEvent, pointers
<1>2. \A a \in Addresses :
        \/ memory'[a] = memory[a]
        \/ owner[a] = "nobody" /\ TakenAfterwards(a)'
  <2>1. CASE FirmwareAllocates
    <3>1. PICK b \in Places(1) : memory' = [memory EXCEPT ![b] = Of("firmware", 0)]
      BY <2>1 DEF FirmwareAllocates
    <3>2. b \in PoolRegion /\ b \in Addresses /\ owner[b] = "nobody"
      BY Sizes DEF Places, Range
    <3>3. TakenAfterwards(b)'
      BY <3>1, <3>2 DEF TypeOK, TakenAfterwards, Of
    <3> QED
      BY <3>1, <3>2, <3>3 DEF TypeOK
  <2>2. CASE FirmwareFrees
    BY <2>2 DEF FirmwareFrees
  <2> QED
    BY <2>1, <2>2
<1>3. \A address, size : Lent(address, size) =>
        \A a \in Range(address, size) : memory'[a] = memory[a]
  BY <1>2, Sizes DEF Lent
<1>4. BuffersInv'
  <2>1. pc \in HeadersRead => \A k \in 0..(Delivered - 1) : memory'[data + k] = memory[data + k]
    BY <1>3, BufferCells DEF OwnersInv
  <2>2. pc \in FontRead => \A a \in Range(glyphs, FontSize) : memory'[a] = memory[a]
    BY <1>3 DEF OwnersInv
  <2>3. pc \in {"exit", "kernel"} =>
          \A a \in Range(MemoryMap, MapSize) : memory'[a] = memory[a]
    BY <1>3 DEF OwnersInv
  <2>4. Delivered' = Delivered /\ WellFormed' = WellFormed /\ \A a : Covered(a)' = Covered(a)
    BY <1>1, FileStays
  <2>5. HeadersStay'
    BY <1>1, <2>4 DEF BuffersInv, HeadersStay
  <2> QED
    BY <1>1, <2>1, <2>2, <2>3, <2>4, <2>5 DEF BuffersInv, Range, Of
<1>5. PlacedInv'
  <2>1. BeingCopied' = BeingCopied
    BY <1>1 DEF BeingCopied, Range, program
  <2>2. CASE pc \in FontRead
    BY <1>1, <1>2, <2>1, <2>2, CopiedCells, PlacedStays
  <2>3. CASE pc \notin FontRead
    BY <1>1, <2>3 DEF PlacedInv
  <2> QED
    BY <2>2, <2>3
<1> QED
  BY <1>4, <1>5

(***************************************************************************)
(* Headers that are not what Read delivered are ones that a segment is     *)
(* placed over.                                                            *)
(***************************************************************************)
LEMMA GoneMemory ==
  ASSUME IInv, HeadersGone
  PROVE  BuffersInv' /\ PlacedInv'
<1> USE DEF IInv, HeadersGone
<1>1. /\ UNCHANGED <<memory, file, i, data>> /\ pc' = "wild" /\ pc \in {"copy", "entry"}
  BY DEF pointers
<1>2. Len(file.programs) \in Nat /\ Delivered \in Nat /\ i \in Nat
  BY FileType, DeliveredFits DEF TypeOK
<1>3. ASSUME WellFormed PROVE \E k \in 0..Len(file.programs) : Covered(data + k)
  <2>1. CASE ~HeaderIntact
    <3>1. 0 \in 0..(Delivered - 1) /\ 0 \in 0..Len(file.programs)
      BY <1>2, <1>3 DEF WellFormed
    <3>2. data + 0 = data
      BY <3>1, BufferCells
    <3>3. memory[data + 0] = Of("file", 0) \/ Covered(data + 0)
      BY <1>1, <3>1 DEF BuffersInv, HeadersRead
    <3> QED
      BY <2>1, <3>1, <3>2, <3>3 DEF HeaderIntact
  <2>2. CASE i < Len(file.programs) /\ ~ProgramIntact(i + 1)
    <3>1. i + 1 \in 0..(Delivered - 1) /\ i + 1 \in 0..Len(file.programs)
      BY <1>2, <1>3, <2>2 DEF WellFormed
    <3>2. memory[data + (i + 1)] = Of("file", i + 1) \/ Covered(data + (i + 1))
      BY <1>1, <3>1 DEF BuffersInv, HeadersRead
    <3> QED
      BY <2>2, <3>1, <3>2 DEF ProgramIntact
  <2> QED
    BY <2>1, <2>2
<1>4. HeadersStay'
  BY <1>1, <1>3, FileStays DEF HeadersStay
<1> QED
  BY <1>1, <1>4 DEF BuffersInv, PlacedInv, HeadersRead, FontRead

(***************************************************************************)
(* The steps that change no memory and do not go astray.                   *)
(***************************************************************************)
LEMMA QuietMemory ==
  ASSUME IInv,
         \/ AllocateBuffer \/ AllocateGlyphs
         \/ SegmentsDone \/ ReadEntryPoint
         \/ AllocateMemoryMap
         \/ EnterKernel
         \/ UNCHANGED vars
  PROVE  BuffersInv' /\ PlacedInv'
<1> USE DEF IInv, HeadersRead, FontRead
<1>1. /\ UNCHANGED <<memory, file, i>>
      /\ pc' = "wild" => pc = "wild" /\ data' = data
      /\ pc' \in HeadersRead => pc \in HeadersRead /\ data' = data
      /\ pc' \in FontRead => pc \in FontRead /\ glyphs' = glyphs /\ data' = data
      /\ pc' \in {"exit", "kernel"} => pc \in {"exit", "kernel"} /\ MemoryMap' = MemoryMap
  BY DEF AllocateBuffer, AllocateGlyphs, SegmentsDone, ReadEntryPoint, AllocateMemoryMap,
     EnterKernel, NoRoom, vars, pointers
<1>2. BuffersInv'
  <2>1. Delivered' = Delivered /\ WellFormed' = WellFormed /\ \A a : Covered(a)' = Covered(a)
    BY <1>1, FileStays
  <2>2. HeadersStay'
    BY <1>1, <2>1 DEF BuffersInv, HeadersStay
  <2> QED
    BY <1>1, <2>1, <2>2 DEF BuffersInv, Range, Of
<1>3. PlacedInv'
  <2>1. pc' \in FontRead => BeingCopied' = BeingCopied
    <3>1. CASE UNCHANGED vars
      BY <3>1 DEF vars, BeingCopied, Range, program
    <3>2. CASE ~ UNCHANGED vars
      BY <3>2 DEF AllocateBuffer, AllocateGlyphs, SegmentsDone, ReadEntryPoint,
         AllocateMemoryMap, EnterKernel, NoRoom, BeingCopied
    <3> QED
      BY <3>1, <3>2
  <2>2. CASE pc' \in FontRead
    BY <1>1, <2>1, <2>2, PlacedQuiet
  <2>3. CASE pc' \notin FontRead
    BY <2>3 DEF PlacedInv
  <2> QED
    BY <2>2, <2>3
<1> QED
  BY <1>2, <1>3

LEMMA MemoryStep == IInv /\ [Next]_vars => BuffersInv' /\ PlacedInv'
BY QuietMemory, GoneMemory, ReadFileMemory, ReadGlyphsMemory, CopySegmentMemory,
   memcpyMemory, GetMemoryMapMemory, FirmwareMemory
DEF Next

(***************************************************************************)
(* Every reachable state satisfies the invariant.                          *)
(***************************************************************************)
LEMMA Inductive == Spec => []IInv
<1>1. Init => IInv
  BY TypeInit, ControlInit, OwnersInit, MemoryInit DEF IInv
<1>2. IInv /\ [Next]_vars => IInv'
  BY TypeStep, ControlStep, OwnersStep, MemoryStep DEF IInv
<1> QED
  BY <1>1, <1>2, PTL DEF Spec
-----------------------------------------------------------------------------
(***************************************************************************)
(* The types hold in every state of the loader.                            *)
(***************************************************************************)
THEOREM ElfLoadTypes == Spec => []TypeOK
<1>1. IInv => TypeOK
  BY DEF IInv
<1> QED
  BY <1>1, Inductive, PTL

(***************************************************************************)
(* The map that the kernel is given tells who owns what at that moment,    *)
(* and that the font and the map itself are the kernel's to keep, for any  *)
(* file: even one whose segments are copied over the loader.               *)
(***************************************************************************)
THEOREM MapIsKept == Spec => []MapKeepsKernelData
<1>1. IInv => MapKeepsKernelData
  BY DEF IInv, OwnersInv, Lent, FontRead, MapKeepsKernelData
<1> QED
  BY <1>1, Inductive, PTL

(***************************************************************************)
(* A well-formed file makes the loop, a copy or the entry point go astray  *)
(* only by a segment placed over the headers in the file buffer.           *)
(***************************************************************************)
THEOREM HeadersKept == Spec => []HeadersStay
<1>1. IInv => HeadersStay
  BY DEF IInv, BuffersInv
<1> QED
  BY <1>1, Inductive, PTL

(***************************************************************************)
(* The winner of a cell is the last segment that covers it.                *)
(***************************************************************************)
LEMMA WinnerIsLast ==
  ASSUME TypeOK, NEW a, NEW n \in Segments, Last(n, a), i = Len(file.programs)
  PROVE  Winner(a) = n
<1>1. \A m \in Segments : m <= i /\ m \in Nat
  BY FileType DEF Segments, TypeOK
<1>2. n \in Covering(a) /\ \A m \in Covering(a) : m <= n
  BY <1>1 DEF Last, Covering
<1>3. \A w \in Covering(a) : (\A m \in Covering(a) : m <= w) => w = n
  BY <1>1, <1>2 DEF Covering
<1> QED
  BY <1>2, <1>3 DEF Winner

(***************************************************************************)
(* For every file the kernel is entered at its entry point with its map,   *)
(* with its font but for what a segment is placed over, and, if none is    *)
(* placed over the file buffer, with every byte that was read of every     *)
(* segment where it belongs, but for memory the firmware manages and that  *)
(* was taken after the copy.                                               *)
(***************************************************************************)
THEOREM KernelIsInPlace == Spec => []KernelInPlace
<1>1. IInv => KernelInPlace
  <2> SUFFICES ASSUME IInv, pc = "kernel"
               PROVE  /\ entry_point = file.entry
                      /\ \A a \in Range(MemoryMap, MapSize) :
                           memory[a] = Of("map", a - MemoryMap)
                      /\ \A a \in Range(glyphs, FontSize) :
                           memory[a] = Of("font", a - glyphs) \/ Covered(a)
                      /\ BufferClear =>
                           \A a \in Addresses :
                             Covered(a) /\ Offset(Winner(a), a) < Delivered =>
                               Loaded(a) \/ TakenAfterwards(a)
    BY DEF KernelInPlace
  <2> USE DEF IInv
  <2>1. i = Len(file.programs) /\ entry_point = file.entry
    BY DEF ControlInv
  <2>2. ASSUME BufferClear, NEW a \in Addresses, Covered(a), Offset(Winner(a), a) < Delivered
        PROVE  Loaded(a) \/ TakenAfterwards(a)
    <3>1. PICK n \in Segments : a \in Destination(n)
      BY <2>2 DEF Covered, Covering
    <3>2. n <= i
      BY <2>1, FileType DEF Segments, TypeOK
    <3>3. PICK m \in Segments : Last(m, a)
      BY <3>1, <3>2 DEF PlacedInv, FontRead
    <3>4. Holds(m, a)
      BY <2>2, <3>3 DEF PlacedInv, CopiesHold, FontRead, BeingCopied
    <3>5. Winner(a) = m
      BY <2>1, <3>3, WinnerIsLast
    <3> QED
      BY <2>2, <3>4, <3>5 DEF Loaded, Holds
  <2> QED
    BY <2>1, <2>2 DEF BuffersInv, FontRead
<1> QED
  BY <1>1, Inductive, PTL

(***************************************************************************)
(* A step that changes a cell that the firmware holds copies a segment     *)
(* that the file places there.                                             *)
(***************************************************************************)
LEMMA FirmwareCellStays ==
  ASSUME IInv, [Next]_vars,
         NEW a \in Addresses, owner[a] = "firmware", memory'[a] # memory[a]
  PROVE  pc = "memcpy" /\ a \in Destination(i + 1)
<1> USE Sizes DEF IInv
<1>1. CASE ReadFile
  <2>1. memory' = Stored(data, Delivered, "file") /\ pc = "read" /\ data \in Addresses
    BY <1>1 DEF ReadFile, TypeOK
  <2>2. a \notin Range(data, BufferSize)
    BY <2>1 DEF OwnersInv, Lent
  <2>3. a \notin Range(data, Delivered)
    BY <2>1, <2>2, DeliveredFits DEF Range
  <2> QED
    BY <2>1, <2>3, Storing, DeliveredFits
<1>2. CASE ReadGlyphs
  <2>1. memory' = Stored(glyphs, FontSize, "font") /\ glyphs \in Addresses
    BY <1>2 DEF ReadGlyphs, GlyphsRead, TypeOK
  <2>2. a \notin Range(glyphs, FontSize)
    BY <1>2 DEF ReadGlyphs, OwnersInv, Lent
  <2> QED
    BY <2>1, <2>2, Storing
<1>3. CASE memcpy
  <2>1. CASE More /\ CopyCell
    <3>1. /\ program.address + copied \in Destination(i + 1)
          /\ program.address + copied \in Addresses
      BY <1>3, <2>1, NextCell DEF memcpy, More
    <3> QED
      BY <1>3, <2>1, <3>1 DEF memcpy, CopyCell, TypeOK
  <2> QED
    BY <1>3, <2>1 DEF memcpy
<1>4. CASE GetMemoryMap
  <2>1. memory' = Stored(MemoryMap, MapSize, "map") /\ MemoryMap \in Addresses
    BY <1>4 DEF GetMemoryMap, TypeOK
  <2>2. a \notin Range(MemoryMap, MapSize)
    BY <1>4 DEF GetMemoryMap, OwnersInv, Lent
  <2> QED
    BY <2>1, <2>2, Storing
<1>5. CASE FirmwareAllocates
  <2>1. PICK b \in Places(1) : memory' = [memory EXCEPT ![b] = Of("firmware", 0)]
    BY <1>5 DEF FirmwareAllocates
  <2>2. a # b
    BY <2>1 DEF Places, Range
  <2> QED
    BY <2>1, <2>2 DEF TypeOK
<1>6. CASE UNCHANGED memory
  BY <1>6
<1> QED
  BY <1>1, <1>2, <1>3, <1>4, <1>5, <1>6
  DEF Next, vars, AllocateBuffer, AllocateGlyphs, CopySegment, HeadersGone, SegmentsDone,
      ReadEntryPoint, AllocateMemoryMap, EnterKernel, FirmwareFrees, NoRoom

(***************************************************************************)
(* For every file, what the firmware holds is changed by nothing but the   *)
(* copy of a segment that the file places there.                           *)
(***************************************************************************)
THEOREM FirmwareIsUntouched == Spec => FirmwareUntouched
<1>1. IInv /\ [Next]_vars =>
        [\A a \in Addresses :
           owner[a] = "firmware" /\ memory'[a] # memory[a] =>
             pc = "memcpy" /\ a \in Destination(i + 1)]_vars
  BY FirmwareCellStays
<1> QED
  BY <1>1, Inductive, PTL DEF Spec, FirmwareUntouched
=============================================================================
