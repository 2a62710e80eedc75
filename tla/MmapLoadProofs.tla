--------------------------- MODULE MmapLoadProofs ---------------------------
(***************************************************************************)
(* Theorems about MmapLoad, for every page size, every address space and   *)
(* every file: any number of segments, anywhere, of any sizes.             *)
(***************************************************************************)
EXTENDS MmapLoad, TLAPS

(***************************************************************************)
(* The addresses of a segment.                                             *)
(***************************************************************************)
Cells(n) ==
  kernel.programs[n].address ..
    (kernel.programs[n].address + kernel.programs[n].memsize - 1)

(***************************************************************************)
(* Nothing is loaded from a buffer that does not hold the file, and memcpy *)
(* is reached only behind an mmap for a segment of the file.               *)
(***************************************************************************)
ControlInv ==
  /\ pc \in {"segment", "copy", "kernel"} => source = "file"
  /\ pc = "copy" => i < Len(kernel.programs) /\ program.load
  /\ pc = "kernel" => i = Len(kernel.programs)

(***************************************************************************)
(* The pages mapped were free, hold the segments loaded so far, and those  *)
(* of the segment being loaded hold no cell of an earlier one.             *)
(***************************************************************************)
PagesInv ==
  /\ mapped \cap Occupied = {}
  /\ \A n \in Segments : n <= i => \A a \in Cells(n) : PageOf(a) \in mapped
  /\ pc = "copy" =>
       /\ Requested \subseteq mapped
       /\ \A n \in Segments : n <= i => \A a \in Cells(n) : PageOf(a) \notin Requested

(***************************************************************************)
(* What is in the pages: the process in its own but for what was spilled,  *)
(* every loaded segment in place, and zeros where the next one goes.       *)
(***************************************************************************)
MemoryInv ==
  /\ ProcessUntouched
  /\ \A n \in Segments : n <= i => InPlace(n)
  /\ pc = "copy" => \A a \in Cells(i + 1) : memory[a] = Of("zero", 0)

(***************************************************************************)
(* The inductive invariant.                                                *)
(***************************************************************************)
IInv == TypeOK /\ ControlInv /\ PagesInv /\ MemoryInv /\ NoFault
-----------------------------------------------------------------------------
(***************************************************************************)
(* Pages: the quotient and the remainder of an address, and their order.   *)
(***************************************************************************)
LEMMA Division ==
  ASSUME NEW a \in Nat, NEW b \in Nat, b >= 1
  PROVE  /\ a \div b \in Nat
         /\ a % b \in Nat
         /\ a % b < b
         /\ a = b * (a \div b) + (a % b)
OBVIOUS

LEMMA DivisionMonotone ==
  ASSUME NEW a \in Nat, NEW c \in Nat, NEW b \in Nat, b >= 1, a <= c
  PROVE  a \div b <= c \div b
<1> DEFINE q == a \div b
           r == c \div b
<1>1. q \in Nat /\ r \in Nat /\ b * q <= a /\ c < b * r + b
  BY Division
<1> HIDE DEF q, r
<1>2. CASE q > r
  <2>1. q >= r + 1
    BY <1>1, <1>2
  <2>2. b * q >= b * (r + 1)
    BY <1>1, <2>1
  <2>3. b * (r + 1) = b * r + b
    BY <1>1
  <2> QED
    BY <1>1, <2>2, <2>3
<1>3. CASE q <= r
  BY <1>3 DEF q, r
<1> QED
  BY <1>1, <1>2, <1>3

(***************************************************************************)
(* An address on a page of the address space is an address.                *)
(***************************************************************************)
LEMMA PageBelow ==
  ASSUME NEW a \in Nat, PageOf(a) \in 0..(Pages - 1)
  PROVE  a \in Addresses
<1> DEFINE q == a \div PageSize
<1>1. PageSize \in Nat /\ PageSize >= 1 /\ Pages \in Nat
  BY MmapLoadAssumption
<1>2. q \in Nat /\ a < PageSize * q + PageSize
  BY <1>1, Division
<1>3. q + 1 <= Pages
  BY <1>1 DEF PageOf
<1> HIDE DEF q
<1>4. (q + 1) * PageSize <= Pages * PageSize
  BY <1>1, <1>2, <1>3
<1>5. (q + 1) * PageSize = PageSize * q + PageSize
  BY <1>1, <1>2
<1>6. Pages * PageSize \in Nat /\ PageSize * q \in Nat
  BY <1>1, <1>2
<1>7. a < Pages * PageSize
  BY <1>1, <1>2, <1>4, <1>5, <1>6
<1> QED
  BY <1>6, <1>7 DEF Addresses

(***************************************************************************)
(* What the program headers are.                                           *)
(***************************************************************************)
LEMMA ProgramType ==
  ASSUME TypeOK
  PROVE  /\ Len(kernel.programs) \in Nat /\ kernel.size \in Nat
         /\ \A n \in 1..Len(kernel.programs) : kernel.programs[n] \in Segment
<1>1. kernel.programs \in Seq(Segment) /\ kernel.size \in Nat
  BY MmapLoadAssumption DEF TypeOK
<1> QED
  BY <1>1

LEMMA ThisProgram ==
  ASSUME TypeOK, i < Len(kernel.programs)
  PROVE  /\ i + 1 \in 1..Len(kernel.programs) /\ i \in Nat
         /\ program \in Segment
         /\ program.address \in Nat /\ program.offset \in Nat
         /\ program.filesize \in Nat /\ program.memsize \in Nat
<1>1. i \in Nat /\ i + 1 \in 1..Len(kernel.programs)
  BY ProgramType DEF TypeOK
<1>2. program \in Segment
  BY <1>1, ProgramType DEF program
<1> QED
  BY <1>1, <1>2 DEF Segment

(***************************************************************************)
(* mmap is asked for every page that a cell of the segment is on           *)
(* (elf.c:40-46).                                                          *)
(***************************************************************************)
LEMMA RequestedCovers ==
  ASSUME TypeOK, i < Len(kernel.programs), NEW a \in Cells(i + 1)
  PROVE  a \in Nat /\ PageOf(a) \in Requested
<1> DEFINE address == program.address
           size == program.memsize
<1>1. address \in Nat /\ size \in Nat /\ PageSize \in Nat /\ PageSize >= 1
  BY ThisProgram, MmapLoadAssumption
<1>2. a \in address..(address + size - 1)
  BY DEF Cells, program
<1>3. address % PageSize \in Nat /\ address % PageSize <= address
  <2>1. PageSize * (address \div PageSize) \in Nat
    BY <1>1, Division
  <2>2. /\ address % PageSize \in Nat
        /\ address = PageSize * (address \div PageSize) + (address % PageSize)
    BY <1>1, Division
  <2> QED
    BY <1>1, <2>1, <2>2
<1>4. aligned \in Nat /\ aligned <= address
  BY <1>1, <1>3 DEF aligned
<1>5. aligned + align_size - 1 = address + size - 1
  BY <1>1, <1>4 DEF align_size
<1> HIDE DEF address, size
<1>6. a \in Nat /\ address + size - 1 \in Nat /\ a <= address + size - 1 /\ aligned <= a
  BY <1>1, <1>2, <1>4
<1>7. PageOf(aligned) <= PageOf(a) /\ PageOf(a) <= PageOf(address + size - 1)
  BY <1>1, <1>4, <1>6, DivisionMonotone DEF PageOf
<1>8. PageOf(a) \in Nat /\ PageOf(aligned) \in Nat /\ PageOf(address + size - 1) \in Nat
  BY <1>1, <1>4, <1>6, Division DEF PageOf
<1> QED
  BY <1>5, <1>6, <1>7, <1>8 DEF Requested

(***************************************************************************)
(* The cells of a segment that is loaded are addresses.                    *)
(***************************************************************************)
LEMMA CellsAddresses ==
  ASSUME TypeOK, PagesInv, NEW n \in Segments, n <= i, NEW a \in Cells(n)
  PROVE  a \in Addresses
<1>1. n \in 1..Len(kernel.programs) /\ kernel.programs[n].address \in Nat
  BY ProgramType DEF Segments, Segment
<1>2. a \in Nat
  BY <1>1, ProgramType DEF Cells, Segment
<1>3. PageOf(a) \in 0..(Pages - 1)
  BY DEF PagesInv, TypeOK
<1> QED
  BY <1>2, <1>3, PageBelow

(***************************************************************************)
(* What is said of the file alone does not change with the step.           *)
(***************************************************************************)
LEMMA FileStays ==
  ASSUME kernel' = kernel
  PROVE  /\ Segments' = Segments
         /\ \A n : Cells(n)' = Cells(n) /\ Spill(n)' = Spill(n)
         /\ \A a : Spilled(a)' = Spilled(a)
<1>1. Segments' = Segments /\ \A n : Cells(n)' = Cells(n) /\ Spill(n)' = Spill(n)
  BY DEF Segments, Cells, Spill
<1> QED
  BY <1>1 DEF Spilled

(***************************************************************************)
(* A loaded segment stays in place when nothing but a spill writes to its  *)
(* cells.                                                                  *)
(***************************************************************************)
LEMMA InPlaceStays ==
  ASSUME TypeOK, NEW n \in Segments, InPlace(n), kernel' = kernel,
         \A a \in Cells(n) : Spilled(a) \/ memory'[a] = memory[a]
  PROVE  InPlace(n)'
<1>1. kernel.programs[n].address \in Nat /\ kernel.programs[n].memsize \in Nat
  BY ProgramType DEF Segments, Segment
<1>2. \A k \in 0..(kernel.programs[n].memsize - 1) :
        kernel.programs[n].address + k \in Cells(n)
  BY <1>1 DEF Cells
<1>3. \A a : Spilled(a)' = Spilled(a)
  BY FileStays
<1> QED
  BY <1>2, <1>3 DEF InPlace, Of
-----------------------------------------------------------------------------
(***************************************************************************)
(* The initial state, and the steps that leave memory alone.               *)
(***************************************************************************)
LEMMA LoadInit == Init => IInv
<1> SUFFICES ASSUME Init PROVE IInv
  OBVIOUS
<1>1. kernel.programs \in Seq(Segment)
  BY MmapLoadAssumption DEF Init
<1>2. i \in 0..Len(kernel.programs)
  BY <1>1 DEF Init
<1>3. memory \in [Addresses -> Contents]
  BY DEF Init, Contents, Of
<1>4. TypeOK
  BY <1>2, <1>3 DEF Init, TypeOK
<1>5. ~ \E n \in Segments : n <= i
  BY <1>1 DEF Init, Segments
<1>6. ControlInv /\ PagesInv
  BY <1>5 DEF Init, ControlInv, PagesInv
<1>7. MemoryInv /\ NoFault
  BY <1>5 DEF Init, MemoryInv, ProcessUntouched, NoFault
<1> QED
  BY <1>4, <1>6, <1>7 DEF IInv

(***************************************************************************)
(* A step that neither maps, copies nor moves the loop.                    *)
(***************************************************************************)
LEMMA QuietKeeps ==
  ASSUME IInv, UNCHANGED <<kernel, i, mapped, memory>>, pc' # "copy", TypeOK',
         ControlInv', NoFault'
  PROVE  IInv'
<1> USE DEF IInv
<1>1. /\ Segments' = Segments /\ \A n : Cells(n)' = Cells(n)
      /\ \A a : Spilled(a)' = Spilled(a)
  BY FileStays
<1>2. PagesInv'
  BY <1>1 DEF PagesInv, PageOf
<1>3. \A n \in Segments : InPlace(n)' = InPlace(n)
  BY <1>1 DEF InPlace, Of
<1>4. MemoryInv'
  BY <1>1, <1>3 DEF MemoryInv, ProcessUntouched, PageOf, Of
<1> QED
  BY <1>2, <1>4

LEMMA QuietSteps ==
  ASSUME IInv, Open \/ Measure \/ Allocate \/ Read \/ IsElf64 \/ Enter \/ KernelReturns
  PROVE  IInv'
<1> USE DEF IInv, Open, Measure, Allocate, Read, IsElf64, Enter, KernelReturns, Step
<1>1. TypeOK'
  BY DEF TypeOK
<1>2. ControlInv'
  BY DEF ControlInv, program
<1>3. NoFault'
  BY DEF NoFault, Spill, PageOf
<1> QED
  BY <1>1, <1>2, <1>3, QuietKeeps

LEMMA SkipKeeps == IInv /\ Skip => IInv'
<1> SUFFICES ASSUME IInv, Skip PROVE IInv'
  OBVIOUS
<1> USE DEF IInv, Skip
<1>1. i + 1 \in 0..Len(kernel.programs) /\ i \in Nat
  BY ThisProgram DEF TypeOK
<1>2. TypeOK'
  BY <1>1 DEF TypeOK
<1>3. /\ Segments' = Segments /\ \A n : Cells(n)' = Cells(n)
      /\ \A a : Spilled(a)' = Spilled(a)
  BY FileStays
<1>4. \A n \in Segments : n <= i + 1 => n <= i
  BY <1>1, ThisProgram, ProgramType DEF Segments, program
<1>5. ControlInv' /\ NoFault'
  BY DEF ControlInv, NoFault
<1>6. PagesInv'
  BY <1>3, <1>4 DEF PagesInv, PageOf
<1>7. \A n \in Segments : InPlace(n)' = InPlace(n)
  BY <1>3 DEF InPlace, Of
<1>8. MemoryInv'
  BY <1>3, <1>4, <1>7 DEF MemoryInv, ProcessUntouched, PageOf, Of
<1> QED
  BY <1>2, <1>5, <1>6, <1>8

(***************************************************************************)
(* mmap gives fresh pages, filled with zeros, or the assert stops the      *)
(* program.                                                                *)
(***************************************************************************)
LEMMA MapKeeps == IInv /\ Map => IInv'
<1> SUFFICES ASSUME IInv, Map PROVE IInv'
  OBVIOUS
<1> USE DEF IInv
<1>1. UNCHANGED <<kernel, source, i>> /\ i < Len(kernel.programs) /\ program.load
      /\ pc = "segment"
  BY DEF Map
<1>2. /\ Segments' = Segments /\ \A n : Cells(n)' = Cells(n)
      /\ \A a : Spilled(a)' = Spilled(a)
  BY <1>1, FileStays
<1>3. Requested' = Requested
  BY <1>1, <1>2 DEF Requested, PageOf, aligned, align_size, program
<1>4. CASE pc' = "aborted" /\ UNCHANGED <<mapped, memory>>
  <2>1. TypeOK' /\ ControlInv' /\ NoFault'
    BY <1>1, <1>4 DEF TypeOK, ControlInv, NoFault
  <2> QED
    BY <1>1, <1>4, <2>1, QuietKeeps
<1>5. CASE /\ Requested \subseteq 0..(Pages - 1)
           /\ HintTaken
           /\ mapped' = mapped \cup Requested
           /\ memory' = [a \in Addresses |->
                           IF PageOf(a) \in Requested THEN Of("zero", 0) ELSE memory[a]]
           /\ pc' = "copy"
  <2>1. TypeOK'
    <3>1. memory' \in [Addresses -> Contents]
      BY <1>5 DEF TypeOK, Contents, Of
    <3> QED
      BY <1>1, <1>5, <3>1 DEF TypeOK
  <2>2. ControlInv' /\ NoFault'
    BY <1>1, <1>5 DEF ControlInv, NoFault, program
  <2>3. \A n \in Segments : n <= i => \A a \in Cells(n) : PageOf(a) \notin Requested
    BY <1>5 DEF HintTaken, PagesInv
  <2>4. PagesInv'
    BY <1>1, <1>2, <1>3, <1>5, <2>3 DEF PagesInv, HintTaken, PageOf
  <2>5. \A n \in Segments : n <= i => \A a \in Cells(n) : memory'[a] = memory[a]
    BY <1>5, <2>3, CellsAddresses
  <2>6. \A n \in Segments : n <= i => InPlace(n)'
    BY <1>1, <2>5, InPlaceStays DEF MemoryInv
  <2>7. \A a \in Addresses : PageOf(a) \in Occupied => memory'[a] = memory[a]
    BY <1>5 DEF HintTaken
  <2>8. \A a \in Cells(i + 1) : memory'[a] = Of("zero", 0)
    <3> TAKE a \in Cells(i + 1)
    <3>1. a \in Nat /\ PageOf(a) \in Requested
      BY <1>1, RequestedCovers
    <3>2. a \in Addresses
      BY <1>5, <3>1, PageBelow
    <3> QED
      BY <1>5, <3>1, <3>2
  <2>9. MemoryInv'
    BY <1>1, <1>2, <2>6, <2>7, <2>8 DEF MemoryInv, ProcessUntouched, PageOf, Of
  <2> QED
    BY <2>1, <2>2, <2>4, <2>9
<1> QED
  BY <1>4, <1>5 DEF Map

(***************************************************************************)
(* The copy of a segment stays on its own pages or spills.                 *)
(***************************************************************************)
LEMMA WrittenInside ==
  ASSUME IInv, pc = "copy", NEW a \in Written
  PROVE  \/ a \in Cells(i + 1) /\ PageOf(a) \in Requested /\ PageOf(a) \in mapped
         \/ a \in Spill(i + 1) /\ Spilled(a)
<1> USE DEF IInv
<1>1. i < Len(kernel.programs) /\ program.load
  BY DEF ControlInv
<1>2. i + 1 \in Segments
  BY <1>1, ThisProgram DEF Segments, program
<1>3. /\ program.address \in Nat /\ program.filesize \in Nat
      /\ program.memsize \in Nat
  BY <1>1, ThisProgram
<1>4. a \in Cells(i + 1) \/ a \in Spill(i + 1)
  <2>1. /\ Cells(i + 1) = program.address..(program.address + program.memsize - 1)
        /\ Spill(i + 1) = (program.address + program.memsize)
                            ..(program.address + program.filesize - 1)
    BY DEF Cells, Spill, program
  <2> QED
    BY <1>3, <2>1 DEF Written
<1>5. a \in Spill(i + 1) => Spilled(a)
  BY <1>2 DEF Spilled
<1> QED
  BY <1>1, <1>4, <1>5, RequestedCovers DEF PagesInv

LEMMA CopyKeeps == IInv /\ Copy => IInv'
<1> SUFFICES ASSUME IInv, Copy PROVE IInv'
  OBVIOUS
<1> USE DEF IInv
<1>1. UNCHANGED <<kernel, source, mapped>> /\ i < Len(kernel.programs) /\ program.load
      /\ pc = "copy"
  BY DEF Copy, ControlInv
<1>2. /\ Segments' = Segments /\ (\A n : Cells(n)' = Cells(n) /\ Spill(n)' = Spill(n))
      /\ \A a : Spilled(a)' = Spilled(a)
  BY <1>1, FileStays
<1>3. CASE /\ \E a \in Written : PageOf(a) \notin mapped \cup Occupied
           /\ pc' = "undefined"
           /\ UNCHANGED <<i, memory>>
  <2>1. \E a \in Spill(i + 1) : PageOf(a) \notin mapped \cup Occupied
    BY <1>1, <1>3, WrittenInside
  <2>2. (i + 1)' = i + 1 /\ Spill(i + 1)' = Spill(i + 1)
    BY <1>1, <1>3 DEF Spill
  <2>3. TypeOK' /\ ControlInv'
    BY <1>1, <1>3 DEF TypeOK, ControlInv
  <2>4. NoFault'
    BY <1>1, <2>1, <2>2 DEF NoFault, PageOf
  <2> QED
    BY <1>1, <1>3, <2>3, <2>4, QuietKeeps
<1>4. CASE /\ memory' = [a \in Addresses |->
                           IF a \in Written
                           THEN FileCell(a - program.address + program.offset)
                           ELSE memory[a]]
           /\ i' = After
           /\ pc' = "segment"
  <2>1. i' = i + 1 /\ i \in Nat /\ i + 1 \in 1..Len(kernel.programs)
    BY <1>1, <1>4, ThisProgram DEF After
  <2>2. TypeOK'
    <3>1. \A a \in Written : a - program.address + program.offset \in Nat
      BY <1>1, ThisProgram DEF Written
    <3>2. \A m \in Nat : FileCell(m) \in Contents
      BY DEF FileCell, Contents, Of
    <3>3. memory' \in [Addresses -> Contents]
      BY <1>4, <3>1, <3>2 DEF TypeOK
    <3>4. i' \in 0..Len(kernel'.programs)
      BY <1>1, <2>1
    <3> QED
      BY <1>1, <1>4, <3>3, <3>4 DEF TypeOK
  <2>3. ControlInv' /\ NoFault'
    BY <1>1, <1>4 DEF ControlInv, NoFault
  <2>4. \A n \in Segments : n <= i + 1 => n <= i \/ n = i + 1
    BY <2>1, ProgramType DEF Segments
  <2>5. PagesInv'
    <3>1. \A a \in Cells(i + 1) : PageOf(a) \in mapped
      BY <1>1, RequestedCovers DEF PagesInv
    <3> QED
      BY <1>1, <1>2, <1>4, <2>1, <2>4, <3>1 DEF PagesInv, PageOf
  <2>6. ASSUME NEW n \in Segments, n <= i PROVE InPlace(n)'
    <3>1. \A a \in Cells(n) : Spilled(a) \/ memory'[a] = memory[a]
      BY <1>1, <1>4, <2>6, CellsAddresses, WrittenInside DEF PagesInv
    <3> QED
      BY <1>1, <2>6, <3>1, InPlaceStays DEF MemoryInv
  <2>7. ASSUME NEW n \in Segments, n = i + 1 PROVE InPlace(n)'
    <3> DEFINE s == kernel.programs[n]
    <3>1. /\ s = program /\ i + 1 \in Segments
          /\ s.address \in Nat /\ s.offset \in Nat /\ s.filesize \in Nat /\ s.memsize \in Nat
          /\ kernel.size \in Nat
      BY <1>1, <2>1, <2>7, ThisProgram, ProgramType DEF program, Segments
    <3> HIDE DEF s
    <3>3. ASSUME NEW k \in 0..(s.memsize - 1)
          PROVE  /\ k < s.filesize /\ s.offset + k < kernel.size =>
                      memory'[s.address + k] = Of("file", s.offset + k)
                 /\ k >= s.filesize => memory'[s.address + k] = Of("zero", 0)
      <4>1. s.address + k \in Cells(i + 1)
        BY <2>7, <3>1 DEF Cells, s
      <4>2. s.address + k \in Addresses
        <5>1. s.address + k \in Nat /\ PageOf(s.address + k) \in Requested
          BY <1>1, <4>1, RequestedCovers
        <5>2. PageOf(s.address + k) \in 0..(Pages - 1)
          BY <1>1, <5>1 DEF PagesInv, TypeOK
        <5> QED
          BY <5>1, <5>2, PageBelow
      <4>3. memory[s.address + k] = Of("zero", 0)
        BY <1>1, <4>1 DEF MemoryInv
      <4>4. ASSUME k < s.filesize, s.offset + k < kernel.size
            PROVE  memory'[s.address + k] = Of("file", s.offset + k)
        <5>1. s.address + k \in Written
          BY <3>1, <4>4 DEF Written
        <5>2. s.address + k - program.address + program.offset = s.offset + k
          BY <3>1
        <5>3. FileCell(s.offset + k) = Of("file", s.offset + k)
          BY <4>4 DEF FileCell
        <5>4. memory'[s.address + k]
                = FileCell(s.address + k - program.address + program.offset)
          BY <1>4, <3>1, <4>2, <5>1
        <5> QED
          BY <5>2, <5>3, <5>4
      <4>5. ASSUME k >= s.filesize PROVE memory'[s.address + k] = Of("zero", 0)
        <5>1. s.address + k \notin Written
          BY <3>1, <4>5 DEF Written
        <5> QED
          BY <1>4, <4>2, <4>3, <5>1
      <4> QED
        BY <4>4, <4>5
    <3> QED
      BY <1>1, <3>3 DEF InPlace, s, Of
  <2>8. ASSUME NEW a \in Addresses, PageOf(a) \in Occupied, ~Spilled(a)
        PROVE  memory'[a] = memory[a]
    BY <1>1, <1>4, <2>8, WrittenInside DEF PagesInv
  <2>9. MemoryInv'
    <3>1. \A n \in Segments : n <= i + 1 => InPlace(n)'
      BY <2>4, <2>6, <2>7
    <3>2. ProcessUntouched'
      BY <1>2, <2>8 DEF MemoryInv, ProcessUntouched, PageOf, Of
    <3> QED
      BY <1>2, <1>4, <2>1, <3>1, <3>2 DEF MemoryInv
  <2> QED
    BY <2>2, <2>3, <2>5, <2>9
<1> QED
  BY <1>3, <1>4 DEF Copy

LEMMA LoadStep == IInv /\ [Next]_vars => IInv'
<1> SUFFICES ASSUME IInv, [Next]_vars PROVE IInv'
  OBVIOUS
<1>1. CASE UNCHANGED vars
  <2>1. TypeOK' /\ ControlInv' /\ PagesInv' /\ NoFault'
    BY <1>1 DEF IInv, vars, TypeOK, ControlInv, PagesInv, NoFault, Segments, Cells, Spill,
       PageOf, Requested, aligned, align_size, program
  <2>2. MemoryInv'
    BY <1>1, FileStays
    DEF IInv, vars, MemoryInv, ProcessUntouched, InPlace, PageOf, Of
  <2> QED
    BY <2>1, <2>2 DEF IInv
<1> QED
  BY <1>1, QuietSteps, SkipKeeps, MapKeeps, CopyKeeps DEF Next

(***************************************************************************)
(* Every reachable state satisfies the invariant.                          *)
(***************************************************************************)
LEMMA Inductive == Spec => []IInv
BY LoadInit, LoadStep, PTL DEF Spec
-----------------------------------------------------------------------------
(***************************************************************************)
(* The types hold in every state of load_elf64 and its main.               *)
(***************************************************************************)
THEOREM LoadTypes == Spec => []TypeOK
<1>1. IInv => TypeOK
  BY DEF IInv
<1> QED
  BY <1>1, Inductive, PTL

(***************************************************************************)
(* For every file, the kernel is entered with the bytes of every segment   *)
(* that the file has in place and zeros behind them, but for what segments *)
(* spill: an overlap of segments has stopped the program before.           *)
(***************************************************************************)
THEOREM KernelLoaded == Spec => []Loaded
<1>1. IInv => Loaded
  <2> SUFFICES ASSUME IInv, pc = "kernel", NEW n \in Segments
               PROVE  InPlace(n)
    BY DEF Loaded
  <2>1. n <= i
    BY ProgramType DEF IInv, ControlInv, Segments
  <2> QED
    BY <2>1 DEF IInv, MemoryInv
<1> QED
  BY <1>1, Inductive, PTL

(***************************************************************************)
(* For every file, what the process had is changed only where a segment    *)
(* with more bytes in the file than in memory spills over it.              *)
(***************************************************************************)
THEOREM ProcessKept == Spec => []ProcessUntouched
<1>1. IInv => ProcessUntouched
  BY DEF IInv, MemoryInv
<1> QED
  BY <1>1, Inductive, PTL

(***************************************************************************)
(* A file that was read makes the loader fault only at a spilled byte.     *)
(***************************************************************************)
THEOREM LoadNeverFaults == Spec => []NoFault
<1>1. IInv => NoFault
  BY DEF IInv
<1> QED
  BY <1>1, Inductive, PTL
=============================================================================
