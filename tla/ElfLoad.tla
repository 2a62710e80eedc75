------------------------------ MODULE ElfLoad -------------------------------
(***************************************************************************)
(* What loading an ELF kernel does to memory: EfiReadFile, EfiLoadFont,    *)
(* the loop of EfiLoadElf with memcpy byte by byte, and                    *)
(* EfiExitBootServices (src/efi_main.c:311-333, 523-612, 474-520), with    *)
(* the firmware allocating and freeing in between.  The status of the      *)
(* calls is the subject of Boot; here an allocation fails when there is no *)
(* room, and leaving boot services fails when the map has changed.         *)
(*                                                                         *)
(* Memory is a row of cells.  A file is a row of cells too: the ELF header *)
(* is cell 0, program header i is cell i, the rest is contents.  The       *)
(* loader never copies the headers out of its buffer: it reads them from   *)
(* memory each time, whatever is there by then.                            *)
(***************************************************************************)
EXTENDS Integers, Sequences

CONSTANTS
  MemorySize,   \* cells of memory
  PoolRegion,   \* where the firmware may put what it allocates
  Files,        \* kernel files: [size, entry, programs]
  BufferSize,   \* the 0x10000 of EfiLoadKernel
  FontSize,     \* cells of the glyphs
  MapSize,      \* cells of the memory map
  MaxEvents     \* bound: what the firmware allocates or frees for itself

Addresses == 0..(MemorySize - 1)

Programs == Seq([load: BOOLEAN, offset: Nat, address: Nat, filesize: Nat, memsize: Nat])

ASSUME ElfLoadAssumption ==
  /\ MemorySize \in Nat \ {0}
  /\ PoolRegion \subseteq Addresses
  /\ Files \subseteq [size: Nat, entry: Addresses, programs: Programs]
  /\ {BufferSize, FontSize, MapSize} \subseteq Nat \ {0}
  /\ MaxEvents \in Nat

VARIABLES
  pc,       \* the next step
  memory,   \* what each cell holds
  owner,    \* who has allocated each cell: "nobody", "firmware" or "loader"
            \* (EfiLoaderData, which outlives the boot services)
  file,     \* the kernel file on the volume
  data,     \* address of the file buffer
  glyphs,   \* address of the font's glyphs
  MemoryMap,\* address of the memory map
  i,        \* the loop variable of EfiLoadElf
  copied,   \* the loop variable of memcpy
  entry_point,
  described,\* the owners that the memory map tells of
  stale,    \* whether memory has changed hands since
  events    \* what the firmware has allocated or freed for itself

pointers == <<data, glyphs, MemoryMap>>
map == <<described, stale>>
vars == <<pc, memory, owner, file, pointers, i, copied, entry_point, map, events>>

(***************************************************************************)
(* What a cell can hold: cell n of the file, of the font or of the memory  *)
(* map, something of the firmware's, or what was there before.             *)
(***************************************************************************)
Of(what, n) == <<what, n>>
Contents == {"file", "font", "map", "firmware", "old"} \X Nat

Range(address, size) == address .. (address + size - 1)

TypeOK ==
  /\ pc \in {"buffer", "read", "font", "glyphs", "copy", "memcpy", "entry", "map",
             "get", "exit", "kernel", "halted", "wild"}
  /\ memory \in [Addresses -> Contents]
  /\ {owner, described} \subseteq [Addresses -> {"nobody", "firmware", "loader"}]
  /\ stale \in BOOLEAN
  /\ file \in Files
  /\ {data, glyphs, MemoryMap, entry_point} \subseteq Addresses
  /\ i \in Nat /\ copied \in Nat
  /\ events \in 0..MaxEvents

Init ==
  /\ pc = "buffer"
  /\ memory = [a \in Addresses |-> Of("old", 0)]
  /\ owner = [a \in Addresses |-> "nobody"]
  /\ file \in Files
  /\ data = 0 /\ glyphs = 0 /\ MemoryMap = 0
  /\ i = 0 /\ copied = 0
  /\ entry_point = 0
  /\ described = owner /\ stale = FALSE
  /\ events = 0
-----------------------------------------------------------------------------
(***************************************************************************)
(* AllocatePool: the firmware picks any free cells it manages.             *)
(***************************************************************************)
Places(size) ==
  {a \in PoolRegion : /\ Range(a, size) \subseteq PoolRegion
                      /\ \A b \in Range(a, size) : owner[b] = "nobody"}

Taken(address, size, who) ==
  [a \in Addresses |-> IF a \in Range(address, size) THEN who ELSE owner[a]]

(***************************************************************************)
(* The type the loader asks for is EfiLoaderData.                          *)
(* Mutant: it is EfiBootServicesData, as in EfiCurrentTime.                *)
(***************************************************************************)
LoaderDataBoot == "firmware"
LoaderData == "loader"

NoRoom(loc, size) ==
  /\ pc = loc
  /\ Places(size) = {}
  /\ pc' = "halted"
  /\ UNCHANGED <<memory, owner, file, pointers, i, copied, entry_point, map, events>>

(***************************************************************************)
(* size cells from address on filled with the cells of a file, a font or a *)
(* memory map.  Mutant: from one cell before their beginning.              *)
(***************************************************************************)
StoredEarly(address, size, what) ==
  [a \in Addresses |->
     IF a \in Range(address, size) THEN Of(what, a - address - 1) ELSE memory[a]]

Stored(address, size, what) ==
  [a \in Addresses |->
     IF a \in Range(address, size) THEN Of(what, a - address) ELSE memory[a]]

(***************************************************************************)
(* EfiReadFile.  Read delivers at most BufferSize cells of the file; the   *)
(* rest of the buffer stays as it is (the loop at lines 323-324 runs from  *)
(* size to size), all of it when the file is empty: then the magic number  *)
(* that EfiLoadKernel looks at is whatever was there.                      *)
(***************************************************************************)
AllocateBuffer ==
  \/ /\ pc = "buffer"
     /\ data' \in Places(BufferSize)
     /\ owner' = Taken(data', BufferSize, LoaderData)
     /\ pc' = "read"
     /\ UNCHANGED <<memory, file, glyphs, MemoryMap, i, copied, entry_point, map, events>>
  \/ NoRoom("buffer", BufferSize)

Delivered == IF file.size < BufferSize THEN file.size ELSE BufferSize

ReadFile ==
  /\ pc = "read"
  /\ memory' = Stored(data, Delivered, "file")
  /\ pc' \in IF Delivered = 0 THEN {"font", "halted"} ELSE {"font"}
  /\ UNCHANGED <<owner, file, pointers, i, copied, entry_point, map, events>>

(***************************************************************************)
(* EfiLoadFont: glyphs are allocated, then read.  Mutant: more of them     *)
(* than there is room for (a size computed between the two calls).         *)
(***************************************************************************)
GlyphsReadLate == FontSize + 1
GlyphsRead == FontSize

AllocateGlyphs ==
  \/ /\ pc = "font"
     /\ glyphs' \in Places(FontSize)
     /\ owner' = Taken(glyphs', FontSize, LoaderData)
     /\ pc' = "glyphs"
     /\ UNCHANGED <<memory, file, data, MemoryMap, i, copied, entry_point, map, events>>
  \/ NoRoom("font", FontSize)

ReadGlyphs ==
  /\ pc = "glyphs"
  /\ memory' = Stored(glyphs, GlyphsRead, "font")
  /\ pc' = "copy"
  /\ UNCHANGED <<owner, file, pointers, i, copied, entry_point, map, events>>

(***************************************************************************)
(* The headers as the loop finds them in memory.                           *)
(***************************************************************************)
HeaderIntact == memory[data] = Of("file", 0)
ProgramIntact(n) == memory[data + n] = Of("file", n)

program == file.programs[i + 1]
source == data + program.offset

(***************************************************************************)
(* A turn of the loop.  A segment larger in the file than in memory halts; *)
(* headers that are no longer there, or a copy from or to outside memory,  *)
(* can do anything.                                                        *)
(***************************************************************************)
CopySegment ==
  /\ pc = "copy"
  /\ HeaderIntact
  /\ i < Len(file.programs)
  /\ ProgramIntact(i + 1)
  /\ \/ ~program.load /\ i' = i + 1 /\ UNCHANGED pc
     \/ /\ program.load
        /\ pc' = IF program.memsize < program.filesize THEN "halted"
                 ELSE IF Range(source, program.filesize)
                         \cup Range(program.address, program.filesize) \subseteq Addresses
                 THEN "memcpy" ELSE "wild"
        /\ UNCHANGED i
  /\ copied' = 0
  /\ UNCHANGED <<memory, owner, file, pointers, entry_point, map, events>>

(***************************************************************************)
(* memcpy (src/memory.c:8-13): one cell after the other, upwards, also     *)
(* where the ranges overlap.  Mutants: the last cell is not copied; the    *)
(* arguments are swapped.                                                  *)
(***************************************************************************)
MoreShort == copied + 1 < program.filesize
More == copied < program.filesize
CopyCellSwapped == memory' = [memory EXCEPT ![source + copied] = memory[program.address + copied]]
CopyCell == memory' = [memory EXCEPT ![program.address + copied] = memory[source + copied]]

memcpy ==
  /\ pc = "memcpy"
  /\ \/ More /\ CopyCell /\ copied' = copied + 1 /\ UNCHANGED <<pc, i>>
     \/ ~More /\ pc' = "copy" /\ i' = i + 1 /\ UNCHANGED <<memory, copied>>
  /\ UNCHANGED <<owner, file, pointers, entry_point, map, events>>

HeadersGone ==
  /\ pc \in {"copy", "entry"}
  /\ \/ ~HeaderIntact
     \/ pc = "copy" /\ i < Len(file.programs) /\ ~ProgramIntact(i + 1)
  /\ pc' = "wild"
  /\ UNCHANGED <<memory, owner, file, pointers, i, copied, entry_point, map, events>>

SegmentsDone ==
  /\ pc = "copy"
  /\ HeaderIntact
  /\ i = Len(file.programs)
  /\ pc' = "entry"
  /\ UNCHANGED <<memory, owner, file, pointers, i, copied, entry_point, map, events>>

(***************************************************************************)
(* header->entry_point is read after the copies (line 599).                *)
(***************************************************************************)
ReadEntryPoint ==
  /\ pc = "entry"
  /\ HeaderIntact
  /\ entry_point' = file.entry
  /\ pc' = "map"
  /\ UNCHANGED <<memory, owner, file, pointers, i, copied, map, events>>

(***************************************************************************)
(* EfiExitBootServices: the buffer, the map in it, and the call that is    *)
(* refused when the map is stale; then the jump.                           *)
(***************************************************************************)
AllocateMemoryMap ==
  \/ /\ pc = "map"
     /\ MemoryMap' \in Places(MapSize)
     /\ owner' = Taken(MemoryMap', MapSize, LoaderData)
     /\ pc' = "get"
     /\ UNCHANGED <<memory, file, data, glyphs, i, copied, entry_point, map, events>>
  \/ NoRoom("map", MapSize)

GetMemoryMap ==
  /\ pc = "get"
  /\ memory' = Stored(MemoryMap, MapSize, "map")
  /\ described' = owner
  /\ stale' = FALSE
  /\ pc' = "exit"
  /\ UNCHANGED <<owner, file, pointers, i, copied, entry_point, events>>

EnterKernel ==
  /\ pc = "exit"
  /\ pc' = IF stale THEN "halted" ELSE "kernel"
  /\ UNCHANGED <<memory, owner, file, pointers, i, copied, entry_point, map, events>>

(***************************************************************************)
(* While boot services run the firmware allocates a cell and writes to it, *)
(* or frees one of its own.                                                *)
(***************************************************************************)
FirmwareEvent ==
  /\ pc \notin {"kernel", "wild"}
  /\ events < MaxEvents
  /\ events' = events + 1
  /\ stale' = TRUE
  /\ UNCHANGED <<pc, file, pointers, i, copied, entry_point, described>>

FirmwareAllocates ==
  /\ FirmwareEvent
  /\ \E a \in Places(1) :
       /\ owner' = Taken(a, 1, "firmware")
       /\ memory' = [memory EXCEPT ![a] = Of("firmware", 0)]

FirmwareFrees ==
  /\ FirmwareEvent
  /\ \E a \in Addresses :
       owner[a] = "firmware" /\ owner' = Taken(a, 1, "nobody")
  /\ UNCHANGED memory

Next ==
  \/ AllocateBuffer
  \/ ReadFile
  \/ AllocateGlyphs
  \/ ReadGlyphs
  \/ CopySegment
  \/ memcpy
  \/ HeadersGone
  \/ SegmentsDone
  \/ ReadEntryPoint
  \/ AllocateMemoryMap
  \/ GetMemoryMap
  \/ EnterKernel
  \/ FirmwareAllocates
  \/ FirmwareFrees

Spec == Init /\ [][Next]_vars
-----------------------------------------------------------------------------
(***************************************************************************)
(* The kernel the linker script and the loader agree on: its headers and   *)
(* its segments lie inside the part of the file that is read, its segments *)
(* inside memory.                                                          *)
(***************************************************************************)
Segments == {n \in 1..Len(file.programs) : file.programs[n].load}
Source(n) == Range(file.programs[n].offset, file.programs[n].filesize)
Destination(n) == Range(file.programs[n].address, file.programs[n].filesize)

WellFormed ==
  /\ Len(file.programs) < Delivered
  /\ \A n \in Segments :
       /\ Source(n) \subseteq 0..(Delivered - 1)
       /\ Destination(n) \subseteq Addresses

(***************************************************************************)
(* Its segments go where the firmware allocates nothing.                   *)
(***************************************************************************)
OutOfTheWay == \A n \in Segments : Destination(n) \cap PoolRegion = {}

(***************************************************************************)
(* Cells that a segment is placed over, and the file buffer none is.       *)
(***************************************************************************)
Covering(a) == {n \in Segments : a \in Destination(n)}
Covered(a) == Covering(a) # {}
BufferClear == \A a \in Range(data, BufferSize) : ~Covered(a)

(***************************************************************************)
(* Cell a of a segment comes from cell Offset of the file; the last        *)
(* segment that covers it wins.                                            *)
(***************************************************************************)
Winner(a) == CHOOSE n \in Covering(a) : \A m \in Covering(a) : m <= n
Offset(n, a) == a - file.programs[n].address + file.programs[n].offset

Loaded(a) == memory[a] = Of("file", Offset(Winner(a), a))

(***************************************************************************)
(* Nothing reserves the destination of a segment: the firmware, or the     *)
(* memory map, can come there after the copy.                              *)
(***************************************************************************)
TakenAfterwards(a) == a \in PoolRegion /\ memory[a][1] \in {"firmware", "map"}

(***************************************************************************)
(* Whatever the file is, the kernel is entered at its entry point with its *)
(* memory map, with its font but for what a segment is placed over, and,   *)
(* when no segment was placed over the file buffer, with every byte of     *)
(* every segment that Read delivered in place; only memory that the        *)
(* firmware manages can have been taken from a segment after its copy.     *)
(***************************************************************************)
KernelInPlace ==
  pc = "kernel" =>
    /\ entry_point = file.entry
    /\ \A a \in Range(MemoryMap, MapSize) : memory[a] = Of("map", a - MemoryMap)
    /\ \A a \in Range(glyphs, FontSize) : memory[a] = Of("font", a - glyphs) \/ Covered(a)
    /\ BufferClear =>
         \A a \in Addresses :
           Covered(a) /\ Offset(Winner(a), a) < Delivered => Loaded(a) \/ TakenAfterwards(a)

(***************************************************************************)
(* The loop, the copies and the entry point go astray only when a segment  *)
(* was placed over the headers in the file buffer, or the file is not well *)
(* formed; never because of the font, the map or the firmware, and never   *)
(* because of a segment placed anywhere else.                              *)
(***************************************************************************)
HeadersStay ==
  pc = "wild" /\ WellFormed => \E k \in 0..Len(file.programs) : Covered(data + k)

(***************************************************************************)
(* Whatever the file is, what the firmware holds is changed by nothing but *)
(* the copy of a segment that the file places there: no buffer of the      *)
(* loader is filled beyond its end, and none is used after the firmware    *)
(* has it.                                                                 *)
(***************************************************************************)
FirmwareUntouched ==
  [][\A a \in Addresses :
       owner[a] = "firmware" /\ memory'[a] # memory[a] =>
         pc = "memcpy" /\ a \in Destination(i + 1)]_vars

(***************************************************************************)
(* The map that the kernel gets describes memory as it is when the kernel  *)
(* starts, and as the kernel's what it gets with it: neither its font nor  *)
(* the map itself is memory that the map says is free, or that was lent by *)
(* the boot services.                                                      *)
(***************************************************************************)
MapKeepsKernelData ==
  pc = "kernel" =>
    /\ described = owner
    /\ \A a \in Range(glyphs, FontSize) \cup Range(MemoryMap, MapSize) :
         described[a] = "loader"

(***************************************************************************)
(* "Allocate `size` virtual memory at `address`" (efi_main.c:575): what is *)
(* loaded is allocated, so that nothing else comes there.                  *)
(***************************************************************************)
LoadedStays ==
  pc = "kernel" /\ WellFormed => \A a \in Addresses : Covered(a) => Loaded(a)

(***************************************************************************)
(* "If the file_size and memory_size members differ, the segment is padded *)
(* with zeros" (efi_main.c:577-578): behind the bytes from the file the    *)
(* cells of the segment do not keep what was there before.                 *)
(***************************************************************************)
PaddedWithZeros ==
  pc = "kernel" /\ WellFormed /\ OutOfTheWay =>
    \A n \in Segments :
      \A a \in Range(file.programs[n].address, file.programs[n].memsize) \cap Addresses :
        memory[a] # Of("old", 0)
=============================================================================
