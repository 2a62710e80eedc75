# Formal models of c99-os

c99-os is a UEFI bootloader (`src/efi_main.c`) that loads a kernel from the disk,
leaves the firmware and jumps into it, and a small kernel (`src/kernel.c`) that
writes text on the frame buffer.  This directory holds TLA+ models of both, the
TLC configurations that check them on small instances, and TLAPS proofs of what
matters most for every instance.

Paths below are the repository's: `src/efi_main.c` is the loader's source.

## 1. Inventory

| Part | Code | State it keeps | Operations |
|---|---|---|---|
| Firmware (external) | `src/efi_main.h` (interface) | whether boot services run; the memory map and its key; who owns memory | GetMemoryMap, ExitBootServices, AllocatePool, HandleProtocol, OpenVolume, Open, Read, ConIn/ConOut |
| Bootloader control | `src/efi_main.c:43-50, 180-333, 435-691` | globals `Graphics`, `EFI`, `LoadedImage`, `DevicePath`, `Volume`; the locals of each function on the way | efi_main, EfiInit, EfiInitGraphics, EfiInitializeFileSystem, EfiOpenFile, EfiReadFile, EfiLoadKernel, EfiLoadFont, EfiLoadElf, EfiExitBootServices, EfiAssert, EfiHalt, the menu |
| Font | `src/efi_main.c:523-554`, `src/kernel.c:177-190` | the header and the glyphs, shared by pointer | EfiLoadFont, print_char |
| Loading of segments | `src/efi_main.c:523-612`, `src/memory.c`, `src/elf.h` | memory, the file buffer, the program headers in it | the copy loop, memcpy |
| Kernel console | `src/kernel.c`, `src/bootloader.h` | `row`, `col` of print, the frame buffer | start, fill, print, print_char, newline, draw, debug_halt |
| Memory map listing | `src/efi_main.c:22-40, 411-470` | a sum over the descriptors; a key | EfiPrintMemoryMap, EfiMemoryMap (called by nothing yet) |
| Number formatting | `src/format.c` | an array and two indices | ToHexString, ToHexStringTruncated, U64ToString |
| EfiPrintF | `src/efi_main.c:60-178` | position in the format, the argument list | the format interpreter |
| Hosted ELF loader | `src/elf.c`, `bin/elf.c` | the process's mappings | load_elf64, main |
| Error names | `src/efi_error.h` | none | EfiErrorString |
| Build, deployment, notes | `Makefile`, `deploy.sh`, `user.lds`, `bin/CMakeLists.txt`, `help.md` | - | - |

**How they interact.**  The firmware calls `efi_main`; from there every step is a
call of the loader into the firmware, each of which may fail.  While boot
services run, the firmware's timer callbacks run underneath the loader and
share two things with it: the memory map (its size and its key), and memory.
ExitBootServices ends that.  The loader then calls the kernel as a function,
passing the memory map, the frame buffer and the font (`src/bootloader.h`).  If
the kernel returns, control is back in `efi_main`, which halts; a developer with
a debugger may release any halt ("Change to 0 in debugger to continue"), and
the loader then goes on from there.

**What is hard.**  The four-call exit protocol races the firmware: the map may
change between the call that asks for its size, the allocation of the buffer
(which itself changes the map), the call that reads it and the call that
quotes its key.  Every call can fail, and a halt is not always final.  Segments
are copied to addresses nothing reserves, while the headers that direct the
copy stay in a buffer that may lie in the way.  The console writes through a
pointer without a bound, scrolls by copying memory upwards in place, and counts
pixels in two ways (`width` and `pixels_per_scanline`).  The hazards are listed,
each at its line and with the properties that cover it, in `PROJECT.json`.

**What makes each part correct.**
- Loader: the kernel is entered only after boot services are gone, with the
  map the firmware froze, a file that was read whole, segments that fit, and a
  good font; no call goes through NULL or to a service that has ended; only the
  firmware or a lack of memory can make the exit fail; the loader always gets
  into the kernel or to a halt.
- Loading: when the kernel is entered every byte of every segment is in place,
  and nothing the firmware holds has been overwritten, except where the file
  itself has put a segment, or something came there after the copy.
- Console: the cursor leaves room for a character, drawing stays on the
  screen, and the pixels are those of a scrolling terminal.
- Font: what `print_char` reads through its pointer is the glyph's row in the
  file, inside what the loader allocated.
- Memory map listing: one entry for each descriptor with its name and size, and a
  total that is their sum.
- Number formatting: each conversion gives the digits of its argument in the
  right order, terminated, inside its array.
- EfiPrintF: every conversion reads its own argument and prints its value; the
  interpreter never runs behind the terminator of its format; the screen of a
  halt tells which assert failed and with which status.
- Hosted loader: what is entered is in place and padded with zeros; the
  process's own memory and unmapped pages are reached only by what a segment has
  in the file beyond its size in memory.

## 2. Modules

The order below is the order in which they were planned and written: first the
loader, whose mistakes nobody sees, then what it loads, then the two ways in
which the system talks to a person.

| Module | Models | Built on |
|---|---|---|
| `Firmware` | the boot services the loader relies on (external) | - |
| `Boot` | `efi_main` with everything it calls, one location per UEFI call | `Firmware` |
| `Handoff` | what the bootloader promises: the machine passes to the kernel in one step | - |
| `BootProofs` | theorems about `Boot`, and `Boot` implements `Handoff` | `Boot` |
| `ElfLoad` | the file buffer, the font, the segments and the memory they are copied to | - |
| `Console` | the kernel: fill, print, newline, draw, on a memory of pixels | - |
| `Terminal` | what a screen of text does, without pixels | - |
| `ConsoleProofs` | theorems about `Console` | `Console` |
| `Format` | numerals, defined arithmetically | - |
| `FormatProofs` | induction, powers, numerals: the lemmas of everything that counts | `Format` |
| `IntString`, `HexString` | the loops of `U64ToString`, `ToHexString`, `ToHexStringTruncated` | `Format` |
| `NumberProofs` | theorems about them | `IntString`, `HexString`, `FormatProofs` |
| `Printf` | `EfiPrintF`, one turn of its loop at a time | `Format` |
| `Status` | the texts of the statuses | - |
| `Assert` | `EfiAssert`: a status, through `EfiPrintF`, to a halt | `Printf`, `Status` |
| `MemoryMap` | `EfiMemoryMap`, and `EfiPrintMemoryMap` on top of `EfiPrintF` | `Assert`, `Firmware` |
| `PrintfProofs` | theorems about `EfiPrintF` and its callers | `MemoryMap`, `FormatProofs` |
| `Font` | `EfiLoadFont` byte by byte, and what `print_char` reads of it | - |
| `MmapLoad` | `load_elf64` over `mmap`, and the `main` in front of it | - |
| `FontProofs`, `ElfLoadProofs`, `MmapLoadProofs` | theorems about each of these | `Font`, `ElfLoad`, `MmapLoad` |
| `MC*` | the constants of the runs | the module they are named after |

Two abstract specifications are implemented by detailed ones: `Handoff` by `Boot`
(property `HandsOver`) and `Terminal` by `Console` (property `ShowsText`).
`Printf` takes the digits of a number from `Format`; the run `numbers`, which
composes `IntString` and `HexString`, checks that the loops give numerals, and
`NumberProofs` proves that these are the ones `Format` defines.  `MemoryMap` composes the listing, `EfiAssert`, `EfiPrintF` and the
firmware: each line of the listing is a call of `EfiPrintF`, turn by turn.

### How state and actions correspond to the code

**Boot.**  `pc` is the UEFI call the loader is about to make, or a decision
between calls; the actions carry the names of the functions they stand for, and
a function of several calls is a disjunction of one action per call
(`EfiReadFile == NoFileHandle \/ AllocateFile \/ ReadFile`).  `held` is the set
of pointers that are not NULL.  A call outside an active boot service, or
through a pointer that is not held, goes to `"Wild"`, from which nothing is
promised.  `EfiAssert` is part of every call: a failure goes to `"Failed"`, the
spinning `EfiHalt`, and `DebuggerContinues` (a developer) may take it to where
the loader would go on.  `MemoryMapSize` and `MapKey` are the locals of
`EfiExitBootServices`, against `entries` and `key` of the firmware.  `forced` and
`disturbed` are history variables, which the guards never look at.  The menu is
`MenuKey`; "s" loads once more and "r" and "q" leave.

**ElfLoad.**  Memory is a row of cells, each with what it holds (the n-th cell of
the file, of the font, of the memory map, or something old) and who owns it.
AllocatePool takes any free range of the pool region, so that every placement is
considered.  The program headers are read from the buffer again in each turn, as
the code does: a cell of the buffer that no longer holds its header leads to
`"wild"`.  The allocation of the glyphs and the Read that fills them are two actions of
`EfiLoadFont`.  `memcpy` is the loop of `src/memory.c`, one cell a step, so that the
firmware may come in between and an overlap is what the ascending order makes of
it.  `described` is what the memory map in the buffer tells (who owns each cell
when GetMemoryMap was called) and `stale` whether memory has changed hands
since, in which case ExitBootServices refuses.

**Font.**  The position in the file, the header and the buffer are those of
`EfiLoadFont`; each byte of the glyphs remembers which byte of the file it is, or
that it is junk.  A short Read delivers what there is.  `print_char` is one
action per row, with `glyph` as the pointer it increments.

**Console.**  `base` is memory from `Graphics.base` on and goes on behind the
frame buffer as far as the code can reach.  A turn of the loop of `print` is one
action, the drawing and the scrolling in it included; the loops inside `newline`
and `print_char` are functions on memory, whose ascending order is what makes
the in-place copy a shift.

**IntString, HexString.**  One action per turn of a loop (the variables of
`HexString` have names of their own, so that both can run in one instance).  `data` is the array;
`IntString` has one more place behind it, the neighbour in memory.

**Printf, Status, Assert.**  One action per turn of the `while` loop, one for each case
of the `switch`.  `list` is the argument list, each argument a word; `arg` counts
the `va_arg`s.  The text an argument points to is its address.  The texts of
`Status` stand in the table with an underscore for each blank; which texts are
the same is all that matters of them.  A status is its top bit and a code; what is
asserted may be any, `EFI_ERROR` alone included (efi_main.c:587), and what the table
does not have is shown as "ERROR".  `caller` says whether `EfiPrintF` was called by `EfiAssert` or by other code.

**MemoryMap.**  A map is a row of cells, `DescriptorSize` from one descriptor to
the next; `Entry` is a turn of the loop up to its call of `EfiPrintF`, and the
next turn waits until that has returned.  `EfiMemoryMap` is four locations, with
the firmware's events between them.

**MmapLoad.**  Every call of `main` may fail; `Map` and `Copy` are a turn of the
loop of `load_elf64`.  Memory is cells in pages; the system gives the pages asked
for when they are free and no others.

## 3. Runs

| Run | Checks | Shows |
|---|---|---|
| `boot` | `TypeOK`, `HandoffSound`, `NoWildSteps`, `QuietExitSucceeds`, `IInv`, `HandsOver`, `BootResolves` | with failures of any call, firmware events between any two and a developer who steps over halts, the kernel gets what it relies on; the exit protocol is atomic; the loader always ends in a kernel or in a halt |
| `boot_elf64` | `OnlyElf64Runs` (violated) | a file with an invalid class byte is entered |
| `boot_continue` | `ContinueIsSafe` (violated) | going on behind a kernel that returned calls services that are gone |
| `elf_load` | `TypeOK`, `KernelInPlace`, `HeadersStay`, `FirmwareUntouched`, `MapKeepsKernelData` | for every kernel file of the instance, under every placement of buffers: what is in place when the kernel is entered, what can lead the loop astray, and what can write to the firmware's memory; the map the kernel gets is up to date and keeps its font and itself |
| `elf_load_stays` | `LoadedStays` (violated) | nothing reserves the destination of a segment |
| `elf_load_zeros` | `PaddedWithZeros` (violated) | nothing zeroes the rest of a segment |
| `console` | `TypeOK`, `CursorInside`, `DrawInside`, `ShowsText` | the pixels are a scrolling terminal's |
| `font` | `TypeOK`, `ReadsInside`, `ShowsFont` | for font files that end anywhere, every mode and height, and every value of a `char` |
| `numbers` | `TypeOK`, `Converts`, `StaysInside`, `HexConverts` | the numerals, and the one case in which an array is left |
| `printf` | `TypeOK`, `OwnArguments`, `OverrunExplained`, `SaysItsArgument`, `Returns`; `ReportTells`; `MapTypeOK`, `ListsMap`, `TotalAddsUp`, `WildExplained` | `EfiPrintF` with formats, broken ones included; the report of every status, those outside the table included; the listing of memory maps |
| `mmap_load` | `TypeOK`, `Loaded`, `ProcessUntouched`, `NoFault` | segments at every place, aligned and not, overlapping and not, larger in the file than in memory and not |
| `mmap_hint` | `HintFree` (violated) | two segments on one page stop the program |

### Bounds, and why they are enough

- `boot`: `MaxEvents = 1` map change by the firmware and `MaxReleases = 3` halts
  stepped over.  One change suffices for a stale key; three releases reach the
  second load, a kernel that has returned and a failure stepped over, in one
  behaviour.  The kernels are one of each format and class, with no, one and two
  program headers, and a segment that does not fit.  The safety properties are
  proved for every value of these constants.
- `elf_load`: twelve cells, a buffer of four, two allocations or frees of the
  firmware's and twelve shapes of kernel (overlapping segments, a segment copied
  from where another one ends, bss, headers loaded too, too large, empty, longer
  than the buffer, in the firmware's way, partly in it, partly behind the end of
  the file, past the end of memory).  Each way one range can lie
  against another has room.
- `console`: three lines of two characters, with a line and a column to spare and
  a font scaled by 2; eight characters fill the screen and scroll it more than
  once.  `Height` is a multiple of the row step, so that the last line decides
  the `>=` of `newline` with equality.
- `font`: eight glyphs for the 256 (sixteen in mode 1), heights from none to one
  more than the four rows `print_char` draws, characters from -4 to 3 for the
  -128 to 127 of a `char`, files that end in the header, in a glyph or behind
  all.  As in the program, a character and the rows drawn of it stay below the
  number of glyphs (127 + 16 <= 256): `FontAssumption`.
- `numbers`: every number of up to four digits in base 3, in an array of four
  places: the longest ones overrun the array as 20 digits do `data[20]`; every
  number of three bytes of two binary digits.
- `printf`: words of 7 bits with ints of 5, and three places for digits, so that
  the largest words have as many digits as there are places, as with 64 bits and
  20; five argument values at the edges (0, 15 and 16 = the largest and smallest
  int, 99 and 127 = two digits and three); formats of up to three parts, each
  an ordinary character, a conversion, or a broken one; every status of the table,
  and with and without the top bit a code of 0 and one behind the table.  Maps of
  up to three descriptors, two or three cells apart, with types at both ends of
  the table and one outside it, and pages of 8 bytes in kilobytes of 2, so that
  sizes and totals wrap around and totals overrun the three places.
- `mmap_load`: five pages of two cells, the last one the process's, segments of
  six sizes at every address and pairs of segments at every two addresses, a
  non-loadable header between them, and segments that spill over their size in
  memory, into pages of the process's and into unmapped ones.

CHECK_DEADLOCK is off where the program really stops: the kernel runs on, the
loader has halted or switched the machine off, a function has returned.

### Fairness

Two runs need any.  `boot`: `FairSpec` has `WF_vars(Program)`, where `Program` is
what the processor does by itself: the loader's own steps.  It keeps executing
them, since every UEFI call returns (with a success or a failure).  Nothing is
assumed of the developer, of the keyboard, of the firmware's events or of
the kernel; resting at the menu, in a halt or in the kernel is a legal end.
`printf`: `MapSpec` has `Turns`, weak fairness of the turns of `EfiPrintF`'s own
loop, in which nothing waits for anything; nothing is assumed of its callers.

### Conditions the properties carry

- `ShowsText` needs scan lines without padding and black memory behind the frame
  buffer.  `newline` counts rows in `width` where `draw` counts in
  `pixels_per_scanline` (kernel.c:171, 233), and the loop that should blacken
  the freed line (kernel.c:242) runs behind the visible screen.
- `DrawInside` needs a font of at least the 16 rows of 8 dots that `print_char`
  hard-codes.
- `KernelInPlace`, `HeadersStay` and `FirmwareUntouched` are about kernels linked
  anywhere, and name what a file can do to the loader.  The kernel's font is its
  own but for cells a segment is placed over.  What `KernelInPlace` says of the
  segments needs a file buffer that no segment is placed over (`BufferClear`),
  and allows what came to a place of the firmware's after the copy
  (`TakenAfterwards`, which `elf_load_stays` shows to happen); of bytes that Read
  did not deliver it says nothing.  `HeadersStay` is about files whose headers
  and segments lie inside the part that is read and inside memory
  (`WellFormed`); nothing in the code checks that, and what a file does that is
  not like that is `"wild"`.  `FirmwareUntouched` excepts the copy of a segment
  that the file places on memory of the firmware's.
- `Loaded`, `ProcessUntouched` and `NoFault` are about every file: elf.c:57 copies
  `file_size` bytes into a mapping of `memory_size`, and `Spill` is what a segment
  has beyond that.  Cells spilled over are excepted, and so is a file that could
  not be read (`source`).
- `PaddedWithZeros` and `LoadedStays`, which are violated, are about well-formed
  files only.
- `OwnArguments` says nothing of what follows a %o, which takes no argument: what
  is behind one does read the argument meant for it.
- `ReportTells` tells a status of the table from every other, the two that share a
  text aside.  Statuses outside the table all have the text "ERROR"; none of
  them is shown as one of the table.
- `ReadsInside` and `ShowsFont` name their exceptions: a negative character (a
  `char` is signed) and a font of height 0, for which nothing is allocated.  A
  font with fewer rows than the 16 of `print_char` shows the first rows of the
  next glyph under each character, one with more loses its lower rows; a mode
  other than 1 reads 256 glyphs, which is enough for a `char`.
- `ListsMap` needs the size of a descriptor in bytes to fit into 64 bits.  A map
  with an odd number of descriptors leaves the total on the line of the last
  one, a matter of layout that the model leaves out.
- `MapKeepsKernelData` says nothing of the kernel itself: the map does not know
  of it (`elf_load_stays`).
- `HandoffSound` and `NoWildSteps` hold as long as no failure was stepped over.

### Where the code and its comments disagree

The five runs with a violation, each with the line it quotes, are in
`PROJECT.json` under "findings".  Four more observations are part of the models
without a run of their own: `i = -i` in `%d` overflows for the smallest int
(efi_main.c:123; the model takes both outcomes); `%x` prints 32 bits of an
address (line 144); `%o` takes no argument, though the code that would is there
as a comment (lines 129-133), so that a conversion behind it prints the argument
before its own; `EFI_HTTP_ERROR` has the text of
`EFI_END_OF_FILE` (efi_error.h:187), the exception in `ReportTells`.  An unknown
conversion returns without `va_end` (lines 160, 166; `open` in `Printf`), which
has no effect with the build's calling convention.

## 4. Proofs

Every theorem holds for every value of the constants that the module's
assumptions allow; tlapm checks them all to the last leaf.

| Theorem | Says | Argument |
|---|---|---|
| `BootProofs!Inductive`, `TypeCorrect` | `IInv` always holds, and with it the types | below |
| `BootProofs!HandoffIsSound` | what the kernel relies on | from `IInv` |
| `BootProofs!NoWildCalls` | no call into the void | from `IInv` |
| `BootProofs!QuietExit` | two spare descriptors suffice for a map of any size | from `IInv` |
| `BootProofs!Refinement` | `Boot` implements `Handoff` | step by step, with `IInv` |
| `ElfLoadProofs!ElfLoadTypes`, `MapIsKept`, `HeadersKept`, `KernelIsInPlace` | the types; the map the kernel gets; only a segment placed over the headers leads the loop astray; what is in place when the kernel is entered | below |
| `ElfLoadProofs!FirmwareIsUntouched` | nothing writes what the firmware owns but the copy of a segment the file places there | step by step, with the invariant |
| `FontProofs!FontTypes`, `FontReadsInside`, `FontShowsFont` | the types; what `print_char` reads is inside the buffer, and is the glyph's row | below |
| `ConsoleProofs!ConsoleTypes`, `CursorStaysInside` | the types, and room for a character at the cursor, on every screen | inductive together |
| `ConsoleProofs!DrawStaysInside` | drawing stays on the visible screen | from the cursor |
| `ConsoleProofs!ImplementsTerminal` | `Console` implements `Terminal`, on a screen and with a font that are `Legible` | below |
| `ConsoleProofs!OverrunBounded` | scrolling reaches at most two lines too far | arithmetic |
| `NumberProofs!NumberTypes`, `Correct`, `Inside` | the types; `U64ToString` returns the numeral, and when it leaves its array | below |
| `NumberProofs!NumeralComputed` | what it returns is `Format`'s `Numeral`, which `Printf` puts in the place of the call | a number has one length |
| `NumberProofs!HexCorrect`, `HexComputed` | both hexadecimal forms, and that they are `Format`'s | below |
| `PrintfProofs!PrintfTypes`, `OwnArgumentsTaken`, `OverrunOnlySo` | the types; each conversion up to a %o takes its own argument; when the array of digits is overrun | below |
| `PrintfProofs!NumbersPrinted` | what is printed, read back, is the argument | reading a numeral back gives the number |
| `PrintfProofs!TurnsAdvance` | each turn of the loop moves towards the terminator | from the types |
| `PrintfProofs!HaltTells` | the screen of a halt tells where and why, whatever the status | below |
| `PrintfProofs!MapTypes`, `WildOnlySo`, `MapIsListed`, `TotalIsSum` | the types; when the listing reads out of bounds; its entries; its total | below |

**Boot.**  `HandoffSound` is not inductive: at the jump the key and the size are
right because they were right after the calls before it.  `IInv` adds what
every location has established.  `ControlInv` ties `pc` to whether services run
and to where a halt may resume; `PointersInv` says which pointers are held at
which location; `FilesInv` says that the buffer holds the file, the font is good
and the first `seg` segments fit, once control is past the calls that make it so;
`MapInv` compares `MapKey` and `MemoryMapSize` with the firmware's, step by step
through `EfiExitBootServices`, with the two descriptors to spare after
`AllocatePool` unless `disturbed`.  Each conjunct but the types has the exemption
`forced`.

**ElfLoad.**  `OwnersInv` says which ranges of the pool the loader owns at each
location, that two of them do not meet, and that a map that is not stale tells
who owns what; all of it is about every file.
`BuffersInv` adds that the buffers hold what was read into them for as long as
they are used, but for cells a segment is placed over, and that the loader is
astray only for such a cell among the headers (`HeadersStay`).  `PlacedInv` says
that, when no segment is placed over the file buffer, each delivered cell of a
segment copied so far holds what the *last* segment so far that covers it has
there, the cells `memcpy` has written of the next one aside, unless it was taken
afterwards.  Segments may overlap, so "the last one" is what makes the invariant
inductive: a later segment may rewrite an earlier one.

**Font.**  `HeaderInv` follows the header and the position in the file through
the reads, short ones included; `GlyphsInv` says what is in the buffer;
`DrawInv` ties the pointer of `print_char` to its loop variable.  That the rows
drawn of any character stay inside is then arithmetic on `FontAssumption`.

**Console.**  `ImplementsTerminal` has a hypothesis about the screen and the
font, `Legible`: the first condition of `ShowsText` above, glyphs that fit and a
blank one; the instance of the run `console` satisfies it.  Two characters may
look alike; each stands for the one that is read back.  `TextInv` says that the
cursor is at a cell of the grid and that every pixel behind it is black, the
pixels below the last line and behind the frame buffer included, since scrolling
brings those in.  A pixel belongs to one cell (`OnePlace`), so `print_char`
changes the cell at the cursor only (`DrawCells`); `Scroll` moves each cell up by
a line (`ScrollCells`) and leaves the last one clear (`ScrollClear`).

**IntString.**  `n` is the argument without its last `i` digits and `data` has
those, last first (`Dividing`); the loop stops at the shortest numeral
(`Shortest`); during the reversal the places outside `i..j` are in their final
order and those inside still mirrored (`Reversing`), with `i + j + 1` the length.

**HexString.**  `Skipped` bytes were zero and are left out; the bytes from there
to `i` are written in pairs behind "0x", and everything behind them is still NUL,
which is the terminator.

**Printf.**  `LoopInv`: the list has at least as many arguments as the format has
conversions (`Enough`) and as many are taken as there are conversions other than %o
before the position (`ArgumentsTaken`), so that none is taken from behind the list;
without a %o that is `OwnArguments`.  A conversion moves the position by two or
three, over characters none of which starts a conversion; the numbers of
conversions are cardinalities, split by `FS_Union`.

**Assert.**  `ReportInv` fixes the format and the list of a report and says, for
each place of the format, what has been printed by then; a format of ten
characters has ten places.  That a text belongs to one status, and "ERROR" to none
of the table, is read off `Status`' tables.

**MemoryMap.**  `ListingInv` has a case for each place of the listing: between
two calls, inside the call for the entry of descriptor `done`, inside the call
for the total, and behind it.  Each says which numerals and texts have been
printed, entry by entry.  `SumInv` says that `TotalRam` is the prefix sum of
the sizes printed, modulo the word.  `CallerInv` keeps the two callers of
`EfiPrintF` apart: the listing never runs during a report.

**MmapLoad.**  `PagesInv`: the pages mapped so far were free, hold every segment
loaded so far, and those of the segment being loaded hold no cell of an earlier
one, because the system gives only pages that are free.  `MemoryInv` says what
is in them: the process in its own but for what was spilled, each loaded segment in
place but for the same, zeros where the next one goes.

**Numbers.**  `FormatProofs` proves that `Power`, a recursive function, exists
and obeys the equations of powers, that each number has exactly one length in a
base, and that reading a numeral back gives the number.  The library's induction
theorems take an operator as a parameter and cannot be used; induction over the
numbers is proved instead in the form of sets (`Least`, from the
well-foundedness of `<`; `SetInduction`), and from it that a function may be
defined by recursion (`Recursion`).  `Printf`, `Assert` and `MemoryMap` use the
same lemmas for the number a reader makes of digits, for the pieces of one kind
in what is printed (`Selected`), and for sums.

**Assumptions.**  Each module states what it assumes of its constants
(`BootAssumption`, `ConsoleAssumption`, `IntStringAssumption`, ...), and TLC
evaluates it on the instance of every run.  They say no more than the program's
own numbers do: `ConsoleAssumption` wants a screen larger than one character
and scan lines at least as wide as the screen; `PrintfAssumption` wants formats
with as many arguments as conversions, and the widths of `int`, of `usize` and of
the array in the relation that 32, 64 and 20 have; `FontAssumption` that 127 + 16
is at most 256.

**Only model-checked.**  `BootResolves` and `Returns`: liveness, which the
provers do not reach.  For `Returns` the measure is proved (`TurnsAdvance`).

## 5. Not modelled

- `memset`: no source calls it; the compiler makes initialisers of it.
- The value `start` returns (`LETTERS[value][2]`, kernel.c:333): an index taken
  from a truncated pointer; the loader ignores the value.
- `bin/format.c`: calls interfaces that no longer exist.
- The wording of texts and the colours.
- Functions that nothing calls and that hand their arguments to one service
  each: `EfiDelay`, the cursor functions, `EfiKeyboardWait`, `EfiScreenBlit`,
  `EfiScreenBlitFramebuffer`, `EfiHardwareReboot`, `EfiCurrentTime`, `EfiLoadTest`.
- Build files, notes, declarations.

## 6. Plan

The models cover the parts of the system that keep state, and every property
that a run checks and that is not liveness is proved.  What is left:

1. A measure that every step of the loader makes smaller, as there is one for
   the turns of `EfiPrintF`, so that of `BootResolves` only the fairness argument
   itself stays with TLC.
2. A terminal that `Console` implements without `Legible`: what a screen with
   padding shows when `newline` counts in `width` and `draw` in
   `pixels_per_scanline`.
3. `ElfLoad` and `Boot` model the copying of the same segments; prove that a
   step of `ElfLoad` from one segment to the next is a `CopySegment` of `Boot`.
