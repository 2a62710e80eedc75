-------------------------------- MODULE Boot --------------------------------
(***************************************************************************)
(* The bootloader, src/efi_main.c: efi_main from EfiInit to the jump into  *)
(* the kernel, and the menu behind it.  One location per UEFI call; every  *)
(* call can fail, each failure goes through EfiAssert, and a developer     *)
(* with a debugger may step over a halt ("Change to 0 in debugger to       *)
(* continue", efi_main.c:45).                                              *)
(*                                                                         *)
(* Abstracted: texts, colours, addresses and the bytes of the files.  A    *)
(* kernel file is its format, its ELF class byte and, per program header,  *)
(* whether it is PT_LOAD and whether memory_size >= file_size.             *)
(***************************************************************************)
EXTENDS Firmware, Sequences

CONSTANTS
  Kernels,    \* kernel files that may be on the disk
  Fonts,      \* font files that may be on the disk, a subset of {"good", "bad"}
  MaxReleases \* bound: halts a debugger releases; 0 when there is none

Formats == {"coff", "elf", "other"}

(***************************************************************************)
(* class is header byte 4: 1 is 32 bit, 2 is 64 bit, anything else invalid.*)
(***************************************************************************)
KernelFile ==
  [format: Formats, class: Nat, programs: Seq([load: BOOLEAN, fits: BOOLEAN])]

ASSUME BootAssumption ==
  /\ Kernels \subseteq KernelFile
  /\ Kernels # {}
  /\ Fonts \subseteq {"good", "bad"}
  /\ MaxReleases \in Nat

VARIABLES
  pc,            \* the next call or decision
  resume,        \* where a halted loader goes on if a debugger releases it
  held,          \* the locals and globals that hold what they should (not NULL)
  disk,          \* the kernel file on the volume
  font,          \* the font file on the volume
  image,         \* what the buffer KernelSource.data holds
  seg,           \* program headers handled by the loop of EfiLoadElf
  MemoryMapSize, \* locals of EfiExitBootServices
  MapKey,
  loads,         \* calls of EfiLoadKernel
  released,      \* halts a debugger has released
  forced,        \* history: a debugger stepped over a failure
  disturbed      \* history: the map changed by itself since EfiExitBootServices began

files == <<disk, font>>
exiting == <<MemoryMapSize, MapKey, disturbed>>
vars == <<pc, resume, held, files, image, seg, exiting, loads, released, forced, firmware>>

Pointers == {"graphics", "loaded image", "device path", "volume", "root",
             "kernel file", "kernel data", "font file", "font header",
             "glyphs", "glyph data", "memory map"}

(***************************************************************************)
(* The pointers that outlive EfiLoadKernel.                                *)
(***************************************************************************)
Globals == {"graphics", "loaded image", "device path", "volume"}

(***************************************************************************)
(* What a location dereferences without a check.                           *)
(***************************************************************************)
Uses(loc) ==
  CASE loc \in {"DevicePath", "Volume"}   -> {"loaded image"}
    [] loc \in {"KernelRoot", "FontRoot"} -> {"volume"}
    [] loc \in {"KernelOpen", "FontOpen"} -> {"root"}
    [] OTHER -> {}

(***************************************************************************)
(* The locations that call a boot service, the console included.           *)
(***************************************************************************)
Calls == {"Graphics", "LoadedImage", "DevicePath", "Volume", "KernelRoot",
          "KernelOpen", "KernelPool", "KernelRead", "FontRoot", "FontOpen",
          "FontHeader", "FontMagic", "FontSeek", "FontPool", "FontRead",
          "MapSize", "MapPool", "MapGet", "Exit", "Menu"}

Locations == Calls \cup {"Dispatch", "ClassCheck", "Segment", "EnterKernel",
                         "Kernel", "Halt", "Failed", "Off", "Wild"}

TypeOK ==
  /\ FirmwareTypeOK
  /\ pc \in Locations
  /\ resume \in Locations \cup {"Shutdown"}
  /\ held \subseteq Pointers
  /\ disk \in Kernels
  /\ font \in Fonts
  /\ image \in Kernels
  /\ seg \in Nat
  /\ MemoryMapSize \in Nat
  /\ MapKey \in Nat
  /\ loads \in 1..2
  /\ released \in 0..MaxReleases
  /\ forced \in BOOLEAN
  /\ disturbed \in BOOLEAN

Init ==
  /\ FirmwareInit
  /\ pc = "Graphics"
  /\ resume = "Graphics"
  /\ held = {}
  /\ disk \in Kernels
  /\ font \in Fonts
  /\ image \in Kernels
  /\ seg = 0
  /\ MemoryMapSize = 0
  /\ MapKey = 0
  /\ loads = 1
  /\ released = 0
  /\ forced = FALSE
  /\ disturbed = FALSE
-----------------------------------------------------------------------------
(***************************************************************************)
(* EFI_ASSERT(status): go on, or print and halt (lines 180-188).           *)
(***************************************************************************)
EfiAssert(ok, next) ==
  IF ok
  THEN pc' = next /\ UNCHANGED resume
  ELSE pc' = "Failed" /\ resume' = next

(***************************************************************************)
(* Control is at loc and what it dereferences is there: boot services have *)
(* not been shut down and no pointer it uses is NULL.                      *)
(***************************************************************************)
At(loc) ==
  /\ pc = loc
  /\ services = "active"
  /\ Uses(loc) \subseteq held

(***************************************************************************)
(* A call that is undefined behaviour: a service that is gone, or a NULL   *)
(* pointer.  "Wild" stands for everything that can follow.                 *)
(***************************************************************************)
CallUndefined ==
  /\ pc \in Calls
  /\ ~At(pc)
  /\ pc' = "Wild"
  /\ UNCHANGED <<resume, held, files, image, seg, exiting, loads, released, forced, firmware>>

(***************************************************************************)
(* Mutant: the status of the call is not asserted.                         *)
(***************************************************************************)
AssertedUnchecked(loc, out, next) ==
  /\ At(loc)
  /\ \E ok \in BOOLEAN : held' = IF ok THEN held \cup {out} ELSE held \ {out}
  /\ EfiAssert(TRUE, next)
  /\ UNCHANGED <<files, image, seg, exiting, loads, released, forced, firmware>>

(***************************************************************************)
(* EFI_ASSERT(service(..., &out)): out stays NULL when the call fails.     *)
(***************************************************************************)
Asserted(loc, out, next) ==
  /\ At(loc)
  /\ \E ok \in BOOLEAN :
       /\ held' = IF ok THEN held \cup {out} ELSE held \ {out}
       /\ EfiAssert(ok, next)
  /\ UNCHANGED <<files, image, seg, exiting, loads, released, forced, firmware>>

(***************************************************************************)
(* EFI_ASSERT(AllocatePool(EfiLoaderData, size, &out)).                    *)
(***************************************************************************)
AssertedPool(loc, out, next) ==
  /\ At(loc)
  /\ \/ /\ PoolTaken
        /\ held' = held \cup {out}
        /\ EfiAssert(TRUE, next)
     \/ /\ held' = held \ {out}
        /\ EfiAssert(FALSE, next)
        /\ UNCHANGED firmware
  /\ UNCHANGED <<files, image, seg, exiting, loads, released, forced>>

(***************************************************************************)
(* A local decision: nothing but control changes.                          *)
(***************************************************************************)
Goto(loc, next) ==
  /\ pc = loc
  /\ pc' = next
  /\ UNCHANGED <<resume, held, files, image, seg, exiting, loads, released, forced, firmware>>

(***************************************************************************)
(* EfiLoadKernel is back in efi_main, which halts; behind the halt comes   *)
(* the menu, or the shutdown when the menu had asked for the load.         *)
(* Mutant: then, too, the menu (no EfiShutdown and return, lines 679-680). *)
(***************************************************************************)
BehindMenu == "Menu"
Behind == IF loads = 1 THEN "Menu" ELSE "Shutdown"

Returned ==
  /\ pc' = "Halt"
  /\ resume' = Behind
  /\ UNCHANGED <<held, files, image, seg, exiting, loads, forced, firmware>>

LoadReturns == Returned /\ UNCHANGED released
-----------------------------------------------------------------------------
(***************************************************************************)
(* efi_main until EfiLoadKernel: EfiInitGraphics (a missing protocol is    *)
(* only reported) and the three protocols of EfiInitializeFileSystem.      *)
(***************************************************************************)
EfiInitGraphics == Asserted("Graphics", "graphics", "LoadedImage")

EfiInitializeFileSystem ==
  \/ Asserted("LoadedImage", "loaded image", "DevicePath")
  \/ Asserted("DevicePath", "device path", "Volume")
  \/ Asserted("Volume", "volume", "KernelRoot")

(***************************************************************************)
(* EfiOpenFile for the kernel and for the font.                            *)
(***************************************************************************)
EfiOpenFile ==
  \/ Asserted("KernelRoot", "root", "KernelOpen")
  \/ Asserted("KernelOpen", "kernel file", "KernelPool")
  \/ Asserted("FontRoot", "root", "FontOpen")
  \/ Asserted("FontOpen", "font file", "FontHeader")

(***************************************************************************)
(* EfiReadFile: without a handle there is no data.  When the read fails    *)
(* the pool memory keeps whatever it held, which any file may resemble.    *)
(***************************************************************************)
NoFileHandle ==
  /\ At("KernelPool")
  /\ "kernel file" \notin held
  /\ LoadReturns

AllocateFile ==
  /\ "kernel file" \in held
  /\ AssertedPool("KernelPool", "kernel data", "KernelRead")

ReadFile ==
  /\ At("KernelRead")
  /\ \E ok \in BOOLEAN :
       /\ EfiAssert(ok, "Dispatch")
       /\ IF ok THEN image' = disk ELSE image' \in Kernels
  /\ UNCHANGED <<held, files, seg, exiting, loads, released, forced, firmware>>

EfiReadFile == NoFileHandle \/ AllocateFile \/ ReadFile

(***************************************************************************)
(* EfiLoadKernel looks at the first bytes.                                 *)
(***************************************************************************)
EfiLoadKernel ==
  \/ /\ pc = "Dispatch"
     /\ \/ "kernel data" \notin held
        \/ image.format = "other"
     /\ LoadReturns
  \/ /\ "kernel data" \in held
     /\ image.format = "coff"
     /\ Goto("Dispatch", "MapSize")
  \/ /\ "kernel data" \in held
     /\ image.format = "elf"
     /\ Goto("Dispatch", "FontRoot")

(***************************************************************************)
(* EfiLoadFont after EfiOpenFile: header, magic number, glyphs.            *)
(***************************************************************************)
NoFontFile ==
  /\ "font file" \notin held
  /\ Goto("FontHeader", "ClassCheck")

ReadFontHeader ==
  /\ "font file" \in held
  /\ Asserted("FontHeader", "font header", "FontMagic")

(***************************************************************************)
(* Mutant: a wrong magic number is reported and the font used anyway.      *)
(***************************************************************************)
MagicAny == TRUE
Magic == "font header" \in held /\ font = "good"

CheckFontMagic ==
  /\ At("FontMagic")
  /\ EfiAssert(Magic, "FontSeek")
  /\ UNCHANGED <<held, files, image, seg, exiting, loads, released, forced, firmware>>

SeekGlyphs ==
  /\ At("FontSeek")
  /\ \E ok \in BOOLEAN : EfiAssert(ok, "FontPool")
  /\ UNCHANGED <<held, files, image, seg, exiting, loads, released, forced, firmware>>

AllocateGlyphs == AssertedPool("FontPool", "glyphs", "FontRead")

ReadGlyphs == Asserted("FontRead", "glyph data", "ClassCheck")

EfiLoadFont ==
  \/ NoFontFile
  \/ ReadFontHeader
  \/ CheckFontMagic
  \/ SeekGlyphs
  \/ AllocateGlyphs
  \/ ReadGlyphs

(***************************************************************************)
(* is_elf64 answers ELF_NO = 0, ELF_YES = 1 or ELF_ERROR = -1, and         *)
(* EfiLoadElf tests the answer with "!".                                   *)
(***************************************************************************)
is_elf64(file) ==
  IF file.class = 1 THEN 0 ELSE IF file.class = 2 THEN 1 ELSE 0 - 1

ClassCheck ==
  \/ /\ pc = "ClassCheck"
     /\ is_elf64(image) = 0
     /\ LoadReturns
  \/ /\ pc = "ClassCheck"
     /\ is_elf64(image) # 0
     /\ pc' = "Segment"
     /\ seg' = 0
     /\ UNCHANGED <<resume, held, files, image, exiting, loads, released, forced, firmware>>

(***************************************************************************)
(* Mutant: the loop does not advance past a header that is not PT_LOAD.    *)
(***************************************************************************)
FollowingLoaded == IF image.programs[seg + 1].load THEN seg + 1 ELSE seg
Following == seg + 1

(***************************************************************************)
(* The loop of EfiLoadElf over the program headers.  The copy itself is    *)
(* the subject of the module ElfLoad.                                      *)
(***************************************************************************)
CopySegment ==
  /\ pc = "Segment"
  /\ seg < Len(image.programs)
  /\ LET program == image.programs[seg + 1]
     IN  EfiAssert(program.load => program.fits, "Segment")
  /\ seg' = Following
  /\ UNCHANGED <<held, files, image, exiting, loads, released, forced, firmware>>

SegmentsDone ==
  /\ seg >= Len(image.programs)
  /\ Goto("Segment", "MapSize")
-----------------------------------------------------------------------------
(***************************************************************************)
(* EfiExitBootServices.  GetMemoryMap with no buffer fails and returns the *)
(* size it needs; the loader adds room for two more descriptors.           *)
(* Mutant: room for one more.                                              *)
(***************************************************************************)
SpareOne == 1
Spare == 2

SizeMemoryMap ==
  /\ At("MapSize")
  /\ MemoryMapSize' = entries + Spare
  /\ MapKey' = 0
  /\ held' = held \ {"memory map"}
  /\ disturbed' = FALSE
  /\ pc' = "MapPool"
  /\ UNCHANGED <<resume, files, image, seg, loads, released, forced, firmware>>

AllocateMemoryMap == AssertedPool("MapPool", "memory map", "MapGet")

(***************************************************************************)
(* The second GetMemoryMap.  When it fails the size becomes the one it     *)
(* needs and the key is unspecified.  Mutant: the size handed on is that   *)
(* of the buffer, not that of the map.                                     *)
(***************************************************************************)
SizeGotPadded == MemoryMapSize
SizeGot == entries

GetMemoryMap ==
  /\ At("MapGet")
  /\ LET ok == "memory map" \in held /\ entries <= MemoryMapSize
     IN  /\ EfiAssert(ok, "Exit")
         /\ MemoryMapSize' \in {SizeGot} \cup (IF ok THEN {} ELSE {MemoryMapSize})
         /\ MapKey' \in {key} \cup (IF ok THEN {} ELSE {MapKey})
  /\ UNCHANGED <<held, files, image, seg, disturbed, loads, released, forced, firmware>>

(***************************************************************************)
(* Mutant: the kernel is entered whatever ExitBootServices answers.        *)
(***************************************************************************)
ExitBootServicesUnchecked ==
  /\ At("Exit")
  /\ EfiAssert(TRUE, "EnterKernel")
  /\ services' = IF MapKey = key THEN "exited" ELSE services
  /\ UNCHANGED <<held, files, image, seg, exiting, loads, released, forced,
                 entries, key, events>>

(***************************************************************************)
(* ExitBootServices is refused when the map has changed since MapKey.      *)
(***************************************************************************)
ExitBootServices ==
  /\ At("Exit")
  /\ EfiAssert(MapKey = key, "EnterKernel")
  /\ services' = IF MapKey = key THEN "exited" ELSE services
  /\ UNCHANGED <<held, files, image, seg, exiting, loads, released, forced,
                 entries, key, events>>

EnterKernel == Goto("EnterKernel", "Kernel")

(***************************************************************************)
(* EfiHalt, and the kernel's debug_halt, spin until a debugger clears      *)
(* their flag ("Change to 0 in debugger to continue").                     *)
(***************************************************************************)
Release ==
  /\ released < MaxReleases
  /\ released' = released + 1

DebuggerContinues ==
  /\ pc \in {"Failed", "Halt"}
  /\ Release
  /\ pc' = IF resume = "Shutdown" THEN "Off" ELSE resume
  /\ forced' = (forced \/ pc = "Failed")
  /\ UNCHANGED <<resume, held, files, image, seg, exiting, loads, firmware>>

(***************************************************************************)
(* The kernel returns: a COFF kernel by itself, the repository's own       *)
(* (start in kernel.c) behind its debug_halt.                              *)
(***************************************************************************)
KernelReturns ==
  /\ pc = "Kernel"
  /\ IF image.format = "coff" THEN UNCHANGED released ELSE Release
  /\ Returned

(***************************************************************************)
(* The menu: 'q' shuts down, 'r' reboots, 's' loads again, in a new frame  *)
(* of EfiLoadKernel.  Other keys, and no key, leave it polling.            *)
(***************************************************************************)
MenuKey(char) ==
  /\ At("Menu")
  /\ IF char = "s"
     THEN pc' = "KernelRoot" /\ loads' = loads + 1 /\ held' = held \cap Globals
     ELSE pc' = "Off" /\ UNCHANGED <<loads, held>>
  /\ UNCHANGED <<resume, files, image, seg, exiting, released, forced, firmware>>

FirmwareEvent ==
  /\ MapChanges
  /\ disturbed' = TRUE
  /\ UNCHANGED <<pc, resume, held, files, image, seg, MemoryMapSize, MapKey,
                 loads, released, forced>>

(***************************************************************************)
(* The steps the processor takes by itself.                                *)
(***************************************************************************)
Program ==
  \/ EfiInitGraphics
  \/ EfiInitializeFileSystem
  \/ EfiOpenFile
  \/ EfiReadFile
  \/ EfiLoadKernel
  \/ EfiLoadFont
  \/ ClassCheck
  \/ CopySegment
  \/ SegmentsDone
  \/ SizeMemoryMap
  \/ AllocateMemoryMap
  \/ GetMemoryMap
  \/ ExitBootServices
  \/ EnterKernel
  \/ CallUndefined

Next ==
  \/ Program
  \/ KernelReturns
  \/ DebuggerContinues
  \/ \E char \in {"q", "r", "s"} : MenuKey(char)
  \/ FirmwareEvent

Spec == Init /\ [][Next]_vars

FairSpec == Spec /\ WF_vars(Program)
-----------------------------------------------------------------------------
(***************************************************************************)
(* What the kernel may rely on when efi_main.c:610 or 631 jumps to it and  *)
(* no failure was stepped over: boot services are gone, the memory map it  *)
(* is handed is the one the firmware froze, the buffer holds the file, the *)
(* frame buffer is known, and an ELF kernel has its font and only segments *)
(* that fit.                                                               *)
(***************************************************************************)
FontLoaded == font = "good" /\ {"font header", "glyphs", "glyph data"} \subseteq held

SegmentsFit ==
  \A i \in 1..Len(image.programs) :
    image.programs[i].load => image.programs[i].fits

HandoffSound ==
  pc \in {"EnterKernel", "Kernel"} /\ ~forced =>
    /\ services = "exited"
    /\ MemoryMapSize = entries
    /\ MapKey = key
    /\ {"memory map", "graphics", "kernel data"} \subseteq held
    /\ image = disk
    /\ image.format = "elf" => FontLoaded /\ SegmentsFit

(***************************************************************************)
(* Undefined behaviour needs a debugger: as long as no failure is stepped  *)
(* over, a call through a NULL pointer or to a service that is gone can    *)
(* only come from the menu behind a kernel that returned (lines 656-663).  *)
(***************************************************************************)
NoWildSteps == pc = "Wild" /\ ~forced => services = "exited" /\ resume = "Menu"

(***************************************************************************)
(* EfiExitBootServices fails only when memory ran out or the firmware      *)
(* changed the map on its own: "2 * DescriptorSize" (line 495) is room     *)
(* enough for what the loader's own AllocatePool does to the map, and the  *)
(* key read after it is still good at ExitBootServices.                    *)
(***************************************************************************)
QuietExitSucceeds ==
  pc = "Failed" /\ resume \in {"Exit", "EnterKernel"} /\ ~forced => disturbed

(***************************************************************************)
(* The loader always gets somewhere: into the kernel, to a halt, to the    *)
(* menu or off.  Its loop over the program headers ends.                   *)
(***************************************************************************)
Resting == {"Kernel", "Halt", "Failed", "Menu", "Off", "Wild"}

BootResolves == []<>(pc \in Resting)

(***************************************************************************)
(* The four calls of EfiExitBootServices (lines 474-520) and everything    *)
(* around them amount to one atomic hand-over of the current memory map:   *)
(* Boot implements the module Handoff.                                     *)
(***************************************************************************)
Owner ==
  IF forced THEN "debugger" ELSE IF services = "exited" THEN "kernel" ELSE "firmware"

View == IF Owner = "kernel" THEN <<MemoryMapSize, MapKey>> ELSE << >>

Abstract == INSTANCE Handoff WITH owner <- Owner, map <- <<entries, key>>, view <- View

HandsOver == Abstract!HandoffSpec

(***************************************************************************)
(* What elf.h:19 says of a class byte that is neither 1 nor 2, "Invalid":  *)
(* a kernel that is entered as ELF is one whose class is 2.                *)
(***************************************************************************)
OnlyElf64Runs == pc = "EnterKernel" /\ image.format = "elf" => image.class = 2

(***************************************************************************)
(* "Change to 0 in debugger to continue" (efi_main.c:45): a developer who  *)
(* releases halts that follow no failure does not run into undefined       *)
(* behaviour.                                                              *)
(***************************************************************************)
ContinueIsSafe == pc = "Wild" => forced
=============================================================================
