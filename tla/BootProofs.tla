----------------------------- MODULE BootProofs -----------------------------
(***************************************************************************)
(* Theorems about Boot, for every set of kernels and fonts, every number   *)
(* of firmware events and every number of released halts.                  *)
(***************************************************************************)
EXTENDS Boot, TLAPS

(***************************************************************************)
(* The locations of the two ways to the kernel.                            *)
(***************************************************************************)
FontPath == {"FontRoot", "FontOpen", "FontHeader", "FontMagic", "FontSeek",
             "FontPool", "FontRead", "ClassCheck", "Segment"}
ExitPath == {"MapSize", "MapPool", "MapGet", "Exit", "EnterKernel", "Kernel"}
Loaded == {"Dispatch"} \cup FontPath \cup ExitPath
Opened == Loaded \cup {"KernelRead"}

(***************************************************************************)
(* Where control can be once boot services are gone, and what a halt leads *)
(* to.                                                                     *)
(***************************************************************************)
ControlInv ==
  /\ services = "exited" =>
       pc \in {"EnterKernel", "Kernel", "Halt", "Menu", "Off", "Wild"}
  /\ pc = "Halt" => resume \in {"Menu", "Shutdown"}
  /\ pc = "Menu" => resume = "Menu"
  /\ pc \in {"Halt", "Menu"} /\ resume = "Menu" => loads = 1
  /\ pc = "Failed" => resume \in Locations \ {"Menu", "Halt"}
  /\ pc \in {"EnterKernel", "Kernel"} /\ ~forced => services = "exited"
  /\ pc \in FontPath => forced \/ image.format = "elf"

(***************************************************************************)
(* What has been established at each location, as long as every failure    *)
(* was final.                                                              *)
(***************************************************************************)
PointersInv ==
  ~forced =>
    /\ pc \notin {"Graphics", "Failed", "Wild", "Off"} => "graphics" \in held
    /\ pc \notin {"Graphics", "LoadedImage", "Failed", "Wild", "Off"} =>
         "loaded image" \in held
    /\ pc \notin {"Graphics", "LoadedImage", "DevicePath", "Volume", "Failed",
                  "Wild", "Off"} =>
         "volume" \in held
    /\ pc \in Opened \cup {"KernelOpen", "KernelPool"} => "root" \in held
    /\ pc \in Opened \cup {"KernelPool"} => "kernel file" \in held
    /\ pc \in Opened => "kernel data" \in held
    /\ pc \in {"FontHeader", "FontMagic", "FontSeek", "FontPool", "FontRead"} =>
         "font file" \in held
    /\ pc \in {"FontMagic", "FontSeek", "FontPool", "FontRead"} =>
         "font header" \in held
    /\ pc \in {"FontSeek", "FontPool", "FontRead"} => font = "good"
    /\ pc = "FontRead" => "glyphs" \in held
    /\ pc \in {"MapGet", "Exit", "EnterKernel", "Kernel"} => "memory map" \in held

FilesInv ==
  ~forced =>
    /\ pc \in Loaded => image = disk
    /\ pc \in {"ClassCheck", "Segment"} => FontLoaded
    /\ pc \in ExitPath /\ image.format = "elf" => FontLoaded /\ SegmentsFit
    /\ pc = "Segment" =>
         \A i \in 1..Len(image.programs) :
           i <= seg /\ image.programs[i].load => image.programs[i].fits

(***************************************************************************)
(* The map the loader knows against the map the firmware has.  A key that  *)
(* is current vouches for the size; without a firmware event the size has  *)
(* room for the loader's own allocation and the key stays current.         *)
(***************************************************************************)
MapInv ==
  ~forced =>
    /\ pc = "MapPool" /\ ~disturbed => entries + 2 <= MemoryMapSize
    /\ pc = "MapGet" /\ ~disturbed => entries <= MemoryMapSize
    /\ pc = "Exit" =>
         /\ MapKey <= key
         /\ MapKey = key => MemoryMapSize = entries
         /\ ~disturbed => MapKey = key
    /\ services = "exited" => MapKey = key /\ MemoryMapSize = entries

(***************************************************************************)
(* The inductive invariant.                                                *)
(***************************************************************************)
IInv ==
  /\ TypeOK
  /\ ControlInv
  /\ PointersInv
  /\ FilesInv
  /\ MapInv
  /\ NoWildSteps
  /\ QuietExitSucceeds
-----------------------------------------------------------------------------
USE DEF files, exiting, firmware

(***************************************************************************)
(* An asserted call keeps the types (EFI_ASSERT, efi_main.c:179-188).      *)
(***************************************************************************)
LEMMA AssertedType ==
  ASSUME TypeOK, NEW loc, NEW out \in Pointers, NEW next \in Locations,
         Asserted(loc, out, next)
  PROVE  TypeOK'
BY DEF TypeOK, FirmwareTypeOK, Asserted, EfiAssert, Locations, Calls

(***************************************************************************)
(* So does an asserted AllocatePool.                                       *)
(***************************************************************************)
LEMMA AssertedPoolType ==
  ASSUME TypeOK, NEW loc, NEW out \in Pointers, NEW next \in Locations,
         AssertedPool(loc, out, next)
  PROVE  TypeOK'
BY DEF TypeOK, FirmwareTypeOK, AssertedPool, PoolTaken, EfiAssert, Locations, Calls

(***************************************************************************)
(* The initial state of efi_main has the types.                            *)
(***************************************************************************)
LEMMA TypeInit == Init => TypeOK
<1> SUFFICES ASSUME Init PROVE TypeOK
  OBVIOUS
<1>1. FirmwareTypeOK
  BY MaxEventsAssumption DEF Init, FirmwareInit, FirmwareTypeOK
<1>2. pc \in Locations /\ resume \in Locations \cup {"Shutdown"}
  BY DEF Init, Locations, Calls
<1>3. released \in 0..MaxReleases /\ loads \in 1..2 /\ seg \in Nat
  BY BootAssumption DEF Init
<1>4. MemoryMapSize \in Nat /\ MapKey \in Nat /\ forced \in BOOLEAN /\ disturbed \in BOOLEAN
  BY DEF Init
<1>5. held \subseteq Pointers /\ disk \in Kernels /\ font \in Fonts /\ image \in Kernels
  BY DEF Init
<1> QED
  BY <1>1, <1>2, <1>3, <1>4, <1>5 DEF TypeOK

(***************************************************************************)
(* Every step of the loader, the debugger and the firmware keeps the types,*)
(* the counters within their bounds; only one load comes from the menu.    *)
(***************************************************************************)
LEMMA TypeStep == TypeOK /\ ControlInv /\ [Next]_vars => TypeOK'
<1> SUFFICES ASSUME TypeOK, ControlInv, [Next]_vars PROVE TypeOK'
    OBVIOUS
<1> USE BootAssumption, MaxEventsAssumption DEF Locations, Calls
<1>1. CASE EfiInitGraphics
  BY <1>1, AssertedType DEF EfiInitGraphics, Pointers
<1>2. CASE EfiInitializeFileSystem
  BY <1>2, AssertedType DEF EfiInitializeFileSystem, Pointers
<1>3. CASE EfiOpenFile
  BY <1>3, AssertedType DEF EfiOpenFile, Pointers
<1>4. CASE EfiReadFile
  <2>1. CASE NoFileHandle
      BY <2>1 DEF NoFileHandle, LoadReturns, Returned, Behind, TypeOK, FirmwareTypeOK
  <2>2. CASE AllocateFile
      BY <2>2, AssertedPoolType DEF AllocateFile, Pointers
  <2>3. CASE ReadFile
      BY <2>3 DEF ReadFile, EfiAssert, TypeOK, FirmwareTypeOK
  <2> QED BY <1>4, <2>1, <2>2, <2>3 DEF EfiReadFile
<1>5. CASE EfiLoadKernel
  BY <1>5 DEF EfiLoadKernel, Goto, LoadReturns, Returned, Behind, TypeOK, FirmwareTypeOK
<1>6. CASE EfiLoadFont
  <2>1. CASE NoFontFile
      BY <2>1 DEF NoFontFile, Goto, TypeOK, FirmwareTypeOK
  <2>2. CASE ReadFontHeader
      BY <2>2, AssertedType DEF ReadFontHeader, Pointers
  <2>3. CASE CheckFontMagic
    <3>1. pc' \in Locations /\ resume' \in Locations \cup {"Shutdown"}
      BY <2>3 DEF CheckFontMagic, EfiAssert, TypeOK
    <3> QED
      BY <2>3, <3>1 DEF CheckFontMagic, TypeOK, FirmwareTypeOK
  <2>4. CASE SeekGlyphs
      BY <2>4 DEF SeekGlyphs, EfiAssert, TypeOK, FirmwareTypeOK
  <2>5. CASE AllocateGlyphs
      BY <2>5, AssertedPoolType DEF AllocateGlyphs, Pointers
  <2>6. CASE ReadGlyphs
      BY <2>6, AssertedType DEF ReadGlyphs, Pointers
  <2> QED BY <1>6, <2>1, <2>2, <2>3, <2>4, <2>5, <2>6 DEF EfiLoadFont
<1>7. CASE ClassCheck
  BY <1>7 DEF ClassCheck, LoadReturns, Returned, Behind, TypeOK, FirmwareTypeOK
<1>8. CASE CopySegment
  BY <1>8 DEF CopySegment, Following, EfiAssert, TypeOK, FirmwareTypeOK
<1>9. CASE SegmentsDone
  BY <1>9 DEF SegmentsDone, Goto, TypeOK, FirmwareTypeOK
<1>10. CASE SizeMemoryMap
  <2>1. MemoryMapSize' = entries + 2 /\ MapKey' = 0
  BY <1>10 DEF SizeMemoryMap, Spare
  <2>2. MemoryMapSize' \in Nat /\ MapKey' \in Nat
    BY <2>1 DEF TypeOK, FirmwareTypeOK
  <2>3. held' \subseteq Pointers
  BY <1>10 DEF SizeMemoryMap, Spare, TypeOK
  <2> QED
  BY <1>10, <2>2, <2>3 DEF SizeMemoryMap, Spare, TypeOK, FirmwareTypeOK
<1>11. CASE AllocateMemoryMap
  BY <1>11, AssertedPoolType DEF AllocateMemoryMap, Pointers
<1>12. CASE GetMemoryMap
  <2>1. pc' \in Locations /\ resume' \in Locations \cup {"Shutdown"}
    BY <1>12 DEF GetMemoryMap, EfiAssert, TypeOK
  <2>2. MemoryMapSize' \in Nat /\ MapKey' \in Nat
    BY <1>12 DEF GetMemoryMap, SizeGot, TypeOK, FirmwareTypeOK
  <2> QED
    BY <1>12, <2>1, <2>2 DEF GetMemoryMap, TypeOK, FirmwareTypeOK
<1>13. CASE ExitBootServices
  BY <1>13 DEF ExitBootServices, EfiAssert, TypeOK, FirmwareTypeOK
<1>14. CASE EnterKernel
  BY <1>14 DEF EnterKernel, Goto, TypeOK, FirmwareTypeOK
<1>15. CASE CallUndefined
  BY <1>15 DEF CallUndefined, TypeOK, FirmwareTypeOK
<1>16. CASE KernelReturns
  BY <1>16 DEF KernelReturns, Release, Returned, Behind, TypeOK, FirmwareTypeOK
<1>17. CASE DebuggerContinues
  BY <1>17 DEF DebuggerContinues, Release, TypeOK, FirmwareTypeOK
<1>18. CASE \E char \in {"q", "r", "s"} : MenuKey(char)
  <2>1. loads' \in 1..2
  BY <1>18 DEF MenuKey, At, ControlInv, TypeOK
  <2>2. held' \subseteq Pointers
  BY <1>18 DEF MenuKey, TypeOK
  <2>3. UNCHANGED <<resume, files, image, seg, exiting, released, forced, firmware>>
  BY <1>18 DEF MenuKey
  <2>4. pc' \in Locations
  BY <1>18 DEF MenuKey
  <2> QED
    BY <2>1, <2>2, <2>3, <2>4 DEF TypeOK, FirmwareTypeOK
<1>19. CASE FirmwareEvent
  BY <1>19 DEF FirmwareEvent, MapChanges, TypeOK, FirmwareTypeOK
<1>20. CASE UNCHANGED vars
  BY <1>20 DEF vars, TypeOK, FirmwareTypeOK
<1> QED
  BY <1>1, <1>2, <1>3, <1>4, <1>5, <1>6, <1>7, <1>8, <1>9, <1>10, <1>11,
     <1>12, <1>13, <1>14, <1>15, <1>16, <1>17, <1>18, <1>19, <1>20
  DEF Next, Program

(***************************************************************************)
(* The program headers of the loaded file are a finite sequence.           *)
(***************************************************************************)
LEMMA ProgramsSeq ==
  ASSUME TypeOK
  PROVE  Len(image.programs) \in Nat
<1>1. image \in KernelFile
  BY BootAssumption DEF TypeOK
<1>2. image.programs \in Seq([load: BOOLEAN, fits: BOOLEAN])
  BY <1>1 DEF KernelFile
<1> QED
  BY <1>2

(***************************************************************************)
(* Where the loop variable stands among the program headers.               *)
(***************************************************************************)
LEMMA ProgramIndices ==
  ASSUME TypeOK
  PROVE  \A i \in 1..Len(image.programs) :
           /\ ~(i <= 0)
           /\ seg >= Len(image.programs) => i <= seg
           /\ i <= seg + 1 => i <= seg \/ i = seg + 1
BY ProgramsSeq DEF TypeOK

(***************************************************************************)
(* Where control can be: no boot service is called once they are gone, and *)
(* a halt leads only where efi_main goes on after a load.                  *)
(***************************************************************************)
LEMMA ControlStep ==
  ASSUME TypeOK, ControlInv, [Next]_vars
  PROVE  ControlInv'
<1> USE DEF ControlInv, Locations, Calls, FontPath
<1>1. CASE EfiInitGraphics
  BY <1>1 DEF EfiInitGraphics, Asserted, EfiAssert, At, Uses
<1>2. CASE EfiInitializeFileSystem
  BY <1>2 DEF EfiInitializeFileSystem, Asserted, EfiAssert, At, Uses
<1>3. CASE EfiOpenFile
  BY <1>3 DEF EfiOpenFile, Asserted, EfiAssert, At, Uses
<1>4. CASE NoFileHandle
  BY <1>4 DEF NoFileHandle, At, LoadReturns, Returned, Behind
<1>5. CASE AllocateFile
  BY <1>5 DEF AllocateFile, AssertedPool, PoolTaken, EfiAssert, At
<1>6. CASE ReadFile
  BY <1>6 DEF ReadFile, EfiAssert, At
<1>7. CASE EfiLoadKernel
  BY <1>7 DEF EfiLoadKernel, Goto, LoadReturns, Returned, Behind
<1>8. CASE NoFontFile
  BY <1>8 DEF NoFontFile, Goto
<1>9. CASE ReadFontHeader
  BY <1>9 DEF ReadFontHeader, Asserted, EfiAssert, At
<1>10. CASE CheckFontMagic
  BY <1>10 DEF CheckFontMagic, Magic, EfiAssert, At
<1>11. CASE SeekGlyphs
  BY <1>11 DEF SeekGlyphs, EfiAssert, At
<1>12. CASE AllocateGlyphs
  BY <1>12 DEF AllocateGlyphs, AssertedPool, PoolTaken, EfiAssert, At
<1>13. CASE ReadGlyphs
  BY <1>13 DEF ReadGlyphs, Asserted, EfiAssert, At
<1>14. CASE ClassCheck
  BY <1>14 DEF ClassCheck, LoadReturns, Returned, Behind
<1>15. CASE CopySegment
  BY <1>15 DEF CopySegment, Following, EfiAssert
<1>16. CASE SegmentsDone
  BY <1>16 DEF SegmentsDone, Goto
<1>17. CASE SizeMemoryMap
  BY <1>17 DEF SizeMemoryMap, Spare, At
<1>18. CASE AllocateMemoryMap
  BY <1>18 DEF AllocateMemoryMap, AssertedPool, PoolTaken, EfiAssert, At
<1>19. CASE GetMemoryMap
  BY <1>19 DEF GetMemoryMap, SizeGot, EfiAssert, At
<1>20. CASE ExitBootServices
  BY <1>20 DEF ExitBootServices, EfiAssert, At
<1>21. CASE EnterKernel
  BY <1>21 DEF EnterKernel, Goto
<1>22. CASE CallUndefined
  BY <1>22 DEF CallUndefined, At, Calls, Uses
<1>23. CASE KernelReturns
  BY <1>23 DEF KernelReturns, Release, Returned, Behind
<1>24. CASE DebuggerContinues
  BY <1>24 DEF DebuggerContinues, Release
<1>25. CASE \E char \in {"q", "r", "s"} : MenuKey(char)
  BY <1>25 DEF MenuKey, At, Globals
<1>26. CASE FirmwareEvent
  BY <1>26 DEF FirmwareEvent, MapChanges
<1>27. CASE UNCHANGED vars
  BY <1>27 DEF vars
<1> QED
  BY <1>1, <1>2, <1>3, <1>4, <1>5, <1>6, <1>7, <1>8, <1>9, <1>10, <1>11, <1>12, <1>13, <1>14, <1>15, <1>16, <1>17, <1>18, <1>19, <1>20, <1>21, <1>22, <1>23, <1>24, <1>25, <1>26, <1>27
  DEF Next, Program, EfiReadFile, EfiLoadFont

(***************************************************************************)
(* A location is reached only with what its calls dereference, because     *)
(* every call before it succeeded (EFI_ASSERT).                            *)
(***************************************************************************)
LEMMA PointersStep ==
  ASSUME TypeOK, ControlInv, PointersInv, [Next]_vars
  PROVE  PointersInv'
<1> USE DEF PointersInv, Opened, Loaded, FontPath, ExitPath
<1>1. CASE EfiInitGraphics
  BY <1>1 DEF EfiInitGraphics, Asserted, EfiAssert, At, Uses
<1>2. CASE EfiInitializeFileSystem
  BY <1>2 DEF EfiInitializeFileSystem, Asserted, EfiAssert, At, Uses
<1>3. CASE EfiOpenFile
  BY <1>3 DEF EfiOpenFile, Asserted, EfiAssert, At, Uses
<1>4. CASE NoFileHandle
  BY <1>4 DEF NoFileHandle, At, LoadReturns, Returned, Behind
<1>5. CASE AllocateFile
  BY <1>5 DEF AllocateFile, AssertedPool, PoolTaken, EfiAssert, At
<1>6. CASE ReadFile
  BY <1>6 DEF ReadFile, EfiAssert, At
<1>7. CASE EfiLoadKernel
  BY <1>7 DEF EfiLoadKernel, Goto, LoadReturns, Returned, Behind
<1>8. CASE NoFontFile
  BY <1>8 DEF NoFontFile, Goto
<1>9. CASE ReadFontHeader
  BY <1>9 DEF ReadFontHeader, Asserted, EfiAssert, At
<1>10. CASE CheckFontMagic
  BY <1>10 DEF CheckFontMagic, Magic, EfiAssert, At
<1>11. CASE SeekGlyphs
  BY <1>11 DEF SeekGlyphs, EfiAssert, At
<1>12. CASE AllocateGlyphs
  BY <1>12 DEF AllocateGlyphs, AssertedPool, PoolTaken, EfiAssert, At
<1>13. CASE ReadGlyphs
  BY <1>13 DEF ReadGlyphs, Asserted, EfiAssert, At
<1>14. CASE ClassCheck
  BY <1>14 DEF ClassCheck, LoadReturns, Returned, Behind
<1>15. CASE CopySegment
  BY <1>15 DEF CopySegment, Following, EfiAssert
<1>16. CASE SegmentsDone
  BY <1>16 DEF SegmentsDone, Goto
<1>17. CASE SizeMemoryMap
  BY <1>17 DEF SizeMemoryMap, Spare, At
<1>18. CASE AllocateMemoryMap
  BY <1>18 DEF AllocateMemoryMap, AssertedPool, PoolTaken, EfiAssert, At
<1>19. CASE GetMemoryMap
  BY <1>19 DEF GetMemoryMap, SizeGot, EfiAssert, At
<1>20. CASE ExitBootServices
  BY <1>20 DEF ExitBootServices, EfiAssert, At
<1>21. CASE EnterKernel
  BY <1>21 DEF EnterKernel, Goto
<1>22. CASE CallUndefined
  BY <1>22 DEF CallUndefined, At, Calls, Uses
<1>23. CASE KernelReturns
  BY <1>23 DEF KernelReturns, Release, Returned, Behind
<1>24. CASE DebuggerContinues
  BY <1>24 DEF DebuggerContinues, Release, ControlInv
<1>25. CASE \E char \in {"q", "r", "s"} : MenuKey(char)
  <2>1. PICK char \in {"q", "r", "s"} : MenuKey(char)
    BY <1>25
  <2>2. pc = "Menu" /\ forced' = forced /\ pc' \in {"KernelRoot", "Off"}
    BY <2>1 DEF MenuKey, At
  <2>3. held' = held \/ held' = held \cap Globals
    BY <2>1 DEF MenuKey
  <2>4. ~forced => {"graphics", "loaded image", "volume"} \subseteq held
    BY <2>2
  <2>5. ~forced => {"graphics", "loaded image", "volume"} \subseteq held'
    BY <2>3, <2>4 DEF Globals
  <2> QED
    BY <2>2, <2>5
<1>26. CASE FirmwareEvent
  BY <1>26 DEF FirmwareEvent, MapChanges
<1>27. CASE UNCHANGED vars
  BY <1>27 DEF vars
<1> QED
  BY <1>1, <1>2, <1>3, <1>4, <1>5, <1>6, <1>7, <1>8, <1>9, <1>10, <1>11, <1>12, <1>13, <1>14, <1>15, <1>16, <1>17, <1>18, <1>19, <1>20, <1>21, <1>22, <1>23, <1>24, <1>25, <1>26, <1>27
  DEF Next, Program, EfiReadFile, EfiLoadFont

(***************************************************************************)
(* The kernel's path: the image is the file, the font was validated, and   *)
(* the loop has checked every program header it passed.                    *)
(***************************************************************************)
LEMMA FilesStep ==
  ASSUME TypeOK, ControlInv, PointersInv, FilesInv, [Next]_vars
  PROVE  FilesInv'
<1> USE DEF FilesInv, PointersInv, Opened, Loaded, FontPath, ExitPath, FontLoaded, SegmentsFit, ControlInv
<1>1. CASE EfiInitGraphics
  BY <1>1 DEF EfiInitGraphics, Asserted, EfiAssert, At, Uses
<1>2. CASE EfiInitializeFileSystem
  BY <1>2 DEF EfiInitializeFileSystem, Asserted, EfiAssert, At, Uses
<1>3. CASE EfiOpenFile
  BY <1>3 DEF EfiOpenFile, Asserted, EfiAssert, At, Uses
<1>4. CASE NoFileHandle
  BY <1>4 DEF NoFileHandle, At, LoadReturns, Returned, Behind
<1>5. CASE AllocateFile
  BY <1>5 DEF AllocateFile, AssertedPool, PoolTaken, EfiAssert, At
<1>6. CASE ReadFile
  BY <1>6 DEF ReadFile, EfiAssert, At
<1>7. CASE EfiLoadKernel
  BY <1>7 DEF EfiLoadKernel, Goto, LoadReturns, Returned, Behind
<1>8. CASE NoFontFile
  BY <1>8 DEF NoFontFile, Goto
<1>9. CASE ReadFontHeader
  BY <1>9 DEF ReadFontHeader, Asserted, EfiAssert, At
<1>10. CASE CheckFontMagic
  BY <1>10 DEF CheckFontMagic, Magic, EfiAssert, At
<1>11. CASE SeekGlyphs
  BY <1>11 DEF SeekGlyphs, EfiAssert, At
<1>12. CASE AllocateGlyphs
  BY <1>12 DEF AllocateGlyphs, AssertedPool, PoolTaken, EfiAssert, At
<1>13. CASE ReadGlyphs
  BY <1>13 DEF ReadGlyphs, Asserted, EfiAssert, At
<1>14. CASE ClassCheck
  <2>1. CASE pc' = "Segment"
    <3>1. pc = "ClassCheck" /\ seg' = 0 /\ UNCHANGED <<image, disk, font, held, forced>>
      BY <1>14, <2>1 DEF ClassCheck, LoadReturns, Returned, Behind
    <3>2. \A i \in 1..Len(image.programs) : ~(i <= 0)
      BY ProgramIndices
    <3> QED
      BY <2>1, <3>1, <3>2
  <2>2. CASE pc' = "Halt"
    BY <2>2
  <2> QED
    BY <1>14, <2>1, <2>2 DEF ClassCheck, LoadReturns, Returned, Behind
<1>15. CASE CopySegment
  <2>1. pc = "Segment" /\ seg' = seg + 1 /\ pc' \in {"Segment", "Failed"}
        /\ UNCHANGED <<image, disk, font, held, forced>>
    BY <1>15 DEF CopySegment, Following, EfiAssert
  <2>2. CASE pc' = "Failed"
    BY <2>2
  <2>3. CASE pc' = "Segment"
    <3>1. image.programs[seg + 1].load => image.programs[seg + 1].fits
      BY <1>15, <2>3 DEF CopySegment, Following, EfiAssert
    <3>2. ASSUME ~forced, NEW i \in 1..Len(image.programs), i <= seg + 1, image.programs[i].load
          PROVE  image.programs[i].fits
      <4>1. i <= seg \/ i = seg + 1
        BY <3>2, ProgramIndices
      <4> QED
        BY <2>1, <3>1, <3>2, <4>1
    <3>3. ~forced' => \A i \in 1..Len(image'.programs) :
                        i <= seg' /\ image'.programs[i].load => image'.programs[i].fits
      BY <2>1, <3>2
    <3> QED
      BY <2>1, <2>3, <3>3
  <2> QED
    BY <2>1, <2>2, <2>3
<1>16. CASE SegmentsDone
  <2>1. pc = "Segment" /\ pc' = "MapSize" /\ seg >= Len(image.programs)
        /\ UNCHANGED <<image, disk, font, held, forced>>
    BY <1>16 DEF SegmentsDone, Goto
  <2>2. ASSUME ~forced PROVE SegmentsFit
    <3>1. \A i \in 1..Len(image.programs) : i <= seg
      BY <2>1, ProgramIndices
    <3> QED
      BY <2>1, <2>2, <3>1
  <2>3. ~forced' => SegmentsFit'
    BY <2>1, <2>2
  <2> QED
    BY <2>1, <2>3
<1>17. CASE SizeMemoryMap
  BY <1>17 DEF SizeMemoryMap, Spare, At
<1>18. CASE AllocateMemoryMap
  BY <1>18 DEF AllocateMemoryMap, AssertedPool, PoolTaken, EfiAssert, At
<1>19. CASE GetMemoryMap
  BY <1>19 DEF GetMemoryMap, SizeGot, EfiAssert, At
<1>20. CASE ExitBootServices
  BY <1>20 DEF ExitBootServices, EfiAssert, At
<1>21. CASE EnterKernel
  BY <1>21 DEF EnterKernel, Goto
<1>22. CASE CallUndefined
  BY <1>22 DEF CallUndefined, At, Calls, Uses
<1>23. CASE KernelReturns
  BY <1>23 DEF KernelReturns, Release, Returned, Behind
<1>24. CASE DebuggerContinues
  BY <1>24 DEF DebuggerContinues, Release
<1>25. CASE \E char \in {"q", "r", "s"} : MenuKey(char)
  BY <1>25 DEF MenuKey, At, Globals
<1>26. CASE FirmwareEvent
  BY <1>26 DEF FirmwareEvent, MapChanges
<1>27. CASE UNCHANGED vars
  BY <1>27 DEF vars
<1> QED
  BY <1>1, <1>2, <1>3, <1>4, <1>5, <1>6, <1>7, <1>8, <1>9, <1>10, <1>11, <1>12, <1>13, <1>14, <1>15, <1>16, <1>17, <1>18, <1>19, <1>20, <1>21, <1>22, <1>23, <1>24, <1>25, <1>26, <1>27
  DEF Next, Program, EfiReadFile, EfiLoadFont

(***************************************************************************)
(* The key and the size: the loader's own AllocatePool fits in the slack,  *)
(* and only a firmware event can make the key stale.                       *)
(***************************************************************************)
LEMMA MapStep ==
  ASSUME TypeOK, ControlInv, MapInv, [Next]_vars
  PROVE  MapInv'
<1> USE DEF MapInv, ControlInv, TypeOK, FirmwareTypeOK
<1>1. CASE EfiInitGraphics
  BY <1>1 DEF EfiInitGraphics, Asserted, EfiAssert, At, Uses
<1>2. CASE EfiInitializeFileSystem
  BY <1>2 DEF EfiInitializeFileSystem, Asserted, EfiAssert, At, Uses
<1>3. CASE EfiOpenFile
  BY <1>3 DEF EfiOpenFile, Asserted, EfiAssert, At, Uses
<1>4. CASE NoFileHandle
  BY <1>4 DEF NoFileHandle, At, LoadReturns, Returned, Behind
<1>5. CASE AllocateFile
  BY <1>5 DEF AllocateFile, AssertedPool, PoolTaken, EfiAssert, At
<1>6. CASE ReadFile
  BY <1>6 DEF ReadFile, EfiAssert, At
<1>7. CASE EfiLoadKernel
  BY <1>7 DEF EfiLoadKernel, Goto, LoadReturns, Returned, Behind
<1>8. CASE NoFontFile
  BY <1>8 DEF NoFontFile, Goto
<1>9. CASE ReadFontHeader
  BY <1>9 DEF ReadFontHeader, Asserted, EfiAssert, At
<1>10. CASE CheckFontMagic
  BY <1>10 DEF CheckFontMagic, Magic, EfiAssert, At
<1>11. CASE SeekGlyphs
  BY <1>11 DEF SeekGlyphs, EfiAssert, At
<1>12. CASE AllocateGlyphs
  BY <1>12 DEF AllocateGlyphs, AssertedPool, PoolTaken, EfiAssert, At
<1>13. CASE ReadGlyphs
  BY <1>13 DEF ReadGlyphs, Asserted, EfiAssert, At
<1>14. CASE ClassCheck
  BY <1>14 DEF ClassCheck, LoadReturns, Returned, Behind
<1>15. CASE CopySegment
  BY <1>15 DEF CopySegment, Following, EfiAssert
<1>16. CASE SegmentsDone
  BY <1>16 DEF SegmentsDone, Goto
<1>17. CASE SizeMemoryMap
  <2>1. MemoryMapSize' = entries + 2 /\ entries' = entries /\ pc' = "MapPool" /\ services' = "active"
    BY <1>17 DEF SizeMemoryMap, Spare, At
  <2>2. entries' + 2 <= MemoryMapSize'
    BY <2>1
  <2> QED
    BY <2>1, <2>2
<1>18. CASE AllocateMemoryMap
  <2>1. UNCHANGED <<MemoryMapSize, MapKey, disturbed, forced, services>> /\ services = "active"
    BY <1>18 DEF AllocateMemoryMap, AssertedPool, PoolTaken, At
  <2>2. CASE pc' = "MapGet"
    <3>1. pc = "MapPool" /\ entries' \in entries .. (entries + 2)
      BY <1>18, <2>2 DEF AllocateMemoryMap, AssertedPool, PoolTaken, EfiAssert, At
    <3>2. pc = "MapPool" /\ entries' <= entries + 2 /\ entries' \in Nat
      BY <3>1
    <3> QED
      BY <2>1, <2>2, <3>2
  <2>3. CASE pc' = "Failed"
    BY <2>1, <2>3
  <2> QED
    BY <1>18, <2>2, <2>3 DEF AllocateMemoryMap, AssertedPool, EfiAssert
<1>19. CASE GetMemoryMap
  <2> DEFINE ok == "memory map" \in held /\ entries <= MemoryMapSize
  <2>1. UNCHANGED <<services, entries, key, disturbed, forced>> /\ services = "active"
    BY <1>19 DEF GetMemoryMap, SizeGot, At
  <2>2. CASE ok
    <3>1. MemoryMapSize' = entries /\ MapKey' = key /\ pc' = "Exit"
      BY <1>19, <2>2 DEF GetMemoryMap, SizeGot, EfiAssert
    <3> QED
      BY <2>1, <3>1
  <2>3. CASE ~ok
    <3>1. pc' = "Failed"
      BY <1>19, <2>3 DEF GetMemoryMap, SizeGot, EfiAssert
    <3> QED
      BY <2>1, <3>1
  <2> QED
    BY <2>2, <2>3
<1>20. CASE ExitBootServices
  BY <1>20 DEF ExitBootServices, EfiAssert, At
<1>21. CASE EnterKernel
  BY <1>21 DEF EnterKernel, Goto
<1>22. CASE CallUndefined
  BY <1>22 DEF CallUndefined, At, Calls, Uses
<1>23. CASE KernelReturns
  BY <1>23 DEF KernelReturns, Release, Returned, Behind
<1>24. CASE DebuggerContinues
  BY <1>24 DEF DebuggerContinues, Release
<1>25. CASE \E char \in {"q", "r", "s"} : MenuKey(char)
  BY <1>25 DEF MenuKey, At, Globals
<1>26. CASE FirmwareEvent
  BY <1>26 DEF FirmwareEvent, MapChanges
<1>27. CASE UNCHANGED vars
  BY <1>27 DEF vars
<1> QED
  BY <1>1, <1>2, <1>3, <1>4, <1>5, <1>6, <1>7, <1>8, <1>9, <1>10, <1>11, <1>12, <1>13, <1>14, <1>15, <1>16, <1>17, <1>18, <1>19, <1>20, <1>21, <1>22, <1>23, <1>24, <1>25, <1>26, <1>27
  DEF Next, Program, EfiReadFile, EfiLoadFont

(***************************************************************************)
(* A wild call needs services that are gone, so it comes from the menu.    *)
(***************************************************************************)
LEMMA WildStep ==
  ASSUME TypeOK, ControlInv, PointersInv, NoWildSteps, [Next]_vars
  PROVE  NoWildSteps'
<1> USE DEF NoWildSteps, PointersInv, ControlInv, Opened, Loaded, FontPath, ExitPath
<1>1. CASE EfiInitGraphics
  BY <1>1 DEF EfiInitGraphics, Asserted, EfiAssert, At, Uses
<1>2. CASE EfiInitializeFileSystem
  BY <1>2 DEF EfiInitializeFileSystem, Asserted, EfiAssert, At, Uses
<1>3. CASE EfiOpenFile
  BY <1>3 DEF EfiOpenFile, Asserted, EfiAssert, At, Uses
<1>4. CASE NoFileHandle
  BY <1>4 DEF NoFileHandle, At, LoadReturns, Returned, Behind
<1>5. CASE AllocateFile
  BY <1>5 DEF AllocateFile, AssertedPool, PoolTaken, EfiAssert, At
<1>6. CASE ReadFile
  BY <1>6 DEF ReadFile, EfiAssert, At
<1>7. CASE EfiLoadKernel
  BY <1>7 DEF EfiLoadKernel, Goto, LoadReturns, Returned, Behind
<1>8. CASE NoFontFile
  BY <1>8 DEF NoFontFile, Goto
<1>9. CASE ReadFontHeader
  BY <1>9 DEF ReadFontHeader, Asserted, EfiAssert, At
<1>10. CASE CheckFontMagic
  BY <1>10 DEF CheckFontMagic, Magic, EfiAssert, At
<1>11. CASE SeekGlyphs
  BY <1>11 DEF SeekGlyphs, EfiAssert, At
<1>12. CASE AllocateGlyphs
  BY <1>12 DEF AllocateGlyphs, AssertedPool, PoolTaken, EfiAssert, At
<1>13. CASE ReadGlyphs
  BY <1>13 DEF ReadGlyphs, Asserted, EfiAssert, At
<1>14. CASE ClassCheck
  BY <1>14 DEF ClassCheck, LoadReturns, Returned, Behind
<1>15. CASE CopySegment
  BY <1>15 DEF CopySegment, Following, EfiAssert
<1>16. CASE SegmentsDone
  BY <1>16 DEF SegmentsDone, Goto
<1>17. CASE SizeMemoryMap
  BY <1>17 DEF SizeMemoryMap, Spare, At
<1>18. CASE AllocateMemoryMap
  BY <1>18 DEF AllocateMemoryMap, AssertedPool, PoolTaken, EfiAssert, At
<1>19. CASE GetMemoryMap
  BY <1>19 DEF GetMemoryMap, SizeGot, EfiAssert, At
<1>20. CASE ExitBootServices
  BY <1>20 DEF ExitBootServices, EfiAssert, At
<1>21. CASE EnterKernel
  BY <1>21 DEF EnterKernel, Goto
<1>22. CASE CallUndefined
  <2> SUFFICES ASSUME ~forced PROVE services = "exited" /\ pc = "Menu"
    BY <1>22 DEF CallUndefined
  <2>1. pc \in Calls /\ ~At(pc)
    BY <1>22 DEF CallUndefined
  <2>2. Uses(pc) \subseteq held
    BY <2>1 DEF Uses, Calls
  <2>3. services = "exited"
    BY <2>1, <2>2 DEF At, TypeOK, FirmwareTypeOK
  <2> QED
    BY <2>1, <2>3 DEF Calls
<1>23. CASE KernelReturns
  BY <1>23 DEF KernelReturns, Release, Returned, Behind
<1>24. CASE DebuggerContinues
  BY <1>24 DEF DebuggerContinues, Release
<1>25. CASE \E char \in {"q", "r", "s"} : MenuKey(char)
  BY <1>25 DEF MenuKey, At, Globals
<1>26. CASE FirmwareEvent
  BY <1>26 DEF FirmwareEvent, MapChanges
<1>27. CASE UNCHANGED vars
  BY <1>27 DEF vars
<1> QED
  BY <1>1, <1>2, <1>3, <1>4, <1>5, <1>6, <1>7, <1>8, <1>9, <1>10, <1>11, <1>12, <1>13, <1>14, <1>15, <1>16, <1>17, <1>18, <1>19, <1>20, <1>21, <1>22, <1>23, <1>24, <1>25, <1>26, <1>27
  DEF Next, Program, EfiReadFile, EfiLoadFont

(***************************************************************************)
(* A refused ExitBootServices, or a map that does not fit, was disturbed.  *)
(***************************************************************************)
LEMMA QuietStep ==
  ASSUME TypeOK, ControlInv, PointersInv, MapInv, QuietExitSucceeds, [Next]_vars
  PROVE  QuietExitSucceeds'
<1> USE DEF QuietExitSucceeds, MapInv, PointersInv
<1>1. CASE EfiInitGraphics
  BY <1>1 DEF EfiInitGraphics, Asserted, EfiAssert, At, Uses
<1>2. CASE EfiInitializeFileSystem
  BY <1>2 DEF EfiInitializeFileSystem, Asserted, EfiAssert, At, Uses
<1>3. CASE EfiOpenFile
  BY <1>3 DEF EfiOpenFile, Asserted, EfiAssert, At, Uses
<1>4. CASE NoFileHandle
  BY <1>4 DEF NoFileHandle, At, LoadReturns, Returned, Behind
<1>5. CASE AllocateFile
  BY <1>5 DEF AllocateFile, AssertedPool, PoolTaken, EfiAssert, At
<1>6. CASE ReadFile
  BY <1>6 DEF ReadFile, EfiAssert, At
<1>7. CASE EfiLoadKernel
  BY <1>7 DEF EfiLoadKernel, Goto, LoadReturns, Returned, Behind
<1>8. CASE NoFontFile
  BY <1>8 DEF NoFontFile, Goto
<1>9. CASE ReadFontHeader
  BY <1>9 DEF ReadFontHeader, Asserted, EfiAssert, At
<1>10. CASE CheckFontMagic
  BY <1>10 DEF CheckFontMagic, Magic, EfiAssert, At
<1>11. CASE SeekGlyphs
  BY <1>11 DEF SeekGlyphs, EfiAssert, At
<1>12. CASE AllocateGlyphs
  BY <1>12 DEF AllocateGlyphs, AssertedPool, PoolTaken, EfiAssert, At
<1>13. CASE ReadGlyphs
  BY <1>13 DEF ReadGlyphs, Asserted, EfiAssert, At
<1>14. CASE ClassCheck
  BY <1>14 DEF ClassCheck, LoadReturns, Returned, Behind
<1>15. CASE CopySegment
  BY <1>15 DEF CopySegment, Following, EfiAssert
<1>16. CASE SegmentsDone
  BY <1>16 DEF SegmentsDone, Goto
<1>17. CASE SizeMemoryMap
  BY <1>17 DEF SizeMemoryMap, Spare, At
<1>18. CASE AllocateMemoryMap
  BY <1>18 DEF AllocateMemoryMap, AssertedPool, PoolTaken, EfiAssert, At
<1>19. CASE GetMemoryMap
  BY <1>19 DEF GetMemoryMap, SizeGot, EfiAssert, At
<1>20. CASE ExitBootServices
  BY <1>20 DEF ExitBootServices, EfiAssert, At
<1>21. CASE EnterKernel
  BY <1>21 DEF EnterKernel, Goto
<1>22. CASE CallUndefined
  BY <1>22 DEF CallUndefined, At, Calls, Uses
<1>23. CASE KernelReturns
  BY <1>23 DEF KernelReturns, Release, Returned, Behind
<1>24. CASE DebuggerContinues
  BY <1>24 DEF DebuggerContinues, Release
<1>25. CASE \E char \in {"q", "r", "s"} : MenuKey(char)
  BY <1>25 DEF MenuKey, At, Globals
<1>26. CASE FirmwareEvent
  BY <1>26 DEF FirmwareEvent, MapChanges
<1>27. CASE UNCHANGED vars
  BY <1>27 DEF vars
<1> QED
  BY <1>1, <1>2, <1>3, <1>4, <1>5, <1>6, <1>7, <1>8, <1>9, <1>10, <1>11, <1>12, <1>13, <1>14, <1>15, <1>16, <1>17, <1>18, <1>19, <1>20, <1>21, <1>22, <1>23, <1>24, <1>25, <1>26, <1>27
  DEF Next, Program, EfiReadFile, EfiLoadFont

-----------------------------------------------------------------------------
(***************************************************************************)
(* IInv holds initially, and every step keeps it.                          *)
(***************************************************************************)
LEMMA InvInit == Init => IInv
<1> SUFFICES ASSUME Init PROVE IInv
  OBVIOUS
<1>1. TypeOK
  BY TypeInit
<1>2. pc = "Graphics" /\ services = "active"
  BY DEF Init, FirmwareInit
<1>3. ControlInv /\ PointersInv
  BY <1>2 DEF ControlInv, PointersInv, FontPath, Opened, Loaded, ExitPath
<1>4. FilesInv /\ MapInv /\ NoWildSteps /\ QuietExitSucceeds
  BY <1>2 DEF FilesInv, MapInv, NoWildSteps, QuietExitSucceeds, Loaded, FontPath, ExitPath
<1> QED
  BY <1>1, <1>3, <1>4 DEF IInv

(***************************************************************************)
(* One step of the specification.                                          *)
(***************************************************************************)
LEMMA InvStep == IInv /\ [Next]_vars => IInv'
BY TypeStep, ControlStep, PointersStep, FilesStep, MapStep, WildStep, QuietStep DEF IInv

(***************************************************************************)
(* The inductive invariant is an invariant.                                *)
(***************************************************************************)
THEOREM Inductive == Spec => []IInv
BY InvInit, InvStep, PTL DEF Spec

(***************************************************************************)
(* Type correctness: in every reachable state each variable of the loader  *)
(* and of the firmware has its type, and efi_main loads at most twice.     *)
(***************************************************************************)
THEOREM TypeCorrect == Spec => []TypeOK
<1>1. IInv => TypeOK
  BY DEF IInv
<1> QED
  BY <1>1, Inductive, PTL

(***************************************************************************)
(* What the kernel may rely on when the loader jumps to it (efi_main.c:610 *)
(* and 631): boot services gone, the frozen memory map in hand, the file in*)
(* memory, the font loaded, every segment in its bounds.                   *)
(***************************************************************************)
THEOREM HandoffIsSound == Spec => []HandoffSound
<1>1. IInv => HandoffSound
  <2> SUFFICES ASSUME IInv, pc \in {"EnterKernel", "Kernel"}, ~forced
               PROVE  /\ services = "exited"
                      /\ MemoryMapSize = entries
                      /\ MapKey = key
                      /\ {"memory map", "graphics", "kernel data"} \subseteq held
                      /\ image = disk
                      /\ image.format = "elf" => FontLoaded /\ SegmentsFit
    BY DEF HandoffSound
  <2>1. services = "exited"
    BY DEF IInv, ControlInv
  <2>2. MemoryMapSize = entries /\ MapKey = key
    BY <2>1 DEF IInv, MapInv
  <2>3. {"memory map", "graphics", "kernel data"} \subseteq held
    BY DEF IInv, PointersInv, Opened, Loaded, ExitPath
  <2>4. image = disk /\ (image.format = "elf" => FontLoaded /\ SegmentsFit)
    BY DEF IInv, FilesInv, Loaded, ExitPath
  <2> QED
    BY <2>1, <2>2, <2>3, <2>4
<1> QED
  BY <1>1, Inductive, PTL

(***************************************************************************)
(* Unless a failure is stepped over, no location of efi_main.c calls       *)
(* through NULL, and none but the menu calls a service that is gone.       *)
(***************************************************************************)
THEOREM NoWildCalls == Spec => []NoWildSteps
<1>1. IInv => NoWildSteps
  BY DEF IInv
<1> QED
  BY <1>1, Inductive, PTL

(***************************************************************************)
(* The two spare descriptors of line 495 suffice, and without a firmware   *)
(* event ExitBootServices is never refused, whatever the map.              *)
(***************************************************************************)
THEOREM QuietExit == Spec => []QuietExitSucceeds
<1>1. IInv => QuietExitSucceeds
  BY DEF IInv
<1> QED
  BY <1>1, Inductive, PTL

-----------------------------------------------------------------------------
(***************************************************************************)
(* What a step can do to the firmware: run on, pass the machine over, or,  *)
(* once it is passed over, nothing.                                        *)
(***************************************************************************)
LEMMA FirmwareStep ==
  ASSUME TypeOK, [Next]_vars
  PROVE  \/ services = "active" /\ services' = "active"
         \/ UNCHANGED <<services, entries, key, MemoryMapSize, MapKey>>
         \/ /\ pc = "Exit" /\ services = "active" /\ services' = "exited"
            /\ MapKey = key
            /\ UNCHANGED <<entries, key, MemoryMapSize, MapKey, forced>>
<1>1. CASE EfiInitGraphics
  BY <1>1 DEF EfiInitGraphics, Asserted, EfiAssert, At, Uses
<1>2. CASE EfiInitializeFileSystem
  BY <1>2 DEF EfiInitializeFileSystem, Asserted, EfiAssert, At, Uses
<1>3. CASE EfiOpenFile
  BY <1>3 DEF EfiOpenFile, Asserted, EfiAssert, At, Uses
<1>4. CASE NoFileHandle
  BY <1>4 DEF NoFileHandle, At, LoadReturns, Returned, Behind
<1>5. CASE AllocateFile
  BY <1>5 DEF AllocateFile, AssertedPool, PoolTaken, EfiAssert, At
<1>6. CASE ReadFile
  BY <1>6 DEF ReadFile, EfiAssert, At
<1>7. CASE EfiLoadKernel
  BY <1>7 DEF EfiLoadKernel, Goto, LoadReturns, Returned, Behind
<1>8. CASE NoFontFile
  BY <1>8 DEF NoFontFile, Goto
<1>9. CASE ReadFontHeader
  BY <1>9 DEF ReadFontHeader, Asserted, EfiAssert, At
<1>10. CASE CheckFontMagic
  BY <1>10 DEF CheckFontMagic, Magic, EfiAssert, At
<1>11. CASE SeekGlyphs
  BY <1>11 DEF SeekGlyphs, EfiAssert, At
<1>12. CASE AllocateGlyphs
  BY <1>12 DEF AllocateGlyphs, AssertedPool, PoolTaken, EfiAssert, At
<1>13. CASE ReadGlyphs
  BY <1>13 DEF ReadGlyphs, Asserted, EfiAssert, At
<1>14. CASE ClassCheck
  BY <1>14 DEF ClassCheck, LoadReturns, Returned, Behind
<1>15. CASE CopySegment
  BY <1>15 DEF CopySegment, Following, EfiAssert
<1>16. CASE SegmentsDone
  BY <1>16 DEF SegmentsDone, Goto
<1>17. CASE SizeMemoryMap
  BY <1>17 DEF SizeMemoryMap, Spare, At
<1>18. CASE AllocateMemoryMap
  BY <1>18 DEF AllocateMemoryMap, AssertedPool, PoolTaken, EfiAssert, At
<1>19. CASE GetMemoryMap
  BY <1>19 DEF GetMemoryMap, SizeGot, EfiAssert, At
<1>20. CASE ExitBootServices
  BY <1>20 DEF ExitBootServices, EfiAssert, At
<1>21. CASE EnterKernel
  BY <1>21 DEF EnterKernel, Goto
<1>22. CASE CallUndefined
  BY <1>22 DEF CallUndefined, At, Calls, Uses
<1>23. CASE KernelReturns
  BY <1>23 DEF KernelReturns, Release, Returned, Behind
<1>24. CASE DebuggerContinues
  BY <1>24 DEF DebuggerContinues, Release
<1>25. CASE \E char \in {"q", "r", "s"} : MenuKey(char)
  BY <1>25 DEF MenuKey, At, Globals
<1>26. CASE FirmwareEvent
  BY <1>26 DEF FirmwareEvent, MapChanges
<1>27. CASE UNCHANGED vars
  BY <1>27 DEF vars
<1> QED
  BY <1>1, <1>2, <1>3, <1>4, <1>5, <1>6, <1>7, <1>8, <1>9, <1>10, <1>11, <1>12, <1>13, <1>14, <1>15, <1>16, <1>17, <1>18, <1>19, <1>20, <1>21, <1>22, <1>23, <1>24, <1>25, <1>26, <1>27
  DEF Next, Program, EfiReadFile, EfiLoadFont

(***************************************************************************)
(* No step takes back that a failure was stepped over.                     *)
(***************************************************************************)
LEMMA ForcedStays ==
  ASSUME TypeOK, [Next]_vars, forced
  PROVE  forced'
BY DEF Next, Program, vars, EfiInitGraphics, EfiInitializeFileSystem, EfiOpenFile,
       Asserted, AssertedPool, NoFileHandle, AllocateFile, ReadFile, EfiReadFile,
       EfiLoadKernel, EfiLoadFont, NoFontFile, ReadFontHeader, CheckFontMagic,
       SeekGlyphs, AllocateGlyphs, ReadGlyphs, ClassCheck, CopySegment,
       SegmentsDone, SizeMemoryMap, AllocateMemoryMap, GetMemoryMap,
       ExitBootServices, EnterKernel, CallUndefined, KernelReturns,
       DebuggerContinues, MenuKey, FirmwareEvent, Goto, LoadReturns, Returned

(***************************************************************************)
(* Boot implements Handoff: the size, the allocation, the second           *)
(* GetMemoryMap and ExitBootServices (efi_main.c:474-520), with the firmware*)
(* running between them, amount to one atomic hand-over of the current map.*)
(***************************************************************************)
THEOREM Refinement == Spec => HandsOver
<1>1. Init => Abstract!HandoffInit
  BY DEF Init, FirmwareInit, Abstract!HandoffInit, Owner, View
<1>2. IInv /\ [Next]_vars =>
        [Abstract!FirmwareRuns \/ Abstract!Take \/ Abstract!StepOver]_(Abstract!handoff)
  <2> SUFFICES ASSUME IInv, [Next]_vars
               PROVE  \/ Abstract!FirmwareRuns
                      \/ Abstract!Take
                      \/ Abstract!StepOver
                      \/ UNCHANGED Abstract!handoff
    OBVIOUS
  <2>1. CASE forced'
    BY <2>1 DEF Abstract!StepOver, Owner, View
  <2>2. CASE ~forced'
    <3>1. ~forced
      BY <2>2, ForcedStays DEF IInv
    <3>2. CASE services = "active" /\ services' = "active"
      BY <2>2, <3>1, <3>2 DEF Abstract!FirmwareRuns, Owner, View
    <3>3. CASE UNCHANGED <<services, entries, key, MemoryMapSize, MapKey>>
      BY <2>2, <3>1, <3>3 DEF Abstract!handoff, Owner, View
    <3>4. CASE /\ pc = "Exit" /\ services = "active" /\ services' = "exited"
               /\ MapKey = key
               /\ UNCHANGED <<entries, key, MemoryMapSize, MapKey, forced>>
      <4>1. MemoryMapSize = entries
        BY <3>1, <3>4 DEF IInv, MapInv
      <4> QED
        BY <2>2, <3>1, <3>4, <4>1 DEF Abstract!Take, Owner, View
    <3> QED
      BY <3>2, <3>3, <3>4, FirmwareStep DEF IInv
  <2> QED
    BY <2>1, <2>2
<1> QED
  BY <1>1, <1>2, Inductive, PTL DEF Spec, HandsOver, Abstract!HandoffSpec

=============================================================================
