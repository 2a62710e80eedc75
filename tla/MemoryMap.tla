------------------------------ MODULE MemoryMap ------------------------------
(***************************************************************************)
(* The two functions of src/efi_main.c about the memory map that nothing   *)
(* calls yet: EfiMemoryMap, which returns the key of the map, and          *)
(* EfiPrintMemoryMap, which lists a map with EfiPrintF, one call for each  *)
(* descriptor.                                                             *)
(*                                                                         *)
(* A map is a row of cells.  A descriptor has its type in the first cell   *)
(* and its number of pages in the second; the next one is DescriptorSize   *)
(* further, which may be more than the two cells this program knows of.    *)
(***************************************************************************)
EXTENDS Assert, Firmware

CONSTANTS
  Maps,             \* the maps that may be listed: sequences of descriptors
  DescriptorSizes,  \* in cells
  PageBytes,        \* 4096
  Kilobyte          \* 1024

(***************************************************************************)
(* The names of the enumeration, and the table of texts that is kept       *)
(* beside it, in another file.                                             *)
(***************************************************************************)
EFI_MEMORY_TYPE ==
  <<"EfiReservedMemoryType", "EfiLoaderCode", "EfiLoaderData",
    "EfiBootServicesCode", "EfiBootServicesData", "EfiRuntimeServicesCode",
    "EfiRuntimeServicesData", "EfiConventionalMemory", "EfiUnusableMemory",
    "EfiACPIReclaimMemory", "EfiACPIMemoryNVS", "EfiMemoryMappedIO",
    "EfiMemoryMappedIOPortSpace", "EfiPalCode", "EfiPersistentMemory",
    "EfiUnacceptedMemoryType", "EfiMaxMemoryType">>

EFI_MEMORY_TYPE_STRINGS ==
  <<"EfiReservedMemoryType", "EfiLoaderCode", "EfiLoaderData",
    "EfiBootServicesCode", "EfiBootServicesData", "EfiRuntimeServicesCode",
    "EfiRuntimeServicesData", "EfiConventionalMemory", "EfiUnusableMemory",
    "EfiACPIReclaimMemory", "EfiACPIMemoryNVS", "EfiMemoryMappedIO",
    "EfiMemoryMappedIOPortSpace", "EfiPalCode", "EfiPersistentMemory",
    "EfiUnacceptedMemoryType", "EfiMaxMemoryType">>

ASSUME MemoryMapAssumption ==
  /\ Maps \subseteq Seq([type: Nat, pages: Words])
  /\ DescriptorSizes \subseteq Nat /\ \A size \in DescriptorSizes : size >= 2
  /\ Len(Literals) + Len(EFI_MEMORY_TYPE_STRINGS) < WordValues
  /\ Kilobyte \in Nat /\ Kilobyte >= 1
  /\ PageBytes \in Nat /\ PageBytes % Kilobyte = 0
  /\ WordValues \div Kilobyte < TooLong

VARIABLES
  at,               \* where the two functions are; "none" when neither runs
  map,              \* parameters of EfiPrintMemoryMap
  DescriptorSize,
  i,                \* its locals
  TotalRam,
  MemoryMapSize,    \* locals of EfiMemoryMap
  MapKey

listing == <<map, DescriptorSize, i, TotalRam>>
getting == <<firmware, MemoryMapSize, MapKey>>
mapVars == <<vars, assert, at, listing, getting>>

MapTypeOK ==
  /\ FirmwareTypeOK
  /\ at \in {"none", "list", "total", "done", "wild",
             "size", "allocate", "get", "key", "halted"}
  /\ map \in Seq([type: Nat, pages: Words])
  /\ DescriptorSize \in Nat
  /\ i \in 0..Len(map)
  /\ TotalRam \in Words
  /\ {MemoryMapSize, MapKey} \subseteq Nat

MapInit ==
  /\ FirmwareInit
  /\ i = 0 /\ TotalRam = 0 /\ MemoryMapSize = 0 /\ MapKey = 0
  /\ \/ AssertInit /\ at = "none" /\ map = << >> /\ DescriptorSize = 0
     \/ /\ NotCalled /\ caller = "other" /\ status = Success /\ line = 0
        /\ \/ at = "list" /\ map \in Maps /\ DescriptorSize \in DescriptorSizes
           \/ at = "size" /\ map = << >> /\ DescriptorSize = 0
-----------------------------------------------------------------------------
(***************************************************************************)
(* A text of the table has an address behind the other literals.           *)
(***************************************************************************)
AddressOfType(type) == Len(Literals) + type + 1
TextAt(address) == EFI_MEMORY_TYPE_STRINGS[address - Len(Literals)]

(***************************************************************************)
(* The cells of the map, as the firmware has filled them.                  *)
(***************************************************************************)
Cell(a) ==
  LET n == (a \div DescriptorSize) + 1
  IN  CASE n \in DOMAIN map /\ a % DescriptorSize = 0 -> map[n].type
        [] n \in DOMAIN map /\ a % DescriptorSize = 1 -> map[n].pages
        [] OTHER -> 0

(***************************************************************************)
(* Mutants: the map is taken for an array of EFI_MEMORY_DESCRIPTOR.        *)
(***************************************************************************)
descArray == 2 * i
desc == i * DescriptorSize

MapEntriesArray == (Len(map) * DescriptorSize) \div 2
MapEntries == (Len(map) * DescriptorSize) \div DescriptorSize

(***************************************************************************)
(* NumberOfPages * 4096 / 1024 in 64 bits.  Mutant: the bytes.             *)
(***************************************************************************)
SizeOfBytes(pages) == (pages * PageBytes) % WordValues
SizeOf(pages) == ((pages * PageBytes) % WordValues) \div Kilobyte
kb == SizeOf(Cell(desc + 1))

(***************************************************************************)
(* Mutant: the total starts over with each descriptor.                     *)
(***************************************************************************)
TotalLast(size) == size
Total(size) == (TotalRam + size) % WordValues

LeftFormat == <<"%", "s", "a", "%", "z", "u", "a">>
RightFormat == <<"%", "s", "a", "%", "z", "u", "n">>
TotalFormat == <<"a", "%", "z", "u", "n">>

(***************************************************************************)
(* One turn of the loop, up to its call of EfiPrintF; the next one waits   *)
(* for that to return.  A type the table does not have (firmware and       *)
(* systems may use their own) makes a pointer of what lies behind it.      *)
(***************************************************************************)
Entry ==
  /\ at = "list" /\ pc = "returned"
  /\ i < MapEntries
  /\ i' = i + 1
  /\ TotalRam' = Total(kb)
  /\ \/ /\ Cell(desc) < Len(EFI_MEMORY_TYPE_STRINGS)
        /\ Call(IF i % 2 = 0 THEN LeftFormat ELSE RightFormat,
                <<AddressOfType(Cell(desc)), kb>>)
        /\ UNCHANGED at
     \/ /\ Cell(desc) >= Len(EFI_MEMORY_TYPE_STRINGS)
        /\ at' = "wild"
        /\ UNCHANGED vars
  /\ UNCHANGED <<assert, map, DescriptorSize, getting>>

TotalLine ==
  /\ at = "list" /\ pc = "returned"
  /\ i = MapEntries
  /\ at' = "total"
  /\ Call(TotalFormat, <<TotalRam>>)
  /\ UNCHANGED <<assert, listing, getting>>

Listed ==
  /\ at = "total" /\ pc = "returned"
  /\ at' = "done"
  /\ UNCHANGED <<vars, assert, listing, getting>>
-----------------------------------------------------------------------------
(***************************************************************************)
(* EfiMemoryMap.  The first GetMemoryMap is not asserted: when it fails    *)
(* without giving the size, the buffer is empty.  The buffer is never      *)
(* freed.                                                                  *)
(***************************************************************************)
SizeMemoryMap ==
  /\ at = "size"
  /\ at' = "allocate"
  /\ MemoryMapSize' \in {0, entries + 2}
  /\ UNCHANGED <<vars, assert, listing, firmware, MapKey>>

AllocateMemoryMap ==
  /\ at = "allocate"
  /\ \/ at' = "get" /\ PoolTaken
     \/ at' = "halted" /\ UNCHANGED firmware
  /\ UNCHANGED <<vars, assert, listing, MemoryMapSize, MapKey>>

GetMemoryMap ==
  /\ at = "get"
  /\ \/ /\ entries <= MemoryMapSize
        /\ at' = "key"
        /\ MemoryMapSize' = entries
        /\ MapKey' = key
     \/ at' = "halted" /\ UNCHANGED <<MemoryMapSize, MapKey>>
  /\ UNCHANGED <<vars, assert, listing, firmware>>

FirmwareEvent ==
  /\ at \in {"size", "allocate", "get", "key"}
  /\ MapChanges
  /\ UNCHANGED <<vars, assert, at, listing, MemoryMapSize, MapKey>>

MapNext ==
  \/ AssertNext /\ UNCHANGED <<at, listing, getting>>
  \/ Entry
  \/ TotalLine
  \/ Listed
  \/ SizeMemoryMap
  \/ AllocateMemoryMap
  \/ GetMemoryMap
  \/ FirmwareEvent

MapSpec == MapInit /\ [][MapNext]_mapVars /\ Turns
-----------------------------------------------------------------------------
(***************************************************************************)
(* The listing has one entry for each descriptor, in order, with the name  *)
(* its type has in the enumeration and its size, wherever the firmware     *)
(* has put the descriptors, and a total behind them.                       *)
(***************************************************************************)
Numbers == [k \in DOMAIN Of("numeral") |-> Value(Of("numeral")[k])]

ListsMap ==
  at = "done" =>
    /\ Len(Of("text")) = Len(map) /\ Len(Numbers) = Len(map) + 1
    /\ \A k \in DOMAIN map :
         /\ TextAt(Of("text")[k].address) = EFI_MEMORY_TYPE[map[k].type + 1]
         /\ map[k].pages * PageBytes < WordValues =>
              Numbers[k] = map[k].pages * (PageBytes \div Kilobyte)

(***************************************************************************)
(* What is printed as the total is what the printed entries add up to, as  *)
(* far as 64 bits go.                                                      *)
(***************************************************************************)
TotalAddsUp ==
  at = "done" =>
    LET sum[k \in 0..Len(map)] == IF k = 0 THEN 0 ELSE sum[k - 1] + Numbers[k]
    IN  Numbers[Len(Numbers)] = sum[Len(map)] % WordValues

(***************************************************************************)
(* An entry never overruns the array of U64ToString: the size in kilobytes *)
(* of whatever 64 bits say is too short for that.  Only a total may, and   *)
(* only a type outside the table is a pointer into the void.               *)
(***************************************************************************)
WildExplained ==
  /\ at = "list" => pc # "wild"
  /\ at = "total" /\ pc = "wild" => TotalRam >= TooLong
  /\ at = "wild" => map[i].type >= Len(EFI_MEMORY_TYPE)
=============================================================================
