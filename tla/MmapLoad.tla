------------------------------ MODULE MmapLoad ------------------------------
(***************************************************************************)
(* The hosted loader: load_elf64 of src/elf.c (bin/elf.c has the same      *)
(* function) and the main of bin/elf.c that reads build/kernel for it.     *)
(* Segments go to pages mapped with mmap, at the address the file asks     *)
(* for; two asserts stop the program when the system puts them elsewhere.  *)
(*                                                                         *)
(* Memory is a row of cells in pages.  A file is a row of cells; its       *)
(* headers are in the buffer main has read, which nothing overwrites.      *)
(***************************************************************************)
EXTENDS Integers, Sequences

CONSTANTS
  PageSize,   \* getpagesize()
  Pages,      \* pages of the address space, from 0 on
  Occupied,   \* the pages the process has already: code, heap, stack
  Kernels     \* what build/kernel may be

Segment == [load: BOOLEAN, offset: Nat, address: Nat, filesize: Nat, memsize: Nat]

ASSUME MmapLoadAssumption ==
  /\ PageSize \in Nat /\ PageSize >= 1
  /\ Pages \in Nat
  /\ Occupied \subseteq 0..(Pages - 1)
  /\ Kernels \subseteq [size: Nat, class: Nat, programs: Seq(Segment)]

VARIABLES
  pc,       \* the next step
  kernel,   \* the file
  source,   \* main's buffer: "NULL", "file", or "junk" after a read error
  i,        \* the loop variable of load_elf64
  mapped,   \* the pages load_elf64 has mapped
  memory    \* what each cell holds

vars == <<pc, kernel, source, i, mapped, memory>>

Addresses == 0..(Pages * PageSize - 1)
Contents == {"file", "junk", "zero", "process"} \X Nat
Of(what, n) == <<what, n>>

TypeOK ==
  /\ pc \in {"open", "measure", "allocate", "read", "load", "segment", "copy",
             "kernel", "exit", "aborted", "undefined"}
  /\ kernel \in Kernels
  /\ source \in {"NULL", "file", "junk"}
  /\ i \in 0..Len(kernel.programs)
  /\ mapped \subseteq 0..(Pages - 1)
  /\ memory \in [Addresses -> Contents]

Init ==
  /\ pc = "open"
  /\ kernel \in Kernels
  /\ source = "NULL"
  /\ i = 0
  /\ mapped = {}
  /\ memory = [a \in Addresses |-> Of("process", 0)]
-----------------------------------------------------------------------------
Step(loc, next) == pc = loc /\ pc' = next

(***************************************************************************)
(* main: fopen and the fseek to the end may fail, which leaves source      *)
(* NULL; the other calls end the program when they fail.                   *)
(***************************************************************************)
Open ==
  /\ \E next \in {"measure", "load"} : Step("open", next)
  /\ UNCHANGED <<kernel, source, i, mapped, memory>>

Measure ==
  /\ \E next \in {"allocate", "load", "exit"} : Step("measure", next)
  /\ UNCHANGED <<kernel, source, i, mapped, memory>>

Allocate ==
  /\ \E next \in {"read", "exit"} : Step("allocate", next)
  /\ UNCHANGED <<kernel, source, i, mapped, memory>>

(***************************************************************************)
(* A read error is reported, and the buffer used all the same.             *)
(***************************************************************************)
Read ==
  /\ \E next \in {"load", "exit"} : Step("read", next)
  /\ source' \in {"file", "junk"}
  /\ UNCHANGED <<kernel, i, mapped, memory>>

(***************************************************************************)
(* is_elf64 reads source[4], which faults when source is NULL; only the    *)
(* answer ELF_NO turns the file down.  A buffer of junk may be turned down *)
(* or may lead anywhere.                                                   *)
(***************************************************************************)
IsElf64 ==
  /\ pc = "load"
  /\ \/ source # "file" /\ pc' = "undefined"
     \/ source = "junk" /\ pc' = "exit"
     \/ source = "file" /\ kernel.class = 1 /\ pc' = "exit"
     \/ source = "file" /\ kernel.class # 1 /\ pc' = "segment"
  /\ UNCHANGED <<kernel, source, i, mapped, memory>>
-----------------------------------------------------------------------------
program == kernel.programs[i + 1]

(***************************************************************************)
(* The page-aligned range handed to mmap (elf.c:40-46; a page size is a    *)
(* power of two).                                                          *)
(***************************************************************************)
aligned == program.address - (program.address % PageSize)
align_size == (program.address + program.memsize) - aligned

PageOf(a) == a \div PageSize

(***************************************************************************)
(* Mutant: the length is not corrected for the alignment.                  *)
(***************************************************************************)
RequestedShort == PageOf(aligned)..PageOf(aligned + program.memsize - 1)

Requested == PageOf(aligned)..PageOf(aligned + align_size - 1)

(***************************************************************************)
(* mmap with a hint: the system takes the hint when those pages are free   *)
(* and otherwise another place, where the second assert stops the program; *)
(* it may refuse altogether, and does refuse a length of 0.                *)
(* Mutant: the place is forced (MAP_FIXED), over pages that are in use.    *)
(***************************************************************************)
FreeOrFixed == TRUE
HintTaken == Requested \cap (mapped \cup Occupied) = {}

Map ==
  /\ pc = "segment"
  /\ i < Len(kernel.programs)
  /\ program.load
  /\ \/ /\ align_size > 0
        /\ Requested \subseteq 0..(Pages - 1)
        /\ HintTaken
        /\ mapped' = mapped \cup Requested
        /\ memory' = [a \in Addresses |->
                        IF PageOf(a) \in Requested THEN Of("zero", 0) ELSE memory[a]]
        /\ pc' = "copy"
     \/ pc' = "aborted" /\ UNCHANGED <<mapped, memory>>
  /\ UNCHANGED <<kernel, source, i>>

Skip ==
  /\ pc = "segment"
  /\ i < Len(kernel.programs)
  /\ ~program.load
  /\ i' = i + 1
  /\ UNCHANGED <<pc, kernel, source, mapped, memory>>

(***************************************************************************)
(* memcpy of file_size bytes: behind the end of the file it reads junk,    *)
(* and a page nobody has mapped faults.                                    *)
(***************************************************************************)
Written == program.address .. (program.address + program.filesize - 1)

FileCell(n) == IF n < kernel.size THEN Of("file", n) ELSE Of("junk", 0)

(***************************************************************************)
(* Mutant: the loop variable moves twice.                                  *)
(***************************************************************************)
AfterTwice == i + 2
After == i + 1

Copy ==
  /\ pc = "copy"
  /\ \/ /\ \A a \in Written : PageOf(a) \in mapped \cup Occupied
        /\ memory' = [a \in Addresses |->
                        IF a \in Written
                        THEN FileCell(a - program.address + program.offset)
                        ELSE memory[a]]
        /\ i' = After
        /\ pc' = "segment"
     \/ /\ \E a \in Written : PageOf(a) \notin mapped \cup Occupied
        /\ pc' = "undefined"
        /\ UNCHANGED <<i, memory>>
  /\ UNCHANGED <<kernel, source, mapped>>

(***************************************************************************)
(* The call of the entry point, and its return through main.               *)
(***************************************************************************)
Enter ==
  /\ i = Len(kernel.programs)
  /\ Step("segment", "kernel")
  /\ UNCHANGED <<kernel, source, i, mapped, memory>>

KernelReturns ==
  /\ Step("kernel", "exit")
  /\ UNCHANGED <<kernel, source, i, mapped, memory>>

Next ==
  \/ Open
  \/ Measure
  \/ Allocate
  \/ Read
  \/ IsElf64
  \/ Map
  \/ Skip
  \/ Copy
  \/ Enter
  \/ KernelReturns

Spec == Init /\ [][Next]_vars
-----------------------------------------------------------------------------
(***************************************************************************)
(* The bytes of a segment that are more than its memory: nothing in elf.c  *)
(* checks that there are none, and memcpy writes them behind the segment.  *)
(***************************************************************************)
Segments == {n \in 1..Len(kernel.programs) : kernel.programs[n].load}

Spill(n) ==
  LET segment == kernel.programs[n]
  IN  (segment.address + segment.memsize) .. (segment.address + segment.filesize - 1)

Spilled(a) == \E n \in Segments : a \in Spill(n)

(***************************************************************************)
(* Whatever the file is, the kernel is entered with every segment in       *)
(* place, its bytes from the file first and zeros behind them              *)
(* (elf.c:29-32), but for bytes the file does not have and cells that a    *)
(* segment spills over; also when segments of the file would overlap: then *)
(* the asserts have stopped the program.                                   *)
(***************************************************************************)
InPlace(n) ==
  LET segment == kernel.programs[n]
  IN  \A k \in 0..(segment.memsize - 1) :
        LET a == segment.address + k
        IN  ~Spilled(a) =>
              /\ k < segment.filesize /\ segment.offset + k < kernel.size =>
                   memory[a] = Of("file", segment.offset + k)
              /\ k >= segment.filesize => memory[a] = Of("zero", 0)

Loaded == pc = "kernel" => \A n \in Segments : InPlace(n)

(***************************************************************************)
(* What the process had before is changed only where a segment spills over *)
(* it: mapping never takes a page away from it, and a segment that is not  *)
(* larger in the file than in memory is copied to its own pages.           *)
(***************************************************************************)
ProcessUntouched ==
  \A a \in Addresses :
    PageOf(a) \in Occupied /\ memory[a] # Of("process", 0) => Spilled(a)

(***************************************************************************)
(* A file that has been read makes the loader fault only at a byte that is *)
(* spilled behind its segment, never within a segment.                     *)
(***************************************************************************)
NoFault ==
  pc = "undefined" /\ source = "file" =>
    \E a \in Spill(i + 1) : PageOf(a) \notin mapped \cup Occupied

(***************************************************************************)
(* "assert((uint64_t) result == aligned)" (elf.c:56): for a kernel whose   *)
(* segments neither overlap nor spill, on addresses the process does not   *)
(* use, mmap finds the pages of its hint free.                             *)
(***************************************************************************)
Overlap(n, m) ==
  LET s == kernel.programs[n]
      t == kernel.programs[m]
  IN  s.address < t.address + t.memsize /\ t.address < s.address + s.memsize

Separate ==
  /\ \A n \in Segments : Spill(n) = {}
  /\ \A n, m \in Segments : n # m => ~Overlap(n, m)
  /\ \A n \in Segments :
       LET segment == kernel.programs[n]
       IN  \A a \in segment.address .. (segment.address + segment.memsize - 1) :
             PageOf(a) \notin Occupied

HintFree ==
  pc = "segment" /\ i < Len(kernel.programs) /\ program.load /\ Separate =>
    HintTaken
=============================================================================
