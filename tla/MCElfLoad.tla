----------------------------- MODULE MCElfLoad ------------------------------
(***************************************************************************)
(* Kernels for ElfLoad on a memory of twelve cells, the upper four out of  *)
(* the firmware's way.                                                     *)
(***************************************************************************)
EXTENDS ElfLoad

MCAll == 0..11
MCLow == 0..7

Segment(offset, address, filesize, memsize) ==
  [load |-> TRUE, offset |-> offset, address |-> address,
   filesize |-> filesize, memsize |-> memsize]
Note == [load |-> FALSE, offset |-> 0, address |-> 0, filesize |-> 0, memsize |-> 0]

Kernel(size, programs) == [size |-> size, entry |-> 8, programs |-> programs]

MCFiles ==
  {Kernel(4, <<Segment(2, 8, 1, 1), Segment(3, 9, 1, 1)>>),  \* code and data
   Kernel(4, <<Segment(2, 8, 2, 2), Segment(3, 9, 1, 1)>>),  \* overlapping
   Kernel(3, <<Segment(1, 9, 2, 3)>>),                       \* with bss
   Kernel(4, <<Note, Segment(0, 8, 4, 4)>>),                 \* headers loaded too
   Kernel(3, <<Segment(2, 8, 1, 0)>>),                       \* too large
   Kernel(0, << >>),                                         \* empty
   Kernel(4, <<Segment(0, 9, 2, 2), Segment(2, 10, 2, 2)>>), \* one over the other
   Kernel(6, <<Segment(4, 8, 2, 2)>>),                       \* longer than the buffer
   Kernel(4, <<Segment(2, 1, 2, 2), Note>>),                 \* in the way
   Kernel(4, <<Segment(2, 5, 2, 2), Segment(0, 7, 2, 2)>>),  \* partly in the way
   Kernel(4, <<Segment(3, 8, 2, 2)>>),                       \* half of it in the file
   Kernel(3, <<Segment(1, 11, 2, 2)>>)}                      \* past the end

MCKernels == {f \in MCFiles : f.size < 6}
=============================================================================
