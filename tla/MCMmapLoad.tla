----------------------------- MODULE MCMmapLoad -----------------------------
(***************************************************************************)
(* Five pages of two cells, the process in the last one, and kernels of    *)
(* one or two segments at every place.                                     *)
(***************************************************************************)
EXTENDS MmapLoad

LoadAt(address, filesize, memsize) ==
  [load |-> TRUE, offset |-> 1, address |-> address, filesize |-> filesize,
   memsize |-> memsize]
Note == [load |-> FALSE, offset |-> 0, address |-> 0, filesize |-> 0, memsize |-> 0]

Elf(class, programs) == [size |-> 3, class |-> class, programs |-> programs]

Sizes == {<<0, 0>>, <<1, 1>>, <<1, 3>>, <<2, 2>>, <<3, 3>>, <<2, 1>>}

OneSegment == {<<LoadAt(a, s[1], s[2])>> : a \in 0..8, s \in Sizes}
TwoSegments ==
  {<<LoadAt(a, 1, 2), Note, LoadAt(b, 2, 3)>> : a \in 0..8, b \in 0..7}
Spilling ==
  {<<LoadAt(a, 1, 2), LoadAt(b, 2, 1)>> : a \in 0..8, b \in 0..8}

MCKernels ==
  {Elf(c, p) : c \in {1, 2}, p \in OneSegment}
    \cup {Elf(2, p) : p \in TwoSegments \cup Spilling}
=============================================================================
