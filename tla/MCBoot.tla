------------------------------- MODULE MCBoot -------------------------------
(***************************************************************************)
(* Small disks for Boot: a kernel of each kind, with no, one and two       *)
(* program headers.                                                        *)
(***************************************************************************)
EXTENDS BootProofs

Load(fits) == [load |-> TRUE, fits |-> fits]
Note == [load |-> FALSE, fits |-> FALSE]

Elf(class, programs) == [format |-> "elf", class |-> class, programs |-> programs]

Coff == [format |-> "coff", class |-> 0, programs |-> << >>]
Text == [format |-> "other", class |-> 0, programs |-> << >>]

MCKernels ==
  {Coff, Text, Elf(1, <<Load(TRUE)>>), Elf(2, <<Load(TRUE), Note>>),
   Elf(2, <<Load(FALSE)>>), Elf(3, << >>)}

MCFonts == {"good", "bad"}
=============================================================================
