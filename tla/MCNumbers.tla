----------------------------- MODULE MCNumbers ------------------------------
(***************************************************************************)
(* The conversions of src/format.c side by side: U64ToString in base 3     *)
(* with four places, every number of up to four digits; the hexadecimal    *)
(* forms with three bytes of two binary digits, every number.  They share  *)
(* nothing, so that one of the two arguments may stay 0.                   *)
(***************************************************************************)
EXTENDS IntString, HexString

MCNumbers == 0..(Base^Room - 1)
MCHexNumbers == 0..((Radix * Radix)^Bytes - 1)

MCInit == Init /\ HexInit /\ (number = 0 \/ argument = 0)

MCNext ==
  \/ Next /\ UNCHANGED hexVars
  \/ HexNext /\ UNCHANGED vars

MCSpec == MCInit /\ [][MCNext]_<<vars, hexVars>>
=============================================================================
