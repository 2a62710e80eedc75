------------------------------ MODULE Handoff -------------------------------
(***************************************************************************)
(* What the bootloader promises, without how it does it: the machine       *)
(* passes from the firmware to the kernel in one step, in which the kernel *)
(* gets the memory map the firmware has at that instant, and the firmware  *)
(* never touches the map again.  A developer who steps over a failure      *)
(* (EfiHalt, src/efi_main.c:43-50) takes the machine out of the promise.   *)
(***************************************************************************)
VARIABLES
  owner,   \* who runs the machine: "firmware", "kernel" or "debugger"
  map,     \* the firmware's memory map
  view     \* the map the kernel was given

handoff == <<owner, map, view>>

HandoffInit == owner = "firmware" /\ view = << >>

FirmwareRuns ==
  /\ owner = "firmware"
  /\ UNCHANGED <<owner, view>>

Take ==
  /\ owner = "firmware"
  /\ owner' = "kernel"
  /\ view' = map
  /\ map' = map

StepOver ==
  /\ owner' = "debugger"
  /\ view' = << >>

HandoffSpec == HandoffInit /\ [][FirmwareRuns \/ Take \/ StepOver]_handoff
=============================================================================
