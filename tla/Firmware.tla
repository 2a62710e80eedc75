------------------------------ MODULE Firmware ------------------------------
(***************************************************************************)
(* The UEFI firmware as the bootloader meets it (EFI_BOOT_SERVICES of      *)
(* src/efi_main.h).  The firmware is not part of the repository: it is     *)
(* modelled from how src/efi_main.c uses it.                               *)
(*                                                                         *)
(* What matters to the loader is whether boot services still run, and the  *)
(* memory map they keep: how many descriptors it has (GetMemoryMap needs a *)
(* buffer for all of them) and its key, which changes whenever the map     *)
(* changes and which ExitBootServices compares.  Sizes are counted in      *)
(* descriptors, so DescriptorSize is 1.                                    *)
(***************************************************************************)
EXTENDS Naturals

CONSTANT MaxEvents      \* bound: firmware events per behaviour

ASSUME MaxEventsAssumption == MaxEvents \in Nat

VARIABLES
  services,   \* "active" until ExitBootServices succeeds, then "exited"
  entries,    \* descriptors in the firmware's memory map
  key,        \* the key of the current memory map
  events      \* firmware events so far

firmware == <<services, entries, key, events>>

FirmwareTypeOK ==
  /\ services \in {"active", "exited"}
  /\ entries \in Nat /\ entries >= 1
  /\ key \in Nat /\ key >= 1
  /\ events \in 0..MaxEvents

FirmwareInit ==
  /\ services = "active"
  /\ entries = 1
  /\ key = 1
  /\ events = 0

(***************************************************************************)
(* The effect of a successful AllocatePool on the map.  Cutting a range    *)
(* out of a free region replaces one descriptor by up to three.            *)
(***************************************************************************)
PoolTaken ==
  /\ key' = key + 1
  /\ entries' \in entries .. (entries + 2)
  /\ UNCHANGED <<services, events>>

(***************************************************************************)
(* While boot services are active the firmware's timer callbacks run under *)
(* the loader ("Interrupts enabled (no interrupt services are supported    *)
(* other than the UEFI boot services timer functions)", help.md), and a    *)
(* console call may allocate: either changes the map on its own.           *)
(***************************************************************************)
MapChanges ==
  /\ services = "active"
  /\ events < MaxEvents
  /\ events' = events + 1
  /\ key' = key + 1
  /\ entries' \in {n \in (entries - 1)..(entries + 1) : n >= 1}
  /\ UNCHANGED services
=============================================================================
