------------------------------- MODULE Status -------------------------------
(***************************************************************************)
(* The statuses of src/efi_error.h and the texts EfiErrorString has for    *)
(* them.  A status is its top bit, EFI_ERROR, and its code.                *)
(***************************************************************************)
EXTENDS Naturals, Sequences

(***************************************************************************)
(* The texts, in the order of the codes from 1 on.  What matters is which  *)
(* are the same: blanks are written as underscores, which the provers can  *)
(* read.                                                                   *)
(***************************************************************************)
ErrorTexts ==
  <<"Load_Error", "Invalid_Parameter", "Unsupported", "Bad_Buffer_Size",
    "Buffer_Too_Small", "Not_Ready", "Device_Error", "Write_Protected",
    "Out_Of_Resources", "Volume_Corrupted", "Volume_Full", "No_Media",
    "Media_Changed", "File_Not_Found", "Access_Denied", "No_Response",
    "No_Mapping", "Timeout", "Not_Started", "Already_Started", "Aborted",
    "ICMP_Error", "TFTP_Error", "Protocol_Error", "Incompatible_Version",
    "Security_Violation", "CRC_Error", "End_Of_Media", "End_Of_File",
    "Invalid_Language", "Compromised_Data", "IP_Address_Conflict",
    "End_Of_File">>

WarningTexts ==
  <<"WARNING_Unknown_Glyph", "WARNING_Delete_Failure",
    "WARNING_Write_Failure", "WARNING_Buffer_Too_Small",
    "WARNING_Stale_Data", "WARNING_File_System",
    "WARNING_Reset_Required">>

EFI_STATUS == [error: BOOLEAN, code: Nat]

(***************************************************************************)
(* Those of the table.  EFI_ERROR alone, which EfiLoadElf asserts          *)
(* (efi_main.c:587), is not one of them.                                   *)
(***************************************************************************)
Defined ==
  [error: {TRUE}, code: 1..Len(ErrorTexts)] \cup
  [error: {FALSE}, code: 0..Len(WarningTexts)]

(***************************************************************************)
(* Mutant: the codes are looked at without the top bit.                    *)
(***************************************************************************)
EfiErrorStringMasked(status) ==
  IF status.code \in 1..Len(WarningTexts) THEN WarningTexts[status.code] ELSE "ERROR"

EfiErrorString(status) ==
  IF status \notin Defined THEN "ERROR"
  ELSE IF status.error THEN ErrorTexts[status.code]
  ELSE IF status.code = 0 THEN "Successful"
  ELSE WarningTexts[status.code]
=============================================================================
