------------------------------- MODULE Assert -------------------------------
(***************************************************************************)
(* EfiAssert of src/efi_main.c on top of EfiPrintF: a status with its top  *)
(* bit set is reported, with file, line and text, and the loader halts.    *)
(* A caller of EfiPrintF other than EfiAssert is one of Calls.             *)
(***************************************************************************)
EXTENDS Printf, Status

CONSTANTS
  Statuses,     \* what is asserted: what the firmware returns, or EFI_ERROR
  LineNumbers   \* of the asserts

(***************************************************************************)
(* The string literals of the program, in the order of their addresses.    *)
(***************************************************************************)
Literals == <<"file", "ERROR", "Successful">> \o WarningTexts \o ErrorTexts

ASSUME AssertAssumption ==
  /\ Statuses \subseteq EFI_STATUS
  /\ Len(Literals) < WordValues
  /\ LineNumbers \subseteq 0..(HalfInt - 1)

VARIABLES
  caller,   \* "other", or where EfiAssert is: "assert", "report", "halted", "back"
  status,   \* its parameters
  line

assert == <<caller, status, line>>

(***************************************************************************)
(* The address of a literal; literals that are equal may share one.        *)
(***************************************************************************)
AddressOf(text) ==
  CHOOSE k \in DOMAIN Literals :
    Literals[k] = text /\ \A j \in 1..(k - 1) : Literals[j] # text

AssertFormat == <<"a", "%", "s", "a", "%", "d", "a", "%", "s", "a">>

(***************************************************************************)
(* EfiPrintF before its first call, and a call of it.                      *)
(***************************************************************************)
NotCalled ==
  /\ pc = "returned" /\ format = << >> /\ list = << >>
  /\ character = 1 /\ arg = 0 /\ open = FALSE /\ out = << >>

Call(f, l) ==
  /\ pc' = "run" /\ format' = f /\ list' = l
  /\ character' = 1 /\ arg' = 0 /\ open' = TRUE
  /\ UNCHANGED out

Success == [error |-> FALSE, code |-> 0]

AssertInit ==
  /\ line \in LineNumbers
  /\ \/ Init /\ caller = "other" /\ status = Success
     \/ NotCalled /\ caller = "assert" /\ status \in Statuses
-----------------------------------------------------------------------------
(***************************************************************************)
(* The test of the top bit, and the call of EfiPrintF; a warning is no     *)
(* failure.                                                                *)
(***************************************************************************)
EfiAssert ==
  /\ caller = "assert"
  /\ \/ /\ status.error
        /\ caller' = "report"
        /\ Call(AssertFormat,
                <<AddressOf("file"), line, AddressOf(EfiErrorString(status))>>)
     \/ /\ ~status.error
        /\ caller' = "back"
        /\ UNCHANGED vars
  /\ UNCHANGED <<status, line>>

(***************************************************************************)
(* EfiPrintF is back, and EfiHalt spins.                                   *)
(***************************************************************************)
EfiHalt ==
  /\ caller = "report"
  /\ pc = "returned"
  /\ caller' = "halted"
  /\ UNCHANGED <<vars, status, line>>

(***************************************************************************)
(* "Change to 0 in debugger to continue": the assert returns after all.    *)
(***************************************************************************)
Release ==
  /\ caller = "halted"
  /\ caller' = "back"
  /\ UNCHANGED <<vars, status, line>>

AssertNext ==
  \/ EfiAssert
  \/ EfiHalt
  \/ Release
  \/ Next /\ UNCHANGED assert

AssertSpec == AssertInit /\ [][AssertNext]_<<vars, assert>>
-----------------------------------------------------------------------------
(***************************************************************************)
(* The pieces of one kind (SelectSeq, as a function one can prove about).  *)
(***************************************************************************)
Selected(pieces, call) ==
  LET selected[k \in 0..Len(pieces)] ==
        IF k = 0 THEN << >>
        ELSE IF pieces[k].call = call THEN Append(selected[k - 1], pieces[k])
        ELSE selected[k - 1]
  IN  selected[Len(pieces)]

Of(call) == Selected(out, call)

(***************************************************************************)
(* The screen of a halt tells where and why: the line of the assert, and,  *)
(* for a status of the table, a text that no other one has, except that    *)
(* EFI_HTTP_ERROR is shown with the text of EFI_END_OF_FILE                *)
(* (efi_error.h:187).  A status outside the table, the bare EFI_ERROR of   *)
(* efi_main.c:587 among them, is not told from another such status, but is *)
(* never shown with the text of one in the table.                          *)
(***************************************************************************)
SharedText == {[error |-> TRUE, code |-> 29], [error |-> TRUE, code |-> 33]}

ReportTells ==
  caller = "halted" =>
    /\ Len(Of("numeral")) = 1 /\ Value(Of("numeral")[1]) = line
    /\ Len(Of("text")) = 2 /\ Of("text")[1].address = AddressOf("file")
    /\ LET meant == {s \in Defined :
                       AddressOf(EfiErrorString(s)) = Of("text")[2].address}
       IN  IF status \in Defined
           THEN status \in meant /\ meant \subseteq {status} \cup SharedText
           ELSE meant = {}
=============================================================================
