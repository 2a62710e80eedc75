------------------------------ MODULE IntString -----------------------------
(***************************************************************************)
(* U64ToString of src/format.c: divide, terminate, reverse in place.       *)
(*                                                                         *)
(* The characters are the digits 0 .. Base - 1 and NUL.  The array has     *)
(* Room places, char16 data[20]; the model has one more behind it, which   *)
(* is the neighbour in memory.  A number of Room digits fills the array    *)
(* and its terminator goes to that neighbour: 64 bits have 20 digits.      *)
(***************************************************************************)
EXTENDS Integers, Format

CONSTANTS
  Numbers,  \* the values of the parameter n
  Base,     \* 10 for every caller
  Room,     \* the 20 of IntString.data
  NUL

ASSUME IntStringAssumption ==
  /\ Base \in Nat /\ Base >= 2
  /\ Room \in Nat /\ Room >= 2
  /\ Numbers \subseteq 0..(Power(Base, Room) - 1)
  /\ NUL \notin 0..(Base - 1)

VARIABLES
  pc,      \* the loop control is in: "divide", "terminate", "reverse", "done"
  number,  \* the argument, before n is divided
  n,
  data,    \* string.data and the place behind it
  i, j

vars == <<pc, number, n, data, i, j>>

Places == 0..Room

TypeOK ==
  /\ pc \in {"divide", "terminate", "reverse", "done"}
  /\ number \in Numbers
  /\ n \in Nat
  /\ data \in [Places -> 0..(Base - 1) \cup {NUL}]
  /\ i \in 0..Room
  /\ j \in 0..Room

Init ==
  /\ pc = "divide"
  /\ number \in Numbers
  /\ n = number
  /\ data = [k \in Places |-> NUL]      \* IntString string = {}
  /\ i = 0
  /\ j = 0
-----------------------------------------------------------------------------
(***************************************************************************)
(* One turn of the first loop: the last digit of n, then n /= base.        *)
(* Mutant: n is tested before it is divided, which leaves a leading zero.  *)
(***************************************************************************)
LastDigitLate == n = 0
LastDigit == n \div Base = 0

Divide ==
  /\ pc = "divide"
  /\ data' = [data EXCEPT ![i] = n % Base]
  /\ i' = i + 1
  /\ n' = n \div Base
  /\ pc' = IF LastDigit THEN "terminate" ELSE "divide"
  /\ UNCHANGED <<number, j>>

(***************************************************************************)
(* Mutant: the terminator is put where i stays (data[i] for data[i--]).    *)
(***************************************************************************)
LastPlaceStays == i
LastPlace == i - 1

Terminate ==
  /\ pc = "terminate"
  /\ data' = [data EXCEPT ![i] = NUL]
  /\ i' = LastPlace
  /\ pc' = "reverse"
  /\ UNCHANGED <<number, n, j>>

(***************************************************************************)
(* One turn of the second loop: data[j] and data[i] change places.         *)
(***************************************************************************)
Reverse ==
  /\ pc = "reverse"
  /\ j < i
  /\ data' = [data EXCEPT ![j] = data[i], ![i] = data[j]]
  /\ j' = j + 1
  /\ i' = i - 1
  /\ UNCHANGED <<pc, number, n>>

Return ==
  /\ pc = "reverse"
  /\ j >= i
  /\ pc' = "done"
  /\ UNCHANGED <<number, n, data, i, j>>

Next == Divide \/ Terminate \/ Reverse \/ Return

Spec == Init /\ [][Next]_vars
-----------------------------------------------------------------------------
(***************************************************************************)
(* What is returned is the numeral of the argument: some length of digits, *)
(* each the right one, the first not 0 unless it is the only one, and NUL  *)
(* behind the last.                                                        *)
(***************************************************************************)
Digit(k) == (number \div Power(Base, k)) % Base

IsNumeral(length) ==
  /\ number < Power(Base, length)
  /\ length = 1 \/ number >= Power(Base, length - 1)
  /\ \A k \in 0..(length - 1) : data[k] = Digit(length - 1 - k)
  /\ data[length] = NUL

Converts == pc = "done" => \E length \in 1..Room : IsNumeral(length)

(***************************************************************************)
(* The array is left only by a number of Room digits, and then only for    *)
(* its terminator: with room for all digits and one more, U64ToString      *)
(* writes nothing but its array (format.c:86 and 92 have no bound).        *)
(***************************************************************************)
Writes == pc \in {"divide", "terminate"}

StaysInside ==
  Writes /\ i = Room => pc = "terminate" /\ number >= Power(Base, Room - 1)
=============================================================================
