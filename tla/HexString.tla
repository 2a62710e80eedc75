------------------------------ MODULE HexString -----------------------------
(***************************************************************************)
(* ToHexString and ToHexStringTruncated of src/format.c: the loop over the *)
(* bytes of a number, most significant first, two digits for each.  The    *)
(* truncated form leaves out the zero bytes in front, all of them when the *)
(* number is 0.                                                            *)
(*                                                                         *)
(* The characters are the digits 0 .. Radix - 1, the "x" of "0x", and NUL. *)
(***************************************************************************)
EXTENDS Integers, Format

CONSTANTS
  HexNumbers, \* the values of the parameter data
  Radix,      \* 16
  Bytes,      \* 8, the length of x[]
  HexRoom,    \* the 20 of HexString.data
  X, HexNUL

ASSUME HexStringAssumption ==
  /\ Radix \in Nat /\ Radix >= 2
  /\ Bytes \in Nat /\ Bytes >= 1
  /\ HexRoom \in Nat /\ HexRoom > 2 * Bytes + 2
  /\ HexNumbers \subseteq 0..(Power(Radix * Radix, Bytes) - 1)

VARIABLES
  truncated,    \* which of the two functions runs
  argument,     \* the parameter data
  string,       \* string.data
  turn,         \* the loop variable i
  index,        \* locals of ToHexStringTruncated: bytes written,
  found_first   \* and whether there was one that is not 0

hexVars == <<truncated, argument, string, turn, index, found_first>>

HexPlaces == 0..(HexRoom - 1)
Characters == 0..(Radix - 1) \cup {X, HexNUL}

HexTypeOK ==
  /\ truncated \in BOOLEAN
  /\ argument \in HexNumbers
  /\ string \in [HexPlaces -> Characters]
  /\ turn \in 0..Bytes
  /\ index \in 0..turn
  /\ found_first \in BOOLEAN

HexInit ==
  /\ truncated \in BOOLEAN
  /\ argument \in HexNumbers
  /\ string = [p \in HexPlaces |-> IF p = 0 THEN 0 ELSE IF p = 1 THEN X ELSE HexNUL]
  /\ turn = 0
  /\ index = 0
  /\ found_first = FALSE
-----------------------------------------------------------------------------
(***************************************************************************)
(* (data & (mask << shift)) >> shift for x[m], and its two digits.         *)
(***************************************************************************)
Byte(m) == (argument \div Power(Radix * Radix, Bytes - 1 - m)) % (Radix * Radix)
High(m) == Byte(m) \div Radix
Low(m) == Byte(m) % Radix

(***************************************************************************)
(* The digits of byte m at place k of the string.                          *)
(* Mutant: they go to the place of the loop variable.                      *)
(***************************************************************************)
WrittenGap(k, m) == [string EXCEPT ![2 + 2 * m] = High(m), ![3 + 2 * m] = Low(m)]
Written(k, m) == [string EXCEPT ![2 + 2 * k] = High(m), ![3 + 2 * k] = Low(m)]

ToHexString ==
  /\ ~truncated
  /\ turn < Bytes
  /\ string' = Written(turn, turn)
  /\ turn' = turn + 1
  /\ UNCHANGED <<truncated, argument, index, found_first>>

ToHexStringTruncated ==
  /\ truncated
  /\ turn < Bytes
  /\ turn' = turn + 1
  /\ found_first' = (found_first \/ Byte(turn) # 0)
  /\ IF found_first'
     THEN string' = Written(index, turn) /\ index' = index + 1
     ELSE UNCHANGED <<string, index>>
  /\ UNCHANGED <<truncated, argument>>

HexNext == ToHexString \/ ToHexStringTruncated

HexSpec == HexInit /\ [][HexNext]_hexVars
-----------------------------------------------------------------------------
(***************************************************************************)
(* The string is "0x" and the digits of all bytes but the first skipped    *)
(* ones, which are 0, and a NUL behind them, inside the array.             *)
(***************************************************************************)
Shows(skipped) ==
  /\ string[0] = 0 /\ string[1] = X
  /\ \A m \in 0..(Bytes - 1) :
       IF m < skipped
       THEN Byte(m) = 0
       ELSE /\ string[2 + 2 * (m - skipped)] = High(m)
            /\ string[3 + 2 * (m - skipped)] = Low(m)
  /\ string[2 + 2 * (Bytes - skipped)] = HexNUL

(***************************************************************************)
(* ToHexString skips nothing, ToHexStringTruncated as much as it can.      *)
(***************************************************************************)
HexConverts ==
  turn = Bytes =>
    \E skipped \in 0..Bytes :
      /\ Shows(skipped)
      /\ IF truncated THEN skipped = Bytes \/ Byte(skipped) # 0 ELSE skipped = 0
=============================================================================
