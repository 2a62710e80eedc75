------------------------------- MODULE Format -------------------------------
(***************************************************************************)
(* What the conversions of src/format.c are for: the numeral of a number   *)
(* in a base, as the sequence of its digits, most significant first, and   *)
(* the two hexadecimal forms.  Digit d stands for the character            *)
(* (d < 10) ? '0' + d : 'A' + d - 10; the "0x" is left out.  IntString and *)
(* HexString are the loops that compute these; Printf uses the results.    *)
(*                                                                         *)
(* The provers know nothing of "^", so powers are a recursive function.    *)
(***************************************************************************)
EXTENDS Naturals, Sequences

Power(base, exponent) ==
  LET power[k \in Nat] == IF k = 0 THEN 1 ELSE base * power[k - 1]
  IN  power[exponent]

(***************************************************************************)
(* n in exactly length digits, and without leading zeros.                  *)
(***************************************************************************)
Padded(n, base, length) ==
  [k \in 1..length |-> (n \div Power(base, length - k)) % base]

LengthOf(n, base) ==
  CHOOSE length \in 1..(n + 1) :
    /\ n < Power(base, length)
    /\ length = 1 \/ n >= Power(base, length - 1)

Numeral(n, base) == Padded(n, base, LengthOf(n, base))

(***************************************************************************)
(* n by bytes, two digits of radix each, without the leading zero bytes;   *)
(* nothing at all for 0.                                                   *)
(***************************************************************************)
TruncatedHex(n, radix) ==
  IF n = 0 THEN << >>
  ELSE Padded(n, radix, 2 * LengthOf(n, radix * radix))

(***************************************************************************)
(* The number that digits stand for: what a reader makes of them.          *)
(***************************************************************************)
NumberOf(digits, base) ==
  LET number[k \in 0..Len(digits)] ==
        IF k = 0 THEN 0 ELSE base * number[k - 1] + digits[k]
  IN  number[Len(digits)]
=============================================================================
