---------------------------- MODULE NumberProofs -----------------------------
(***************************************************************************)
(* The conversions of src/format.c are right for every number: U64ToString *)
(* in every base and array, the two hexadecimal conversions for every      *)
(* radix and width.  What they return is what Format defines, and they     *)
(* stay inside their arrays, except U64ToString for the terminator of a    *)
(* number that fills the array with digits.                                *)
(***************************************************************************)
EXTENDS IntString, HexString, FormatProofs
-----------------------------------------------------------------------------
(***************************************************************************)
(* The inductive invariant.  While dividing, n is the part of the number   *)
(* that has not been written, and the digits stand in reverse; afterwards  *)
(* i + j + 1 is their number, those outside j..i are in their final place  *)
(* and those inside still in reverse.                                      *)
(***************************************************************************)
Dividing ==
  pc = "divide" =>
    /\ n = number \div Power(Base, i)
    /\ i = 0 \/ n # 0
    /\ j = 0
    /\ \A k \in 0..(i - 1) : data[k] = Digit(k)

Length == IF pc = "terminate" THEN i ELSE i + j + 1

Shortest ==
  pc # "divide" =>
    /\ Length \in 1..Room
    /\ number < Power(Base, Length)
    /\ Length = 1 \/ number >= Power(Base, Length - 1)

Terminating ==
  pc = "terminate" => j = 0 /\ \A k \in 0..(i - 1) : data[k] = Digit(k)

Reversing ==
  pc \in {"reverse", "done"} =>
    /\ pc = "done" => j >= i
    /\ data[Length] = NUL
    /\ \A k \in 0..(Length - 1) :
         data[k] = IF k \in j..i THEN Digit(k) ELSE Digit(Length - 1 - k)

IInv == TypeOK /\ Dividing /\ Shortest /\ Terminating /\ Reversing

(***************************************************************************)
(* The powers, and the digits they pick.                                   *)
(***************************************************************************)
LEMMA Powers ==
  /\ Base \in Nat /\ Base >= 2
  /\ \A k \in Nat : Power(Base, k) \in Nat /\ Power(Base, k) >= 1
  /\ Power(Base, 0) = 1
  /\ \A k \in Nat : Power(Base, k + 1) = Base * Power(Base, k)
<1>1. Base \in Nat /\ Base >= 2 /\ Base >= 1
  BY IntStringAssumption DEF IntStringAssumption
<1> QED BY <1>1, PowerEquations, PowerPositive

LEMMA NumberSmall ==
  TypeOK => number \in Nat /\ number < Power(Base, Room)
<1>1. Power(Base, Room) \in Nat
  BY Powers, IntStringAssumption DEF IntStringAssumption
<1> QED BY <1>1, IntStringAssumption DEF IntStringAssumption, TypeOK

LEMMA DigitType ==
  ASSUME number \in Nat, NEW k \in 0..Room
  PROVE  Digit(k) \in 0..(Base - 1)
<1>1. Power(Base, k) \in Nat /\ Power(Base, k) >= 1 /\ Base \in Nat /\ Base >= 1
  BY Powers, IntStringAssumption DEF IntStringAssumption
<1>2. number \div Power(Base, k) \in Nat
  BY <1>1, Division
<1>3. (number \div Power(Base, k)) % Base \in Nat /\ (number \div Power(Base, k)) % Base < Base
  BY <1>1, <1>2, Division
<1> QED BY <1>1, <1>3 DEF Digit

(***************************************************************************)
(* Before the first division nothing has been written.                     *)
(***************************************************************************)
LEMMA Initially == Init => IInv
<1> SUFFICES ASSUME Init PROVE IInv
  OBVIOUS
<1> USE DEF Init
<1>1. number \in Nat
  BY IntStringAssumption DEF IntStringAssumption
<1>2. TypeOK
  BY <1>1, IntStringAssumption DEF IntStringAssumption, TypeOK, Places
<1>3. Power(Base, 0) = 1 /\ number \div 1 = number
  BY <1>1, Powers, QuotientUnique
<1> QED BY <1>2, <1>3 DEF IInv, Dividing, Shortest, Terminating, Reversing

(***************************************************************************)
(* The first loop never runs out of its Room places.                       *)
(***************************************************************************)
LEMMA RoomToDivide ==
  ASSUME TypeOK, Dividing, pc = "divide"
  PROVE  i \in 0..(Room - 1)
<1>1. Power(Base, Room) \in Nat /\ Power(Base, Room) >= 1 /\ number \in Nat /\ Room \in Nat /\ Room >= 1
  BY Powers, NumberSmall, IntStringAssumption DEF IntStringAssumption
<1>2. number \div Power(Base, Room) = 0
  BY <1>1, NumberSmall, QuotientZero
<1>3. i # Room
  BY <1>1, <1>2 DEF Dividing
<1> QED BY <1>1, <1>3 DEF TypeOK

LEMMA DivideKeeps == IInv /\ Divide => IInv'
<1> SUFFICES ASSUME IInv, Divide PROVE IInv'
  OBVIOUS
<1> USE DEF IInv
<1>1. /\ pc = "divide" /\ i \in 0..(Room - 1) /\ i' = i + 1
      /\ j = 0 /\ j' = 0 /\ number' = number /\ n' = n \div Base
      /\ n = number \div Power(Base, i) /\ (i = 0 \/ n # 0)
  BY RoomToDivide DEF Divide, LastDigit, Dividing
<1>2. /\ Room \in Nat /\ Base \in Nat /\ Base >= 2
      /\ number \in Nat /\ n \in Nat
      /\ Power(Base, i) \in Nat /\ Power(Base, i) >= 1
      /\ Power(Base, i + 1) \in Nat /\ Power(Base, i + 1) >= 1
      /\ Power(Base, i + 1) = Base * Power(Base, i)
  BY <1>1, Powers, NumberSmall, IntStringAssumption DEF IntStringAssumption, TypeOK
<1>3. n' = number \div Power(Base, i + 1)
  BY <1>1, <1>2, QuotientOfQuotient
<1>4. n % Base = Digit(i) /\ Digit(i) \in 0..(Base - 1)
  <2>1. i \in 0..Room
    BY <1>1, <1>2
  <2> QED BY <1>1, <1>2, <2>1, DigitType DEF Digit
<1>5. /\ data \in [Places -> 0..(Base - 1) \cup {NUL}]
      /\ data' = [data EXCEPT ![i] = Digit(i)]
      /\ i \in Places
  BY <1>1, <1>2, <1>4 DEF TypeOK, Divide, LastDigit, Places
<1>6. data' \in [Places -> 0..(Base - 1) \cup {NUL}]
  BY <1>4, <1>5
<1>7. \A k \in 0..i : data'[k] = Digit(k)
  <2> SUFFICES ASSUME NEW k \in 0..i PROVE data'[k] = Digit(k)
    OBVIOUS
  <2>1. k \in Places
    BY <1>1, <1>2 DEF Places
  <2>2. CASE k = i
    BY <1>5, <2>2
  <2>3. CASE k # i
    <3>1. k \in 0..(i - 1)
      BY <1>1, <1>2, <2>3
    <3>2. data[k] = Digit(k)
      BY <1>1, <3>1 DEF Dividing
    <3> QED BY <1>5, <2>1, <2>3, <3>2
  <2> QED BY <2>2, <2>3
<1>8. \A k \in 0..(i' - 1) : data'[k] = Digit(k)'
  BY <1>1, <1>2, <1>7 DEF Digit
<1>9. n' \in Nat
  BY <1>2, <1>3, Division
<1>10. TypeOK'
  BY <1>1, <1>2, <1>6, <1>9 DEF TypeOK, Divide, LastDigit
<1>11. CASE n' = 0
  <2>1. pc' = "terminate"
    BY <1>1, <1>11 DEF Divide, LastDigit
  <2>2. number < Power(Base, i + 1)
    BY <1>2, <1>3, <1>11, QuotientZero
  <2>3. i = 0 \/ number >= Power(Base, i)
    BY <1>1, <1>2, QuotientZero
  <2>4. Shortest'
    BY <1>1, <1>2, <2>1, <2>2, <2>3 DEF Shortest, Length
  <2> QED BY <1>1, <1>8, <1>10, <2>1, <2>4 DEF Dividing, Terminating, Reversing
<1>12. CASE n' # 0
  <2>1. pc' = "divide"
    BY <1>1, <1>12 DEF Divide, LastDigit
  <2> QED BY <1>1, <1>3, <1>8, <1>10, <1>12, <2>1
           DEF Dividing, Shortest, Terminating, Reversing
<1> QED BY <1>11, <1>12

LEMMA TerminateKeeps == IInv /\ Terminate => IInv'
<1> SUFFICES ASSUME IInv, Terminate PROVE IInv'
  OBVIOUS
<1> USE DEF IInv
<1>1. /\ pc = "terminate" /\ pc' = "reverse" /\ i' = i - 1
      /\ j = 0 /\ j' = 0 /\ number' = number /\ n' = n
      /\ data' = [data EXCEPT ![i] = NUL]
      /\ Room \in Nat /\ i \in 1..Room
      /\ number < Power(Base, i) /\ (i = 1 \/ number >= Power(Base, i - 1))
  BY IntStringAssumption DEF IntStringAssumption, Terminate, LastPlace, Terminating, Shortest, Length
<1>2. Length' = i
  BY <1>1 DEF Length
<1>3. i \in Places /\ data \in [Places -> 0..(Base - 1) \cup {NUL}]
  BY <1>1 DEF TypeOK, Places
<1>4. data' \in [Places -> 0..(Base - 1) \cup {NUL}] /\ data'[i] = NUL
  BY <1>1, <1>3
<1>5. TypeOK'
  BY <1>1, <1>4 DEF TypeOK
<1>6. \A k \in 0..(i - 1) : data'[k] = Digit(k)'
  <2> SUFFICES ASSUME NEW k \in 0..(i - 1) PROVE data'[k] = Digit(k)
    BY <1>1 DEF Digit
  <2>1. k \in Places /\ k # i
    BY <1>1 DEF Places
  <2>2. data[k] = Digit(k)
    BY <1>1 DEF Terminating
  <2> QED BY <1>1, <1>3, <2>1, <2>2
<1>7. Reversing'
  <2>1. \A k \in 0..(i - 1) : k \in j'..i'
    BY <1>1
  <2> QED BY <1>1, <1>2, <1>4, <1>6, <2>1 DEF Reversing
<1> QED BY <1>1, <1>2, <1>5, <1>7 DEF Dividing, Shortest, Terminating

(***************************************************************************)
(* A swap puts the two outermost digits in their final place.              *)
(***************************************************************************)
LEMMA ReverseKeeps == IInv /\ Reverse => IInv'
<1> SUFFICES ASSUME IInv, Reverse PROVE IInv'
  OBVIOUS
<1> USE DEF IInv
<1>1. /\ pc = "reverse" /\ pc' = "reverse" /\ j < i
      /\ i' = i - 1 /\ j' = j + 1 /\ number' = number /\ n' = n
      /\ data' = [data EXCEPT ![j] = data[i], ![i] = data[j]]
  BY DEF Reverse
<1>2. Room \in Nat /\ i \in 0..Room /\ j \in 0..Room /\ i \in Int /\ j \in Int
  BY IntStringAssumption DEF IntStringAssumption, TypeOK
<1>3. Length = i + j + 1 /\ Length' = i + j + 1
  BY <1>1, <1>2 DEF Length
<1> DEFINE length == i + j + 1
<1>4. length \in 1..Room /\ data[length] = NUL
  BY <1>1, <1>3 DEF Shortest, Reversing
<1>5. /\ i \in Places /\ j \in Places /\ i # j
      /\ data \in [Places -> 0..(Base - 1) \cup {NUL}]
  BY <1>1, <1>2 DEF TypeOK, Places
<1>6. /\ data' \in [Places -> 0..(Base - 1) \cup {NUL}]
      /\ data'[j] = data[i] /\ data'[i] = data[j]
      /\ \A k \in Places : k # i /\ k # j => data'[k] = data[k]
  BY <1>1, <1>5
<1>7. TypeOK'
  BY <1>1, <1>2, <1>6 DEF TypeOK
<1>8. data'[length] = NUL
  <2>1. length \in Places /\ length # i /\ length # j
    BY <1>2, <1>4 DEF Places
  <2> QED BY <1>4, <1>6, <2>1
<1>9. \A k \in 0..(length - 1) :
        data[k] = IF k \in j..i THEN Digit(k) ELSE Digit(length - 1 - k)
  BY <1>1, <1>3 DEF Reversing
<1>10. ASSUME NEW k \in 0..(length - 1)
       PROVE  data'[k] = IF k \in j'..i' THEN Digit(k) ELSE Digit(length - 1 - k)
  <2>1. k \in Places /\ k \in Int
    BY <1>2, <1>4 DEF Places
  <2>2. CASE k = j
    <3>1. k \notin j'..i' /\ length - 1 - k = i
      BY <1>1, <1>2, <2>2
    <3>2. i \in j..i /\ i \in 0..(length - 1)
      BY <1>1, <1>2
    <3>3. data[i] = Digit(i)
      BY <1>9, <3>2
    <3> QED BY <1>6, <2>2, <3>1, <3>3
  <2>3. CASE k = i
    <3>1. k \notin j'..i' /\ length - 1 - k = j
      BY <1>1, <1>2, <2>3
    <3>2. j \in j..i /\ j \in 0..(length - 1)
      BY <1>1, <1>2
    <3>3. data[j] = Digit(j)
      BY <1>9, <3>2
    <3> QED BY <1>6, <2>3, <3>1, <3>3
  <2>4. CASE k # i /\ k # j
    <3>1. data'[k] = data[k]
      BY <1>6, <2>1, <2>4
    <3>2. k \in j..i <=> k \in j'..i'
      BY <1>1, <1>2, <2>1, <2>4
    <3> QED BY <1>9, <3>1, <3>2
  <2> QED BY <2>2, <2>3, <2>4
<1>11. Reversing'
  BY <1>1, <1>3, <1>8, <1>10 DEF Reversing, Digit
<1>12. Shortest'
  BY <1>1, <1>3 DEF Shortest
<1> QED BY <1>1, <1>7, <1>11, <1>12 DEF Dividing, Terminating

LEMMA ReturnKeeps == IInv /\ Return => IInv'
<1> SUFFICES ASSUME IInv, Return PROVE IInv'
  OBVIOUS
<1> USE DEF IInv
<1>1. /\ pc = "reverse" /\ pc' = "done" /\ j >= i
      /\ i' = i /\ j' = j /\ number' = number /\ n' = n /\ data' = data
  BY DEF Return
<1>2. Length' = Length
  BY <1>1 DEF Length
<1>3. TypeOK'
  BY <1>1 DEF TypeOK
<1>4. Shortest'
  BY <1>1, <1>2 DEF Shortest
<1>5. Reversing'
  BY <1>1, <1>2 DEF Reversing, Digit
<1> QED BY <1>1, <1>3, <1>4, <1>5 DEF Dividing, Terminating

LEMMA StutterKeeps == IInv /\ UNCHANGED vars => IInv'
BY DEF vars, IInv, TypeOK, Dividing, Shortest, Terminating, Reversing, Length, Digit

LEMMA StepKeeps == IInv /\ [Next]_vars => IInv'
BY DivideKeeps, TerminateKeeps, ReverseKeeps, ReturnKeeps, StutterKeeps DEF Next
-----------------------------------------------------------------------------
(***************************************************************************)
(* The invariant of the two loops.                                         *)
(***************************************************************************)
THEOREM Inductive == Spec => []IInv
BY Initially, StepKeeps, PTL DEF Spec

(***************************************************************************)
(* For every number, base and array: U64ToString returns the numeral of    *)
(* its argument, as short as it can be and NUL-terminated.                 *)
(***************************************************************************)
LEMMA ReversedIsNumeral == IInv => Converts
<1> SUFFICES ASSUME IInv, pc = "done"
             PROVE  \E length \in 1..Room : IsNumeral(length)
  BY DEF Converts
<1> USE DEF IInv
<1>1. i \in Int /\ j \in Int /\ j >= i /\ Length = i + j + 1
  BY DEF TypeOK, Reversing, Length
<1>2. /\ Length \in 1..Room
      /\ number < Power(Base, Length)
      /\ Length = 1 \/ number >= Power(Base, Length - 1)
      /\ data[Length] = NUL
  BY DEF Shortest, Reversing
<1>3. ASSUME NEW k \in 0..(Length - 1)
      PROVE  data[k] = Digit(Length - 1 - k)
  <2>1. CASE k \in j..i
    <3>1. Length - 1 - k = k
      BY <1>1, <2>1
    <3> QED BY <2>1, <3>1 DEF Reversing
  <2>2. CASE k \notin j..i
    BY <2>2 DEF Reversing
  <2> QED BY <2>1, <2>2
<1>4. IsNumeral(Length)
  BY <1>2, <1>3 DEF IsNumeral
<1> QED BY <1>2, <1>4

THEOREM Correct == Spec => []Converts
BY Inductive, ReversedIsNumeral, PTL

(***************************************************************************)
(* The array is left only for the terminator of a number of Room digits:   *)
(* twenty digits, for the twenty places of IntString.                      *)
(***************************************************************************)
LEMMA InsideByInvariant == IInv => StaysInside
<1> SUFFICES ASSUME IInv, Writes, i = Room
             PROVE  pc = "terminate" /\ number >= Power(Base, Room - 1)
  BY DEF StaysInside
<1> USE DEF IInv
<1>1. Room \in Nat /\ Room >= 2
  BY IntStringAssumption DEF IntStringAssumption
<1>2. pc # "divide"
  BY <1>1, RoomToDivide
<1>3. pc = "terminate" /\ Length = Room
  BY <1>2 DEF Writes, Length
<1> QED BY <1>1, <1>3 DEF Shortest

THEOREM Inside == Spec => []StaysInside
BY Inductive, InsideByInvariant, PTL

(***************************************************************************)
(* Every variable keeps its type; the indices stay in 0..Room.             *)
(***************************************************************************)
THEOREM NumberTypes == Spec => []TypeOK
<1>1. IInv => TypeOK
  BY DEF IInv
<1> QED BY <1>1, Inductive, PTL

(***************************************************************************)
(* The loops of U64ToString compute the numeral that Format defines and    *)
(* EfiPrintF takes for granted: a number has only one.                     *)
(***************************************************************************)
ComputesNumeral ==
  pc = "done" =>
    LET numeral == Numeral(number, Base)
    IN  /\ \A k \in DOMAIN numeral : data[k - 1] = numeral[k]
        /\ data[Len(numeral)] = NUL

LEMMA NumeralByInvariant == TypeOK /\ Converts => ComputesNumeral
<1> SUFFICES ASSUME TypeOK, Converts, pc = "done"
             PROVE  LET numeral == Numeral(number, Base)
                    IN  /\ \A k \in DOMAIN numeral : data[k - 1] = numeral[k]
                        /\ data[Len(numeral)] = NUL
  BY DEF ComputesNumeral
<1>1. PICK length \in 1..Room : IsNumeral(length)
  BY DEF Converts
<1>2. /\ number \in Nat /\ length \in Nat /\ length >= 1
      /\ Base \in Nat /\ Base >= 2 /\ Base >= 1
  BY NumberSmall, Powers, IntStringAssumption DEF IntStringAssumption
<1>3. LengthOf(number, Base) = length
  BY <1>1, <1>2, LengthUnique DEF IsNumeral
<1> DEFINE numeral == Numeral(number, Base)
<1>4. /\ numeral \in Seq(Nat) /\ Len(numeral) = length
      /\ \A k \in 1..length : numeral[k] = (number \div Power(Base, length - k)) % Base
  BY <1>2, <1>3, PaddedDigits DEF Numeral
<1> HIDE DEF numeral
<1>5. ASSUME NEW k \in DOMAIN numeral
      PROVE  data[k - 1] = numeral[k]
  <2> DEFINE m == k - 1
             e == length - k
  <2>1. k \in 1..length /\ m \in 0..(length - 1) /\ length - 1 - m = e
    BY <1>2, <1>4
  <2>2. numeral[k] = Digit(e)
    BY <1>4, <2>1 DEF Digit
  <2> HIDE DEF m, e
  <2>3. data[m] = Digit(e)
    BY <1>1, <2>1 DEF IsNumeral
  <2> QED BY <2>2, <2>3 DEF m
<1> QED BY <1>1, <1>4, <1>5 DEF IsNumeral, numeral

(***************************************************************************)
(* What U64ToString returns is what EfiPrintF is modelled with, for every  *)
(* number, base and array: Printf may use Numeral for the call.            *)
(***************************************************************************)
THEOREM NumeralComputed == Spec => []ComputesNumeral
<1>1. IInv => TypeOK
  BY DEF IInv
<1> QED BY <1>1, Inductive, ReversedIsNumeral, NumeralByInvariant, PTL
-----------------------------------------------------------------------------
LEMMA Constants ==
  /\ Radix \in Nat /\ Radix >= 2
  /\ Bytes \in Nat /\ Bytes >= 1
  /\ HexRoom \in Nat /\ HexRoom > 2 * Bytes + 2
  /\ HexNumbers \subseteq Nat
BY HexStringAssumption DEF HexStringAssumption

(***************************************************************************)
(* A byte of the argument, of which e bytes are less significant.          *)
(***************************************************************************)
LEMMA ByteOfQuotient ==
  ASSUME argument \in HexNumbers, NEW m \in 0..(Bytes - 1)
  PROVE  \E q \in Nat :
           \E e \in Nat :
             /\ e = Bytes - 1 - m
             /\ Power(Radix * Radix, e) \in Nat /\ Power(Radix * Radix, e) >= 1
             /\ q = argument \div Power(Radix * Radix, e)
             /\ Byte(m) = q % (Radix * Radix)
<1> DEFINE e == Bytes - 1 - m
           square == Radix * Radix
           power == Power(square, e)
           q == argument \div power
<1>1. e \in Nat /\ argument \in Nat
  BY Constants
<1>2. square \in Nat /\ square >= 1
  BY Constants
<1>3. Byte(m) = q % square
  BY DEF Byte
<1> HIDE DEF square, e
<1>4. power \in Nat /\ power >= 1
  BY <1>1, <1>2, PowerPositive
<1> HIDE DEF power
<1>5. q \in Nat
  BY <1>1, <1>4, Division
<1> QED BY <1>1, <1>3, <1>4, <1>5 DEF q, power, e, square

(***************************************************************************)
(* Both digits of a byte are digits.                                       *)
(***************************************************************************)
LEMMA DigitTypes ==
  ASSUME argument \in HexNumbers, NEW m \in 0..(Bytes - 1)
  PROVE  High(m) \in 0..(Radix - 1) /\ Low(m) \in 0..(Radix - 1)
<1>1. PICK q \in Nat : Byte(m) = q % (Radix * Radix)
  BY ByteOfQuotient
<1>2. Radix * Radix \in Nat /\ Radix * Radix >= 1
  BY Constants
<1>3. Byte(m) \in Nat /\ Byte(m) < Radix * Radix
  BY <1>1, <1>2, Division
<1>4. Byte(m) \div Radix \in Nat /\ Byte(m) \div Radix < Radix
  BY <1>3, Constants, Division, SmallQuotient
<1>5. Byte(m) % Radix \in Nat /\ Byte(m) % Radix < Radix
  BY <1>3, Constants, Division
<1> QED BY <1>4, <1>5, Constants DEF High, Low
-----------------------------------------------------------------------------
(***************************************************************************)
(* The inductive invariant: the first Skipped bytes are 0, the others are  *)
(* written one behind the other, and the rest of the array is NUL.         *)
(***************************************************************************)
Skipped == IF truncated THEN turn - index ELSE 0

Front ==
  /\ \A m \in 0..(Skipped - 1) : Byte(m) = 0
  /\ truncated => IF index = 0 THEN ~found_first
                  ELSE found_first /\ Byte(Skipped) # 0
  /\ ~truncated => index = 0

Behind ==
  /\ string[0] = 0 /\ string[1] = X
  /\ \A m \in Skipped..(turn - 1) : /\ string[2 + 2 * (m - Skipped)] = High(m)
                                 /\ string[3 + 2 * (m - Skipped)] = Low(m)
  /\ \A p \in (2 + 2 * (turn - Skipped))..(HexRoom - 1) : string[p] = HexNUL

HexIInv == HexTypeOK /\ Front /\ Behind

LEMMA HexInitially == HexInit => HexIInv
<1> SUFFICES ASSUME HexInit PROVE HexIInv
  OBVIOUS
<1>1. HexTypeOK
  <2>1. string \in [HexPlaces -> Characters]
    <3>1. 0 \in Characters /\ X \in Characters /\ HexNUL \in Characters
      BY Constants DEF Characters
    <3> QED BY <3>1 DEF HexInit
  <2>2. turn \in 0..Bytes /\ index \in 0..turn
    BY Constants DEF HexInit
  <2> QED BY <2>1, <2>2 DEF HexInit, HexTypeOK
<1>2. Skipped = 0
  BY DEF HexInit, Skipped
<1>3. Front
  BY <1>2 DEF HexInit, Front
<1>4. Behind
  BY <1>2, Constants DEF HexInit, Behind, HexPlaces
<1> QED BY <1>1, <1>3, <1>4 DEF HexIInv

(***************************************************************************)
(* Writing byte i behind the bytes that are there.                         *)
(***************************************************************************)
LEMMA WriteKeeps ==
  ASSUME HexIInv, turn < Bytes, turn' = turn + 1, UNCHANGED <<truncated, argument>>,
         string' = Written(turn - Skipped, turn), Skipped' = Skipped
  PROVE  string' \in [HexPlaces -> Characters] /\ Behind'
<1> USE DEF HexIInv
<1> DEFINE k == turn - Skipped
           h == 2 + 2 * k
           l == 3 + 2 * k
<1>1. /\ turn \in 0..(Bytes - 1) /\ turn \in Nat
      /\ Skipped \in 0..turn
      /\ k \in Nat /\ k <= turn
      /\ Bytes \in Nat /\ HexRoom \in Nat /\ HexRoom > 2 * Bytes + 2
  BY Constants DEF HexTypeOK, Skipped
<1>2. h \in HexPlaces /\ l \in HexPlaces /\ h # l /\ 0 \in HexPlaces /\ 1 \in HexPlaces /\ l = h + 1
      /\ h # 0 /\ h # 1 /\ l # 0 /\ l # 1 /\ h \in Nat
  BY <1>1 DEF HexPlaces
<1>3. High(turn) \in Characters /\ Low(turn) \in Characters
  BY <1>1, DigitTypes DEF HexTypeOK, Characters
<1>4. string \in [HexPlaces -> Characters] /\ string' = [string EXCEPT ![h] = High(turn), ![l] = Low(turn)]
  BY DEF HexTypeOK, Written
<1>5. /\ string' \in [HexPlaces -> Characters]
      /\ string'[h] = High(turn) /\ string'[l] = Low(turn)
      /\ \A p \in HexPlaces : p # h /\ p # l => string'[p] = string[p]
  <2> HIDE DEF h, l
  <2> QED BY <1>2, <1>3, <1>4
<1>6. string'[0] = 0 /\ string'[1] = X
  BY <1>2, <1>5 DEF Behind
<1>7. ASSUME NEW m \in Skipped..turn
      PROVE  string'[2 + 2 * (m - Skipped)] = High(m) /\ string'[3 + 2 * (m - Skipped)] = Low(m)
  <2>1. CASE m = turn
    BY <1>5, <2>1
  <2>2. CASE m # turn
    <3>1. m \in Skipped..(turn - 1) /\ m \in Int /\ m - Skipped \in 0..(k - 1)
      BY <1>1, <2>2
    <3>2. /\ 2 + 2 * (m - Skipped) \in HexPlaces /\ 3 + 2 * (m - Skipped) \in HexPlaces
          /\ 2 + 2 * (m - Skipped) # h /\ 3 + 2 * (m - Skipped) # h
          /\ 2 + 2 * (m - Skipped) # l /\ 3 + 2 * (m - Skipped) # l
      BY <1>1, <3>1 DEF HexPlaces
    <3>3. /\ string'[2 + 2 * (m - Skipped)] = string[2 + 2 * (m - Skipped)]
          /\ string'[3 + 2 * (m - Skipped)] = string[3 + 2 * (m - Skipped)]
      <4> HIDE DEF h, l, k
      <4> QED BY <1>2, <1>5, <3>2
    <3> QED BY <3>1, <3>3 DEF Behind
  <2> QED BY <2>1, <2>2
<1>8. ASSUME NEW p \in (2 + 2 * (k + 1))..(HexRoom - 1)
      PROVE  string'[p] = HexNUL
  <2>1. p \in HexPlaces /\ p # h /\ p # l /\ p \in (2 + 2 * (turn - Skipped))..(HexRoom - 1)
    BY <1>1 DEF HexPlaces
  <2>2. string[p] = HexNUL
    BY <2>1 DEF Behind
  <2> QED BY <1>5, <2>1, <2>2
<1>9. turn' - 1 = turn /\ turn' - Skipped' = k + 1
  BY <1>1
<1>10. \A m \in Skipped..turn : High(m)' = High(m) /\ Low(m)' = Low(m)
  BY DEF High, Low, Byte
<1>11. Behind'
  <2> HIDE DEF k
  <2>1. \A m \in Skipped'..(turn' - 1) : /\ string'[2 + 2 * (m - Skipped')] = High(m)'
                                      /\ string'[3 + 2 * (m - Skipped')] = Low(m)'
    BY <1>7, <1>9, <1>10
  <2>2. \A p \in (2 + 2 * (turn' - Skipped'))..(HexRoom - 1) : string'[p] = HexNUL
    BY <1>8, <1>9
  <2> QED BY <1>6, <2>1, <2>2 DEF Behind
<1> QED BY <1>5, <1>11

LEMMA ToHexStringKeeps == HexIInv /\ ToHexString => HexIInv'
<1> SUFFICES ASSUME HexIInv, ToHexString PROVE HexIInv'
  OBVIOUS
<1> USE DEF HexIInv
<1>1. /\ ~truncated /\ turn < Bytes /\ turn' = turn + 1 /\ UNCHANGED <<truncated, argument>>
      /\ index' = index /\ found_first' = found_first /\ string' = Written(turn, turn)
  BY DEF ToHexString
<1>2. Skipped = 0 /\ Skipped' = 0 /\ turn \in Nat /\ turn - Skipped = turn
  BY <1>1, Constants DEF Skipped, HexTypeOK
<1>3. string' \in [HexPlaces -> Characters] /\ Behind'
  BY <1>1, <1>2, WriteKeeps
<1>4. HexTypeOK'
  BY <1>1, <1>3, Constants DEF HexTypeOK
<1>5. Front'
  BY <1>1, <1>2 DEF Front
<1> QED BY <1>3, <1>4, <1>5

LEMMA TruncatedKeeps == HexIInv /\ ToHexStringTruncated => HexIInv'
<1> SUFFICES ASSUME HexIInv, ToHexStringTruncated PROVE HexIInv'
  OBVIOUS
<1> USE DEF HexIInv
<1>1. /\ truncated /\ turn < Bytes /\ turn' = turn + 1 /\ UNCHANGED <<truncated, argument>>
      /\ found_first' = (found_first \/ Byte(turn) # 0)
  BY DEF ToHexStringTruncated
<1>2. /\ turn \in 0..(Bytes - 1) /\ index \in 0..turn /\ turn \in Nat /\ index \in Nat
      /\ Skipped = turn - index /\ Bytes \in Nat
  BY <1>1, Constants DEF HexTypeOK, Skipped
<1>3. \A m \in Nat : Byte(m)' = Byte(m)
  BY <1>1 DEF Byte
<1>4. CASE found_first'
  <2>1. string' = Written(index, turn) /\ index' = index + 1
    BY <1>4 DEF ToHexStringTruncated
  <2>2. Skipped' = Skipped /\ turn - Skipped = index /\ Skipped \in Nat
    BY <1>1, <1>2, <2>1 DEF Skipped
  <2>3. string' \in [HexPlaces -> Characters] /\ Behind'
    BY <1>1, <2>1, <2>2, WriteKeeps
  <2>4. HexTypeOK'
    BY <1>1, <1>2, <1>4, <2>1, <2>3 DEF HexTypeOK
  <2>5. Byte(Skipped) # 0
    <3>1. CASE index = 0
      <4>1. Skipped = turn /\ ~found_first
        BY <1>1, <1>2, <3>1 DEF Front
      <4> QED BY <1>1, <1>4, <4>1
    <3>2. CASE index # 0
      BY <1>1, <3>2 DEF Front
    <3> QED BY <3>1, <3>2
  <2>6. Front'
    <3>1. index' # 0
      BY <1>2, <2>1
    <3>2. Byte(Skipped)' # 0
      BY <1>3, <2>2, <2>5
    <3>3. \A m \in 0..(Skipped' - 1) : Byte(m)' = 0
      BY <1>3, <2>2 DEF Front
    <3> QED BY <1>1, <1>4, <3>1, <3>2, <3>3 DEF Front
  <2> QED BY <2>3, <2>4, <2>6
<1>5. CASE ~found_first'
  <2>1. string' = string /\ index' = index
    BY <1>5 DEF ToHexStringTruncated
  <2>2. index = 0 /\ Byte(turn) = 0
    BY <1>1, <1>5 DEF Front
  <2>3. Skipped = turn /\ Skipped' = turn + 1 /\ turn' = turn + 1
    BY <1>1, <1>2, <2>1, <2>2 DEF Skipped
  <2>4. HexTypeOK'
    BY <1>1, <1>2, <1>5, <2>1, <2>2 DEF HexTypeOK
  <2>5. Front'
    <3>1. \A m \in 0..turn : Byte(m)' = 0
      BY <1>2, <1>3, <2>2, <2>3 DEF Front
    <3>2. Skipped' - 1 = turn
      BY <1>2, <2>3
    <3> QED BY <1>1, <1>5, <2>1, <2>2, <3>1, <3>2 DEF Front
  <2>6. Behind'
    BY <1>2, <2>1, <2>3 DEF Behind
  <2> QED BY <2>4, <2>5, <2>6
<1> QED BY <1>4, <1>5

LEMMA HexStutterKeeps == HexIInv /\ UNCHANGED hexVars => HexIInv'
<1> SUFFICES ASSUME HexIInv, UNCHANGED hexVars PROVE HexIInv'
  OBVIOUS
<1> USE DEF hexVars, HexIInv
<1>1. HexTypeOK'
  BY DEF HexTypeOK
<1>2. Front'
  BY DEF Front, Skipped, Byte
<1>3. Behind'
  BY DEF Behind, Skipped, High, Low, Byte
<1> QED BY <1>1, <1>2, <1>3

LEMMA HexStepKeeps == HexIInv /\ [HexNext]_hexVars => HexIInv'
BY ToHexStringKeeps, TruncatedKeeps, HexStutterKeeps DEF HexNext
-----------------------------------------------------------------------------
(***************************************************************************)
(* The invariant of the loop, which includes that it stays inside data.    *)
(***************************************************************************)
THEOREM HexInductive == HexSpec => []HexIInv
BY HexInitially, HexStepKeeps, PTL DEF HexSpec

(***************************************************************************)
(* For every number, ToHexString shows all its bytes and                   *)
(* ToHexStringTruncated all but the zero bytes in front, each with the     *)
(* right digits, NUL-terminated inside the array.                          *)
(***************************************************************************)
LEMMA ConvertedByInvariant == HexIInv => HexConverts
<1> SUFFICES ASSUME HexIInv, turn = Bytes
             PROVE  \E skipped \in 0..Bytes :
                      /\ Shows(skipped)
                      /\ IF truncated THEN skipped = Bytes \/ Byte(skipped) # 0
                         ELSE skipped = 0
  BY DEF HexConverts
<1> USE DEF HexIInv
<1>1. /\ Bytes \in Nat /\ HexRoom \in Nat /\ HexRoom > 2 * Bytes + 2
      /\ index \in 0..Bytes /\ Skipped \in 0..Bytes
  BY Constants DEF HexTypeOK, Skipped
<1>2. string[2 + 2 * (Bytes - Skipped)] = HexNUL
  <2>1. 2 + 2 * (Bytes - Skipped) \in (2 + 2 * (turn - Skipped))..(HexRoom - 1)
    BY <1>1
  <2> QED BY <2>1 DEF Behind
<1>3. ASSUME NEW m \in 0..(Bytes - 1)
      PROVE  IF m < Skipped THEN Byte(m) = 0
             ELSE string[2 + 2 * (m - Skipped)] = High(m) /\ string[3 + 2 * (m - Skipped)] = Low(m)
  <2>1. CASE m < Skipped
    <3>1. m \in 0..(Skipped - 1)
      BY <1>1, <2>1
    <3> QED BY <2>1, <3>1 DEF Front
  <2>2. CASE ~(m < Skipped)
    <3>1. m \in Skipped..(turn - 1)
      BY <1>1, <2>2
    <3> QED BY <2>2, <3>1 DEF Behind
  <2> QED BY <2>1, <2>2
<1>4. Shows(Skipped)
  BY <1>2, <1>3 DEF Shows, Behind
<1>5. IF truncated THEN Skipped = Bytes \/ Byte(Skipped) # 0 ELSE Skipped = 0
  BY <1>1 DEF Skipped, Front
<1> QED BY <1>1, <1>4, <1>5

THEOREM HexCorrect == HexSpec => []HexConverts
BY HexInductive, ConvertedByInvariant, PTL

(***************************************************************************)
(* Every variable keeps its type; the string stays in its array.           *)
(***************************************************************************)
THEOREM HexTypes == HexSpec => []HexTypeOK
<1>1. HexIInv => HexTypeOK
  BY DEF HexIInv
<1> QED BY <1>1, HexInductive, PTL
-----------------------------------------------------------------------------
(***************************************************************************)
(* The two digits of a byte are two digits of the number.                  *)
(***************************************************************************)
LEMMA TwoDigits ==
  ASSUME NEW q \in Nat, NEW r \in Nat, r >= 1
  PROVE  /\ (q % (r * r)) \div r = (q \div r) % r
         /\ (q % (r * r)) % r = q % r
<1> DEFINE u == q \div r
           v == q % r
           s == u \div r
           t == u % r
<1>1. u \in Nat /\ v \in Nat /\ v < r /\ q = r * u + v
  BY Division
<1>2. s \in Nat /\ t \in Nat /\ t < r /\ u = r * s + t
  BY <1>1, Division
<1> HIDE DEF u, v, s, t
<1>3. q = (r * r) * s + (r * t + v)
  BY <1>1, <1>2
<1>4. r * t + v < r * r
  <2>1. t + 1 <= r
    BY <1>2
  <2>2. r * (t + 1) <= r * r
    BY <1>2, <2>1
  <2> QED BY <1>1, <1>2, <2>2
<1>5. r * r \in Nat /\ r * r >= 1 /\ r * t + v \in Nat
  BY <1>1, <1>2
<1>6. q % (r * r) = r * t + v
  BY <1>2, <1>3, <1>4, <1>5, QuotientUnique
<1>7. (r * t + v) \div r = t /\ (r * t + v) % r = v
  BY <1>1, <1>2, <1>5, QuotientUnique
<1> QED BY <1>6, <1>7 DEF t, u, v

(***************************************************************************)
(* Behind the skipped bytes stand the digits of a number of that length.   *)
(***************************************************************************)
LEMMA ShownDigits ==
  ASSUME argument \in HexNumbers, NEW skipped \in 0..Bytes, Shows(skipped),
         NEW k \in 1..(2 * (Bytes - skipped))
  PROVE  string[1 + k] = (argument \div Power(Radix, 2 * (Bytes - skipped) - k)) % Radix
<1> DEFINE pair == (k - 1) \div 2
           m == skipped + pair
<1>1. /\ pair \in Nat /\ (k = 2 * pair + 1 \/ k = 2 * pair + 2)
      /\ m \in 0..(Bytes - 1) /\ m - skipped = pair /\ ~ (m < skipped)
      /\ Bytes \in Nat /\ skipped \in Nat
  BY Constants
<1>2. /\ Radix \in Nat /\ Radix >= 1 /\ argument \in Nat
  BY Constants
<1> HIDE DEF pair, m
<1>3. string[2 + 2 * pair] = High(m) /\ string[3 + 2 * pair] = Low(m)
  BY <1>1 DEF Shows
<1>4. PICK q \in Nat : \E e \in Nat :
        /\ e = Bytes - 1 - m
        /\ Power(Radix * Radix, e) \in Nat /\ Power(Radix * Radix, e) >= 1
        /\ q = argument \div Power(Radix * Radix, e)
        /\ Byte(m) = q % (Radix * Radix)
  BY <1>1, ByteOfQuotient
<1>5. PICK e \in Nat :
        /\ e = Bytes - 1 - m
        /\ Power(Radix * Radix, e) \in Nat /\ Power(Radix * Radix, e) >= 1
        /\ q = argument \div Power(Radix * Radix, e)
        /\ Byte(m) = q % (Radix * Radix)
  BY <1>4
<1> DEFINE p == Power(Radix, 2 * e)
           rest == 2 * (Bytes - skipped) - k
<1>6. p = Power(Radix * Radix, e)
  BY <1>2, <1>5, PowerOfSquare
<1>7. p \in Nat /\ p >= 1 /\ q = argument \div p
  BY <1>5, <1>6
<1>8. Power(Radix, 2 * e + 1) = Radix * p
  BY <1>2, <1>5, PowerEquations
<1>9. High(m) = (q \div Radix) % Radix /\ Low(m) = q % Radix
  <2>1. /\ (q % (Radix * Radix)) \div Radix = (q \div Radix) % Radix
        /\ (q % (Radix * Radix)) % Radix = q % Radix
    BY <1>2, TwoDigits
  <2>2. High(m) = (q % (Radix * Radix)) \div Radix /\ Low(m) = (q % (Radix * Radix)) % Radix
    BY <1>5 DEF High, Low
  <2> QED BY <2>1, <2>2
<1>10. e = Bytes - 1 - (skipped + pair)
  BY <1>5 DEF m
<1> HIDE DEF p, rest
<1>11. CASE k = 2 * pair + 1
  <2>1. 1 + k = 2 + 2 * pair /\ rest = 2 * e + 1
    BY <1>1, <1>10, <1>11 DEF rest
  <2>2. q \div Radix = argument \div (Radix * p)
    BY <1>2, <1>7, QuotientOfQuotient
  <2> QED BY <1>3, <1>8, <1>9, <2>1, <2>2 DEF rest
<1>12. CASE k = 2 * pair + 2
  <2>1. 1 + k = 3 + 2 * pair /\ rest = 2 * e
    BY <1>1, <1>10, <1>12 DEF rest
  <2> QED BY <1>3, <1>7, <1>9, <2>1 DEF rest, p
<1> QED BY <1>1, <1>11, <1>12

(***************************************************************************)
(* The number is as small as the skipped bytes make it.                    *)
(***************************************************************************)
LEMMA SkippedSmall ==
  ASSUME argument \in HexNumbers, NEW skipped \in 0..Bytes,
         \A m \in 0..(Bytes - 1) : m < skipped => Byte(m) = 0
  PROVE  argument < Power(Radix * Radix, Bytes - skipped)
<1> DEFINE square == Radix * Radix
           S == {m \in Nat : m <= skipped => argument < Power(square, Bytes - m)}
<1>1. argument \in Nat /\ Bytes \in Nat /\ square \in Nat /\ square >= 1 /\ skipped \in Nat
  BY Constants
<1>2. 0 \in S
  <2>1. Bytes - 0 = Bytes
    BY <1>1
  <2>2. argument < Power(square, Bytes)
    <3>1. argument \in 0..(Power(square, Bytes) - 1)
      BY HexStringAssumption DEF HexStringAssumption
    <3> HIDE DEF square
    <3>2. Power(square, Bytes) \in Nat
      BY <1>1, PowerEquations
    <3> QED BY <3>1, <3>2
  <2> QED BY <2>1, <2>2
<1>3. ASSUME NEW m \in Nat, m \in S
      PROVE  m + 1 \in S
  <2> SUFFICES ASSUME m + 1 <= skipped
               PROVE  argument < Power(square, Bytes - (m + 1))
    OBVIOUS
  <2> DEFINE e == Bytes - 1 - m
  <2>1. m \in 0..(Bytes - 1) /\ m < skipped /\ m <= skipped /\ e \in Nat
        /\ Bytes - m = e + 1 /\ Bytes - (m + 1) = e
    BY <1>1
  <2>2. Byte(m) = 0
    BY <2>1
  <2> DEFINE p == Power(square, e)
             q == argument \div p
  <2>3. p \in Nat /\ p >= 1 /\ Power(square, Bytes - m) = square * p
    BY <1>1, <2>1, PowerPositive, PowerEquations
  <2>4. Byte(m) = q % square
    BY DEF Byte
  <2> HIDE DEF e, square, p
  <2>5. argument < square * p /\ square * p \in Nat /\ square * p >= 1
    BY <1>1, <1>3, <2>1, <2>3 DEF square
  <2>6. argument \div (square * p) = 0
    BY <1>1, <2>5, QuotientZero
  <2>7. q \div square = 0 /\ q \in Nat
    BY <1>1, <2>3, <2>6, QuotientOfQuotient, Division
  <2> HIDE DEF q
  <2>8. q = square * (q \div square) + (q % square)
    BY <1>1, <2>7, Division
  <2>9. q = 0
    BY <1>1, <2>2, <2>4, <2>7, <2>8
  <2>10. argument < p
    BY <1>1, <2>3, <2>9, QuotientZero DEF q
  <2> QED BY <2>1, <2>10 DEF p
<1> HIDE DEF S
<1>4. skipped \in S
  BY <1>1, <1>2, <1>3, SetInduction
<1> QED BY <1>1, <1>4 DEF S

(***************************************************************************)
(* The hexadecimal loops compute the digits that Format defines.           *)
(***************************************************************************)
ComputesHex ==
  turn = Bytes =>
    LET digits == IF truncated THEN TruncatedHex(argument, Radix)
                  ELSE Padded(argument, Radix, 2 * Bytes)
    IN  /\ \A k \in DOMAIN digits : string[1 + k] = digits[k]
        /\ string[2 + Len(digits)] = HexNUL

LEMMA HexByInvariant == HexTypeOK /\ HexConverts => ComputesHex
<1> DEFINE digits == IF truncated THEN TruncatedHex(argument, Radix)
                     ELSE Padded(argument, Radix, 2 * Bytes)
<1> SUFFICES ASSUME HexTypeOK, HexConverts, turn = Bytes
             PROVE  /\ \A k \in DOMAIN digits : string[1 + k] = digits[k]
                    /\ string[2 + Len(digits)] = HexNUL
  BY DEF ComputesHex
<1>1. PICK skipped \in 0..Bytes :
        /\ Shows(skipped)
        /\ IF truncated THEN skipped = Bytes \/ Byte(skipped) # 0 ELSE skipped = 0
  BY DEF HexConverts
<1> DEFINE square == Radix * Radix
           left == Bytes - skipped
           length == 2 * left
<1>2. /\ argument \in HexNumbers /\ argument \in Nat /\ Bytes \in Nat /\ Bytes >= 1
      /\ Radix \in Nat /\ Radix >= 1
      /\ left \in Nat /\ length \in Nat /\ length = 2 * left /\ skipped \in Nat
  BY Constants DEF HexTypeOK
<1>3. square \in Nat /\ square >= 2
  <2>1. Radix * Radix >= 2 * Radix
    BY Constants
  <2> QED BY <2>1, Constants
<1>4. argument < Power(square, left)
  BY <1>1, <1>2, SkippedSmall DEF Shows
<1>5. digits = Padded(argument, Radix, length)
  <2>1. CASE ~truncated
    BY <1>1, <1>2, <2>1
  <2>2. CASE truncated /\ skipped = Bytes
    <3>1. left = 0 /\ length = 0
      BY <1>2, <2>2
    <3>2. argument = 0
      BY <1>2, <1>3, <1>4, <3>1, PowerEquations
    <3>3. Padded(argument, Radix, length) = << >>
      BY <3>1 DEF Padded
    <3> QED BY <2>2, <3>2, <3>3 DEF TruncatedHex
  <2>3. CASE truncated /\ skipped # Bytes
    <3>1. skipped \in 0..(Bytes - 1) /\ Byte(skipped) # 0
      BY <1>1, <1>2, <2>3
    <3> DEFINE e == left - 1
               p == Power(square, e)
               q == argument \div p
    <3>2. e \in Nat /\ e = Bytes - 1 - skipped /\ left >= 1
      BY <1>2, <3>1
    <3>3. Byte(skipped) = q % square
      BY <3>2 DEF Byte
    <3> HIDE DEF square, left, length, e
    <3>4. p \in Nat /\ p >= 1
      <4>1. square \in Nat /\ square >= 1 /\ e \in Nat
        BY <1>3, <3>2
      <4> QED BY <4>1, PowerPositive
    <3> HIDE DEF p
    <3>5. q # 0
      <4>1. 0 % square = 0
        BY <1>3, QuotientUnique
      <4> QED BY <3>1, <3>3, <4>1
    <3>6. argument >= p
      BY <1>2, <3>4, <3>5, QuotientZero
    <3>7. argument # 0
      BY <3>4, <3>6
    <3>8. LengthOf(argument, square) = left
      <4>1. argument >= Power(square, left - 1)
        BY <3>6 DEF p, e
      <4> QED BY <1>2, <1>3, <1>4, <3>2, <4>1, LengthUnique
    <3>9. TruncatedHex(argument, Radix) = Padded(argument, Radix, 2 * left)
      BY <3>7, <3>8 DEF TruncatedHex, square
    <3> QED BY <1>2, <2>3, <3>9
  <2> QED BY <2>1, <2>2, <2>3
<1>6. /\ digits \in Seq(Nat) /\ Len(digits) = length
      /\ \A k \in 1..length : digits[k] = (argument \div Power(Radix, length - k)) % Radix
  <2> DEFINE padded == Padded(argument, Radix, length)
  <2>1. length \in Nat /\ Radix \in Nat /\ Radix >= 1 /\ argument \in Nat
    BY <1>2
  <2> HIDE DEF length, digits
  <2>2. /\ padded \in Seq(Nat) /\ Len(padded) = length
        /\ \A k \in 1..length : padded[k] = (argument \div Power(Radix, length - k)) % Radix
    BY <2>1, PaddedDigits
  <2>3. digits = padded
    BY <1>5
  <2> HIDE DEF padded
  <2> QED BY <2>2, <2>3
<1>7. \A k \in DOMAIN digits : string[1 + k] = digits[k]
  <2> HIDE DEF digits
  <2>1. DOMAIN digits = 1..length
    BY <1>6
  <2> TAKE k \in DOMAIN digits
  <2>2. k \in 1..length
    BY <2>1
  <2>3. string[1 + k] = (argument \div Power(Radix, length - k)) % Radix
    BY <1>1, <1>2, <2>2, ShownDigits
  <2>4. digits[k] = (argument \div Power(Radix, length - k)) % Radix
    BY <1>6, <2>2
  <2> QED BY <2>3, <2>4
<1>8. string[2 + Len(digits)] = HexNUL
  <2>1. string[2 + length] = HexNUL
    BY <1>1 DEF Shows
  <2> QED BY <1>6, <2>1
<1> QED BY <1>7, <1>8

(***************************************************************************)
(* What ToHexString and ToHexStringTruncated return is what EfiPrintF is   *)
(* modelled with, for every number and width.                              *)
(***************************************************************************)
THEOREM HexComputed == HexSpec => []ComputesHex
<1>1. HexIInv => HexTypeOK
  BY DEF HexIInv
<1> QED BY <1>1, HexInductive, ConvertedByInvariant, HexByInvariant, PTL
=============================================================================
