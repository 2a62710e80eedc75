---------------------------- MODULE PrintfProofs -----------------------------
(***************************************************************************)
(* EfiPrintF, the report of EfiAssert and the listing of a memory map, for *)
(* every format, every list of arguments, every map and every width of     *)
(* words: each conversion up to a %o gets its own argument, a number shows *)
(* its value, the array of U64ToString is overrun only in the cases the    *)
(* code has, the screen of a halt tells which status it was, and the       *)
(* listing is the map.                                                     *)
(***************************************************************************)
EXTENDS MemoryMap, FormatProofs, FiniteSetTheorems

(***************************************************************************)
(* The ranges of the numbers.                                              *)
(***************************************************************************)
LEMMA Ranges ==
  /\ WordValues \in Nat /\ WordValues >= 1
  /\ IntValues \in Nat /\ IntValues >= 1 /\ IntValues <= WordValues
  /\ HalfInt \in Nat /\ HalfInt >= 1 /\ IntValues = 2 * HalfInt
  /\ TooLong \in Nat /\ TooLong >= 1
  /\ HalfInt <= TooLong /\ WordValues - HalfInt >= TooLong
<1>1. /\ WordBits \in Nat /\ IntBits \in Nat /\ IntBits >= 1 /\ IntBits <= WordBits
      /\ Room \in Nat /\ Room >= 2
      /\ HalfInt <= TooLong /\ WordValues - HalfInt >= TooLong
  BY PrintfAssumption DEF PrintfAssumption
<1>2. WordValues \in Nat /\ WordValues >= 1 /\ IntValues \in Nat /\ IntValues >= 1
  <2>1. \A k \in Nat : Power(2, k) \in Nat /\ Power(2, k) >= 1
    BY PowerPositive
  <2> QED BY <1>1, <2>1 DEF WordValues, IntValues
<1>3. IntValues <= WordValues
  BY <1>1, PowerMonotone DEF WordValues, IntValues
<1> DEFINE e == IntBits - 1
           d == Room - 1
<1>4. e \in Nat /\ d \in Nat /\ IntBits = e + 1
  BY <1>1
<1> HIDE DEF e, d
<1>5. Power(2, e) \in Nat /\ Power(2, e) >= 1 /\ Power(2, IntBits) = 2 * Power(2, e)
  BY <1>4, PowerPositive, PowerEquations
<1>6. Power(10, d) \in Nat /\ Power(10, d) >= 1
  BY <1>4, PowerPositive
<1> QED BY <1>1, <1>2, <1>3, <1>5, <1>6 DEF HalfInt, TooLong, IntValues, e, d

LEMMA CharRange ==
  Power(2, IntBits \div 2) \in Nat /\ Power(2, IntBits \div 2) >= 1
<1>1. IntBits \div 2 \in Nat
  BY PrintfAssumption DEF PrintfAssumption
<1> QED BY <1>1, PowerPositive

(***************************************************************************)
(* A number fits into the array of U64ToString when it is not too long.    *)
(***************************************************************************)
LEMMA FitsIs ==
  ASSUME NEW n \in Nat
  PROVE  Fits(n) <=> n < TooLong
<1>1. Room \in Nat /\ Room >= 2
  BY PrintfAssumption DEF PrintfAssumption
<1> DEFINE ten == 10
<1>2. ten \in Nat /\ ten >= 2
  OBVIOUS
<1> HIDE DEF ten
<1>3. LengthOf(n, ten) < Room <=> n < Power(ten, Room - 1)
  BY <1>1, <1>2, LengthBelow
<1>4. Len(Numeral(n, ten)) = LengthOf(n, ten)
  BY <1>2, NumeralReadsBack
<1> QED BY <1>3, <1>4 DEF Fits, TooLong, ten

(***************************************************************************)
(* What an argument may be.                                                *)
(***************************************************************************)
LEMMA ArgumentTypes ==
  ASSUME list \in Seq(Words), arg \in 0..(Len(list) - 1)
  PROVE  /\ word \in Words /\ word \in Nat /\ word < WordValues
         /\ unsigned \in Nat /\ unsigned < IntValues /\ unsigned \in Words
         /\ int \in Int /\ 0 - HalfInt <= int /\ int < HalfInt
         /\ int >= 0 => int \in Nat
<1>1. arg + 1 \in 1..Len(list)
  OBVIOUS
<1>2. word \in Words
  BY <1>1 DEF word
<1>3. word \in Nat /\ word < WordValues
  BY <1>2, Ranges DEF Words
<1> HIDE DEF word
<1>4. unsigned \in Nat /\ unsigned < IntValues
  BY <1>3, Ranges, Division DEF unsigned
<1>5. unsigned \in Words
  BY <1>4, Ranges DEF Words
<1>6. int \in Int /\ 0 - HalfInt <= int /\ int < HalfInt
  BY <1>4, Ranges DEF int
<1> QED BY <1>2, <1>3, <1>4, <1>5, <1>6

(***************************************************************************)
(* The pieces, and what a reader makes of a number.                        *)
(***************************************************************************)
LEMMA PieceTypes ==
  /\ \A c \in Letters \cup {"-"} : Char(c) \in Pieces
  /\ \A n \in Nat : Decimal(n) \in Pieces /\ Value(Decimal(n)) = n
  /\ \A n \in Nat : Hex(n) \in Pieces /\ Value(Hex(n)) = n
<1>1. ASSUME NEW n \in Nat
      PROVE  Decimal(n) \in Pieces /\ Value(Decimal(n)) = n
  <2>1. Numeral(n, 10) \in Seq(Nat) /\ NumberOf(Numeral(n, 10), 10) = n
    BY NumeralReadsBack
  <2> QED BY <2>1 DEF Decimal, Pieces, Value
<1>2. ASSUME NEW n \in Nat
      PROVE  Hex(n) \in Pieces /\ Value(Hex(n)) = n
  <2>1. TruncatedHex(n, 16) \in Seq(Nat) /\ NumberOf(TruncatedHex(n, 16), 16) = n
    BY HexReadsBack
  <2> QED BY <2>1 DEF Hex, Pieces, Value
<1> QED BY <1>1, <1>2 DEF Char, Pieces
-----------------------------------------------------------------------------
(***************************************************************************)
(* The invariant of EfiPrintF's loop: as many arguments have been taken as *)
(* there are conversions other than %o before the position, and the list   *)
(* has as many as the format has percent signs.                            *)
(***************************************************************************)
TakingBefore == {k \in 1..(character - 1) : format[k] = "%" /\ At(k + 1) # "o"}
ArgumentsTaken == pc = "run" => arg = Cardinality(TakingBefore)

Percents == {k \in DOMAIN format : format[k] = "%"}
Enough == Cardinality(Percents) <= Len(list)

LoopInv == TypeOK /\ Enough /\ ArgumentsTaken /\ OverrunExplained

(***************************************************************************)
(* At a percent sign there is an argument left, and it is counted next.    *)
(***************************************************************************)
LEMMA ArgumentLeft ==
  ASSUME LoopInv, pc = "run", At(character) = "%"
  PROVE  /\ character \in 1..Len(format) /\ format[character] = "%"
         /\ arg \in 0..(Len(list) - 1)
         /\ Cardinality(TakingBefore \cup {character}) = arg + 1
<1> USE DEF LoopInv
<1>1. character \in 1..Len(format) /\ format[character] = "%"
  BY DEF TypeOK, At
<1> DEFINE S == TakingBefore
           T == S \cup {character}
<1>2. IsFiniteSet(Percents)
  <2>1. DOMAIN format = 1..Len(format) /\ Len(format) \in Int
    BY DEF TypeOK
  <2>2. IsFiniteSet(1..Len(format))
    BY <2>1, FS_Interval
  <2> QED BY <2>1, <2>2, FS_Subset DEF Percents
<1>3. T \subseteq Percents /\ character \notin S /\ S \subseteq Percents
  BY <1>1 DEF TakingBefore, Percents, TypeOK
<1> HIDE DEF S
<1>4. IsFiniteSet(S) /\ IsFiniteSet(T)
  BY <1>2, <1>3, FS_Subset
<1>5. Cardinality(T) = Cardinality(S) + 1
  BY <1>3, <1>4, FS_AddElement
<1>6. Cardinality(T) <= Cardinality(Percents)
  BY <1>2, <1>3, FS_Subset
<1>7. arg = Cardinality(S)
  BY DEF ArgumentsTaken, S
<1>8. Cardinality(Percents) \in Nat /\ Cardinality(T) \in Nat /\ Cardinality(S) \in Nat
  BY <1>2, <1>4, FS_CardinalityType
<1> HIDE DEF T
<1>9. arg + 1 <= Len(list) /\ arg \in Nat /\ Len(list) \in Nat
  BY <1>5, <1>6, <1>7, <1>8 DEF Enough, TypeOK
<1> QED BY <1>1, <1>5, <1>7, <1>9 DEF T, S

(***************************************************************************)
(* A conversion that takes an argument: the position goes behind it.       *)
(***************************************************************************)
LEMMA TakingKeeps ==
  ASSUME LoopInv, NEW letter, NEW size \in {2, 3}, Conversion(letter),
         letter \notin {"%", "o", "NUL"},
         size = 3 => At(character + 2) \notin {"%", "NUL"},
         Continue(size), out' \in Seq(Pieces)
  PROVE  LoopInv'
<1> USE DEF LoopInv
<1> DEFINE c == character
<1>1. /\ c \in 1..Len(format) /\ format[c] = "%"
      /\ arg \in 0..(Len(list) - 1)
      /\ Cardinality(TakingBefore \cup {c}) = arg + 1
  BY ArgumentLeft DEF Conversion
<1>2. /\ pc = "run" /\ pc' = "run" /\ format' = format /\ list' = list /\ open' = open
      /\ character' = c + size /\ arg' = arg + 1
  BY DEF Conversion, Continue
<1>3. c + 1 \in 1..Len(format) /\ format[c + 1] = letter
  BY <1>1 DEF Conversion, At, TypeOK
<1>4. size = 3 => c + 2 \in 1..Len(format) /\ format[c + 2] # "%"
  BY <1>1 DEF At, TypeOK
<1>5. TypeOK'
  <2>1. character' \in 1..(Len(format) + 1)
    BY <1>1, <1>2, <1>3, <1>4
  <2>2. arg' \in 0..Len(list)
    BY <1>1, <1>2 DEF TypeOK
  <2> QED BY <1>2, <2>1, <2>2 DEF TypeOK
<1>6. TakingBefore' = TakingBefore \cup {c}
  <2>1. ASSUME NEW k \in TakingBefore \cup {c}
        PROVE  k \in TakingBefore'
    BY <1>1, <1>2, <1>3 DEF TakingBefore, At
  <2>2. ASSUME NEW k \in TakingBefore'
        PROVE  k \in TakingBefore \cup {c}
    <3>1. k \in 1..(character' - 1) /\ format[k] = "%" /\ At(k + 1) # "o"
      BY <1>2, <2>2 DEF TakingBefore, At
    <3>2. k # c + 1 /\ (size = 3 => k # c + 2)
      BY <1>3, <1>4, <3>1 DEF Conversion
    <3>3. k \in 1..(c - 1) \/ k = c
      BY <1>1, <1>2, <3>1, <3>2
    <3> QED BY <3>1, <3>3 DEF TakingBefore
  <2> QED BY <2>1, <2>2
<1>7. ArgumentsTaken'
  BY <1>1, <1>2, <1>6 DEF ArgumentsTaken
<1> QED BY <1>2, <1>5, <1>7 DEF Enough, Percents, OverrunExplained

(***************************************************************************)
(* The turns that take no argument.                                        *)
(***************************************************************************)
LEMMA OrdinaryKeeps == LoopInv /\ PrintOrdinary => LoopInv'
<1> SUFFICES ASSUME LoopInv, PrintOrdinary PROVE LoopInv'
  OBVIOUS
<1> USE DEF LoopInv
<1>1. /\ pc = "run" /\ UNCHANGED <<pc, format, list, arg, open>>
      /\ character' = character + 1 /\ out' = out \o <<Char(At(character))>>
      /\ At(character) # "%" /\ At(character) # "NUL"
  BY DEF PrintOrdinary, Emit
<1>2. character \in 1..Len(format) /\ At(character) = format[character]
  BY <1>1 DEF TypeOK, At
<1>3. At(character) \in Letters
  BY <1>2 DEF TypeOK
<1>4. out' \in Seq(Pieces)
  <2>1. Char(At(character)) \in Pieces
    BY <1>3, PieceTypes
  <2> QED BY <1>1, <2>1 DEF TypeOK
<1>5. TypeOK'
  BY <1>1, <1>2, <1>4 DEF TypeOK
<1>6. TakingBefore' = TakingBefore
  BY <1>1, <1>2 DEF TakingBefore, At
<1> QED BY <1>1, <1>5, <1>6 DEF ArgumentsTaken, Enough, Percents, OverrunExplained

LEMMA PrintOKeeps == LoopInv /\ PrintO => LoopInv'
<1> SUFFICES ASSUME LoopInv, PrintO PROVE LoopInv'
  OBVIOUS
<1> USE DEF LoopInv
<1>1. /\ pc = "run" /\ UNCHANGED <<pc, format, list, arg, open, out>>
      /\ character' = character + 2
      /\ At(character) = "%" /\ At(character + 1) = "o"
  BY DEF PrintO, Conversion
<1>2. /\ character \in 1..Len(format) /\ character + 1 \in 1..Len(format)
      /\ format[character + 1] = "o"
  BY <1>1 DEF TypeOK, At
<1>3. TypeOK'
  BY <1>1, <1>2 DEF TypeOK
<1>4. TakingBefore' = TakingBefore
  <2>1. ASSUME NEW k \in TakingBefore'
        PROVE  k \in TakingBefore
    <3>1. k \in 1..(character + 1) /\ format[k] = "%" /\ At(k + 1) # "o"
      BY <1>1, <1>2, <2>1 DEF TakingBefore, At
    <3>2. k # character + 1 /\ k # character
      BY <1>1, <1>2, <3>1
    <3> QED BY <1>2, <3>1, <3>2 DEF TakingBefore
  <2>2. ASSUME NEW k \in TakingBefore
        PROVE  k \in TakingBefore'
    BY <1>1, <1>2, <2>2 DEF TakingBefore, At
  <2> QED BY <2>1, <2>2
<1> QED BY <1>1, <1>3, <1>4 DEF ArgumentsTaken, Enough, Percents, OverrunExplained

LEMMA LeavingKeeps == LoopInv /\ (GiveUp \/ Return) => LoopInv'
<1> SUFFICES ASSUME LoopInv, GiveUp \/ Return PROVE LoopInv'
  OBVIOUS
<1> USE DEF LoopInv
<1>1. /\ pc = "run" /\ pc' = "returned" /\ UNCHANGED <<format, list, arg, out>>
      /\ open' \in BOOLEAN
  BY DEF GiveUp, Leave, Return, TypeOK
<1>2. character' \in 1..(Len(format) + 1)
  <2>1. CASE GiveUp
    <3>1. character \in 1..Len(format)
      BY <2>1 DEF GiveUp, At, TypeOK
    <3>2. At(character + 1) = "z" => character + 1 \in 1..Len(format)
      BY <3>1 DEF At, TypeOK
    <3> QED BY <2>1, <3>1, <3>2 DEF GiveUp, Leave, TypeOK
  <2>2. CASE Return
    BY <2>2 DEF Return, TypeOK
  <2> QED BY <2>1, <2>2
<1>3. TypeOK'
  BY <1>1, <1>2 DEF TypeOK
<1> QED BY <1>1, <1>3 DEF ArgumentsTaken, Enough, Percents, OverrunExplained
(***************************************************************************)
(* The conversions that take an argument.                                  *)
(***************************************************************************)
LEMMA AtConversion ==
  ASSUME LoopInv, NEW letter, Conversion(letter)
  PROVE  /\ pc = "run" /\ pc # "wild"
         /\ word \in Words /\ word \in Nat /\ word < WordValues
         /\ unsigned \in Nat /\ unsigned < IntValues /\ unsigned \in Words
         /\ int \in Int /\ 0 - HalfInt <= int /\ int < HalfInt
         /\ int >= 0 => int \in Nat
<1>1. pc = "run" /\ arg \in 0..(Len(list) - 1) /\ list \in Seq(Words)
  BY ArgumentLeft DEF Conversion, LoopInv, TypeOK
<1> QED BY <1>1, ArgumentTypes

LEMMA PrintCKeeps == LoopInv /\ PrintC => LoopInv'
<1> SUFFICES ASSUME LoopInv, PrintC PROVE LoopInv'
  OBVIOUS
<1> DEFINE code == word % Power(2, IntBits \div 2)
<1>1. Conversion("c") /\ Continue(2) /\ out' = out \o <<[call |-> "code", code |-> code]>>
  BY DEF PrintC, Emit
<1>2. code \in Nat
  BY <1>1, AtConversion, CharRange, Division
<1> HIDE DEF code
<1>3. [call |-> "code", code |-> code] \in Pieces
  BY <1>2 DEF Pieces
<1>4. out' \in Seq(Pieces)
  BY <1>1, <1>3 DEF LoopInv, TypeOK
<1> QED BY <1>1, <1>4, TakingKeeps

LEMMA PrintSKeeps == LoopInv /\ PrintS => LoopInv'
<1> SUFFICES ASSUME LoopInv, PrintS PROVE LoopInv'
  OBVIOUS
<1>1. Conversion("s") /\ Continue(2) /\ out' = out \o <<[call |-> "text", address |-> word]>>
  BY DEF PrintS, Emit
<1>2. [call |-> "text", address |-> word] \in Pieces
  BY <1>1, AtConversion DEF Pieces
<1>3. out' \in Seq(Pieces)
  BY <1>1, <1>2 DEF LoopInv, TypeOK
<1> QED BY <1>1, <1>3, TakingKeeps

LEMMA PrintXKeeps == LoopInv /\ PrintX => LoopInv'
<1> SUFFICES ASSUME LoopInv, PrintX PROVE LoopInv'
  OBVIOUS
<1>1. Conversion("x") /\ Continue(2) /\ out' = out \o <<Hex(unsigned)>>
  BY DEF PrintX, Emit
<1>2. Hex(unsigned) \in Pieces
  BY <1>1, AtConversion, PieceTypes
<1>3. out' \in Seq(Pieces)
  BY <1>1, <1>2 DEF LoopInv, TypeOK
<1> QED BY <1>1, <1>3, TakingKeeps

(***************************************************************************)
(* An overrun stops the loop where it is.                                  *)
(***************************************************************************)
LEMMA OverrunKeeps ==
  ASSUME LoopInv, Overrun, out' \in Seq(Pieces),
         \/ At(character + 1) = "z" /\ word >= TooLong
         \/ At(character + 1) = "d" /\ int = 0 - HalfInt
  PROVE  LoopInv'
<1>1. pc' = "wild" /\ UNCHANGED <<format, list, character, arg, open>>
  BY DEF Overrun
<1>2. OverrunExplained'
  BY <1>1 DEF OverrunExplained, At, int, unsigned, word
<1> QED BY <1>1, <1>2 DEF LoopInv, TypeOK, Enough, Percents, ArgumentsTaken

LEMMA PrintZUKeeps == LoopInv /\ PrintZU => LoopInv'
<1> SUFFICES ASSUME LoopInv, PrintZU PROVE LoopInv'
  OBVIOUS
<1>1. Conversion("z") /\ At(character + 2) = "u" /\ out \in Seq(Pieces)
  BY DEF PrintZU, LoopInv, TypeOK
<1>2. word \in Nat
  BY <1>1, AtConversion
<1>3. CASE Fits(word)
  <2>1. Continue(3) /\ out' = out \o <<Decimal(word)>>
    BY <1>3 DEF PrintZU, Size, Emit
  <2>2. out' \in Seq(Pieces)
    BY <1>1, <1>2, <2>1, PieceTypes
  <2> QED BY <1>1, <2>1, <2>2, TakingKeeps
<1>4. CASE ~Fits(word)
  <2>1. Overrun /\ out' = out \o << >>
    BY <1>4 DEF PrintZU, Size, Emit
  <2>2. out' \in Seq(Pieces)
    BY <1>1, <2>1
  <2>3. word >= TooLong
    BY <1>2, <1>4, FitsIs, Ranges
  <2> QED BY <1>1, <2>1, <2>2, <2>3, OverrunKeeps DEF Conversion
<1> QED BY <1>3, <1>4

(***************************************************************************)
(* What "i = -i" may give for a negative int, and when it fits.            *)
(***************************************************************************)
LEMMA NegatedIs ==
  ASSUME LoopInv, Conversion("d"), int < 0, NEW neg \in Negated
  PROVE  /\ neg \in Nat
         /\ Fits(neg) => neg = 0 - int
         /\ ~Fits(neg) => int = 0 - HalfInt
<1>1. int \in Int /\ 0 - HalfInt <= int /\ int < HalfInt
  BY AtConversion
<1> HIDE DEF int
<1>2. neg = 0 - int \/ (int = 0 - HalfInt /\ neg = WordValues + int)
  BY DEF Negated
<1>3. neg \in Nat
  BY <1>1, <1>2, Ranges
<1>4. Fits(neg) <=> neg < TooLong
  BY <1>3, FitsIs
<1>5. CASE int = 0 - HalfInt
  BY <1>1, <1>2, <1>3, <1>4, <1>5, Ranges
<1>6. CASE int # 0 - HalfInt
  <2>1. neg = 0 - int /\ neg < TooLong
    BY <1>1, <1>2, <1>6, Ranges
  <2> QED BY <1>3, <1>4, <2>1
<1> QED BY <1>5, <1>6

LEMMA PrintDKeeps == LoopInv /\ PrintD => LoopInv'
<1> SUFFICES ASSUME LoopInv, PrintD PROVE LoopInv'
  OBVIOUS
<1>1. Conversion("d") /\ out \in Seq(Pieces) /\ Char("-") \in Pieces
  BY PieceTypes DEF PrintD, LoopInv, TypeOK
<1>2. CASE int >= 0
  <2>1. int \in Nat /\ ~ (int < 0)
    BY <1>1, <1>2, AtConversion
  <2>2. Continue(2) /\ out' = out \o <<Decimal(int)>>
    BY <2>1 DEF PrintD, Emit
  <2>3. out' \in Seq(Pieces)
    BY <1>1, <2>1, <2>2, PieceTypes
  <2> QED BY <1>1, <2>2, <2>3, TakingKeeps
<1>3. CASE ~ (int >= 0)
  <2>1. int < 0
    BY <1>1, <1>3, AtConversion
  <2>2. PICK neg \in Negated :
          IF Fits(neg) THEN Emit(<<Char("-"), Decimal(neg)>>) /\ Continue(2)
          ELSE Emit(<<Char("-")>>) /\ Overrun
    BY <1>3 DEF PrintD
  <2>3. neg \in Nat /\ (~Fits(neg) => int = 0 - HalfInt)
    BY <1>1, <2>1, NegatedIs
  <2>4. CASE Fits(neg)
    <3>1. out' = out \o <<Char("-"), Decimal(neg)>> /\ Continue(2)
      BY <2>2, <2>4 DEF Emit
    <3>2. out' \in Seq(Pieces)
      BY <1>1, <2>3, <3>1, PieceTypes
    <3> QED BY <1>1, <3>1, <3>2, TakingKeeps
  <2>5. CASE ~Fits(neg)
    <3>1. out' = out \o <<Char("-")>> /\ Overrun
      BY <2>2, <2>5 DEF Emit
    <3>2. out' \in Seq(Pieces)
      BY <1>1, <3>1
    <3> QED BY <1>1, <2>3, <2>5, <3>1, <3>2, OverrunKeeps DEF Conversion
  <2> QED BY <2>4, <2>5
<1> QED BY <1>2, <1>3

LEMMA TurnKeeps == LoopInv /\ Next => LoopInv'
BY OrdinaryKeeps, PrintCKeeps, PrintDKeeps, PrintOKeeps, PrintSKeeps,
   PrintXKeeps, PrintZUKeeps, LeavingKeeps DEF Next

(***************************************************************************)
(* A number is printed as what it is.                                      *)
(***************************************************************************)
LEMMA PrintedIs ==
  ASSUME LoopInv, NEW pieces \in Seq(Pieces), out' = out \o pieces
  PROVE  Printed = pieces
<1>1. out \in Seq(Pieces)
  BY DEF LoopInv, TypeOK
<1>2. Len(out') = Len(out) + Len(pieces)
  BY <1>1
<1>3. Printed \in Seq(Pieces) /\ Len(Printed) = Len(pieces)
  BY <1>1, <1>2 DEF Printed
<1>4. \A k \in 1..Len(pieces) : Printed[k] = pieces[k]
  BY <1>1, <1>2 DEF Printed
<1> QED BY <1>3, <1>4

LEMMA SaysInTurn ==
  LoopInv /\ Next =>
    (arg' > arg =>
       /\ Conversion("d") => ReadBack(Printed) = int
       /\ Conversion("x") => ReadBack(Printed) = unsigned
       /\ Conversion("z") => ReadBack(Printed) = word)
<1> SUFFICES ASSUME LoopInv, Next, arg' > arg
             PROVE  /\ Conversion("d") => ReadBack(Printed) = int
                    /\ Conversion("x") => ReadBack(Printed) = unsigned
                    /\ Conversion("z") => ReadBack(Printed) = word
  OBVIOUS
<1>1. arg \in Nat /\ arg' # arg
  BY DEF LoopInv, TypeOK
<1>2. ASSUME Conversion("x")
      PROVE  ReadBack(Printed) = unsigned
  <2>1. PrintX
    BY <1>1, <1>2 DEF Next, Conversion, PrintOrdinary, PrintC, PrintD, PrintO, PrintS,
                      PrintZU, GiveUp, Unknown, Return
  <2>2. Hex(unsigned) \in Pieces /\ Value(Hex(unsigned)) = unsigned
    BY <1>2, AtConversion, PieceTypes
  <2>3. Printed = <<Hex(unsigned)>>
    <3>1. <<Hex(unsigned)>> \in Seq(Pieces)
      BY <2>2
    <3>2. out' = out \o <<Hex(unsigned)>>
      BY <2>1, <2>2 DEF PrintX, Emit
    <3> QED BY <3>1, <3>2, PrintedIs
  <2> QED BY <2>2, <2>3 DEF ReadBack
<1>3. ASSUME Conversion("z")
      PROVE  ReadBack(Printed) = word
  <2>1. PrintZU
    BY <1>1, <1>3 DEF Next, Conversion, PrintOrdinary, PrintC, PrintD, PrintO, PrintS,
                      PrintX, GiveUp, Unknown, Return
  <2>2. Decimal(word) \in Pieces /\ Value(Decimal(word)) = word
    BY <1>3, AtConversion, PieceTypes
  <2>3. out' = out \o <<Decimal(word)>>
    BY <1>1, <2>1 DEF PrintZU, Size, Overrun, Emit
  <2>4. Printed = <<Decimal(word)>>
    <3>1. <<Decimal(word)>> \in Seq(Pieces)
      BY <2>2
    <3>2. out' = out \o <<Decimal(word)>>
      BY <2>2, <2>3
    <3> QED BY <3>1, <3>2, PrintedIs
  <2> QED BY <2>2, <2>4 DEF ReadBack
<1>4. ASSUME Conversion("d")
      PROVE  ReadBack(Printed) = int
  <2>1. PrintD
    BY <1>1, <1>4 DEF Next, Conversion, PrintOrdinary, PrintC, PrintX, PrintO, PrintS,
                      PrintZU, GiveUp, Unknown, Return
  <2>2. int \in Int /\ (int >= 0 => int \in Nat)
    BY <1>4, AtConversion
  <2>3. CASE int >= 0
    <3>1. Decimal(int) \in Pieces /\ Value(Decimal(int)) = int
      BY <2>2, <2>3, PieceTypes
    <3>2. out' = out \o <<Decimal(int)>>
      <4>1. ~ (int < 0)
        BY <2>2, <2>3
      <4> QED BY <2>1, <4>1 DEF PrintD, Emit
    <3>3. Printed = <<Decimal(int)>>
      <4>1. <<Decimal(int)>> \in Seq(Pieces)
        BY <3>1
      <4>2. out' = out \o <<Decimal(int)>>
        BY <3>1, <3>2
      <4> QED BY <4>1, <4>2, PrintedIs
    <3> QED BY <3>1, <3>3 DEF ReadBack
  <2>4. CASE ~ (int >= 0)
    <3>1. int < 0
      BY <2>2, <2>4
    <3>2. PICK neg \in Negated :
            Fits(neg) /\ out' = out \o <<Char("-"), Decimal(neg)>>
      BY <1>1, <2>1, <2>4 DEF PrintD, Emit, Overrun
    <3>3. neg \in Nat /\ neg = 0 - int
      BY <1>4, <3>1, <3>2, NegatedIs
    <3>4. Char("-") \in Pieces /\ Decimal(neg) \in Pieces /\ Value(Decimal(neg)) = neg
      BY <3>3, PieceTypes
    <3>5. Printed = <<Char("-"), Decimal(neg)>>
      <4>1. <<Char("-"), Decimal(neg)>> \in Seq(Pieces)
        BY <3>4
      <4>2. out' = out \o <<Char("-"), Decimal(neg)>>
        BY <3>2, <3>4
      <4> QED BY <4>1, <4>2, PrintedIs
    <3>6. ReadBack(Printed) = 0 - neg
      BY <3>4, <3>5 DEF ReadBack
    <3>7. 0 - neg = int
      BY <2>2, <3>3
    <3> QED BY <3>6, <3>7
  <2> QED BY <2>3, <2>4
<1> QED BY <1>2, <1>3, <1>4
-----------------------------------------------------------------------------
(***************************************************************************)
(* The callers: a call with letters, words and enough of them starts the   *)
(* loop anew, and EfiPrintF does not run behind the back of a caller.      *)
(***************************************************************************)
CallerInv ==
  /\ caller \in {"other", "assert", "report", "halted", "back"}
  /\ status \in EFI_STATUS
  /\ line \in 0..(HalfInt - 1)
  /\ caller # "other" => at = "none"
  /\ caller = "assert" => pc = "returned" /\ out = << >>
  /\ at \notin {"none", "list", "total"} => pc # "run"
  /\ at \in {"list", "total", "done", "wild"} => DescriptorSize >= 2

LEMMA CallKeeps ==
  ASSUME TypeOK, NEW f \in Seq(Letters), NEW l \in Seq(Words),
         Cardinality({k \in DOMAIN f : f[k] = "%"}) <= Len(l),
         Call(f, l)
  PROVE  LoopInv'
<1>1. /\ pc' = "run" /\ format' = f /\ list' = l
      /\ character' = 1 /\ arg' = 0 /\ open' = TRUE /\ out' = out
  BY DEF Call
<1>2. TypeOK'
  BY <1>1 DEF TypeOK
<1>3. ArgumentsTaken'
  <2>1. TakingBefore' = {}
    BY <1>1 DEF TakingBefore
  <2> QED BY <1>1, <2>1, FS_EmptySet DEF ArgumentsTaken
<1> QED BY <1>1, <1>2, <1>3 DEF LoopInv, Enough, Percents, OverrunExplained

(***************************************************************************)
(* The formats of this program are of letters and ask for as many          *)
(* arguments as they are given.                                            *)
(***************************************************************************)
LEMMA OwnFormats ==
  /\ AssertFormat \in Seq(Letters) /\ Len(AssertFormat) = 10
  /\ Cardinality({k \in DOMAIN AssertFormat : AssertFormat[k] = "%"}) = 3
  /\ \A f \in {LeftFormat, RightFormat} :
       /\ f \in Seq(Letters) /\ Len(f) = 7
       /\ Cardinality({k \in DOMAIN f : f[k] = "%"}) = 2
  /\ TotalFormat \in Seq(Letters) /\ Len(TotalFormat) = 5
  /\ Cardinality({k \in DOMAIN TotalFormat : TotalFormat[k] = "%"}) = 1
<1>1. /\ AssertFormat \in Seq(Letters) /\ Len(AssertFormat) = 10
      /\ {k \in DOMAIN AssertFormat : AssertFormat[k] = "%"} = {2, 5} \cup {8}
  BY DEF AssertFormat, Letters
<1>2. /\ LeftFormat \in Seq(Letters) /\ Len(LeftFormat) = 7
      /\ {k \in DOMAIN LeftFormat : LeftFormat[k] = "%"} = {1} \cup {4}
  BY DEF LeftFormat, Letters
<1>3. /\ RightFormat \in Seq(Letters) /\ Len(RightFormat) = 7
      /\ {k \in DOMAIN RightFormat : RightFormat[k] = "%"} = {1} \cup {4}
  BY DEF RightFormat, Letters
<1>4. /\ TotalFormat \in Seq(Letters) /\ Len(TotalFormat) = 5
      /\ {k \in DOMAIN TotalFormat : TotalFormat[k] = "%"} = {2}
  BY DEF TotalFormat, Letters
<1>5. \A x : IsFiniteSet({x}) /\ Cardinality({x}) = 1
  BY FS_Singleton
<1>6. ASSUME NEW x, NEW y, x # y
      PROVE  IsFiniteSet({x} \cup {y}) /\ Cardinality({x} \cup {y}) = 2
  <2>1. IsFiniteSet({x}) /\ Cardinality({x}) = 1 /\ y \notin {x}
    BY <1>5, <1>6
  <2>2. /\ IsFiniteSet({x} \cup {y})
        /\ Cardinality({x} \cup {y}) = Cardinality({x}) + 1
    BY <2>1, FS_AddElement
  <2> QED BY <2>1, <2>2
<1>7. Cardinality({1} \cup {4}) = 2
  <2>1. 1 # 4
    OBVIOUS
  <2> QED BY <1>6, <2>1, Zenon
<1>8. Cardinality({2, 5} \cup {8}) = 3
  <2> DEFINE S == {2} \cup {5}
  <2>1. IsFiniteSet(S) /\ Cardinality(S) = 2 /\ 8 \notin S
    BY <1>6
  <2>2. {2, 5} \cup {8} = S \cup {8}
    OBVIOUS
  <2> HIDE DEF S
  <2>3. Cardinality(S \cup {8}) = Cardinality(S) + 1
    BY <2>1, FS_AddElement
  <2> QED BY <2>1, <2>2, <2>3
<1> QED BY <1>1, <1>2, <1>3, <1>4, <1>5, <1>7, <1>8
-----------------------------------------------------------------------------
(***************************************************************************)
(* Sequences that are joined.                                              *)
(***************************************************************************)
Joins(S, s, t) ==
  /\ s \o t \in Seq(S) /\ Len(s \o t) = Len(s) + Len(t)
  /\ \A k \in 1..Len(s) : (s \o t)[k] = s[k]
  /\ \A k \in 1..Len(t) : (s \o t)[k + Len(s)] = t[k]

LEMMA Joined ==
  ASSUME NEW S, NEW s \in Seq(S), NEW t \in Seq(S)
  PROVE  Joins(S, s, t)
BY DEF Joins

(***************************************************************************)
(* The texts of the program, and where they are.                           *)
(***************************************************************************)
Texts ==
  {ErrorTexts[k] : k \in 1..33} \cup {WarningTexts[k] : k \in 1..7} \cup
  {"file", "ERROR", "Successful"}

LEMMA TextTables ==
  /\ ErrorTexts \in Seq(Texts) /\ Len(ErrorTexts) = 33
  /\ WarningTexts \in Seq(Texts) /\ Len(WarningTexts) = 7
<1>1. /\ ErrorTexts = [k \in 1..33 |-> ErrorTexts[k]]
      /\ WarningTexts = [k \in 1..7 |-> WarningTexts[k]]
  BY DEF ErrorTexts, WarningTexts
<1> QED BY <1>1 DEF Texts

LEMMA LiteralsAre ==
  /\ Literals \in Seq(Texts) /\ Len(Literals) = 43
  /\ Literals[1] = "file" /\ Literals[2] = "ERROR" /\ Literals[3] = "Successful"
  /\ \A k \in 1..7 : Literals[k + 3] = WarningTexts[k]
  /\ \A k \in 1..33 : Literals[k + 10] = ErrorTexts[k]
<1> DEFINE first == <<"file", "ERROR", "Successful">>
<1>1. first \in Seq(Texts) /\ Len(first) = 3
  BY DEF Texts
<1>2. first[1] = "file" /\ first[2] = "ERROR" /\ first[3] = "Successful"
  OBVIOUS
<1> HIDE DEF first
<1> DEFINE second == first \o WarningTexts
<1>3. Joins(Texts, first, WarningTexts)
  BY <1>1, TextTables, Joined
<1> HIDE DEF second
<1>4. Joins(Texts, second, ErrorTexts)
  <2>1. second \in Seq(Texts)
    BY <1>3 DEF Joins, second
  <2> QED BY <2>1, TextTables, Joined
<1>5. Literals = second \o ErrorTexts
  BY DEF Literals, second, first
<1>6. /\ Len(second) = 10
      /\ \A k \in 1..3 : second[k] = first[k]
      /\ \A k \in 1..7 : second[k + 3] = WarningTexts[k]
  <2>1. Len(second) = 10
    BY <1>1, <1>3, TextTables DEF Joins, second
  <2>2. \A k \in 1..3 : second[k] = first[k]
    BY <1>1, <1>3 DEF Joins, second
  <2>3. \A k \in 1..7 : second[k + 3] = WarningTexts[k]
    BY <1>1, <1>3, TextTables DEF Joins, second
  <2> QED BY <2>1, <2>2, <2>3
<1>7. Literals \in Seq(Texts) /\ Len(Literals) = 43
  BY <1>4, <1>5, <1>6, TextTables DEF Joins
<1>8. /\ \A k \in 1..10 : Literals[k] = second[k]
      /\ \A k \in 1..33 : Literals[k + 10] = ErrorTexts[k]
  BY <1>4, <1>5, <1>6, TextTables DEF Joins
<1>9. \A k \in 1..7 : Literals[k + 3] = WarningTexts[k]
  <2> TAKE k \in 1..7
  <2>1. k + 3 \in 1..10
    OBVIOUS
  <2> QED BY <1>6, <1>8, <2>1
<1>10. Literals[1] = "file" /\ Literals[2] = "ERROR" /\ Literals[3] = "Successful"
  BY <1>2, <1>6, <1>8
<1> QED BY <1>7, <1>8, <1>9, <1>10

(***************************************************************************)
(* The address of a text is where it is.                                   *)
(***************************************************************************)
LEMMA AddressIs ==
  ASSUME NEW n \in 1..43
  PROVE  AddressOf(Literals[n]) \in 1..43 /\ Literals[AddressOf(Literals[n])] = Literals[n]
<1> DEFINE text == Literals[n]
           S == {k \in 1..43 : Literals[k] = text}
<1>1. PICK k \in S : \A j \in S : k <= j
  <2>1. S \subseteq Nat /\ n \in S
    OBVIOUS
  <2> QED BY <2>1, Least
<1>2. DOMAIN Literals = 1..43
  <2>1. Literals \in Seq(Texts)
    BY LiteralsAre
  <2> QED BY <2>1, LiteralsAre
<1>3. k \in DOMAIN Literals /\ Literals[k] = text /\ \A j \in 1..(k - 1) : Literals[j] # text
  <2>1. \A j \in 1..(k - 1) : j \in 1..43 /\ ~ (k <= j)
    BY <1>1
  <2> QED BY <1>1, <1>2, <2>1
<1> HIDE DEF text
<1> QED BY <1>2, <1>3 DEF AddressOf, text

(***************************************************************************)
(* An error shares its text with no other status, but for two of them.     *)
(***************************************************************************)
LEMMA TextsDiffer ==
  /\ \A j \in 1..33 : ErrorTexts[j] # "Successful"
  /\ \A j \in 1..33, k \in 1..7 : ErrorTexts[j] # WarningTexts[k]
  /\ \A j \in 1..33, k \in 1..33 : ErrorTexts[j] = ErrorTexts[k] => j = k \/ {j, k} = {29, 33}
  /\ \A j \in 1..33 : ErrorTexts[j] # "ERROR"
  /\ \A k \in 1..7 : WarningTexts[k] # "ERROR"
<1>1. \A j \in 1..33 : ErrorTexts[j] # "Successful"
  BY DEF ErrorTexts
<1>2. \A j \in 1..33, k \in 1..7 : ErrorTexts[j] # WarningTexts[k]
  BY DEF ErrorTexts, WarningTexts
<1>3. \A j \in 1..33, k \in 1..33 : ErrorTexts[j] = ErrorTexts[k] => j = k \/ {j, k} = {29, 33}
  BY SMTT(60) DEF ErrorTexts
<1>4. \A j \in 1..33 : ErrorTexts[j] # "ERROR"
  BY DEF ErrorTexts
<1>5. \A k \in 1..7 : WarningTexts[k] # "ERROR"
  BY DEF WarningTexts
<1> QED BY <1>1, <1>2, <1>3, <1>4, <1>5

LEMMA ErrorStringCases ==
  ASSUME NEW s \in Defined
  PROVE  /\ s = [error |-> s.error, code |-> s.code] /\ s.error \in BOOLEAN
         /\ s.error => s.code \in 1..33 /\ EfiErrorString(s) = ErrorTexts[s.code]
         /\ ~s.error =>
              /\ s.code \in 0..7
              /\ EfiErrorString(s) =
                   IF s.code = 0 THEN "Successful" ELSE WarningTexts[s.code]
<1>1. /\ s = [error |-> s.error, code |-> s.code] /\ s.error \in BOOLEAN
      /\ s.error => s.code \in 1..33
      /\ ~s.error => s.code \in 0..7
  BY TextTables DEF Defined
<1> QED BY <1>1 DEF EfiErrorString

LEMMA ErrorStringIs ==
  ASSUME NEW s
  PROVE  \E n \in 1..43 : EfiErrorString(s) = Literals[n]
<1>0. CASE s \notin Defined
  <2>1. EfiErrorString(s) = Literals[2]
    BY <1>0, LiteralsAre DEF EfiErrorString
  <2> QED BY <2>1
<1> SUFFICES ASSUME s \in Defined PROVE \E n \in 1..43 : EfiErrorString(s) = Literals[n]
  BY <1>0
<1> DEFINE c == s.code
<1>1. /\ s.error \in BOOLEAN
      /\ s.error => c \in 1..33
      /\ ~s.error => c \in 0..7
  BY ErrorStringCases
<1>2. /\ s.error => EfiErrorString(s) = ErrorTexts[c]
      /\ ~s.error => EfiErrorString(s) = IF c = 0 THEN "Successful" ELSE WarningTexts[c]
  BY ErrorStringCases
<1> HIDE DEF c
<1>3. CASE s.error
  <2>1. c \in 1..33
    BY <1>1, <1>3
  <2>2. c + 10 \in 1..43 /\ Literals[c + 10] = ErrorTexts[c]
    <3>1. \A k \in 1..33 : Literals[k + 10] = ErrorTexts[k]
      BY LiteralsAre
    <3> QED BY <2>1, <3>1
  <2> QED BY <1>2, <1>3, <2>2
<1>4. CASE ~s.error /\ c # 0
  <2>1. c \in 1..7
    BY <1>1, <1>4
  <2>2. c + 3 \in 1..43 /\ Literals[c + 3] = WarningTexts[c]
    <3>1. \A k \in 1..7 : Literals[k + 3] = WarningTexts[k]
      BY LiteralsAre
    <3> QED BY <2>1, <3>1
  <2> QED BY <1>2, <1>4, <2>2
<1>5. CASE ~s.error /\ c = 0
  BY <1>2, <1>5, LiteralsAre
<1> QED BY <1>1, <1>3, <1>4, <1>5

(***************************************************************************)
(* What EfiAssert hands to EfiPrintF are words.                            *)
(***************************************************************************)
LEMMA ReportWords ==
  ASSUME NEW s
  PROVE  /\ AddressOf("file") \in Words
         /\ AddressOf(EfiErrorString(s)) \in Words
<1>1. Len(Literals) = 43 /\ 43 < WordValues /\ WordValues \in Nat
  BY LiteralsAre, AssertAssumption, Ranges DEF AssertAssumption
<1>2. 1..43 \subseteq Words
  BY <1>1 DEF Words
<1>3. AddressOf("file") \in 1..43
  BY AddressIs, LiteralsAre
<1>4. AddressOf(EfiErrorString(s)) \in 1..43
  BY AddressIs, ErrorStringIs
<1> QED BY <1>2, <1>3, <1>4
-----------------------------------------------------------------------------
(***************************************************************************)
(* The listing: the cells of the next descriptor, wherever it begins, and  *)
(* a size in kilobytes that is a word too short to overrun the array.      *)
(***************************************************************************)
LEMMA Descriptor ==
  ASSUME MapTypeOK, DescriptorSize >= 2
  PROVE  /\ MapEntries = Len(map)
         /\ i < Len(map) =>
              /\ map[i + 1].type \in Nat /\ map[i + 1].pages \in Words
              /\ Cell(desc) = map[i + 1].type
              /\ Cell(desc + 1) = map[i + 1].pages
<1> DEFINE d == DescriptorSize
<1>1. i \in Nat /\ d \in Nat /\ d >= 2 /\ Len(map) \in Nat
  BY DEF MapTypeOK
<1>2. (Len(map) * d) \div d = Len(map)
  <2> DEFINE n == Len(map)
  <2> HIDE DEF n, d
  <2>1. n * d \in Nat /\ n * d = d * n + 0
    BY <1>1 DEF n
  <2>2. (n * d) \div d = n
    BY <1>1, <2>1, QuotientUnique DEF n
  <2> QED BY <2>2 DEF n
<1>3. /\ (i * d) \div d = i /\ (i * d) % d = 0
      /\ (i * d + 1) \div d = i /\ (i * d + 1) % d = 1
  <2> DEFINE a == i * d
             b == a + 1
  <2> HIDE DEF d
  <2>1. a \in Nat /\ b \in Nat /\ a = d * i + 0 /\ b = d * i + 1
    BY <1>1
  <2> HIDE DEF a, b
  <2>2. a \div d = i /\ a % d = 0
    BY <1>1, <2>1, QuotientUnique
  <2>3. b \div d = i /\ b % d = 1
    <3>1. 1 \in Nat /\ 1 < d /\ d >= 1
      BY <1>1
    <3> QED BY <1>1, <2>1, <3>1, QuotientUnique
  <2> QED BY <2>2, <2>3 DEF a, b
<1>4. ASSUME i < Len(map)
      PROVE  i + 1 \in DOMAIN map /\ map[i + 1].type \in Nat /\ map[i + 1].pages \in Words
  <2> DEFINE n == i + 1
             D == [type: Nat, pages: Words]
  <2>1. n \in 1..Len(map) /\ map \in Seq(D)
    BY <1>1, <1>4 DEF MapTypeOK
  <2> HIDE DEF n, D
  <2>2. n \in DOMAIN map /\ map[n] \in D
    BY <2>1
  <2> QED BY <2>2 DEF n, D
<1>5. ASSUME i < Len(map)
      PROVE  Cell(desc) = map[i + 1].type
  BY <1>1, <1>3, <1>4, <1>5 DEF Cell, desc
<1>6. ASSUME i < Len(map)
      PROVE  Cell(desc + 1) = map[i + 1].pages
  BY <1>1, <1>3, <1>4, <1>6 DEF Cell, desc
<1> QED BY <1>2, <1>4, <1>5, <1>6 DEF MapEntries

LEMMA Sizes ==
  ASSUME NEW pages \in Nat
  PROVE  /\ SizeOf(pages) \in Words /\ SizeOf(pages) \in Nat
         /\ SizeOf(pages) < TooLong
<1> DEFINE bytes == pages * PageBytes
           cut == bytes % WordValues
           size == cut \div Kilobyte
           most == WordValues \div Kilobyte
<1>1. /\ Kilobyte \in Nat /\ Kilobyte >= 1 /\ PageBytes \in Nat
      /\ most < TooLong
  BY MemoryMapAssumption DEF MemoryMapAssumption
<1>2. bytes \in Nat
  BY <1>1
<1>3. cut \in Nat /\ cut < WordValues
  BY <1>2, Ranges, Division
<1> HIDE DEF cut
<1>4. size \in Nat /\ cut = Kilobyte * size + (cut % Kilobyte) /\ cut % Kilobyte \in Nat
  BY <1>1, <1>3, Division
<1>5. /\ most \in Nat /\ WordValues = Kilobyte * most + (WordValues % Kilobyte)
      /\ WordValues % Kilobyte \in Nat /\ WordValues % Kilobyte < Kilobyte
  BY <1>1, Ranges, Division
<1> HIDE DEF size, most
<1>6. size <= cut
  <2> DEFINE rest == cut % Kilobyte
             k == Kilobyte - 1
  <2>1. rest \in Nat /\ k \in Nat /\ cut = size + k * size + rest /\ k * size \in Nat
    BY <1>1, <1>3, <1>4
  <2> QED BY <1>3, <1>4, <2>1
<1>7. size <= most
  <2> DEFINE rest == WordValues % Kilobyte
             more == size - most - 1
  <2>1. CASE size > most
    <3>1. more \in Nat /\ size = most + 1 + more
      BY <1>4, <1>5, <2>1
    <3> HIDE DEF more
    <3>2. Kilobyte * size = Kilobyte * most + Kilobyte + Kilobyte * more
          /\ Kilobyte * more \in Nat
      BY <1>1, <1>5, <3>1
    <3>3. Kilobyte * size \in Nat /\ Kilobyte * most \in Nat
      BY <1>1, <1>4, <1>5
    <3> QED BY <1>1, <1>3, <1>4, <1>5, <3>2, <3>3, Ranges
  <2> QED BY <1>4, <1>5, <2>1
<1>8. size \in Words /\ size < TooLong
  BY <1>1, <1>3, <1>4, <1>5, <1>6, <1>7, Ranges DEF Words
<1> QED BY <1>4, <1>8 DEF SizeOf, size, cut

LEMMA TypeAddresses ==
  ASSUME NEW type \in Nat, type < Len(EFI_MEMORY_TYPE_STRINGS)
  PROVE  AddressOfType(type) \in Words
<1>1. Len(EFI_MEMORY_TYPE_STRINGS) \in Nat
  BY DEF EFI_MEMORY_TYPE_STRINGS
<1> QED BY <1>1, LiteralsAre, Ranges, MemoryMapAssumption
        DEF MemoryMapAssumption, AddressOfType, Words
-----------------------------------------------------------------------------
(***************************************************************************)
(* The invariant of the loop, its callers and EfiMemoryMap together.       *)
(***************************************************************************)
MapInv == LoopInv /\ CallerInv /\ MapTypeOK

LEMMA MapInvInit == MapInit => MapInv
<1> SUFFICES ASSUME MapInit PROVE MapInv
  OBVIOUS
<1>1. FirmwareTypeOK
  BY MaxEventsAssumption DEF MapInit, FirmwareInit, FirmwareTypeOK, MaxEventsAssumption
<1>2. 0 \in Words /\ HalfInt - 1 \in Nat
  BY Ranges DEF Words
<1>3. Success \in EFI_STATUS
  BY DEF Success, EFI_STATUS
<1>4. NotCalled => LoopInv
  <2> SUFFICES ASSUME NotCalled PROVE LoopInv
    OBVIOUS
  <2>1. Percents = {}
    BY DEF NotCalled, Percents
  <2>2. Enough
    BY <2>1, FS_EmptySet DEF NotCalled, Enough
  <2>3. TypeOK
    <3>1. /\ << >> \in Seq(Letters) /\ << >> \in Seq(Words) /\ << >> \in Seq(Pieces)
          /\ Len(format) = 0 /\ Len(list) = 0
      BY DEF NotCalled
    <3>2. format \in Seq(Letters) /\ list \in Seq(Words) /\ out \in Seq(Pieces)
      BY <3>1 DEF NotCalled
    <3>3. character \in 1..(Len(format) + 1) /\ arg \in 0..Len(list)
      BY <3>1 DEF NotCalled
    <3> QED BY <3>2, <3>3 DEF NotCalled, TypeOK
  <2>4. pc = "returned"
    BY DEF NotCalled
  <2> QED BY <2>2, <2>3, <2>4 DEF LoopInv, ArgumentsTaken, OverrunExplained
<1>5. Init => LoopInv
  <2> SUFFICES ASSUME Init PROVE LoopInv
    OBVIOUS
  <2>1. PICK call \in Calls : format = call[1] /\ list = call[2]
    BY DEF Init
  <2>2. format \in Seq(Letters) /\ list \in Seq(Words) /\ Enough
    BY <2>1, PrintfAssumption DEF PrintfAssumption, Enough, Percents
  <2>3. TypeOK
    BY <2>2 DEF Init, TypeOK
  <2>4. TakingBefore = {}
    BY DEF Init, TakingBefore
  <2>5. arg = 0 /\ pc = "run" /\ Cardinality(TakingBefore) = 0
    BY <2>4, FS_EmptySet DEF Init
  <2> QED BY <2>2, <2>3, <2>5 DEF LoopInv, ArgumentsTaken, OverrunExplained
<1>6. CASE AssertInit /\ at = "none" /\ map = << >> /\ DescriptorSize = 0
  <2>1. CallerInv
    <3>1. line \in 0..(HalfInt - 1) /\ status \in EFI_STATUS
      BY <1>3, <1>6, AssertAssumption DEF AssertInit, AssertAssumption
    <3> QED BY <1>6, <3>1 DEF CallerInv, AssertInit, NotCalled
  <2>2. MapTypeOK
    BY <1>1, <1>2, <1>6 DEF MapInit, MapTypeOK
  <2> QED BY <1>4, <1>5, <1>6, <2>1, <2>2 DEF AssertInit, MapInv
<1>7. CASE /\ NotCalled /\ caller = "other" /\ status = Success /\ line = 0
           /\ \/ at = "list" /\ map \in Maps /\ DescriptorSize \in DescriptorSizes
              \/ at = "size" /\ map = << >> /\ DescriptorSize = 0
  <2>1. \/ /\ at = "list" /\ DescriptorSize \in Nat /\ DescriptorSize >= 2
           /\ map \in Seq([type: Nat, pages: Words])
        \/ at = "size" /\ map = << >> /\ DescriptorSize = 0
    BY <1>7, MemoryMapAssumption DEF MemoryMapAssumption
  <2>2. CallerInv
    BY <1>2, <1>3, <1>7, <2>1 DEF CallerInv, NotCalled
  <2>3. MapTypeOK
    <3>1. map \in Seq([type: Nat, pages: Words]) /\ DescriptorSize \in Nat
      <4> DEFINE Rows == Seq([type: Nat, pages: Words])
      <4>1. << >> \in Rows /\ 0 \in Nat
        OBVIOUS
      <4>2. CASE map \in Rows /\ DescriptorSize \in Nat
        BY <4>2
      <4>3. CASE map = << >> /\ DescriptorSize = 0
        BY <4>1, <4>3
      <4> HIDE DEF Rows
      <4> QED BY <2>1, <4>2, <4>3 DEF Rows
    <3>2. i \in 0..Len(map) /\ TotalRam \in Words /\ {MemoryMapSize, MapKey} \subseteq Nat
      BY <1>2, <3>1 DEF MapInit
    <3> QED BY <1>1, <2>1, <3>1, <3>2 DEF MapInit, MapTypeOK
  <2> QED BY <1>4, <1>7, <2>2, <2>3 DEF MapInv
<1> QED BY <1>6, <1>7 DEF MapInit

(***************************************************************************)
(* EfiAssert, and a turn of the loop that somebody waits for.              *)
(***************************************************************************)
LEMMA AssertKeeps ==
  MapInv /\ AssertNext /\ UNCHANGED <<at, listing, getting>> => MapInv'
<1> SUFFICES ASSUME MapInv, AssertNext, UNCHANGED <<at, listing, getting>>
             PROVE  MapInv'
  OBVIOUS
<1> USE DEF MapInv
<1>1. /\ MapTypeOK'
      /\ at' = at /\ DescriptorSize' = DescriptorSize
  BY DEF MapTypeOK, FirmwareTypeOK, listing, getting, firmware
<1>2. CASE EfiAssert
  <2>1. CASE status.error
    <3> DEFINE l == <<AddressOf("file"), line, AddressOf(EfiErrorString(status))>>
    <3>0. AddressOf("file") \in Words /\ AddressOf(EfiErrorString(status)) \in Words
      BY ReportWords DEF CallerInv
    <3>1. Call(AssertFormat, l) /\ caller = "assert" /\ caller' = "report"
          /\ status' = status /\ line' = line
      BY <1>2, <2>1 DEF EfiAssert
    <3>2. l \in Seq(Words) /\ Len(l) = 3
      <4>1. line \in Words
        BY Ranges DEF CallerInv, Words
      <4> QED BY <3>0, <4>1
    <3> HIDE DEF l
    <3>3. LoopInv'
      <4>1. /\ AssertFormat \in Seq(Letters) /\ TypeOK
            /\ Cardinality({k \in DOMAIN AssertFormat : AssertFormat[k] = "%"}) <= Len(l)
        BY <3>2, OwnFormats DEF LoopInv
      <4> QED BY <3>1, <3>2, <4>1, CallKeeps
    <3> QED BY <1>1, <3>1, <3>3 DEF CallerInv
  <2>2. CASE ~status.error
    <3>1. UNCHANGED vars /\ caller' = "back" /\ status' = status /\ line' = line
          /\ caller = "assert"
      BY <1>2, <2>2 DEF EfiAssert
    <3>2. LoopInv'
      BY <3>1 DEF vars, LoopInv, TypeOK, Enough, Percents, ArgumentsTaken,
                  TakingBefore, OverrunExplained, At, word, int, unsigned
    <3> QED BY <1>1, <3>1, <3>2 DEF CallerInv, vars
  <2> QED BY <2>1, <2>2
<1>3. CASE EfiHalt \/ Release
  <2>1. UNCHANGED <<vars, status, line>> /\ caller' \in {"halted", "back"} /\ caller # "other"
    BY <1>3 DEF EfiHalt, Release
  <2>2. LoopInv'
    BY <2>1 DEF vars, LoopInv, TypeOK, Enough, Percents, ArgumentsTaken,
                TakingBefore, OverrunExplained, At, word, int, unsigned
  <2> QED BY <1>1, <2>1, <2>2 DEF CallerInv, vars
<1>4. CASE Next /\ UNCHANGED assert
  <2>1. LoopInv'
    BY <1>4, TurnKeeps
  <2>2. pc = "run"
    BY <1>4 DEF Next, PrintOrdinary, PrintC, PrintD, PrintO, PrintS, PrintX, PrintZU,
                GiveUp, Return, Conversion
  <2> QED BY <1>1, <1>4, <2>1, <2>2 DEF CallerInv, assert
<1> QED BY <1>2, <1>3, <1>4 DEF AssertNext

(***************************************************************************)
(* EfiPrintMemoryMap.                                                      *)
(***************************************************************************)
LEMMA StillVars == LoopInv /\ UNCHANGED vars => LoopInv'
BY DEF vars, LoopInv, TypeOK, Enough, Percents, ArgumentsTaken, TakingBefore,
       OverrunExplained, At, word, int, unsigned

LEMMA EntryIs ==
  ASSUME MapInv, Entry
  PROVE  /\ at = "list" /\ pc = "returned" /\ i < Len(map) /\ i \in Nat
         /\ DescriptorSize >= 2
         /\ map[i + 1].type \in Nat /\ map[i + 1].pages \in Nat
         /\ i' = i + 1 /\ TotalRam' = Total(SizeOf(map[i + 1].pages))
         /\ UNCHANGED <<assert, map, DescriptorSize, getting>>
         /\ \/ /\ map[i + 1].type < Len(EFI_MEMORY_TYPE_STRINGS)
               /\ Call(IF i % 2 = 0 THEN LeftFormat ELSE RightFormat,
                       <<AddressOfType(map[i + 1].type), SizeOf(map[i + 1].pages)>>)
               /\ at' = at
            \/ /\ map[i + 1].type >= Len(EFI_MEMORY_TYPE_STRINGS)
               /\ at' = "wild"
               /\ UNCHANGED vars
<1>1. DescriptorSize >= 2 /\ MapTypeOK /\ i \in Nat /\ at = "list" /\ pc = "returned"
  BY DEF MapInv, CallerInv, MapTypeOK, Entry
<1>2. i < Len(map)
  BY <1>1, Descriptor DEF Entry
<1>3. /\ map[i + 1].type \in Nat /\ map[i + 1].pages \in Words
      /\ Cell(desc) = map[i + 1].type /\ Cell(desc + 1) = map[i + 1].pages
  BY <1>1, <1>2, Descriptor
<1>4. map[i + 1].pages \in Nat
  BY <1>3, Ranges DEF Words
<1>5. kb = SizeOf(map[i + 1].pages)
  BY <1>3 DEF kb
<1> QED BY <1>1, <1>2, <1>3, <1>4, <1>5 DEF Entry

LEMMA TotalIs ==
  ASSUME TotalRam \in Words, NEW size \in Nat
  PROVE  Total(size) \in Words
<1>1. TotalRam + size \in Nat
  BY Ranges DEF Words
<1> HIDE DEF Words
<1>2. Total(size) \in Nat /\ Total(size) < WordValues
  BY <1>1, Ranges, Division DEF Total
<1> QED BY <1>2, Ranges DEF Words

LEMMA EntryKeeps == MapInv /\ Entry => MapInv'
<1> SUFFICES ASSUME MapInv, Entry PROVE MapInv'
  OBVIOUS
<1> DEFINE type == map[i + 1].type
           size == SizeOf(map[i + 1].pages)
           f == IF i % 2 = 0 THEN LeftFormat ELSE RightFormat
           l == <<AddressOfType(type), size>>
<1>1. /\ at = "list" /\ pc = "returned" /\ i < Len(map) /\ i \in Nat
      /\ type \in Nat /\ size \in Nat /\ size \in Words
      /\ i' = i + 1 /\ TotalRam' = Total(size)
      /\ UNCHANGED <<assert, map, DescriptorSize, getting>>
  BY EntryIs, Sizes
<1>2. \/ type < Len(EFI_MEMORY_TYPE_STRINGS) /\ Call(f, l) /\ at' = at
      \/ at' = "wild" /\ UNCHANGED vars
  BY EntryIs
<1>3. f \in {LeftFormat, RightFormat}
  OBVIOUS
<1> HIDE DEF f, type, size
<1>4. MapTypeOK'
  <2>1. TotalRam' \in Words
    BY <1>1, TotalIs DEF MapInv, MapTypeOK
  <2>2. i' \in 0..Len(map')
    BY <1>1 DEF MapInv, MapTypeOK
  <2>3. at' \in {"list", "wild"}
    BY <1>1, <1>2
  <2> QED BY <1>1, <2>1, <2>2, <2>3
          DEF MapInv, MapTypeOK, FirmwareTypeOK, getting, firmware
<1>5. CallerInv'
  BY <1>1, <1>2 DEF MapInv, CallerInv, assert, vars
<1>6. LoopInv'
  <2>1. CASE type < Len(EFI_MEMORY_TYPE_STRINGS) /\ Call(f, l)
    <3>1. l \in Seq(Words) /\ Len(l) = 2
      <4>1. AddressOfType(type) \in Words
        BY <1>1, <2>1, TypeAddresses
      <4> QED BY <1>1, <4>1
    <3> HIDE DEF l
    <3>2. /\ f \in Seq(Letters) /\ TypeOK
          /\ Cardinality({k \in DOMAIN f : f[k] = "%"}) <= Len(l)
      <4>1. \A g \in {LeftFormat, RightFormat} :
              /\ g \in Seq(Letters)
              /\ Cardinality({k \in DOMAIN g : g[k] = "%"}) = 2
        BY OwnFormats
      <4>2. f \in Seq(Letters) /\ Cardinality({k \in DOMAIN f : f[k] = "%"}) = 2
        BY <1>3, <4>1, Zenon
      <4> QED BY <3>1, <4>2 DEF MapInv, LoopInv
    <3> QED BY <2>1, <3>1, <3>2, CallKeeps
  <2>2. CASE UNCHANGED vars
    BY <2>2, StillVars DEF MapInv
  <2> QED BY <1>2, <2>1, <2>2
<1> QED BY <1>4, <1>5, <1>6 DEF MapInv

LEMMA TotalLineKeeps == MapInv /\ TotalLine => MapInv'
<1> SUFFICES ASSUME MapInv, TotalLine PROVE MapInv'
  OBVIOUS
<1> DEFINE l == <<TotalRam>>
<1>1. /\ at = "list" /\ at' = "total" /\ Call(TotalFormat, l)
      /\ UNCHANGED <<assert, listing, getting>>
  BY DEF TotalLine
<1>2. l \in Seq(Words) /\ Len(l) = 1
  BY DEF MapInv, MapTypeOK
<1> HIDE DEF l
<1>3. LoopInv'
  <2>1. /\ TotalFormat \in Seq(Letters) /\ TypeOK
        /\ Cardinality({k \in DOMAIN TotalFormat : TotalFormat[k] = "%"}) <= Len(l)
    BY <1>2, OwnFormats DEF MapInv, LoopInv
  <2> QED BY <1>1, <1>2, <2>1, CallKeeps
<1>4. MapTypeOK'
  BY <1>1 DEF MapInv, MapTypeOK, FirmwareTypeOK, getting, firmware, listing
<1>5. CallerInv'
  BY <1>1 DEF MapInv, CallerInv, assert, listing
<1> QED BY <1>1, <1>3, <1>4, <1>5 DEF MapInv

LEMMA ListedKeeps == MapInv /\ Listed => MapInv'
<1> SUFFICES ASSUME MapInv, Listed PROVE MapInv'
  OBVIOUS
<1>1. /\ at = "total" /\ at' = "done" /\ pc = "returned"
      /\ UNCHANGED <<vars, assert, listing, getting>>
  BY DEF Listed
<1>2. LoopInv'
  BY <1>1, StillVars DEF MapInv
<1>3. MapTypeOK'
  BY <1>1 DEF MapInv, MapTypeOK, FirmwareTypeOK, getting, firmware, listing
<1>4. CallerInv'
  BY <1>1 DEF MapInv, CallerInv, assert, listing, vars
<1> QED BY <1>1, <1>2, <1>3, <1>4 DEF MapInv

(***************************************************************************)
(* EfiMemoryMap, and the firmware under it.                                *)
(***************************************************************************)
LEMMA MemoryMapKeeps ==
  MapInv /\ (SizeMemoryMap \/ AllocateMemoryMap \/ GetMemoryMap \/ FirmwareEvent) => MapInv'
<1> SUFFICES ASSUME MapInv, SizeMemoryMap \/ AllocateMemoryMap \/ GetMemoryMap \/ FirmwareEvent
             PROVE  MapInv'
  OBVIOUS
<1>1. /\ UNCHANGED <<vars, assert, listing>>
      /\ at \in {"size", "allocate", "get", "key"}
      /\ at' \in {"size", "allocate", "get", "key", "halted"}
  BY DEF SizeMemoryMap, AllocateMemoryMap, GetMemoryMap, FirmwareEvent
<1>2. LoopInv' /\ pc' # "run"
  BY <1>1, StillVars DEF MapInv, CallerInv, vars
<1>3. CallerInv'
  BY <1>1, <1>2 DEF MapInv, CallerInv, assert
<1>4. MapTypeOK'
  <2> SUFFICES FirmwareTypeOK' /\ {MemoryMapSize', MapKey'} \subseteq Nat
    BY <1>1 DEF MapInv, MapTypeOK, listing
  <2> USE DEF MapInv, MapTypeOK, FirmwareTypeOK
  <2>1. CASE SizeMemoryMap
    BY <2>1 DEF SizeMemoryMap, firmware
  <2>2. CASE AllocateMemoryMap
    <3>1. FirmwareTypeOK'
      BY <2>2 DEF AllocateMemoryMap, firmware, PoolTaken
    <3> QED BY <2>2, <3>1 DEF AllocateMemoryMap
  <2>3. CASE GetMemoryMap
    BY <2>3 DEF GetMemoryMap, firmware
  <2>4. CASE FirmwareEvent
    <3>1. FirmwareTypeOK'
      BY <2>4, MaxEventsAssumption DEF FirmwareEvent, MapChanges, MaxEventsAssumption
    <3> QED BY <2>4, <3>1 DEF FirmwareEvent
  <2> QED BY <2>1, <2>2, <2>3, <2>4
<1> QED BY <1>2, <1>3, <1>4 DEF MapInv

LEMMA MapInvStep == MapInv /\ [MapNext]_mapVars => MapInv'
<1> SUFFICES ASSUME MapInv, [MapNext]_mapVars PROVE MapInv'
  OBVIOUS
<1>1. CASE UNCHANGED mapVars
  <2>1. LoopInv'
    BY <1>1, StillVars DEF mapVars, MapInv
  <2>2. CallerInv' /\ MapTypeOK'
    BY <1>1 DEF mapVars, vars, assert, listing, getting, firmware, MapInv, CallerInv,
                MapTypeOK, FirmwareTypeOK
  <2> QED BY <2>1, <2>2 DEF MapInv
<1>2. CASE MapNext
  BY <1>2, AssertKeeps, EntryKeeps, TotalLineKeeps, ListedKeeps, MemoryMapKeeps DEF MapNext
<1> QED BY <1>1, <1>2

LEMMA MapInvHolds == MapSpec => []MapInv
<1> QED BY MapInvInit, MapInvStep, PTL DEF MapSpec

(***************************************************************************)
(* EfiPrintF keeps its variables in their types, whoever calls it: the     *)
(* position stays in the format or at its terminator, and no more          *)
(* arguments are taken than the list has.                                  *)
(***************************************************************************)
THEOREM PrintfTypes == MapSpec => []TypeOK
<1>1. MapInv => TypeOK
  BY DEF MapInv, LoopInv
<1> QED BY <1>1, MapInvHolds, PTL

(***************************************************************************)
(* For every format and every list of arguments that is long enough, each  *)
(* conversion takes the argument of its own number, until the format has   *)
(* a %o (efi_main.c:129), which takes none: what is behind one gets an     *)
(* argument too early, and this theorem says nothing of it.                *)
(***************************************************************************)
THEOREM OwnArgumentsTaken == MapSpec => []OwnArguments
<1>1. MapInv => OwnArguments
  <2> SUFFICES ASSUME MapInv, pc = "run", ~ OctalBefore
               PROVE  arg = Cardinality(ConversionsBefore)
    BY DEF OwnArguments
  <2>1. ConversionsBefore = TakingBefore
    BY DEF OctalBefore, ConversionsBefore, TakingBefore
  <2> QED BY <2>1 DEF MapInv, LoopInv, ArgumentsTaken
<1> QED BY <1>1, MapInvHolds, PTL

(***************************************************************************)
(* The array of U64ToString is overrun by a %zu of too many digits or by   *)
(* the smallest int, and by nothing else.                                  *)
(***************************************************************************)
THEOREM OverrunOnlySo == MapSpec => []OverrunExplained
<1>1. MapInv => OverrunExplained
  BY DEF MapInv, LoopInv
<1> QED BY <1>1, MapInvHolds, PTL

(***************************************************************************)
(* Every turn of the loop that takes an argument prints a numeral that     *)
(* reads back as that argument.                                            *)
(***************************************************************************)
THEOREM NumbersPrinted == MapSpec => SaysItsArgument
<1> DEFINE Says == /\ Conversion("d") => ReadBack(Printed) = int
                   /\ Conversion("x") => ReadBack(Printed) = unsigned
                   /\ Conversion("z") => ReadBack(Printed) = word
<1>1. MapInv /\ [MapNext]_mapVars => [arg' > arg => Says]_vars
  <2> SUFFICES ASSUME MapInv, [MapNext]_mapVars, ~ UNCHANGED vars, arg' > arg
               PROVE  Says
    BY DEF vars
  <2>1. arg \in Nat /\ ~ (0 > arg)
    BY DEF MapInv, LoopInv, TypeOK
  <2>2. Next
    <3>1. MapNext
      BY DEF mapVars
    <3>2. ~ (arg' = 0)
      BY <2>1
    <3>3. ~ (\E f, l : Call(f, l))
      BY <3>2 DEF Call
    <3> QED BY <3>1, <3>3
            DEF MapNext, AssertNext, EfiAssert, EfiHalt, Release, Entry, TotalLine, Listed,
                SizeMemoryMap, AllocateMemoryMap, GetMemoryMap, FirmwareEvent
  <2> QED BY <2>2, SaysInTurn DEF MapInv
<1> QED BY <1>1, MapInvHolds, PTL DEF MapSpec, SaysItsArgument

(***************************************************************************)
(* Every turn of the loop of EfiPrintF (efi_main.c:91-173) either ends it  *)
(* or goes on in the same format, further towards its terminator, which    *)
(* PrintfTypes says is never stepped over: no loop has more turns than its *)
(* format has characters, and the terminator.  With fairness it returns.   *)
(***************************************************************************)
Advances == pc' # "run" \/ (format' = format /\ character' > character)

THEOREM TurnsAdvance == MapSpec => [][pc = "run" => Advances]_vars
<1>1. MapInv /\ [MapNext]_mapVars => [pc = "run" => Advances]_vars
  <2> SUFFICES ASSUME MapInv, [MapNext]_mapVars, ~ UNCHANGED vars, pc = "run"
               PROVE  Advances
    BY DEF vars
  <2>1. character \in Nat
    BY DEF MapInv, LoopInv, TypeOK
  <2>2. Next
    <3>1. MapNext
      BY DEF mapVars
    <3>2. at \in {"none", "list", "total"} /\ caller # "assert"
      BY DEF MapInv, CallerInv, MapTypeOK
    <3>3. ~ (Entry \/ TotalLine \/ Listed)
      BY DEF Entry, TotalLine, Listed
    <3> QED BY <3>1, <3>2, <3>3
            DEF MapNext, AssertNext, EfiAssert, EfiHalt, Release,
                SizeMemoryMap, AllocateMemoryMap, GetMemoryMap, FirmwareEvent
  <2>3. CASE PrintOrdinary \/ PrintO
    BY <2>1, <2>3 DEF PrintOrdinary, PrintO, Advances
  <2>4. CASE PrintC \/ PrintS \/ PrintX
    BY <2>1, <2>4 DEF PrintC, PrintS, PrintX, Continue, Advances
  <2>5. CASE PrintD \/ PrintZU
    <3>1. Continue(2) \/ Continue(3) \/ Overrun
      BY <2>5 DEF PrintD, PrintZU
    <3> QED BY <2>1, <3>1 DEF Continue, Overrun, Advances
  <2>6. CASE GiveUp \/ Return
    BY <2>6 DEF GiveUp, Leave, Return, Advances
  <2> QED BY <2>2, <2>3, <2>4, <2>5, <2>6 DEF Next
<1> QED BY <1>1, MapInvHolds, PTL DEF MapSpec

(***************************************************************************)
(* The variables of EfiPrintMemoryMap and EfiMemoryMap stay in their       *)
(* types: the index stays within the map, and the total is a word.         *)
(***************************************************************************)
THEOREM MapTypes == MapSpec => []MapTypeOK
<1>1. MapInv => MapTypeOK
  BY DEF MapInv
<1> QED BY <1>1, MapInvHolds, PTL
-----------------------------------------------------------------------------
(***************************************************************************)
(* The pieces of a kind, one after the other.                              *)
(***************************************************************************)
Selects(pieces, call, P, f) ==
  /\ f \in [0..Len(pieces) -> Seq(P)]
  /\ f[0] = << >>
  /\ \A k \in 1..Len(pieces) :
       f[k] = IF pieces[k].call = call THEN Append(f[k - 1], pieces[k]) ELSE f[k - 1]
  /\ Selected(pieces, call) = f[Len(pieces)]

LEMMA Selecting ==
  ASSUME NEW P, NEW pieces \in Seq(P), NEW call
  PROVE  \E f : Selects(pieces, call, P, f)
<1> DEFINE length == Len(pieces)
           D == Seq(P)
           Goes(k, v) == IF pieces[k].call = call THEN Append(v, pieces[k]) ELSE v
           Is(p) == p = [k \in 0..length |->
                           IF k = 0 THEN << >>
                           ELSE IF pieces[k].call = call THEN Append(p[k - 1], pieces[k])
                           ELSE p[k - 1]]
           selected == CHOOSE p : Is(p)
           step == [k \in Nat |-> [v \in D |-> IF k \in 1..length THEN Goes(k, v) ELSE v]]
<1>1. length \in Nat /\ \A k \in 1..length : pieces[k] \in P
  OBVIOUS
<1>2. \A k \in 1..length : \A v \in D : Goes(k, v) \in D
  BY <1>1
<1>3. Selected(pieces, call) = selected[length]
  BY DEF Selected
<1>4. << >> \in D
  OBVIOUS
<1>5. \A p : Is(p) <=> p = [k \in 0..length |-> IF k = 0 THEN << >> ELSE Goes(k, p[k - 1])]
  OBVIOUS
<1> HIDE DEF D, length, selected, Is, Goes
<1>6. step \in [Nat -> [D -> D]]
  BY <1>2
<1>7. \A k \in 1..length : \A v \in D : step[k][v] = Goes(k, v)
  BY <1>1
<1> HIDE DEF step
<1>8. Recursive(D, << >>, step)
  BY <1>4, <1>6, Recursion
<1>9. PICK f \in [Nat -> D] :
        f[0] = << >> /\ \A k \in Nat : f[k + 1] = step[k + 1][f[k]]
  BY <1>8 DEF Recursive
<1> DEFINE g == [k \in 0..length |-> f[k]]
<1>10. g \in [0..length -> D] /\ g[0] = << >>
  <2>1. \A k \in 0..length : f[k] \in D
    BY <1>1
  <2> QED BY <1>1, <1>9, <2>1
<1>11. ASSUME NEW k \in 1..length
       PROVE  g[k] = Goes(k, g[k - 1])
  <2>1. k - 1 \in Nat /\ k - 1 + 1 = k /\ k \in 0..length /\ k - 1 \in 0..length
    BY <1>1
  <2>2. f[k] = step[k][f[k - 1]]
    BY <1>9, <2>1
  <2> QED BY <1>7, <2>1, <2>2
<1>12. Is(g)
  <2>1. ASSUME NEW k \in 0..length
        PROVE  g[k] = IF k = 0 THEN << >> ELSE Goes(k, g[k - 1])
    <3>1. k # 0 => k \in 1..length
      BY <1>1
    <3> QED BY <1>10, <1>11, <3>1
  <2>2. g = [k \in 0..length |-> g[k]]
    BY DEF g
  <2> HIDE DEF g
  <2>3. g = [k \in 0..length |-> IF k = 0 THEN << >> ELSE Goes(k, g[k - 1])]
    BY <2>1, <2>2
  <2> QED BY <1>5, <2>3
<1> HIDE DEF g
<1>13. Is(selected)
  BY <1>12 DEF selected
<1> DEFINE s == selected
<1> HIDE DEF s
<1>14. s = [k \in 0..length |-> IF k = 0 THEN << >> ELSE Goes(k, s[k - 1])]
  BY <1>5, <1>13 DEF s
<1>15. DOMAIN s = 0..length /\ s[0] = << >>
  BY <1>1, <1>14
<1>16. \A k \in 1..length : s[k] = Goes(k, s[k - 1])
  <2>1. \A k \in 1..length : k \in 0..length /\ k # 0
    BY <1>1
  <2> QED BY <1>14, <2>1
<1> DEFINE S == {k \in Nat : k <= length => s[k] \in D}
<1>17. 0 \in S
  BY <1>4, <1>15
<1>18. ASSUME NEW k \in Nat, k \in S
       PROVE  k + 1 \in S
  <2> DEFINE m == k + 1
  <2>1. m \in Nat /\ m - 1 = k
    OBVIOUS
  <2>2. m <= length => m \in 1..length /\ s[k] \in D
    BY <1>1, <1>18
  <2> HIDE DEF m
  <2>3. m <= length => s[m] \in D
    BY <1>2, <1>16, <2>1, <2>2
  <2>4. m \in S
    BY <2>1, <2>3
  <2> QED BY <2>4 DEF m
<1> HIDE DEF S
<1>19. Nat \subseteq S
  BY <1>17, <1>18, SetInduction
<1>20. s \in [0..length -> D]
  <2>1. \A k \in 0..length : s[k] \in D
    BY <1>1, <1>19 DEF S
  <2>2. s = [k \in 0..length |-> s[k]]
    BY <1>14, <1>15
  <2> QED BY <2>1, <2>2
<1> QED BY <1>3, <1>15, <1>16, <1>20 DEF Selects, D, Goes, length, s

LEMMA SelectedNone ==
  ASSUME NEW call
  PROVE  Selected(<< >>, call) = << >>
<1>1. << >> \in Seq(Nat) /\ Len(<< >>) = 0
  OBVIOUS
<1>2. PICK f : Selects(<< >>, call, Nat, f)
  BY <1>1, Selecting
<1> QED BY <1>1, <1>2 DEF Selects

LEMMA SelectedNext ==
  ASSUME NEW P, NEW pieces \in Seq(P), NEW piece \in P, NEW call
  PROVE  /\ Selected(pieces, call) \in Seq(P)
         /\ Selected(Append(pieces, piece), call) =
              IF piece.call = call THEN Append(Selected(pieces, call), piece)
              ELSE Selected(pieces, call)
<1> DEFINE more == Append(pieces, piece)
           length == Len(pieces)
           last == length + 1
<1>1. /\ more \in Seq(P) /\ Len(more) = last /\ length \in Nat
      /\ last \in Nat /\ last - 1 = length /\ last \in 1..last
      /\ \A k \in 1..length : more[k] = pieces[k]
      /\ more[last] = piece
  OBVIOUS
<1>2. PICK f : Selects(pieces, call, P, f)
  BY Selecting
<1>3. PICK g : Selects(more, call, P, g)
  BY <1>1, Selecting
<1> HIDE DEF more, length, last
<1>4. \A k \in 1..length : k \in 1..last
  BY <1>1 DEF last
<1>5. /\ f[0] = << >> /\ g[0] = << >>
      /\ \A k \in 1..length :
           f[k] = IF pieces[k].call = call THEN Append(f[k - 1], pieces[k]) ELSE f[k - 1]
      /\ \A k \in 1..length :
           g[k] = IF pieces[k].call = call THEN Append(g[k - 1], pieces[k]) ELSE g[k - 1]
  BY <1>1, <1>2, <1>3, <1>4 DEF Selects, length
<1> DEFINE S == {k \in Nat : k <= length => f[k] = g[k]}
<1>6. 0 \in S
  BY <1>5
<1>7. ASSUME NEW k \in Nat, k \in S
      PROVE  k + 1 \in S
  <2> DEFINE m == k + 1
  <2>1. m \in Nat /\ m - 1 = k
    OBVIOUS
  <2>2. m <= length => m \in 1..length /\ f[k] = g[k]
    BY <1>1, <1>7
  <2> HIDE DEF m
  <2>3. m <= length => f[m] = g[m]
    BY <1>5, <2>1, <2>2
  <2>4. m \in S
    BY <2>1, <2>3
  <2> QED BY <2>4 DEF m
<1> HIDE DEF S
<1>8. length \in S
  BY <1>1, <1>6, <1>7, SetInduction
<1>9. f[length] = g[length]
  BY <1>1, <1>8 DEF S
<1>10. /\ Selected(pieces, call) = f[length] /\ f[length] \in Seq(P)
       /\ Selected(more, call) = g[last]
       /\ g[last] = IF piece.call = call THEN Append(g[length], piece) ELSE g[length]
  <2>1. length \in 0..length
    BY <1>1
  <2> QED BY <1>1, <1>2, <1>3, <2>1 DEF Selects, length
<1> QED BY <1>9, <1>10 DEF more

LEMMA OfEmpty == out = << >> => \A call : Of(call) = << >>
BY SelectedNone DEF Of

LEMMA OfNext ==
  ASSUME out \in Seq(Pieces), NEW piece \in Pieces, out' = out \o <<piece>>, NEW call
  PROVE  Of(call)' = IF piece.call = call THEN Append(Of(call), piece) ELSE Of(call)
<1>1. out' = Append(out, piece)
  OBVIOUS
<1>2. Selected(Append(out, piece), call) =
        IF piece.call = call THEN Append(Selected(out, call), piece) ELSE Selected(out, call)
  BY SelectedNext
<1> QED BY <1>1, <1>2 DEF Of
-----------------------------------------------------------------------------
(***************************************************************************)
(* A turn of the loop, by what it finds.                                   *)
(***************************************************************************)
TextPiece(address) == [call |-> "text", address |-> address]

Stays == UNCHANGED <<format, list>>

LEMMA TurnAtLetter ==
  ASSUME LoopInv, Next, At(character) \notin {"%", "NUL"}
  PROVE  /\ pc' = "run" /\ character' = character + 1 /\ arg' = arg /\ Stays
         /\ Of("text")' = Of("text") /\ Of("numeral")' = Of("numeral")
<1>1. PrintOrdinary
  BY DEF Next, PrintC, PrintD, PrintO, PrintS, PrintX, PrintZU, GiveUp, Return, Conversion
<1>2. /\ pc = "run" /\ UNCHANGED <<pc, format, list, arg, open>>
      /\ character' = character + 1 /\ out' = out \o <<Char(At(character))>>
  BY <1>1 DEF PrintOrdinary, Emit
<1>3. character \in 1..Len(format) /\ At(character) = format[character]
  BY DEF LoopInv, TypeOK, At
<1>4. At(character) \in Letters /\ out \in Seq(Pieces)
  BY <1>3 DEF LoopInv, TypeOK
<1>5. Char(At(character)) \in Pieces /\ Char(At(character)).call = "char"
  BY <1>4, PieceTypes DEF Char
<1> QED BY <1>2, <1>4, <1>5, OfNext DEF Stays

LEMMA TurnAtS ==
  ASSUME LoopInv, Next, At(character) = "%", At(character + 1) = "s"
  PROVE  /\ pc' = "run" /\ character' = character + 2 /\ arg' = arg + 1 /\ Stays
         /\ Of("text")' = Append(Of("text"), TextPiece(word))
         /\ Of("numeral")' = Of("numeral")
<1>1. PrintS
  BY DEF Next, PrintOrdinary, PrintC, PrintD, PrintO, PrintX, PrintZU, GiveUp, Unknown,
         Return, Conversion
<1>2. /\ Conversion("s") /\ UNCHANGED <<pc, format, list, open>> /\ pc = "run"
      /\ character' = character + 2 /\ arg' = arg + 1
      /\ out' = out \o <<TextPiece(word)>>
  BY <1>1 DEF PrintS, Emit, Continue, Conversion, TextPiece
<1>3. TextPiece(word) \in Pieces /\ TextPiece(word).call = "text"
  BY <1>2, AtConversion DEF TextPiece, Pieces
<1>4. out \in Seq(Pieces)
  BY DEF LoopInv, TypeOK
<1> QED BY <1>2, <1>3, <1>4, OfNext DEF Stays

LEMMA TurnAtD ==
  ASSUME LoopInv, Next, At(character) = "%", At(character + 1) = "d", int >= 0
  PROVE  /\ pc' = "run" /\ character' = character + 2 /\ arg' = arg + 1 /\ Stays
         /\ Of("text")' = Of("text")
         /\ Of("numeral")' = Append(Of("numeral"), Decimal(int))
<1>1. PrintD
  BY DEF Next, PrintOrdinary, PrintC, PrintS, PrintO, PrintX, PrintZU, GiveUp, Unknown,
         Return, Conversion
<1>2. Conversion("d")
  BY <1>1 DEF PrintD
<1>3. int \in Int /\ int \in Nat /\ ~ (int < 0)
  BY <1>2, AtConversion
<1>4. /\ UNCHANGED <<pc, format, list, open>> /\ pc = "run"
      /\ character' = character + 2 /\ arg' = arg + 1
      /\ out' = out \o <<Decimal(int)>>
  BY <1>1, <1>3 DEF PrintD, Emit, Continue, Conversion
<1>5. Decimal(int) \in Pieces /\ Decimal(int).call = "numeral"
  BY <1>3, PieceTypes DEF Decimal
<1>6. out \in Seq(Pieces)
  BY DEF LoopInv, TypeOK
<1> QED BY <1>4, <1>5, <1>6, OfNext DEF Stays

LEMMA TurnAtZU ==
  ASSUME LoopInv, Next, At(character) = "%", At(character + 1) = "z", At(character + 2) = "u"
  PROVE  /\ Stays /\ Of("text")' = Of("text")
         /\ \/ /\ word < TooLong
               /\ pc' = "run" /\ character' = character + 3 /\ arg' = arg + 1
               /\ Of("numeral")' = Append(Of("numeral"), Decimal(word))
            \/ /\ word >= TooLong
               /\ pc' = "wild" /\ character' = character /\ arg' = arg
               /\ Of("numeral")' = Of("numeral")
<1>1. PrintZU
  BY DEF Next, PrintOrdinary, PrintC, PrintS, PrintO, PrintX, PrintD, GiveUp, Unknown,
         Return, Conversion
<1>2. Conversion("z") /\ pc = "run"
  BY <1>1 DEF PrintZU, Conversion
<1>3. word \in Nat
  BY <1>2, AtConversion
<1>4. Decimal(word) \in Pieces /\ Decimal(word).call = "numeral"
  BY <1>3, PieceTypes DEF Decimal
<1>5. out \in Seq(Pieces)
  BY DEF LoopInv, TypeOK
<1>6. CASE word < TooLong
  <2>1. /\ UNCHANGED <<pc, format, list, open>>
        /\ character' = character + 3 /\ arg' = arg + 1
        /\ out' = out \o <<Decimal(word)>>
    BY <1>1, <1>3, <1>6, FitsIs DEF PrintZU, Emit, Continue, Size
  <2> QED BY <1>2, <1>4, <1>5, <1>6, <2>1, OfNext DEF Stays
<1>7. CASE word >= TooLong
  <2>1. ~Fits(word)
    BY <1>3, <1>7, FitsIs, Ranges
  <2>2. Overrun /\ out' = out \o << >>
    BY <1>1, <2>1 DEF PrintZU, Emit, Size
  <2>3. out' = out
    BY <1>5, <2>2
  <2> QED BY <1>7, <2>2, <2>3 DEF Overrun, Stays, Of
<1> QED BY <1>3, <1>6, <1>7, Ranges

LEMMA TurnAtEnd ==
  ASSUME Next, At(character) = "NUL"
  PROVE  pc' = "returned" /\ UNCHANGED <<format, list, character, arg, out>>
BY DEF Next, PrintOrdinary, PrintC, PrintS, PrintO, PrintX, PrintZU, PrintD, GiveUp,
       Return, Conversion
-----------------------------------------------------------------------------
(***************************************************************************)
(* The report of EfiAssert, from place to place of its format: the texts   *)
(* and the numerals that are on the screen by then.                        *)
(***************************************************************************)
Has(position, taken, texts, numerals) ==
  /\ character = position /\ arg = taken
  /\ Of("text") = texts /\ Of("numeral") = numerals

Gets(position, taken, texts, numerals) ==
  /\ character' = position /\ arg' = taken
  /\ Of("text")' = texts /\ Of("numeral")' = numerals

FileText == TextPiece(AddressOf("file"))
StatusText == TextPiece(AddressOf(EfiErrorString(status)))

Reported ==
  \/ \E k \in {1, 2}   : Has(k, 0, << >>, << >>)
  \/ \E k \in {4, 5}   : Has(k, 1, <<FileText>>, << >>)
  \/ \E k \in {7, 8}   : Has(k, 2, <<FileText>>, <<Decimal(line)>>)
  \/ \E k \in {10, 11} : Has(k, 3, <<FileText, StatusText>>, <<Decimal(line)>>)

ReportInv ==
  caller \in {"report", "halted"} =>
    /\ status.error
    /\ format = AssertFormat
    /\ list = <<AddressOf("file"), line, AddressOf(EfiErrorString(status))>>
    /\ pc # "wild" /\ (pc = "returned" => character = 11)
    /\ caller = "halted" => pc = "returned"
    /\ Reported

LEMMA ReportLetters ==
  ASSUME format = AssertFormat
  PROVE  /\ At(1) = "a" /\ At(2) = "%" /\ At(3) = "s" /\ At(4) = "a" /\ At(5) = "%"
         /\ At(6) = "d" /\ At(7) = "a" /\ At(8) = "%" /\ At(9) = "s" /\ At(10) = "a"
         /\ At(11) = "NUL"
BY DEF At, AssertFormat

(***************************************************************************)
(* The line of an assert is an int.                                        *)
(***************************************************************************)
LEMMA LineIsInt ==
  ASSUME MapInv, word = line
  PROVE  int = line /\ int >= 0
<1>1. line \in Nat /\ line < HalfInt
  BY Ranges DEF MapInv, CallerInv
<1>2. unsigned = line
  <2>1. line = IntValues * 0 + line /\ line < IntValues /\ 0 \in Nat
    BY <1>1, Ranges
  <2> QED BY <1>1, <2>1, Ranges, QuotientUnique DEF unsigned
<1> QED BY <1>1, <1>2 DEF int

LEMMA Appended ==
  ASSUME NEW x, NEW y
  PROVE  Append(<< >>, x) = <<x>> /\ Append(<<x>>, y) = <<x, y>>
<1>1. /\ << >> \in Seq({x, y}) /\ <<x>> \in Seq({x, y}) /\ <<x, y>> \in Seq({x, y})
  OBVIOUS
<1>2. Append(<< >>, x) = <<x>>
  OBVIOUS
<1> DEFINE s == <<x>>
<1>3. s \in Seq({x, y}) /\ Len(s) = 1 /\ s[1] = x
  OBVIOUS
<1> HIDE DEF s
<1> DEFINE t == Append(s, y)
<1>4. t \in Seq({x, y}) /\ Len(t) = 2 /\ t[1] = x /\ t[2] = y
  <2> DEFINE S == {x, y}
             n == Len(s)
  <2>1. s \in Seq(S) /\ y \in S /\ n \in Nat
    BY <1>3
  <2> HIDE DEF S
  <2>2. t \in Seq(S) /\ Len(t) = n + 1 /\ t[n + 1] = y /\ \A k \in 1..n : t[k] = s[k]
    BY <2>1 DEF t
  <2>3. n = 1 /\ n + 1 = 2 /\ 1 \in 1..n
    BY <1>3
  <2> QED BY <1>3, <2>2, <2>3 DEF S
<1> HIDE DEF t
<1>5. t = <<x, y>>
  BY <1>4
<1> QED BY <1>2, <1>5 DEF t, s

LEMMA ReportTurn ==
  ASSUME MapInv, ReportInv, caller = "report", Next
  PROVE  /\ pc' # "wild" /\ Stays
         /\ pc' = "returned" => character' = 11
         /\ \/ \E k \in {1, 2}   : Gets(k, 0, << >>, << >>)
            \/ \E k \in {4, 5}   : Gets(k, 1, <<FileText>>, << >>)
            \/ \E k \in {7, 8}   : Gets(k, 2, <<FileText>>, <<Decimal(line)>>)
            \/ \E k \in {10, 11} : Gets(k, 3, <<FileText, StatusText>>, <<Decimal(line)>>)
<1>1. /\ format = AssertFormat /\ LoopInv /\ Reported
      /\ list = <<AddressOf("file"), line, AddressOf(EfiErrorString(status))>>
  BY DEF MapInv, ReportInv
<1>2. /\ At(1) = "a" /\ At(2) = "%" /\ At(3) = "s" /\ At(4) = "a" /\ At(5) = "%"
      /\ At(6) = "d" /\ At(7) = "a" /\ At(8) = "%" /\ At(9) = "s" /\ At(10) = "a"
      /\ At(11) = "NUL"
  BY <1>1, ReportLetters
<1>3. CASE Has(1, 0, << >>, << >>)
  <2>1. character = 1
    BY <1>3 DEF Has
  <2>2. Gets(2, 0, << >>, << >>) /\ pc' = "run" /\ Stays
    BY <1>1, <1>2, <1>3, <2>1, TurnAtLetter DEF Has, Gets
  <2> QED BY <2>2
<1>4. CASE Has(2, 0, << >>, << >>)
  <2>1. character = 2 /\ character + 1 = 3
    BY <1>4 DEF Has
  <2>2. TextPiece(word) = FileText
    BY <1>1, <1>4 DEF Has, word, FileText
  <2>3. Gets(4, 1, <<FileText>>, << >>) /\ pc' = "run" /\ Stays
    <3>1. At(character) = "%" /\ At(character + 1) = "s"
      BY <1>2, <2>1
    <3>2. /\ pc' = "run" /\ character' = character + 2 /\ arg' = arg + 1 /\ Stays
          /\ Of("text")' = Append(Of("text"), TextPiece(word))
          /\ Of("numeral")' = Of("numeral")
      BY <1>1, <3>1, TurnAtS
    <3>3. Of("text")' = <<FileText>>
      BY <1>4, <2>2, <3>2, Appended DEF Has
    <3> QED BY <1>4, <2>1, <3>2, <3>3 DEF Has, Gets
  <2> QED BY <2>3
<1>5. CASE Has(4, 1, <<FileText>>, << >>)
  <2>1. character = 4
    BY <1>5 DEF Has
  <2>2. Gets(5, 1, <<FileText>>, << >>) /\ pc' = "run" /\ Stays
    BY <1>1, <1>2, <1>5, <2>1, TurnAtLetter DEF Has, Gets
  <2> QED BY <2>2
<1>6. CASE Has(5, 1, <<FileText>>, << >>)
  <2>1. character = 5 /\ character + 1 = 6 /\ word = line
    BY <1>1, <1>6 DEF Has, word
  <2>2. int = line /\ int >= 0
    BY <2>1, LineIsInt
  <2>3. Gets(7, 2, <<FileText>>, <<Decimal(line)>>) /\ pc' = "run" /\ Stays
    BY <1>1, <1>2, <1>6, <2>1, <2>2, TurnAtD DEF Has, Gets
  <2> QED BY <2>3
<1>7. CASE Has(7, 2, <<FileText>>, <<Decimal(line)>>)
  <2>1. character = 7
    BY <1>7 DEF Has
  <2>2. Gets(8, 2, <<FileText>>, <<Decimal(line)>>) /\ pc' = "run" /\ Stays
    BY <1>1, <1>2, <1>7, <2>1, TurnAtLetter DEF Has, Gets
  <2> QED BY <2>2
<1>8. CASE Has(8, 2, <<FileText>>, <<Decimal(line)>>)
  <2>1. character = 8 /\ character + 1 = 9
    BY <1>8 DEF Has
  <2>2. TextPiece(word) = StatusText
    BY <1>1, <1>8 DEF Has, word, StatusText
  <2>3. Gets(10, 3, <<FileText, StatusText>>, <<Decimal(line)>>) /\ pc' = "run" /\ Stays
    <3>1. At(character) = "%" /\ At(character + 1) = "s"
      BY <1>2, <2>1
    <3>2. /\ pc' = "run" /\ character' = character + 2 /\ arg' = arg + 1 /\ Stays
          /\ Of("text")' = Append(Of("text"), TextPiece(word))
          /\ Of("numeral")' = Of("numeral")
      BY <1>1, <3>1, TurnAtS
    <3>3. Of("text")' = <<FileText, StatusText>>
      BY <1>8, <2>2, <3>2, Appended DEF Has
    <3> QED BY <1>8, <2>1, <3>2, <3>3 DEF Has, Gets
  <2> QED BY <2>3
<1>9. CASE Has(10, 3, <<FileText, StatusText>>, <<Decimal(line)>>)
  <2>1. character = 10
    BY <1>9 DEF Has
  <2>2. Gets(11, 3, <<FileText, StatusText>>, <<Decimal(line)>>) /\ pc' = "run" /\ Stays
    BY <1>1, <1>2, <1>9, <2>1, TurnAtLetter DEF Has, Gets
  <2> QED BY <2>2
<1>10. CASE Has(11, 3, <<FileText, StatusText>>, <<Decimal(line)>>)
  <2>1. character = 11
    BY <1>10 DEF Has
  <2>2. pc' = "returned" /\ UNCHANGED <<format, list, character, arg, out>>
    BY <1>2, <2>1, TurnAtEnd
  <2>3. Gets(11, 3, <<FileText, StatusText>>, <<Decimal(line)>>) /\ Stays
    BY <1>10, <2>2 DEF Has, Gets, Of, Stays
  <2> QED BY <2>1, <2>2, <2>3
<1> QED BY <1>1, <1>3, <1>4, <1>5, <1>6, <1>7, <1>8, <1>9, <1>10 DEF Reported

LEMMA ReportStep == MapInv /\ ReportInv /\ [MapNext]_mapVars => ReportInv'
<1> SUFFICES ASSUME MapInv, ReportInv, [MapNext]_mapVars, caller' \in {"report", "halted"}
             PROVE  ReportInv'
  BY DEF ReportInv
<1>1. CASE EfiAssert
  <2>1. status.error /\ caller' = "report" /\ status' = status /\ line' = line
        /\ Call(AssertFormat, <<AddressOf("file"), line, AddressOf(EfiErrorString(status))>>)
        /\ out = << >>
    BY <1>1 DEF EfiAssert, MapInv, CallerInv
  <2>2. Gets(1, 0, << >>, << >>)
    <3>1. out' = << >>
      BY <2>1 DEF Call
    <3>2. \A call : Selected(out', call) = << >>
      BY <3>1, SelectedNone
    <3> QED BY <2>1, <3>2 DEF Call, Gets, Of
  <2>3. Reported'
    BY <2>2 DEF Reported, Has, Gets
  <2> QED BY <2>1, <2>3 DEF ReportInv, Call
<1>2. CASE caller = "report" /\ Next /\ UNCHANGED assert
  <2>1. caller' = "report" /\ status' = status /\ line' = line
    BY <1>2 DEF assert
  <2>2. FileText' = FileText /\ StatusText' = StatusText /\ Decimal(line)' = Decimal(line)
    BY <2>1 DEF FileText, StatusText
  <2>3. Reported'
    BY <1>2, <2>2, ReportTurn DEF Reported, Has, Gets
  <2> QED BY <1>2, <2>1, <2>3, ReportTurn DEF ReportInv, Stays
<1>3. CASE UNCHANGED <<vars, status, line>> /\ caller \in {"report", "halted"}
           /\ (caller' = caller \/ pc = "returned")
  <2>1. Reported'
    BY <1>3 DEF ReportInv, Reported, Has, Of, FileText, StatusText, vars
  <2> QED BY <1>3, <2>1 DEF ReportInv, vars
<1>4. EfiAssert \/ (caller = "report" /\ Next /\ UNCHANGED assert)
      \/ (/\ UNCHANGED <<vars, status, line>> /\ caller \in {"report", "halted"}
          /\ (caller' = caller \/ pc = "returned"))
  <2>1. CASE UNCHANGED mapVars
    BY <2>1 DEF mapVars, assert
  <2>2. CASE EfiHalt \/ Release
    BY <2>2 DEF EfiHalt, Release
  <2>3. CASE Next /\ UNCHANGED assert
    <3>1. pc = "run"
      BY <2>3 DEF Next, PrintOrdinary, PrintC, PrintD, PrintO, PrintS, PrintX, PrintZU,
                  GiveUp, Return, Conversion
    <3> QED BY <2>3, <3>1 DEF ReportInv, assert
  <2>4. CASE Entry \/ TotalLine \/ Listed
             \/ SizeMemoryMap \/ AllocateMemoryMap \/ GetMemoryMap \/ FirmwareEvent
    <3>1. at # "none" /\ UNCHANGED assert
      BY <2>4 DEF Entry, TotalLine, Listed, SizeMemoryMap, AllocateMemoryMap,
                  GetMemoryMap, FirmwareEvent
    <3>2. caller = "other"
      BY <3>1 DEF MapInv, CallerInv
    <3> QED BY <3>1, <3>2 DEF assert
  <2> QED BY <2>1, <2>2, <2>3, <2>4 DEF MapNext, AssertNext
<1> QED BY <1>1, <1>2, <1>3, <1>4

(***************************************************************************)
(* Statuses shown with a text at the same address have the same text.      *)
(***************************************************************************)
LEMMA SameText ==
  ASSUME NEW s, NEW t, AddressOf(EfiErrorString(s)) = AddressOf(EfiErrorString(t))
  PROVE  EfiErrorString(s) = EfiErrorString(t)
<1>1. PICK m \in 1..43 : EfiErrorString(s) = Literals[m]
  BY ErrorStringIs
<1>2. PICK n \in 1..43 : EfiErrorString(t) = Literals[n]
  BY ErrorStringIs
<1>3. Literals[AddressOf(Literals[m])] = Literals[m]
      /\ Literals[AddressOf(Literals[n])] = Literals[n]
  BY AddressIs
<1> QED BY <1>1, <1>2, <1>3

(***************************************************************************)
(* A status outside the table is not taken for one in it.                  *)
(***************************************************************************)
LEMMA UndefinedTells ==
  ASSUME NEW s \in Defined, NEW t, t \notin Defined
  PROVE  AddressOf(EfiErrorString(s)) # AddressOf(EfiErrorString(t))
<1>1. EfiErrorString(t) = "ERROR"
  BY DEF EfiErrorString
<1>2. EfiErrorString(s) # "ERROR"
  <2> DEFINE c == s.code
  <2>1. /\ s.error \in BOOLEAN
        /\ s.error => c \in 1..33 /\ EfiErrorString(s) = ErrorTexts[c]
        /\ ~s.error => /\ c \in 0..7
                       /\ EfiErrorString(s) = IF c = 0 THEN "Successful" ELSE WarningTexts[c]
    BY ErrorStringCases
  <2> HIDE DEF c
  <2>2. CASE s.error
    BY <2>1, <2>2, TextsDiffer
  <2>3. CASE ~s.error
    <3>1. \/ EfiErrorString(s) = "Successful"
          \/ c \in 1..7 /\ EfiErrorString(s) = WarningTexts[c]
      BY <2>1, <2>3
    <3> QED BY <3>1, TextsDiffer
  <2> QED BY <2>1, <2>2, <2>3
<1> QED BY <1>1, <1>2, SameText

(***************************************************************************)
(* The text of an error tells which one it is, but for the shared one.     *)
(***************************************************************************)
LEMMA TextTells ==
  ASSUME NEW s \in Defined, NEW t \in Defined, t.error,
         AddressOf(EfiErrorString(s)) = AddressOf(EfiErrorString(t))
  PROVE  s = t \/ s \in SharedText
<1>1. EfiErrorString(s) = EfiErrorString(t)
  BY SameText
<1> DEFINE c == s.code
           d == t.code
<1>2. d \in 1..33 /\ EfiErrorString(t) = ErrorTexts[d] /\ t = [error |-> TRUE, code |-> d]
  BY ErrorStringCases
<1>3. CASE s.error
  <2>1. c \in 1..33 /\ EfiErrorString(s) = ErrorTexts[c] /\ s = [error |-> TRUE, code |-> c]
    BY <1>3, ErrorStringCases
  <2> HIDE DEF c, d
  <2>2. c = d \/ {c, d} = {29, 33}
    BY <1>1, <1>2, <2>1, TextsDiffer
  <2>3. c = d \/ c = 29 \/ c = 33
    BY <2>2
  <2> QED BY <1>2, <2>1, <2>3 DEF SharedText
<1>4. CASE ~s.error
  <2>1. /\ c \in 0..7
        /\ EfiErrorString(s) = IF c = 0 THEN "Successful" ELSE WarningTexts[c]
    BY <1>4, ErrorStringCases
  <2> HIDE DEF c, d
  <2>2. \/ EfiErrorString(s) = "Successful"
        \/ c \in 1..7 /\ EfiErrorString(s) = WarningTexts[c]
    BY <2>1
  <2> QED BY <1>1, <1>2, <2>2, TextsDiffer
<1>5. s.error \in BOOLEAN
  BY ErrorStringCases
<1> QED BY <1>3, <1>4, <1>5

(***************************************************************************)
(* The screen of a halt shows the line of the assert, and, for whatever    *)
(* status was asserted, a text that only that one has, EFI_HTTP_ERROR and  *)
(* EFI_END_OF_FILE aside, when the status is one of the table; one outside *)
(* the table, as the EFI_ERROR of efi_main.c:587, is not shown with the    *)
(* text of one that is in it.                                              *)
(***************************************************************************)
THEOREM HaltTells == MapSpec => []ReportTells
<1>1. MapInit => ReportInv
  BY DEF MapInit, AssertInit, ReportInv
<1>2. MapInv /\ ReportInv => ReportTells
  <2> SUFFICES ASSUME MapInv, ReportInv, caller = "halted" PROVE ReportTells
    BY DEF ReportTells
  <2>1. /\ Of("text") = <<FileText, StatusText>> /\ Of("numeral") = <<Decimal(line)>>
        /\ status.error
    BY DEF ReportInv, Reported, Has
  <2>2. line \in Nat
    BY Ranges DEF MapInv, CallerInv
  <2>3. Len(Of("numeral")) = 1 /\ Of("numeral")[1] = Decimal(line)
    BY <2>1
  <2>4. Value(Decimal(line)) = line
    BY <2>2, PieceTypes
  <2>5. Len(Of("text")) = 2 /\ Of("text")[1] = FileText /\ Of("text")[2] = StatusText
    BY <2>1
  <2>6. FileText.address = AddressOf("file")
        /\ StatusText.address = AddressOf(EfiErrorString(status))
    BY DEF FileText, StatusText, TextPiece
  <2> DEFINE meant == {s \in Defined :
                         AddressOf(EfiErrorString(s)) = Of("text")[2].address}
  <2>7. status \in Defined => status \in meant /\ meant \subseteq {status} \cup SharedText
    <3> SUFFICES ASSUME status \in Defined
                 PROVE  status \in meant /\ meant \subseteq {status} \cup SharedText
      OBVIOUS
    <3>1. \A s \in Defined : AddressOf(EfiErrorString(s)) = AddressOf(EfiErrorString(status))
                               => s = status \/ s \in SharedText
      BY <2>1, TextTells
    <3> QED BY <2>5, <2>6, <3>1
  <2>8. status \notin Defined => meant = {}
    BY <2>5, <2>6, UndefinedTells
  <2> QED BY <2>3, <2>4, <2>5, <2>6, <2>7, <2>8 DEF ReportTells
<1> QED BY <1>1, <1>2, MapInvHolds, ReportStep, PTL DEF MapSpec
-----------------------------------------------------------------------------
(***************************************************************************)
(* The listing, from place to place of the formats of its entries and of   *)
(* its last line: the texts and the numerals that are on the screen by     *)
(* then.  The first "done" entries are those of the map.                   *)
(***************************************************************************)
Listing == {"list", "total", "done", "wild"}

EntryTexts(n) == [k \in 1..n |-> TextPiece(AddressOfType(map[k].type))]
EntryNumerals(n) == [k \in 1..n |-> Decimal(SizeOf(map[k].pages))]
WithTotal == Append(EntryNumerals(i), Decimal(TotalRam))

Between ==
  /\ at = "list" /\ pc = "returned"
  /\ Of("text") = EntryTexts(i) /\ Of("numeral") = EntryNumerals(i)

InEntry(done) ==
  /\ at = "list" /\ pc = "run" /\ i = done + 1
  /\ format \in {LeftFormat, RightFormat}
  /\ list = <<AddressOfType(map[i].type), SizeOf(map[i].pages)>>
  /\ \/ Has(1, 0, EntryTexts(done), EntryNumerals(done))
     \/ \E k \in {3, 4} : Has(k, 1, EntryTexts(i), EntryNumerals(done))
     \/ \E k \in {7, 8} : Has(k, 2, EntryTexts(i), EntryNumerals(i))

InTotal ==
  /\ at = "total" /\ i = Len(map)
  /\ format = TotalFormat /\ list = <<TotalRam>>
  /\ \/ pc = "run" /\ \E k \in {1, 2} : Has(k, 0, EntryTexts(i), EntryNumerals(i))
     \/ pc # "wild" /\ \E k \in {5, 6} : Has(k, 1, EntryTexts(i), WithTotal)
     \/ pc = "wild" /\ TotalRam >= TooLong

Done ==
  /\ at = "done" /\ i = Len(map)
  /\ Of("text") = EntryTexts(i) /\ Of("numeral") = WithTotal

OffTable ==
  at = "wild" /\ i >= 1 /\ map[i].type >= Len(EFI_MEMORY_TYPE_STRINGS)

KnownTypes ==
  at # "wild" => \A k \in 1..i : map[k].type < Len(EFI_MEMORY_TYPE_STRINGS)

ListingInv ==
  at \in Listing =>
    /\ KnownTypes
    /\ Between \/ (\E done \in Nat : InEntry(done)) \/ InTotal \/ Done \/ OffTable

LEMMA AppendNext ==
  ASSUME NEW P, NEW n \in Nat, NEW f, \A k \in 1..(n + 1) : f[k] \in P
  PROVE  Append([k \in 1..n |-> f[k]], f[n + 1]) = [k \in 1..(n + 1) |-> f[k]]
<1> DEFINE s == [k \in 1..n |-> f[k]]
           m == n + 1
           t == [k \in 1..m |-> f[k]]
           e == f[m]
<1>1. /\ m \in Nat /\ m \in 1..m
      /\ \A k \in 1..n : k \in 1..m
      /\ \A k \in 1..m : k \in 1..n \/ k = m
  OBVIOUS
<1>2. s \in Seq(P) /\ Len(s) = n /\ \A k \in 1..n : s[k] = f[k]
  BY <1>1
<1>3. t \in Seq(P) /\ Len(t) = m /\ \A k \in 1..m : t[k] = f[k]
  BY <1>1
<1>4. e \in P /\ e = f[m]
  BY <1>1
<1> HIDE DEF s, t, e
<1>5. Append(s, e) \in Seq(P) /\ Len(Append(s, e)) = m
  BY <1>2, <1>4
<1>6. /\ \A k \in 1..n : Append(s, e)[k] = f[k]
      /\ Append(s, e)[m] = e
  BY <1>2, <1>4
<1>7. \A k \in 1..m : Append(s, e)[k] = t[k]
  BY <1>1, <1>3, <1>4, <1>6
<1> DEFINE a == Append(s, e)
<1> HIDE DEF a
<1>8. a = t
  BY <1>1, <1>3, <1>5, <1>7 DEF a
<1> QED BY <1>8 DEF a, s, t, e

(***************************************************************************)
(* One more entry on the screen.                                           *)
(***************************************************************************)
LEMMA OneMore ==
  ASSUME MapTypeOK, NEW done \in Nat, i = done + 1, map[i].type < Len(EFI_MEMORY_TYPE_STRINGS)
  PROVE  /\ map[i].type \in Nat /\ map[i].pages \in Nat
         /\ Append(EntryTexts(done), TextPiece(AddressOfType(map[i].type))) = EntryTexts(i)
         /\ Append(EntryNumerals(done), Decimal(SizeOf(map[i].pages))) = EntryNumerals(i)
<1>1. i \in 1..Len(map) /\ Len(map) \in Nat
  BY DEF MapTypeOK
<1>2. \A k \in 1..Len(map) : map[k].type \in Nat /\ map[k].pages \in Nat
  <2> DEFINE D == [type: Nat, pages: Words]
  <2>1. map \in Seq(D) /\ \A d \in D : d.type \in Nat /\ d.pages \in Nat
    <3>1. Words \subseteq Nat
      BY Ranges DEF Words
    <3>2. \A d \in D : d.type \in Nat /\ d.pages \in Words
      OBVIOUS
    <3>3. map \in Seq(D)
      BY DEF MapTypeOK
    <3> QED BY <3>1, <3>2, <3>3
  <2> HIDE DEF D
  <2>2. \A k \in 1..Len(map) : map[k] \in D
    BY <2>1
  <2> QED BY <2>1, <2>2
<1> DEFINE f == [k \in 1..Len(map) |-> TextPiece(AddressOfType(map[k].type))]
           g == [k \in 1..Len(map) |-> Decimal(SizeOf(map[k].pages))]
           F == {f[k] : k \in 1..Len(map)}
           G == {g[k] : k \in 1..Len(map)}
<1>3. \A k \in 1..i : k \in 1..Len(map) /\ f[k] \in F /\ g[k] \in G
  BY <1>1
<1>4. /\ EntryTexts(done) = [k \in 1..done |-> f[k]]
      /\ EntryTexts(i) = [k \in 1..i |-> f[k]]
      /\ EntryNumerals(done) = [k \in 1..done |-> g[k]]
      /\ EntryNumerals(i) = [k \in 1..i |-> g[k]]
  BY <1>1 DEF EntryTexts, EntryNumerals
<1>5. /\ f[i] = TextPiece(AddressOfType(map[i].type))
      /\ g[i] = Decimal(SizeOf(map[i].pages))
  BY <1>1
<1> HIDE DEF f, g, F, G
<1>6. Append([k \in 1..done |-> f[k]], f[done + 1]) = [k \in 1..(done + 1) |-> f[k]]
  BY <1>3, AppendNext
<1>7. Append([k \in 1..done |-> g[k]], g[done + 1]) = [k \in 1..(done + 1) |-> g[k]]
  BY <1>3, AppendNext
<1>8. map[i].type \in Nat /\ map[i].pages \in Nat
  BY <1>1, <1>2
<1> QED BY <1>4, <1>5, <1>6, <1>7, <1>8

LEMMA EntryLetters ==
  ASSUME format \in {LeftFormat, RightFormat}
  PROVE  /\ At(1) = "%" /\ At(2) = "s" /\ At(3) = "a" /\ At(4) = "%" /\ At(5) = "z"
         /\ At(6) = "u" /\ At(7) \in {"a", "n"} /\ At(8) = "NUL"
BY DEF At, LeftFormat, RightFormat

LEMMA TotalLetters ==
  ASSUME format = TotalFormat
  PROVE  /\ At(1) = "a" /\ At(2) = "%" /\ At(3) = "z" /\ At(4) = "u" /\ At(5) = "n"
         /\ At(6) = "NUL"
BY DEF At, TotalFormat

(***************************************************************************)
(* A turn of the loop in an entry, and in the last line.                   *)
(***************************************************************************)
LEMMA EntryTurn ==
  ASSUME MapInv, Next, NEW done \in Nat, InEntry(done), KnownTypes
  PROVE  /\ Stays
         /\ \/ /\ pc' = "run"
               /\ \/ \E k \in {3, 4} : Gets(k, 1, EntryTexts(i), EntryNumerals(done))
                  \/ \E k \in {7, 8} : Gets(k, 2, EntryTexts(i), EntryNumerals(i))
            \/ pc' = "returned" /\ Gets(8, 2, EntryTexts(i), EntryNumerals(i))
<1> DEFINE text == TextPiece(AddressOfType(map[i].type))
           size == SizeOf(map[i].pages)
<1>1. /\ LoopInv /\ i = done + 1 /\ format \in {LeftFormat, RightFormat}
      /\ list = <<AddressOfType(map[i].type), size>>
  BY DEF MapInv, InEntry
<1>2. /\ At(1) = "%" /\ At(2) = "s" /\ At(3) = "a" /\ At(4) = "%" /\ At(5) = "z"
      /\ At(6) = "u" /\ At(7) \in {"a", "n"} /\ At(8) = "NUL"
  BY <1>1, EntryLetters
<1>3. /\ size \in Nat /\ size < TooLong
      /\ Append(EntryTexts(done), text) = EntryTexts(i)
      /\ Append(EntryNumerals(done), Decimal(size)) = EntryNumerals(i)
  <2>1. i \in 1..i
    BY <1>1
  <2>2. map[i].type < Len(EFI_MEMORY_TYPE_STRINGS)
    BY <2>1 DEF KnownTypes, InEntry
  <2>3. map[i].pages \in Nat
    BY <1>1, <2>2, OneMore DEF MapInv
  <2>4. size \in Nat /\ size < TooLong
    BY <2>3, Sizes
  <2> QED BY <1>1, <2>2, <2>4, OneMore DEF MapInv
<1> HIDE DEF size
<1>4. CASE Has(1, 0, EntryTexts(done), EntryNumerals(done))
  <2>1. character = 1 /\ character + 1 = 2 /\ arg + 1 = 1
    BY <1>4 DEF Has
  <2>2. TextPiece(word) = text
    BY <1>1, <2>1 DEF word
  <2> HIDE DEF text
  <2>3. /\ pc' = "run" /\ character' = character + 2 /\ arg' = arg + 1 /\ Stays
        /\ Of("text")' = Append(Of("text"), TextPiece(word))
        /\ Of("numeral")' = Of("numeral")
    <3>1. At(character) = "%" /\ At(character + 1) = "s"
      BY <1>2, <2>1
    <3> QED BY <1>1, <3>1, TurnAtS
  <2>4. Gets(3, 1, EntryTexts(i), EntryNumerals(done))
    BY <1>3, <1>4, <2>1, <2>2, <2>3 DEF Has, Gets
  <2> QED BY <2>3, <2>4
<1>5. CASE Has(3, 1, EntryTexts(i), EntryNumerals(done))
  <2>1. character = 3
    BY <1>5 DEF Has
  <2>2. Gets(4, 1, EntryTexts(i), EntryNumerals(done)) /\ pc' = "run" /\ Stays
    BY <1>1, <1>2, <1>5, <2>1, TurnAtLetter DEF Has, Gets
  <2> QED BY <2>2
<1>6. CASE Has(4, 1, EntryTexts(i), EntryNumerals(done))
  <2>1. character = 4 /\ character + 1 = 5 /\ character + 2 = 6 /\ arg + 1 = 2
    BY <1>6 DEF Has
  <2>2. word = size /\ ~ (word >= TooLong)
    BY <1>1, <1>3, <2>1, Ranges DEF word
  <2>3. /\ pc' = "run" /\ character' = character + 3 /\ arg' = arg + 1 /\ Stays
        /\ Of("text")' = Of("text")
        /\ Of("numeral")' = Append(Of("numeral"), Decimal(word))
    <3>1. At(character) = "%" /\ At(character + 1) = "z" /\ At(character + 2) = "u"
      BY <1>2, <2>1
    <3> QED BY <1>1, <2>2, <3>1, TurnAtZU
  <2>4. Gets(7, 2, EntryTexts(i), EntryNumerals(i))
    BY <1>3, <1>6, <2>1, <2>2, <2>3 DEF Has, Gets
  <2> QED BY <2>3, <2>4
<1>7. CASE Has(7, 2, EntryTexts(i), EntryNumerals(i))
  <2>1. character = 7
    BY <1>7 DEF Has
  <2>2. At(character) \notin {"%", "NUL"}
    BY <1>2, <2>1
  <2>3. Gets(8, 2, EntryTexts(i), EntryNumerals(i)) /\ pc' = "run" /\ Stays
    BY <1>1, <1>7, <2>1, <2>2, TurnAtLetter DEF Has, Gets
  <2> QED BY <2>3
<1>8. CASE Has(8, 2, EntryTexts(i), EntryNumerals(i))
  <2>1. character = 8
    BY <1>8 DEF Has
  <2>2. pc' = "returned" /\ UNCHANGED <<format, list, character, arg, out>>
    BY <1>2, <2>1, TurnAtEnd
  <2>3. Gets(8, 2, EntryTexts(i), EntryNumerals(i)) /\ Stays
    BY <1>8, <2>2 DEF Has, Gets, Of, Stays
  <2> QED BY <2>2, <2>3
<1> QED BY <1>4, <1>5, <1>6, <1>7, <1>8 DEF InEntry

LEMMA TotalTurn ==
  ASSUME MapInv, Next, InTotal
  PROVE  /\ Stays
         /\ \/ pc' = "run" /\ Gets(2, 0, EntryTexts(i), EntryNumerals(i))
            \/ pc' # "wild" /\ \E k \in {5, 6} : Gets(k, 1, EntryTexts(i), WithTotal)
            \/ pc' = "wild" /\ TotalRam >= TooLong
<1>1. LoopInv /\ format = TotalFormat /\ list = <<TotalRam>>
  BY DEF MapInv, InTotal
<1>2. /\ At(1) = "a" /\ At(2) = "%" /\ At(3) = "z" /\ At(4) = "u" /\ At(5) = "n"
      /\ At(6) = "NUL"
  BY <1>1, TotalLetters
<1>3. CASE Has(1, 0, EntryTexts(i), EntryNumerals(i))
  <2>1. character = 1
    BY <1>3 DEF Has
  <2>2. Gets(2, 0, EntryTexts(i), EntryNumerals(i)) /\ pc' = "run" /\ Stays
    BY <1>1, <1>2, <1>3, <2>1, TurnAtLetter DEF Has, Gets
  <2> QED BY <2>2
<1>4. CASE Has(2, 0, EntryTexts(i), EntryNumerals(i))
  <2>1. character = 2 /\ character + 1 = 3 /\ character + 2 = 4 /\ arg + 1 = 1
    BY <1>4 DEF Has
  <2>2. word = TotalRam
    BY <1>1, <2>1 DEF word
  <2>3. /\ Stays /\ Of("text")' = Of("text")
        /\ \/ /\ pc' = "run" /\ character' = character + 3 /\ arg' = arg + 1
              /\ Of("numeral")' = Append(Of("numeral"), Decimal(word))
           \/ pc' = "wild" /\ word >= TooLong
    <3>1. At(character) = "%" /\ At(character + 1) = "z" /\ At(character + 2) = "u"
      BY <1>2, <2>1
    <3> QED BY <1>1, <3>1, TurnAtZU
  <2>4. CASE /\ pc' = "run" /\ character' = character + 3 /\ arg' = arg + 1
             /\ Of("numeral")' = Append(Of("numeral"), Decimal(word))
    <3>1. Gets(5, 1, EntryTexts(i), WithTotal)
      BY <1>4, <2>1, <2>2, <2>3, <2>4 DEF Has, Gets, WithTotal
    <3> QED BY <2>3, <2>4, <3>1
  <2>5. CASE pc' = "wild" /\ word >= TooLong
    BY <2>2, <2>3, <2>5
  <2> QED BY <2>3, <2>4, <2>5
<1>5. CASE Has(5, 1, EntryTexts(i), WithTotal)
  <2>1. character = 5
    BY <1>5 DEF Has
  <2>2. Gets(6, 1, EntryTexts(i), WithTotal) /\ pc' = "run" /\ Stays
    BY <1>1, <1>2, <1>5, <2>1, TurnAtLetter DEF Has, Gets
  <2> QED BY <2>2
<1>6. CASE Has(6, 1, EntryTexts(i), WithTotal)
  <2>1. character = 6
    BY <1>6 DEF Has
  <2>2. pc' = "returned" /\ UNCHANGED <<format, list, character, arg, out>>
    BY <1>2, <2>1, TurnAtEnd
  <2>3. Gets(6, 1, EntryTexts(i), WithTotal) /\ Stays
    BY <1>6, <2>2 DEF Has, Gets, Of, Stays
  <2> QED BY <2>2, <2>3
<1>7. pc = "run"
  BY DEF Next, PrintOrdinary, PrintC, PrintD, PrintO, PrintS, PrintX, PrintZU,
         GiveUp, Return, Conversion
<1> QED BY <1>3, <1>4, <1>5, <1>6, <1>7 DEF InTotal

(***************************************************************************)
(* The listing stays as described.                                         *)
(***************************************************************************)
LEMMA RowsStay ==
  ASSUME map' = map
  PROVE  /\ \A n : EntryTexts(n)' = EntryTexts(n) /\ EntryNumerals(n)' = EntryNumerals(n)
         /\ i' = i => EntryTexts(i)' = EntryTexts(i) /\ EntryNumerals(i)' = EntryNumerals(i)
         /\ i' = i /\ TotalRam' = TotalRam => WithTotal' = WithTotal
BY DEF EntryTexts, EntryNumerals, WithTotal

LEMMA ListingStarts == MapInit => ListingInv
<1> SUFFICES ASSUME MapInit, at \in Listing PROVE ListingInv
  BY DEF ListingInv
<1>1. at = "list" /\ NotCalled /\ i = 0
  BY DEF MapInit, Listing
<1>2. EntryTexts(i) = << >> /\ EntryNumerals(i) = << >>
  BY <1>1 DEF EntryTexts, EntryNumerals
<1>3. Between
  BY <1>1, <1>2, OfEmpty DEF NotCalled, Between
<1> QED BY <1>1, <1>3 DEF ListingInv, KnownTypes

LEMMA EntryLists == MapInv /\ ListingInv /\ Entry => ListingInv'
<1> SUFFICES ASSUME MapInv, ListingInv, Entry PROVE ListingInv'
  OBVIOUS
<1> DEFINE n == i + 1
<1>1. /\ at = "list" /\ pc = "returned" /\ i \in Nat /\ i' = n /\ map' = map
      /\ \/ /\ map[n].type < Len(EFI_MEMORY_TYPE_STRINGS)
            /\ Call(IF i % 2 = 0 THEN LeftFormat ELSE RightFormat,
                    <<AddressOfType(map[n].type), SizeOf(map[n].pages)>>)
            /\ at' = at
         \/ map[n].type >= Len(EFI_MEMORY_TYPE_STRINGS) /\ at' = "wild"
  BY EntryIs
<1>2. Between /\ KnownTypes
  BY <1>1 DEF ListingInv, Listing, InEntry, InTotal, Done, OffTable
<1> HIDE DEF n
<1>3. CASE /\ map[n].type < Len(EFI_MEMORY_TYPE_STRINGS)
           /\ Call(IF i % 2 = 0 THEN LeftFormat ELSE RightFormat,
                   <<AddressOfType(map[n].type), SizeOf(map[n].pages)>>)
           /\ at' = at
  <2>1. KnownTypes'
    <3>1. \A k \in 1..n : k \in 1..i \/ k = n
      BY <1>1 DEF n
    <3> QED BY <1>1, <1>2, <1>3, <3>1 DEF KnownTypes
  <2>2. Gets(1, 0, EntryTexts(i), EntryNumerals(i))
    BY <1>2, <1>3 DEF Gets, Between, Call, Of
  <2>3. \E done \in Nat : InEntry(done)'
    <3>1. /\ at' = "list" /\ pc' = "run" /\ i' = i + 1
          /\ format' \in {LeftFormat, RightFormat}
          /\ list' = <<AddressOfType(map'[i'].type), SizeOf(map'[i'].pages)>>
      BY <1>1, <1>3 DEF Call, n
    <3>2. PICK before \in Nat : before = i
      BY <1>1
    <3>3. Has(1, 0, EntryTexts(before), EntryNumerals(before))'
      BY <1>1, <2>2, <3>2, RowsStay DEF Has, Gets
    <3>4. InEntry(before)'
      BY <3>1, <3>2, <3>3 DEF InEntry
    <3> QED BY <3>4
  <2> QED BY <2>1, <2>3 DEF ListingInv
<1>4. CASE map[n].type >= Len(EFI_MEMORY_TYPE_STRINGS) /\ at' = "wild"
  BY <1>1, <1>4 DEF ListingInv, OffTable, KnownTypes, n
<1> QED BY <1>1, <1>3, <1>4

LEMMA TotalLineLists == MapInv /\ ListingInv /\ TotalLine => ListingInv'
<1> SUFFICES ASSUME MapInv, ListingInv, TotalLine PROVE ListingInv'
  OBVIOUS
<1>1. /\ at = "list" /\ pc = "returned" /\ i = MapEntries /\ at' = "total"
      /\ Call(TotalFormat, <<TotalRam>>)
      /\ map' = map /\ i' = i /\ TotalRam' = TotalRam
  BY DEF TotalLine, listing
<1>2. Between /\ KnownTypes
  BY <1>1 DEF ListingInv, Listing, InEntry, InTotal, Done, OffTable
<1>3. i = Len(map)
  BY <1>1, Descriptor DEF MapInv, CallerInv
<1>4. Gets(1, 0, EntryTexts(i), EntryNumerals(i))
  BY <1>1, <1>2 DEF Gets, Between, Call, Of
<1>5. Has(1, 0, EntryTexts(i), EntryNumerals(i))'
  BY <1>1, <1>4, RowsStay DEF Has, Gets
<1>6. InTotal'
  BY <1>1, <1>3, <1>5 DEF InTotal, Call
<1> QED BY <1>1, <1>2, <1>6 DEF ListingInv, KnownTypes

LEMMA ListedLists == MapInv /\ ListingInv /\ Listed => ListingInv'
<1> SUFFICES ASSUME MapInv, ListingInv, Listed PROVE ListingInv'
  OBVIOUS
<1>1. /\ at = "total" /\ pc = "returned" /\ at' = "done" /\ UNCHANGED vars
      /\ map' = map /\ i' = i /\ TotalRam' = TotalRam
  BY DEF Listed, listing
<1>2. InTotal /\ KnownTypes
  BY <1>1 DEF ListingInv, Listing, Between, InEntry, Done, OffTable
<1>3. Of("text") = EntryTexts(i) /\ Of("numeral") = WithTotal /\ i = Len(map)
  BY <1>1, <1>2 DEF InTotal, Has
<1>4. Done'
  BY <1>1, <1>3, RowsStay DEF Done, Of, vars
<1> QED BY <1>1, <1>2, <1>4 DEF ListingInv, KnownTypes

LEMMA TurnLists ==
  MapInv /\ ListingInv /\ Next /\ UNCHANGED <<at, listing>> => ListingInv'
<1> SUFFICES ASSUME MapInv, ListingInv, Next, UNCHANGED <<at, listing>>, at \in Listing
             PROVE  ListingInv'
  BY DEF ListingInv
<1>1. /\ at' = at /\ map' = map /\ i' = i /\ TotalRam' = TotalRam
      /\ KnownTypes /\ KnownTypes'
  BY DEF listing, ListingInv, KnownTypes
<1>2. pc = "run"
  BY DEF Next, PrintOrdinary, PrintC, PrintD, PrintO, PrintS, PrintX, PrintZU,
         GiveUp, Return, Conversion
<1>3. CASE \E done \in Nat : InEntry(done)
  <2>1. PICK done \in Nat : InEntry(done)
    BY <1>3
  <2>2. at = "list" /\ i = done + 1 /\ format \in {LeftFormat, RightFormat}
        /\ list = <<AddressOfType(map[i].type), SizeOf(map[i].pages)>>
    BY <2>1 DEF InEntry
  <2>3. /\ format' = format /\ list' = list
        /\ \/ /\ pc' = "run"
              /\ \/ \E k \in {3, 4} : Gets(k, 1, EntryTexts(i), EntryNumerals(done))
                 \/ \E k \in {7, 8} : Gets(k, 2, EntryTexts(i), EntryNumerals(i))
           \/ pc' = "returned" /\ Gets(8, 2, EntryTexts(i), EntryNumerals(i))
    BY <1>1, <2>1, EntryTurn DEF Stays
  <2>4. /\ EntryTexts(i)' = EntryTexts(i) /\ EntryNumerals(i)' = EntryNumerals(i)
        /\ EntryNumerals(done)' = EntryNumerals(done)
    BY <1>1, RowsStay
  <2>5. CASE /\ pc' = "run"
             /\ \/ \E k \in {3, 4} : Gets(k, 1, EntryTexts(i), EntryNumerals(done))
                \/ \E k \in {7, 8} : Gets(k, 2, EntryTexts(i), EntryNumerals(i))
    <3>1. \/ \E k \in {3, 4} : Has(k, 1, EntryTexts(i), EntryNumerals(done))'
          \/ \E k \in {7, 8} : Has(k, 2, EntryTexts(i), EntryNumerals(i))'
      BY <2>4, <2>5 DEF Has, Gets
    <3>2. /\ at' = "list" /\ pc' = "run" /\ i' = done + 1
          /\ format' \in {LeftFormat, RightFormat}
          /\ list' = <<AddressOfType(map'[i'].type), SizeOf(map'[i'].pages)>>
      BY <1>1, <2>2, <2>3, <2>5
    <3>3. InEntry(done)'
      BY <3>1, <3>2 DEF InEntry
    <3> QED BY <1>1, <3>3 DEF ListingInv
  <2>6. CASE pc' = "returned" /\ Gets(8, 2, EntryTexts(i), EntryNumerals(i))
    <3>1. Between'
      BY <1>1, <2>2, <2>4, <2>6 DEF Between, Gets
    <3> QED BY <1>1, <3>1 DEF ListingInv
  <2> QED BY <2>3, <2>5, <2>6
<1>4. CASE InTotal
  <2>1. /\ format' = format /\ list' = list
        /\ \/ pc' = "run" /\ Gets(2, 0, EntryTexts(i), EntryNumerals(i))
           \/ pc' # "wild" /\ \E k \in {5, 6} : Gets(k, 1, EntryTexts(i), WithTotal)
           \/ pc' = "wild" /\ TotalRam >= TooLong
    BY <1>4, TotalTurn DEF Stays
  <2>2. /\ EntryTexts(i)' = EntryTexts(i) /\ EntryNumerals(i)' = EntryNumerals(i)
        /\ WithTotal' = WithTotal /\ TooLong' = TooLong
    BY <1>1, RowsStay
  <2>3. \/ pc' = "run" /\ \E k \in {1, 2} : Has(k, 0, EntryTexts(i), EntryNumerals(i))'
        \/ pc' # "wild" /\ \E k \in {5, 6} : Has(k, 1, EntryTexts(i), WithTotal)'
        \/ pc' = "wild" /\ TotalRam' >= TooLong
    BY <1>1, <2>1, <2>2 DEF Has, Gets
  <2>4. InTotal'
    BY <1>1, <1>4, <2>1, <2>3 DEF InTotal
  <2> QED BY <1>1, <2>4 DEF ListingInv
<1>5. CASE Between \/ Done \/ OffTable
  BY <1>2, <1>5 DEF Between, Done, OffTable, MapInv, CallerInv
<1> QED BY <1>3, <1>4, <1>5 DEF ListingInv

LEMMA ListingStep == MapInv /\ ListingInv /\ [MapNext]_mapVars => ListingInv'
<1> SUFFICES ASSUME MapInv, ListingInv, [MapNext]_mapVars, at' \in Listing
             PROVE  ListingInv'
  BY DEF ListingInv
<1>1. CASE UNCHANGED mapVars
  <2>1. /\ at' = at /\ map' = map /\ i' = i /\ TotalRam' = TotalRam /\ UNCHANGED vars
    BY <1>1 DEF mapVars, listing
  <2>2. /\ EntryTexts(i)' = EntryTexts(i) /\ EntryNumerals(i)' = EntryNumerals(i)
        /\ WithTotal' = WithTotal
        /\ \A n : EntryTexts(n)' = EntryTexts(n) /\ EntryNumerals(n)' = EntryNumerals(n)
    BY <2>1, RowsStay
  <2>3. /\ pc' = pc /\ format' = format /\ list' = list /\ character' = character /\ arg' = arg
        /\ Of("text")' = Of("text") /\ Of("numeral")' = Of("numeral")
    BY <2>1 DEF vars, Of
  <2>4. KnownTypes' /\ at \in Listing
    BY <2>1 DEF ListingInv, KnownTypes
  <2>5. CASE Between
    BY <2>1, <2>2, <2>3, <2>4, <2>5 DEF ListingInv, Between
  <2>6. CASE \E done \in Nat : InEntry(done)
    <3>1. PICK done \in Nat : InEntry(done)
      BY <2>6
    <3>2. \/ Has(1, 0, EntryTexts(done), EntryNumerals(done))'
          \/ \E k \in {3, 4} : Has(k, 1, EntryTexts(i), EntryNumerals(done))'
          \/ \E k \in {7, 8} : Has(k, 2, EntryTexts(i), EntryNumerals(i))'
      BY <2>2, <2>3, <3>1 DEF InEntry, Has
    <3>3. /\ at' = "list" /\ pc' = "run" /\ i' = done + 1
          /\ format' \in {LeftFormat, RightFormat}
          /\ list' = <<AddressOfType(map'[i'].type), SizeOf(map'[i'].pages)>>
      BY <2>1, <2>3, <3>1 DEF InEntry
    <3>4. InEntry(done)'
      BY <3>2, <3>3 DEF InEntry
    <3> QED BY <2>4, <3>4 DEF ListingInv
  <2>7. CASE InTotal
    <3>1. \/ pc' = "run" /\ \E k \in {1, 2} : Has(k, 0, EntryTexts(i), EntryNumerals(i))'
          \/ pc' # "wild" /\ \E k \in {5, 6} : Has(k, 1, EntryTexts(i), WithTotal)'
          \/ pc' = "wild" /\ TotalRam' >= TooLong
      BY <2>1, <2>2, <2>3, <2>7 DEF InTotal, Has
    <3>2. InTotal'
      BY <2>1, <2>3, <2>7, <3>1 DEF InTotal
    <3> QED BY <2>4, <3>2 DEF ListingInv
  <2>8. CASE Done \/ OffTable
    BY <2>1, <2>2, <2>3, <2>4, <2>8 DEF ListingInv, Done, OffTable
  <2> QED BY <2>4, <2>5, <2>6, <2>7, <2>8 DEF ListingInv
<1>2. CASE AssertNext /\ UNCHANGED <<at, listing, getting>>
  <2>1. caller = "other"
    BY <1>2 DEF MapInv, CallerInv, Listing
  <2>2. Next
    BY <1>2, <2>1 DEF AssertNext, EfiAssert, EfiHalt, Release
  <2> QED BY <1>2, <2>2, TurnLists
<1>3. CASE SizeMemoryMap \/ AllocateMemoryMap \/ GetMemoryMap \/ FirmwareEvent
  BY <1>3 DEF SizeMemoryMap, AllocateMemoryMap, GetMemoryMap, FirmwareEvent, Listing
<1> QED BY <1>1, <1>2, <1>3, EntryLists, TotalLineLists, ListedLists DEF MapNext
-----------------------------------------------------------------------------
(***************************************************************************)
(* The total is what the sizes of the entries so far add up to, cut to a   *)
(* word.                                                                   *)
(***************************************************************************)
Adds(s) ==
  /\ s \in [0..Len(map) -> Nat] /\ s[0] = 0
  /\ \A k \in 1..Len(map) : s[k] = s[k - 1] + SizeOf(map[k].pages)

SumInv == at \in Listing => \E s : Adds(s) /\ TotalRam = s[i] % WordValues

LEMMA PagesOfMap ==
  ASSUME MapTypeOK
  PROVE  /\ Len(map) \in Nat
         /\ \A k \in 1..Len(map) :
              /\ map[k].type \in Nat /\ map[k].pages \in Nat
              /\ SizeOf(map[k].pages) \in Nat
<1> DEFINE D == [type: Nat, pages: Words]
<1>1. map \in Seq(D) /\ \A d \in D : d.type \in Nat /\ d.pages \in Nat
  BY Ranges DEF MapTypeOK, Words
<1> HIDE DEF D
<1>2. Len(map) \in Nat /\ \A k \in 1..Len(map) : map[k] \in D
  BY <1>1
<1> QED BY <1>1, <1>2, Sizes

LEMMA SumStarts == MapInit /\ MapInv => SumInv
<1> SUFFICES ASSUME MapInit, MapInv, at \in Listing
             PROVE  \E s : Adds(s) /\ TotalRam = s[i] % WordValues
  BY DEF SumInv
<1> DEFINE length == Len(map)
           step == [k \in Nat |-> [v \in Nat |->
                      IF k \in 1..length THEN v + SizeOf(map[k].pages) ELSE v]]
<1>1. i = 0 /\ TotalRam = 0
  BY DEF MapInit, Listing
<1>2. length \in Nat /\ \A k \in 1..length : SizeOf(map[k].pages) \in Nat
  BY PagesOfMap DEF MapInv
<1> HIDE DEF length
<1>3. step \in [Nat -> [Nat -> Nat]]
  BY <1>2
<1>4. \A k \in 1..length : \A v \in Nat : step[k][v] = v + SizeOf(map[k].pages)
  BY <1>2
<1> HIDE DEF step
<1>5. Recursive(Nat, 0, step)
  <2>1. 0 \in Nat
    OBVIOUS
  <2> QED BY <1>3, <2>1, Recursion
<1>6. PICK f \in [Nat -> Nat] :
        f[0] = 0 /\ \A k \in Nat : f[k + 1] = step[k + 1][f[k]]
  BY <1>5 DEF Recursive
<1> DEFINE s == [k \in 0..length |-> f[k]]
<1>7. s \in [0..length -> Nat] /\ s[0] = 0
  <2>1. \A k \in 0..length : f[k] \in Nat
    BY <1>2
  <2> QED BY <1>2, <1>6, <2>1
<1>8. ASSUME NEW k \in 1..length
      PROVE  s[k] = s[k - 1] + SizeOf(map[k].pages)
  <2>1. k - 1 \in Nat /\ k - 1 + 1 = k /\ k \in 0..length /\ k - 1 \in 0..length
    BY <1>2
  <2>2. f[k] = step[k][f[k - 1]]
    BY <1>6, <2>1
  <2> QED BY <1>4, <1>6, <2>1, <2>2
<1> HIDE DEF s
<1>9. TotalRam = s[i] % WordValues
  BY <1>1, <1>7, Ranges
<1> QED BY <1>7, <1>8, <1>9 DEF Adds, length

(***************************************************************************)
(* Adding to a remainder is adding to the number.                          *)
(***************************************************************************)
LEMMA CutSum ==
  ASSUME NEW a \in Nat, NEW b \in Nat, NEW w \in Nat, w >= 1
  PROVE  ((a % w) + b) % w = (a + b) % w
<1> DEFINE q == a \div w
           r == a % w
           c == (r + b) \div w
           d == (r + b) % w
<1>1. q \in Nat /\ r \in Nat /\ a = w * q + r
  BY Division
<1> HIDE DEF q, r
<1>2. c \in Nat /\ d \in Nat /\ d < w /\ r + b = w * c + d
  BY <1>1, Division
<1> HIDE DEF c, d
<1> DEFINE e == q + c
<1>3. e \in Nat /\ a + b \in Nat /\ a + b = w * e + d
  BY <1>1, <1>2
<1> HIDE DEF e
<1>4. (a + b) % w = d
  BY <1>2, <1>3, QuotientUnique
<1> QED BY <1>4 DEF d, r

LEMMA SumStep == MapInv /\ SumInv /\ [MapNext]_mapVars => SumInv'
<1> SUFFICES ASSUME MapInv, SumInv, [MapNext]_mapVars, at' \in Listing
             PROVE  \E s : Adds(s)' /\ TotalRam' = s[i'] % WordValues
  BY DEF SumInv
<1>1. CASE Entry
  <2> DEFINE n == i + 1
             size == SizeOf(map[n].pages)
  <2>1. /\ at = "list" /\ i < Len(map) /\ i \in Nat /\ i' = n /\ map' = map
        /\ map[n].pages \in Nat /\ TotalRam' = Total(size)
    BY <1>1, EntryIs
  <2>2. PICK s : Adds(s) /\ TotalRam = s[i] % WordValues
    BY <2>1 DEF SumInv, Listing
  <2>3. Adds(s)'
    BY <2>1, <2>2 DEF Adds
  <2>4. /\ n \in 1..Len(map) /\ n - 1 = i /\ i \in 0..Len(map)
        /\ size \in Nat
    <3>1. size \in Nat
      BY <2>1, Sizes
    <3> QED BY <2>1, <3>1, PagesOfMap DEF MapInv
  <2> HIDE DEF n
  <2>5. s[n] = s[i] + size /\ s[i] \in Nat
    BY <2>2, <2>4 DEF Adds
  <2> HIDE DEF size
  <2>6. (TotalRam + size) % WordValues = s[n] % WordValues
    <3>1. ((s[i] % WordValues) + size) % WordValues = (s[i] + size) % WordValues
      BY <2>4, <2>5, CutSum, Ranges
    <3> QED BY <2>2, <2>5, <3>1
  <2> QED BY <2>1, <2>3, <2>6 DEF Total
<1>2. CASE ~Entry
  <2>1. UNCHANGED <<map, i, TotalRam>> /\ at \in Listing
    BY <1>2 DEF MapNext, mapVars, TotalLine, Listed, SizeMemoryMap, AllocateMemoryMap,
                GetMemoryMap, FirmwareEvent, listing, Listing
  <2>2. PICK s : Adds(s) /\ TotalRam = s[i] % WordValues
    BY <2>1 DEF SumInv
  <2>3. Adds(s)'
    BY <2>1, <2>2 DEF Adds
  <2> QED BY <2>1, <2>2, <2>3
<1> QED BY <1>1, <1>2

LEMMA ListingHolds == MapSpec => [](MapInv /\ ListingInv /\ SumInv)
<1>1. MapInit => MapInv /\ ListingInv /\ SumInv
  BY MapInvInit, ListingStarts, SumStarts
<1> QED BY <1>1, MapInvStep, ListingStep, SumStep, PTL DEF MapSpec

(***************************************************************************)
(* A listing goes wild only with a total that has too many digits, or with *)
(* a type that the table of texts does not have.                           *)
(***************************************************************************)
THEOREM WildOnlySo == MapSpec => []WildExplained
<1>1. MapInv /\ ListingInv => WildExplained
  <2> SUFFICES ASSUME MapInv, ListingInv PROVE WildExplained
    OBVIOUS
  <2>1. at = "list" => pc # "wild"
    BY DEF ListingInv, Listing, Between, InEntry, InTotal, Done, OffTable
  <2>2. at = "total" /\ pc = "wild" => TotalRam >= TooLong
    BY DEF ListingInv, Listing, Between, InEntry, InTotal, Done, OffTable
  <2>3. at = "wild" => map[i].type >= Len(EFI_MEMORY_TYPE)
    <3>1. Len(EFI_MEMORY_TYPE) = Len(EFI_MEMORY_TYPE_STRINGS)
      BY DEF EFI_MEMORY_TYPE, EFI_MEMORY_TYPE_STRINGS
    <3> QED BY <3>1 DEF ListingInv, Listing, Between, InEntry, InTotal, Done, OffTable
  <2> QED BY <2>1, <2>2, <2>3 DEF WildExplained
<1> QED BY <1>1, ListingHolds, PTL

(***************************************************************************)
(* What a finished listing shows: a text and a numeral for each entry, and *)
(* the total behind them.                                                  *)
(***************************************************************************)
LEMMA DoneShows ==
  ASSUME MapInv, ListingInv, at = "done"
  PROVE  /\ Len(map) \in Nat /\ i = Len(map)
         /\ Len(Of("text")) = Len(map) /\ Len(Numbers) = Len(map) + 1
         /\ \A k \in 1..Len(map) :
              /\ Of("text")[k].address = AddressOfType(map[k].type)
              /\ map[k].type < Len(EFI_MEMORY_TYPE_STRINGS)
              /\ Numbers[k] = SizeOf(map[k].pages)
         /\ Numbers[Len(map) + 1] = TotalRam
<1> DEFINE n == Len(map)
           last == n + 1
           numerals == Of("numeral")
<1>1. /\ i = n /\ Of("text") = EntryTexts(n)
      /\ numerals = Append(EntryNumerals(n), Decimal(TotalRam))
      /\ \A k \in 1..n : map[k].type < Len(EFI_MEMORY_TYPE_STRINGS)
  BY DEF ListingInv, Listing, Between, InEntry, InTotal, Done, OffTable, KnownTypes, WithTotal
<1>2. /\ n \in Nat
      /\ \A k \in 1..n : SizeOf(map[k].pages) \in Nat
  BY PagesOfMap DEF MapInv
<1>3. Decimal(TotalRam) \in Pieces /\ Value(Decimal(TotalRam)) = TotalRam
  <2>1. TotalRam \in Nat
    BY Ranges DEF MapInv, MapTypeOK, Words
  <2> QED BY <2>1, PieceTypes
<1> HIDE DEF n
<1>4. /\ EntryNumerals(n) \in Seq(Pieces) /\ Len(EntryNumerals(n)) = n
      /\ \A k \in 1..n : /\ EntryNumerals(n)[k] = Decimal(SizeOf(map[k].pages))
                         /\ Value(EntryNumerals(n)[k]) = SizeOf(map[k].pages)
  <2>1. \A k \in 1..n : /\ Decimal(SizeOf(map[k].pages)) \in Pieces
                        /\ Value(Decimal(SizeOf(map[k].pages))) = SizeOf(map[k].pages)
    BY <1>2, PieceTypes
  <2> QED BY <1>2, <2>1 DEF EntryNumerals
<1> HIDE DEF numerals
<1>5. /\ numerals \in Seq(Pieces) /\ Len(numerals) = last
      /\ \A k \in 1..n : numerals[k] = EntryNumerals(n)[k]
      /\ numerals[last] = Decimal(TotalRam)
  BY <1>1, <1>2, <1>3, <1>4
<1>6. /\ last \in Nat /\ last \in 1..last /\ \A k \in 1..n : k \in 1..last
  BY <1>2
<1> HIDE DEF last
<1>7. DOMAIN numerals = 1..last
  BY <1>5
<1>8. Numbers = [k \in 1..last |-> Value(numerals[k])]
  BY <1>7 DEF Numbers, numerals
<1>9. Len(Numbers) = last
  BY <1>6, <1>8
<1>10. /\ Numbers[last] = TotalRam
       /\ \A k \in 1..n : Numbers[k] = SizeOf(map[k].pages)
  BY <1>3, <1>4, <1>5, <1>6, <1>8
<1>11. /\ Len(EntryTexts(n)) = n
       /\ \A k \in 1..n : EntryTexts(n)[k].address = AddressOfType(map[k].type)
  BY <1>2 DEF EntryTexts, TextPiece
<1> QED BY <1>1, <1>2, <1>9, <1>10, <1>11 DEF n, last

(***************************************************************************)
(* A finished listing has one entry for each descriptor, in order, with    *)
(* the name of its type and its size, for every map and every size of its  *)
(* descriptors.                                                            *)
(***************************************************************************)
THEOREM MapIsListed == MapSpec => []ListsMap
<1>1. MapInv /\ ListingInv => ListsMap
  <2> SUFFICES ASSUME MapInv, ListingInv, at = "done" PROVE ListsMap
    BY DEF ListsMap
  <2>1. /\ Len(Of("text")) = Len(map) /\ Len(Numbers) = Len(map) + 1
        /\ DOMAIN map = 1..Len(map)
    BY DoneShows DEF MapInv, MapTypeOK
  <2>2. ASSUME NEW k \in 1..Len(map)
        PROVE  TextAt(Of("text")[k].address) = EFI_MEMORY_TYPE[map[k].type + 1]
    <3>1. /\ Of("text")[k].address = AddressOfType(map[k].type)
          /\ map[k].type \in Nat
      BY DoneShows, PagesOfMap DEF MapInv
    <3>2. AddressOfType(map[k].type) - Len(Literals) = map[k].type + 1
      <4> DEFINE type == map[k].type
                 length == Len(Literals)
                 address == AddressOfType(type)
      <4>1. type \in Nat /\ length \in Nat
        BY <3>1, LiteralsAre
      <4>2. address = length + type + 1
        BY DEF AddressOfType
      <4> HIDE DEF type, length, address
      <4>3. address - length = type + 1
        BY <4>1, <4>2
      <4> QED BY <4>3 DEF type, length, address
    <3>3. EFI_MEMORY_TYPE = EFI_MEMORY_TYPE_STRINGS
      BY DEF EFI_MEMORY_TYPE, EFI_MEMORY_TYPE_STRINGS
    <3> QED BY <3>1, <3>2, <3>3 DEF TextAt
  <2>3. ASSUME NEW k \in 1..Len(map), map[k].pages * PageBytes < WordValues
        PROVE  Numbers[k] = map[k].pages * (PageBytes \div Kilobyte)
    <3> DEFINE pages == map[k].pages
               bytes == pages * PageBytes
               each == PageBytes \div Kilobyte
               size == pages * each
    <3>1. Numbers[k] = SizeOf(pages) /\ pages \in Nat
      BY DoneShows, PagesOfMap DEF MapInv
    <3>2. /\ Kilobyte \in Nat /\ Kilobyte >= 1 /\ PageBytes \in Nat
          /\ PageBytes % Kilobyte = 0
      BY MemoryMapAssumption DEF MemoryMapAssumption
    <3>3. each \in Nat /\ PageBytes = Kilobyte * each
      BY <3>2, Division
    <3> HIDE DEF each, pages
    <3>4. bytes \in Nat /\ size \in Nat /\ bytes = Kilobyte * size + 0
      BY <3>1, <3>2, <3>3
    <3> HIDE DEF size
    <3>5. bytes % WordValues = bytes
      <4>1. bytes = WordValues * 0 + bytes /\ bytes < WordValues
        BY <2>3, <3>4, Ranges DEF pages
      <4> HIDE DEF bytes
      <4> QED BY <3>4, <4>1, Ranges, QuotientUnique
    <3> HIDE DEF bytes
    <3>6. bytes \div Kilobyte = size
      BY <3>2, <3>4, QuotientUnique
    <3>7. SizeOf(pages) = size
      BY <3>5, <3>6 DEF SizeOf, bytes
    <3> QED BY <3>1, <3>7 DEF size, pages, each
  <2> QED BY <2>1, <2>2, <2>3 DEF ListsMap
<1> QED BY <1>1, ListingHolds, PTL

(***************************************************************************)
(* The total of a finished listing is the sum of the numbers it shows, cut *)
(* to a word.                                                              *)
(***************************************************************************)
THEOREM TotalIsSum == MapSpec => []TotalAddsUp
<1>1. MapInv /\ ListingInv /\ SumInv => TotalAddsUp
  <2> DEFINE n == Len(map)
             Is(p) == p = [k \in 0..n |-> IF k = 0 THEN 0 ELSE p[k - 1] + Numbers[k]]
             sum == CHOOSE p : Is(p)
  <2> SUFFICES ASSUME MapInv, ListingInv, SumInv, at = "done"
               PROVE  Numbers[Len(Numbers)] = sum[n] % WordValues
    BY DEF TotalAddsUp
  <2>1. /\ n \in Nat /\ i = n /\ Len(Numbers) = n + 1 /\ Numbers[n + 1] = TotalRam
        /\ \A k \in 1..n : Numbers[k] = SizeOf(map[k].pages)
    BY DoneShows
  <2>2. PICK s : Adds(s) /\ TotalRam = s[i] % WordValues
    BY DEF SumInv, Listing
  <2>3. /\ s \in [0..n -> Nat] /\ s[0] = 0
        /\ \A k \in 1..n : s[k] = s[k - 1] + Numbers[k]
    BY <2>1, <2>2 DEF Adds
  <2>4. \A p : Is(p) <=> p = [k \in 0..n |-> IF k = 0 THEN 0 ELSE p[k - 1] + Numbers[k]]
    OBVIOUS
  <2> HIDE DEF n, Is
  <2>5. Is(s)
    <3>1. ASSUME NEW k \in 0..n
          PROVE  s[k] = IF k = 0 THEN 0 ELSE s[k - 1] + Numbers[k]
      <4>1. k # 0 => k \in 1..n
        BY <2>1
      <4> QED BY <2>3, <4>1
    <3>2. s = [k \in 0..n |-> s[k]]
      BY <2>3
    <3>3. s = [k \in 0..n |-> IF k = 0 THEN 0 ELSE s[k - 1] + Numbers[k]]
      BY <3>1, <3>2
    <3> QED BY <2>4, <3>3
  <2>6. Is(sum)
    BY <2>5
  <2> HIDE DEF sum
  <2>7. sum[0] = 0 /\ \A k \in 1..n : sum[k] = sum[k - 1] + Numbers[k]
    <3>1. sum = [k \in 0..n |-> IF k = 0 THEN 0 ELSE sum[k - 1] + Numbers[k]]
      BY <2>4, <2>6
    <3>2. 0 \in 0..n /\ \A k \in 1..n : k \in 0..n /\ k # 0
      BY <2>1
    <3> QED BY <3>1, <3>2
  <2> DEFINE S == {k \in Nat : k <= n => sum[k] = s[k]}
  <2>8. 0 \in S
    BY <2>3, <2>7
  <2>9. ASSUME NEW k \in Nat, k \in S
        PROVE  k + 1 \in S
    <3> DEFINE m == k + 1
    <3>1. m \in Nat /\ m - 1 = k
      OBVIOUS
    <3>2. m <= n => m \in 1..n /\ sum[k] = s[k]
      BY <2>1, <2>9
    <3> HIDE DEF m
    <3>3. m <= n => sum[m] = s[m]
      BY <2>3, <2>7, <3>1, <3>2
    <3>4. m \in S
      BY <3>1, <3>3
    <3> QED BY <3>4 DEF m
  <2> HIDE DEF S
  <2>10. n \in S
    BY <2>1, <2>8, <2>9, SetInduction
  <2>11. sum[n] = s[n]
    BY <2>1, <2>10 DEF S
  <2> QED BY <2>1, <2>2, <2>11
<1> QED BY <1>1, ListingHolds, PTL
=============================================================================
