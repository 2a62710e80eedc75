------------------------------- MODULE Printf -------------------------------
(***************************************************************************)
(* EfiPrintF of src/efi_main.c: the interpreter of a format string and its *)
(* list of arguments, one turn of its loop at a time.                      *)
(*                                                                         *)
(* An argument is a word (size_t, 64 bits: every argument has a place of   *)
(* that size in the calling convention of the build); %d and %x read an    *)
(* int (32 bits) from it.  What is printed is a sequence of pieces, one    *)
(* per call of EfiPrintChar or EfiPrintString; the digits in them come     *)
(* from the module Format, whose loops are IntString and HexString.        *)
(***************************************************************************)
EXTENDS Integers, Sequences, FiniteSets, Format

CONSTANTS
  Calls,      \* what EfiPrintF may be called with: <<format, argument list>>
  WordBits,   \* 64
  IntBits,    \* 32
  Room        \* the 20 of IntString.data

WordValues == Power(2, WordBits)
IntValues == Power(2, IntBits)
HalfInt == Power(2, IntBits - 1)    \* an int is in -HalfInt .. HalfInt - 1
TooLong == Power(10, Room - 1)      \* the first number with Room digits

Words == 0..(WordValues - 1)
Letters == {"%", "a", "c", "d", "n", "o", "s", "u", "x", "z"}   \* "n" is a line feed

ASSUME PrintfAssumption ==
  /\ WordBits \in Nat /\ IntBits \in 1..WordBits
  /\ Room \in Nat /\ Room >= 2
  /\ HalfInt <= TooLong                 \* no int fills the array, and
  /\ WordValues - HalfInt >= TooLong    \* the smallest one as a usize does
  /\ WordValues <= Power(10, Room)
  /\ Calls \subseteq Seq(Letters) \X Seq(Words)
  /\ \A call \in Calls :
       Cardinality({k \in DOMAIN call[1] : call[1][k] = "%"}) <= Len(call[2])

VARIABLES
  pc,         \* "run", "returned", or "wild" once an array is overrun
  format,     \* the parameters
  list,
  character,  \* the position in the format
  arg,        \* arguments taken from the list
  open,       \* va_start without va_end
  out         \* the pieces printed

vars == <<pc, format, list, character, arg, open, out>>

Pieces ==
  [call: {"char"}, char: Letters \cup {"-"}] \cup
  [call: {"code"}, code: Nat] \cup
  [call: {"text"}, address: Words] \cup
  [call: {"numeral"}, base: {10, 16}, digits: Seq(Nat)]

Char(c) == [call |-> "char", char |-> c]
Hex(n) == [call |-> "numeral", base |-> 16, digits |-> TruncatedHex(n, 16)]
Decimal(n) == [call |-> "numeral", base |-> 10, digits |-> Numeral(n, 10)]

TypeOK ==
  /\ pc \in {"run", "returned", "wild"}
  /\ format \in Seq(Letters)
  /\ list \in Seq(Words)
  /\ character \in 1..(Len(format) + 1)
  /\ arg \in 0..Len(list)
  /\ open \in BOOLEAN
  /\ out \in Seq(Pieces)

Init ==
  /\ pc = "run"
  /\ \E call \in Calls : format = call[1] /\ list = call[2]
  /\ character = 1
  /\ arg = 0
  /\ open = TRUE
  /\ out = << >>
-----------------------------------------------------------------------------
(***************************************************************************)
(* *character; the format ends with NUL.                                   *)
(***************************************************************************)
At(k) == IF k <= Len(format) THEN format[k] ELSE "NUL"

Emit(pieces) == out' = out \o pieces

PrintOrdinary ==
  /\ pc = "run"
  /\ At(character) \notin {"%", "NUL"}
  /\ Emit(<<Char(At(character))>>)
  /\ character' = character + 1
  /\ UNCHANGED <<pc, format, list, arg, open>>

(***************************************************************************)
(* Control is at a conversion with this letter.                            *)
(***************************************************************************)
Conversion(letter) ==
  /\ pc = "run"
  /\ At(character) = "%"
  /\ At(character + 1) = letter

(***************************************************************************)
(* va_arg: the next word, of which an int is the low half.                 *)
(***************************************************************************)
word == list[arg + 1]
unsigned == word % IntValues
int == IF unsigned < HalfInt THEN unsigned ELSE unsigned - IntValues

(***************************************************************************)
(* The end of a turn that took an argument, size characters further.       *)
(* Mutant: the conversions are functions of their own that get a copy of   *)
(* the va_list, so that taking an argument does not move EfiPrintF's.      *)
(***************************************************************************)
ContinueCopied(size) ==
  /\ character' = character + size
  /\ UNCHANGED <<pc, format, list, arg, open>>

Continue(size) ==
  /\ character' = character + size
  /\ arg' = arg + 1
  /\ UNCHANGED <<pc, format, list, open>>

PrintC ==
  /\ Conversion("c")
  /\ Emit(<<[call |-> "code", code |-> word % Power(2, IntBits \div 2)]>>)
  /\ Continue(2)

PrintS ==
  /\ Conversion("s")
  /\ Emit(<<[call |-> "text", address |-> word]>>)
  /\ Continue(2)

(***************************************************************************)
(* EfiPrintString(ToHexStringTruncated(i).data) of an unsigned int.        *)
(***************************************************************************)
PrintX ==
  /\ Conversion("x")
  /\ Emit(<<Hex(unsigned)>>)
  /\ Continue(2)

(***************************************************************************)
(* U64ToString: a number with as many digits as the array has places       *)
(* leaves it without a terminator (StaysInside of IntString).  No int has  *)
(* that many, but what becomes of the smallest one may.                    *)
(***************************************************************************)
Fits(n) == Len(Numeral(n, 10)) < Room

Overrun ==
  /\ pc' = "wild"
  /\ UNCHANGED <<format, list, character, arg, open>>

(***************************************************************************)
(* %zu reads a size_t.  Mutant: an unsigned int.                           *)
(***************************************************************************)
SizeInt == unsigned
Size == word

PrintZU ==
  /\ Conversion("z")
  /\ At(character + 2) = "u"
  /\ IF Fits(Size)
     THEN Emit(<<Decimal(Size)>>) /\ Continue(3)
     ELSE Emit(<< >>) /\ Overrun

(***************************************************************************)
(* The usize that i becomes behind "i = -i".  The smallest int has no      *)
(* negative, the result is undefined: it stays what it is and is           *)
(* sign-extended, or is taken for a positive number.                       *)
(* Mutant: the sign is printed and the int left negative.                  *)
(***************************************************************************)
NegatedNot == {WordValues + int}
Negated ==
  IF int = 0 - HalfInt THEN {WordValues + int, 0 - int} ELSE {0 - int}

PrintD ==
  /\ Conversion("d")
  /\ \/ /\ int >= 0
        /\ Emit(<<Decimal(int)>>)
        /\ Continue(2)
     \/ /\ int < 0
        /\ \E i \in Negated :
             IF Fits(i)
             THEN Emit(<<Char("-"), Decimal(i)>>) /\ Continue(2)
             ELSE Emit(<<Char("-")>>) /\ Overrun

(***************************************************************************)
(* Nothing is printed and no argument is taken (its code is commented out),*)
(* so that the conversions behind it get the arguments before their own.   *)
(***************************************************************************)
PrintO ==
  /\ Conversion("o")
  /\ character' = character + 2
  /\ UNCHANGED <<pc, format, list, arg, open, out>>

(***************************************************************************)
(* The conversion is none of these: EfiPrintF gives up, behind the "%" or  *)
(* behind the "z", and does not get to va_end.                             *)
(***************************************************************************)
Unknown ==
  LET letter == At(character + 1)
  IN  \/ letter \notin {"c", "d", "o", "s", "x", "z"}
      \/ letter = "z" /\ At(character + 2) # "u"

(***************************************************************************)
(* Mutants: an unknown conversion is skipped (break for return); it is to  *)
(* be shown as it stands, and the position goes back to the "%", where the *)
(* next turn finds it again.                                               *)
(***************************************************************************)
LeaveBack == UNCHANGED <<character, pc>>
LeaveNot == character' = character + 2 /\ UNCHANGED pc
Leave ==
  /\ character' = IF At(character + 1) = "z" THEN character + 2 ELSE character + 1
  /\ pc' = "returned"

GiveUp ==
  /\ pc = "run"
  /\ At(character) = "%"
  /\ Unknown
  /\ Leave
  /\ UNCHANGED <<format, list, arg, open, out>>

Return ==
  /\ pc = "run"
  /\ At(character) = "NUL"
  /\ pc' = "returned"
  /\ open' = FALSE                   \* va_end
  /\ UNCHANGED <<format, list, character, arg, out>>

Next ==
  \/ PrintOrdinary
  \/ PrintC
  \/ PrintD
  \/ PrintO
  \/ PrintS
  \/ PrintX
  \/ PrintZU
  \/ GiveUp
  \/ Return

Spec == Init /\ [][Next]_vars

(***************************************************************************)
(* A turn of the loop does not wait for anything.                          *)
(***************************************************************************)
Turns == WF_vars(Next)
-----------------------------------------------------------------------------
(***************************************************************************)
(* As long as no %o has been passed, each conversion gets the argument of  *)
(* its own number: as many have been taken as there are conversions before *)
(* the position.  Behind a %o they do not (efi_main.c:129-135).            *)
(***************************************************************************)
ConversionsBefore == {k \in 1..(character - 1) : format[k] = "%"}
OctalBefore == \E k \in ConversionsBefore : At(k + 1) = "o"

OwnArguments == pc = "run" /\ ~OctalBefore => arg = Cardinality(ConversionsBefore)

(***************************************************************************)
(* A number is printed as what it is: reading back the pieces of a turn    *)
(* gives the int of %d, the unsigned int of %x and the size_t of %zu.      *)
(***************************************************************************)
Value(piece) == NumberOf(piece.digits, piece.base)

ReadBack(pieces) ==
  IF Len(pieces) = 2 THEN 0 - Value(pieces[2]) ELSE Value(pieces[1])

Printed == SubSeq(out', Len(out) + 1, Len(out'))

SaysItsArgument ==
  [][ arg' > arg =>
        /\ Conversion("d") => ReadBack(Printed) = int
        /\ Conversion("x") => ReadBack(Printed) = unsigned
        /\ Conversion("z") => ReadBack(Printed) = word ]_vars

(***************************************************************************)
(* The array of U64ToString is overrun only by a size_t with as many       *)
(* digits as it has places, or by the smallest int.                        *)
(***************************************************************************)
OverrunExplained ==
  pc = "wild" =>
    \/ At(character + 1) = "z" /\ word >= TooLong
    \/ At(character + 1) = "d" /\ int = 0 - HalfInt

(***************************************************************************)
(* The loop ends: every path through its body moves towards the terminator *)
(* and none stays or steps over it, the way of %o, of an unknown           *)
(* conversion and of one cut off by the end of the format included.        *)
(***************************************************************************)
Returns == pc = "run" ~> pc # "run"
=============================================================================
