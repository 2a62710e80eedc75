------------------------------ MODULE Terminal ------------------------------
(***************************************************************************)
(* The text screen the kernel's print (src/kernel.c) is meant to give: a   *)
(* grid of characters and a cursor.  A character goes to the cursor; past  *)
(* the last column, or at '\n', the cursor goes to the next line; past the *)
(* last line the text moves up by one and a blank line comes in.           *)
(***************************************************************************)
EXTENDS Naturals

CONSTANTS
  Lines, Columns,   \* of the grid, at least one each
  Chars,
  Blank             \* the character of an empty place

VARIABLES
  on,       \* whether there is text on the screen
  screen,   \* the characters, by line and column
  line,     \* the cursor
  column

terminal == <<on, screen, line, column>>

BlankLine == [j \in 0..(Columns - 1) |-> Blank]
BlankScreen == [i \in 0..(Lines - 1) |-> BlankLine]

TerminalInit == on = FALSE /\ screen = BlankScreen /\ line = 0 /\ column = 0

TurnOn ==
  /\ ~on
  /\ on' = TRUE
  /\ UNCHANGED <<screen, line, column>>

(***************************************************************************)
(* The cursor leaves a line of text.                                       *)
(***************************************************************************)
LineFeed(text) ==
  /\ column' = 0
  /\ \/ /\ line + 1 < Lines
        /\ line' = line + 1
        /\ screen' = text
     \/ /\ line + 1 = Lines
        /\ line' = line
        /\ screen' = [i \in 0..(Lines - 1) |->
                        IF i + 1 < Lines THEN text[i + 1] ELSE BlankLine]

Break == on /\ LineFeed(screen) /\ UNCHANGED on

Type(char) ==
  LET text == [screen EXCEPT ![line][column] = char]
  IN  /\ on
      /\ \/ /\ column + 1 < Columns
            /\ column' = column + 1
            /\ line' = line
            /\ screen' = text
         \/ /\ column + 1 = Columns
            /\ LineFeed(text)
      /\ UNCHANGED on

TurnOff == on /\ on' = FALSE /\ screen' = BlankScreen /\ line' = 0 /\ column' = 0

TerminalNext == TurnOn \/ Break \/ (\E char \in Chars : Type(char)) \/ TurnOff

TerminalSpec == TerminalInit /\ [][TerminalNext]_terminal
=============================================================================
