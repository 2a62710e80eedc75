\* Ternary numbers in an array of four, and three bytes of two binary digits.
SPECIFICATION MCSpec
CONSTANTS
  Base = 3
  Room = 4
  NUL = 99
  Numbers <- MCNumbers
  Radix = 2
  Bytes = 3
  HexRoom = 9
  X = 98
  HexNUL = 99
  HexNumbers <- MCHexNumbers
INVARIANTS
  TypeOK
  Converts
  StaysInside
  HexConverts
\* The functions return: a real stop.
CHECK_DEADLOCK FALSE
