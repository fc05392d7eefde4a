SPECIFICATION Spec
CONSTANTS
  LINES = 2
  COLUMNS = 2
  Char = {a, b}
  NL = nl
  Blank = blank
  MaxText = 2
  Proc = {p1, p2}
  MaxDrift = 2
  IntBits = 3
  LongBits = 5
  Letters = {"a", "l", "d"}
  Ints <- MCInts
  Longs <- MCLongs
  Upper = {0, 3}
INVARIANTS
  TypeOK
  CursorReturns
  PrintsAsMeant
PROPERTY DisplaySpec
SYMMETRY Alike
CHECK_DEADLOCK FALSE
