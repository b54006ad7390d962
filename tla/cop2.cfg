SPECIFICATION MCSpec
CONSTANTS
  H = 4
  G = 2
  Operand = {0, 3, 4, 7}
  BitAnd <- MCBitAnd
  Element <- MCElement
  Reg = {0, 1}
  Scalar = {0, 1, 2}
  Value = {4660, 33023}      \* 0x1234, 0x80ff
  Contents <- MCContents
  DestField = {5, 15}
  MaxSteps = 2
INVARIANTS
  NoStaleCarry
  QuotientOfOperand
PROPERTIES
  DoubleSum
  DoubleCompare
  DoubleMinMax
  ClipsExactly
  MultipliesExactly
  MovesExact
  ShufflesAgree
CHECK_DEADLOCK FALSE
