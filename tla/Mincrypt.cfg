SPECIFICATION Spec
CONSTANTS
  Bits = 2
  NDIGITS = 4
  p = 211
  n = 197
  b = 5
  Teeth = 2
  Rounds = 2
  Window = 2
  G <- BasePoint
  Keys <- SomeKeys
  Messages = {0, 1, 255}
  Rs <- SomeRs
  Ss = {0, 1, 77, 197, 200}
INVARIANTS ArithmeticIsExact SignaturesAreExact
PROPERTY InverseEnds
CHECK_DEADLOCK FALSE
