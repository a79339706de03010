SPECIFICATION Spec
CONSTANTS
  N = 5
  Size <- MCSize
  RandMax = 31
INVARIANTS TypeOK Located AllPrinted
PROPERTY Finishes
