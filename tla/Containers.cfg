SPECIFICATION Spec
CONSTANTS
  Addresses = {a1, a2, a3, a4, a5}
  Other = a6
  NULL = NULL
  Raw = Raw
  NoLoop = NoLoop
  Heads = {h1, h2}
  Items = {i1, i2, i3}
  W = 8
  Bits = {0, 1, 6, 7}
  BITS_PER_WORD = 3
  num_bits = 4
INVARIANTS LinksAreWhole ContentsAreRight
PROPERTY ContainersImplement
SYMMETRY Symmetry
CHECK_DEADLOCK FALSE
