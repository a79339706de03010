SPECIFICATION Spec
CONSTANTS
  Word = 128
  HdrSize = 3
  ArgsSize = 3
  ExtraSize = 3
  NameSize = 2
  PageSizes = {4}
  FileSizes = {0, 3, 4, 30, 63}
  CmdLens = {0, 2, 4, 5}
  NameLens = {1, 2}
  Bases = {100}
  Offsets <- MCOffsets
  Foreign = TRUE
  Faults = TRUE
  MaxPacks = 1
  MaxRuns = 2
INVARIANTS TypeOK SavedAsPacked ReadsInBounds NoPartialImage RebuildsSame
