SPECIFICATION Spec
CONSTANTS
  Word = 128
  HdrSize = 3
  ArgsSize = 3
  ExtraSize = 3
  NameSize = 2
  PageSizes = {4}
  FileSizes = {1, 4}
  CmdLens = {0}
  NameLens = {0}
  Bases = {0}
  Offsets <- OneOffset
  Foreign = FALSE
  Faults = FALSE
  MaxPacks = 1
  MaxRuns = 1
INVARIANT SecondSavedAsPacked
