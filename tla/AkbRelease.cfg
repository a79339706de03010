SPECIFICATION Spec
VIEW Followed
CONSTANTS
  MaxRev = 2
  MaxMakes = 2
  MaxFaults = 1
  MaxStops = 1
  Entries = {"Makefile", "fs"}
  Hidden = {".git", ".config"}
  Others = {"Makefile", "fs", ".config", "notes"}
  Folders = {"fs", ".git"}
  MaxInits = 3
  MaxMvFaults = 1
  MaxHalts = 1
INVARIANTS OnlyFailuresHarm TreeKept
PROPERTIES  PrepareRepeats
CHECK_DEADLOCK FALSE
