SPECIFICATION Spec
CONSTANTS
  Words <- MCWords
  CommandLines <- AllLines
  Scripts <- AllScripts
  ArgLists <- SomeArgs
  Pids = {p1, p2}
  Taken = {p1}
  Shells = {"old", "new"}
  NoShell = "gone"
  Faults = TRUE
  MaxStarts = 2
  MaxChanges = 1
INVARIANTS TypeOK ScriptAsWritten ArgsKept EnvRestored
PROPERTIES RunsScript ExpiredEnds
