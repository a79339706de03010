SPECIFICATION Spec
CONSTANTS
  Names = {1, 2, 3}
  Hidden = {3}
  NameLen <- LenOf
  Trees <- SomeTrees
  Args <- SomeArgs
  Canned <- SomeCanned
  FirstSize = 2
  LINKMAX = 8
  MaxChanges = 1
INVARIANT ArchiveIsRight
CHECK_DEADLOCK FALSE
