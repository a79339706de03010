SPECIFICATION Spec
CONSTANTS
  Threads = {t1, t2, t3}
  NULL = NULL
  MaxItems = 2
  K = 2
  Limit = 48
  Users = {t1, t2}
  Makers = {t1}
  Objects = {1, 2}
  Locals <- MCLocals
  Things = {1, 2, 3}
  Addresses = {1, 2}
  Blocks = {1, 2}
  Sps = {"s", "r"}
  Wps = {"v", "w"}
  N = 3
  Rounds = 2
  MaxUpdates = 2
INVARIANTS LockingIsRight ObjectsLiveAsPointed AtomicsOrder
CHECK_DEADLOCK FALSE
