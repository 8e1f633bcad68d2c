SPECIFICATION Spec
CONSTANTS
  Root = 1
  RootName = 1
  Procs = {1, 2}
  Threads = {3}
  Uses <- LiveUses
  MaxQueue = 2
INVARIANTS FdTableKept
CHECK_DEADLOCK FALSE
