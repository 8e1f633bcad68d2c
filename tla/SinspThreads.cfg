SPECIFICATION FairSpec
CONSTANTS
  Root = 1
  RootName = 1
  Procs = {1, 2}
  Threads = {3}
  Uses <- AllUses
  MaxQueue = 2
INVARIANTS TypeOK RefcountExactNoLoss LiveKnown
PROPERTIES DeadForgotten
CHECK_DEADLOCK FALSE
