SPECIFICATION Spec
CONSTANTS
  Threads = {t1, t2}
  Fds = {3, 4}
  Files = {7, 8}
  Unknown = {8}
  Uses <- SharedUses
  MaxCalls = 3
INVARIANTS NewFdSurvives
CHECK_DEADLOCK FALSE
