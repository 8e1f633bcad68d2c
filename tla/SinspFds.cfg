SPECIFICATION Spec
CONSTANTS
  Threads = {t1, t2}
  Fds = {3, 4}
  Files = {7, 8}
  Unknown = {8}
  Uses <- AllUses
  MaxCalls = 5
INVARIANTS TypeOK CacheCoherent NoWrongEntry Attributed Heals
CHECK_DEADLOCK FALSE
