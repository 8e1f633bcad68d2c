SPECIFICATION FairSpec
CONSTANTS
  Tasks = {t1, t2}
  Cpus = {c1, c2}
  Uses <- AllUses
INVARIANTS MemorySafe CaptureNeedsBuffer ProbesSound
PROPERTY CallsReturn
