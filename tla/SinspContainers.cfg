SPECIFICATION ManagerFairSpec
CONSTANTS
  Clients = {inspector}
  Keys = {k1, k2}
  Uses <- DockerUses
  MaxCalls = 2
  Tids = {t1, t2}
  Docker = {k1}
  Cri = {k1, k2}
  MaxPending = 2
INVARIANTS InUseKnown NoImmediateReturn
PROPERTIES NeverDowngraded MetadataArrives UnusedForgotten
