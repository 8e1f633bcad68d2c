SPECIFICATION FairSpec
CONSTANTS
  ndevs = 2
  MaxEvts = 3
  Root = 1
  Tids = {1, 2, 3}
  NoPayload = NoPayload
  Payloads <- KernelEvents
  Uses <- AllUses
INVARIANTS HandKept LateOnlyIfRaced KeptRight DeadForgotten
PROPERTIES ImplementsFifos NoneStarved
CHECK_DEADLOCK FALSE
