SPECIFICATION Spec
CONSTANTS
  ndevs = 1
  MaxEvts = 4
  Root = 1
  Tids = {1, 2, 3}
  NoPayload = NoPayload
  Payloads <- KernelEvents
  Uses <- OrphanUses
INVARIANT HiddenNotReturned
CHECK_DEADLOCK FALSE
