SPECIFICATION FairSpec
CONSTANTS
  RING_BUF_SIZE = 6
  CUSHION = 3
  HDR_SIZE = 1
  EvtSizes = {1, 4}
  MaxEvts = 4
  MaxSnaplen = 1
INVARIANTS EventsIntact HeldIntact NextInOrder CountersAddUp
PROPERTIES ImplementsFifo EventuallyServed
