SPECIFICATION ReopenSpec
CONSTANTS
  RING_BUF_SIZE = 7
  CUSHION = 4
  HDR_SIZE = 2
  EvtSizes = {3}
  MaxEvts = 4
  MaxSnaplen = 1
INVARIANT NoCorruption
