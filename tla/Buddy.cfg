SPECIFICATION FairMSpec
CONSTANTS
  CPU = {0, 1}
  BOOT = 0
  BASE = 3
  LIMIT = 8
  LISTS = 4
  Pow <- MCPow
INVARIANTS Conservation Coalesced OutOfMemoryIsReal
PROPERTY CallsEnd
CHECK_DEADLOCK FALSE
