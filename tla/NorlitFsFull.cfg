SPECIFICATION FSpec
CONSTANTS
  Block = {1, 2, 3, 4, 5, 6, 7}
  LENS = 3
  FreeAtStart <- MCFreeOdd
  ROOT = 1
  ROOT_DATA = 3
  Name = {a, b}
  Text = {t1}
  Offsets = {0}
  Signatures = {"NorlitFS"}
  MAX_CRASHES = 0
  Pow <- MCPow
PROPERTY SignatureStays
CHECK_DEADLOCK FALSE
