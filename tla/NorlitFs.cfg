SPECIFICATION FSpec
CONSTANTS
  Block = {1, 2, 3, 4, 5, 6, 7, 8}
  LENS = 3
  FreeAtStart <- MCFreeAtStart
  ROOT = 1
  ROOT_DATA = 8
  Name = {a, b}
  Text = {t1, t2}
  Offsets = {0}
  Signatures = {"NorlitFS", "none"}
  MAX_CRASHES = 2
  Pow <- MCPow
   
PROPERTY OpenEnds
CHECK_DEADLOCK FALSE
