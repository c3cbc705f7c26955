SPECIFICATION PSpec
CONSTANTS
  Page = {p1, p2, p3, p4, p5, p6, p7, p8, p9, p10}
  Device = {vram}
  NONE = NONE
  Process = {a, b}
  Thread = {0, 1}
  Dir = {0}
  BOTTOM = 2
  TOP = 6
  LAST = 1
  MAX_MESSAGE_COUNT = 2
VIEW View
CHECK_DEADLOCK FALSE
INVARIANTS PagesOwned PagesKept Reachable StacksApart WaitsVacant
