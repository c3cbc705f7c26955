SPECIFICATION TSpec
CONSTANTS
  Byte = {"key", "lock", "E0", "E1", "ACK", "p1", "p2", "p3", "p4", "q1", "q2", "q3", "q4", "three", "other"}
  RATES = 1
  BUFFER_SIZE = 2
  MAX_MESSAGE_COUNT = 3
  WORD = 4
  Writer = {w1, w2}
  xRes = 144
  yRes = 60
  EARLY = 1
  PUTS = 2
INVARIANTS BytesReadOnce PacketsWhole CursorOnScreen TextOnce
PROPERTIES ClearEnds PutsShown
