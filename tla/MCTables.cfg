SPECIFICATION TablesSpec
CONSTANTS
  Message = {m1, m2}
  MAX_MESSAGE_COUNT = 3
  KB_BUFFER_SIZE = 3
  Node = {n1, n2, n3, n4}
  HEAD = head
  FIRST = 1
SYMMETRY MCSymmetry
INVARIANTS LInv
PROPERTIES RingIsFifo SmallestFree FindsIt
