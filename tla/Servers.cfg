SPECIFICATION SSpec
CONSTANTS
  a = a
  b = b
  c = c
  Client = {a, b, c}
  HD = HD
  FS = FS
  Server <- MCServer
  MAX_MESSAGE_COUNT = 3
  REQUESTS = 2
  SECTORS = 2
INVARIANTS OnePlace RepliesFit
PROPERTY CallsReturn
