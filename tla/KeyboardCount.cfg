SPECIFICATION KSpec
CONSTANTS
  Byte = {"key", "lock", "E0", "E1", "ACK"}
  BUFFER_SIZE = 2
  MAX_MESSAGE_COUNT = 3
  WORD = 4
INVARIANT CountSurvivesHandler
