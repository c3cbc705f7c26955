SPECIFICATION StartupSpec
CONSTANTS
  Map <- MCMap
  KERNEL_END = 2
  LOADER_MAPPED = 5
  MAX_MAPPING = 9
  WORD = 12
  LEAST = 4
  Rsdt <- MCRsdt
  Madt <- MCMadt
  Devices <- MCDevices
  Mbr <- MCMbr
  Ebr <- MCEbr
  MAX_PARTITIONS = 7
  Start <- MCStart
  TICKS = 3
  FirstYear = 1899
  LastYear = 2100
  BITS = 6
  Bit <- MCBit
  INTBITS = 6
  WIDTH = 4
INVARIANTS  DevicesHeard ReadsNorlit TimeWasShown DatesAgree DivisionExact NumbersReadBack
CHECK_DEADLOCK FALSE
