SPECIFICATION Spec
CONSTANTS
  MAX_PID = 3
  NBOOT = 2
  BootPriority <- MCFlatPriority
  IrqTargets = {}
  MAX_MESSAGE_COUNT = 1
  MAX_THREADS = 2
  MAX_CREATES = 2
INVARIANTS SleepsInReceive OneThreadRuns
