SPECIFICATION Spec
CONSTANTS
  MAX_PID = 3
  NBOOT = 2
  BootPriority <- MCFlatPriority
  IrqTargets = {2}
  MAX_MESSAGE_COUNT = 2
  MAX_THREADS = 1
  MAX_CREATES = 1
INVARIANTS OneRunning NoLostWakeup
PROPERTY KeepsPromise
