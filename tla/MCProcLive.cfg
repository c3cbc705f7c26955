SPECIFICATION FairSpec
CONSTANTS
  MAX_PID = 3
  NBOOT = 2
  BootPriority <- MCBootPriority
  IrqTargets = {2}
  MAX_MESSAGE_COUNT = 1
  MAX_THREADS = 1
  MAX_CREATES = 1
INVARIANTS SchedulerFindsOne
PROPERTY NoStarvation
