SPECIFICATION Spec
CONSTANTS
  NProc = 4
  MaxPid = 5
  KillPids = {}
  MemFails = FALSE
INVARIANTS NoDeadlock
CHECK_DEADLOCK FALSE
