SPECIFICATION FairSpec
CONSTANTS
  NProc = 3
  MaxPid = 5
  KillPids = {2, 3, 4}
  MemFails = TRUE
INVARIANTS ParentAlive NoLostExit NoDeadlockUnlessStale
PROPERTIES FreedOffStack ExitCompletes
CHECK_DEADLOCK FALSE
