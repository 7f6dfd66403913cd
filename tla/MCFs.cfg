SPECIFICATION FsSpec
CONSTANTS
  n1 = n1
  n2 = n2
  Proc = {p1, p2}
  MaxCrash = 1
  NBlocks = 5
  NCache = 2
  NDirect = 1
  NIndirect = 1
  BSize = 4
  Counts = {2, 6}
  DiskBlock = {b1, b2, b3}
  Val = {v0, v1}
  NBuf = 2
  RefMod = 8
  Caller = {d1, d2, d3}
  NUM = 6
  UMod = 12
INVARIANTS BlocksExact OpenFileLives CacheCoherent NoHoles LeaksOnlyOrphans
INVARIANTS TreeExact LookupsLand NoLockCycle
INVARIANTS Exclusive Coherent
INVARIANTS QueueSound
PROPERTIES FinishAfterDone
SYMMETRY Symmetry
VIEW View
CHECK_DEADLOCK FALSE
