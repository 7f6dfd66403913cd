SPECIFICATION FairSpec
CONSTANTS
  Writers = {w1}
  Readers = {r1, r2}
  Byte = {x, y}
  Size = 2
  UMod = 4
  Sizes = {1, 3}
  MayKill = {w1, r1}
  CopyFails = TRUE
INVARIANTS NoLostPipeWakeup NoUseAfterFree
PROPERTIES Fifo ClosedEndReleases
CHECK_DEADLOCK FALSE
