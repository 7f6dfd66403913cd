SPECIFICATION Spec
CONSTANTS
  Proc = {p1, p2}
  Block = {b1, b2}
  Val = {v0, v1}
  MaxOpBlocks = 2
  OpBlocks = 2
  LogSize = 5
  NLog = 5
  RefMod = 8
  MaxOps = 3
  MaxCrashes = 1
  EvictLogged = TRUE
INVARIANTS LoggedPinned
SYMMETRY Symmetry
CHECK_DEADLOCK FALSE
