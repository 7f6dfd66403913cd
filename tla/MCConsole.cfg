SPECIFICATION FairSpec
CONSTANTS
  Reader = {p1, p2}
  Letter = {x}
  InputBuf = 2
  UMod = 4
  MaxN = 2
  CopyFails = TRUE
PROPERTIES LineDiscipline InputDelivered
CHECK_DEADLOCK FALSE
