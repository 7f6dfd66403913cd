SPECIFICATION Spec
CONSTANTS
  p1 = p1
  Proc = {p1, p2}
  Init1 = p1
  NPages = 22
  PGSIZE = 2
  Fan = 3
  UMod = 64
  Grow <- Asked
  Programs <- Binaries
  MAXARG = 1
  CopyLens = {1, 3}
INVARIANTS PagesConserved  CopyExact
VIEW View
CHECK_DEADLOCK FALSE
