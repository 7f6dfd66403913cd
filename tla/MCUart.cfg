SPECIFICATION FairUart
CONSTANTS
  Writer = {p1, p2}
  Char = {x, y}
  TxSize = 4
  MaxWrite = 2
PROPERTIES TxFifo 
CHECK_DEADLOCK FALSE
