SPECIFICATION Spec
CONSTANTS
  Proc = {p1, p2}
  Cpu = {c1, c2}
  Boot = c1
  TickMod = 3
  Naps = {2}
  MayKill = {p1}
INVARIANTS OneStack LocksMaskInterrupts TrapsLand SretReturnsHome NoLostWakeup
PROPERTIES SleepNotShort
CHECK_DEADLOCK FALSE
