CONSTANTS
  Modulus = 16
  Rate = 6
  Period = 4
  MinDelta = 2
  Guard = 2
  MaskLimit = 5
  LoadLimit = 1
  WatchdogLimit = 20
SPECIFICATION Spec
INVARIANTS TimerInv WatchdogFed
PROPERTIES OneTickPerMatch TicksForever
CHECK_DEADLOCK FALSE
