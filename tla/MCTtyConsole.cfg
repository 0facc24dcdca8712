CONSTANTS
  Capacity = 4
  PacketLimit = 2
  FlipLimit = 2
  TraceReads = {1, 3}
  MaxBytes = 8
  Printable = {a, b}
  Ignored = {cr}
  LineLength = 3
  InputLength = 2
  MaxTyped = 4
SPECIFICATION MCSpec
INVARIANTS TtyInv Pid1Inv
PROPERTIES FreshSession LossNeedsShortReads RingDrains
